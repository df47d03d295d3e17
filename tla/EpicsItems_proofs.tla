-------------------------- MODULE EpicsItems_proofs --------------------------
(***************************************************************************)
(* Proofs about the items made of updates: what the builders put into      *)
(* memory for strings and bytes, any number of them and of any length, and *)
(* what the getters find there.                                            *)
(***************************************************************************)
EXTENDS EpicsItems, SequenceTheorems, WellFoundedInduction, TLAPS

-----------------------------------------------------------------------------
(* Induction, over a set of natural numbers in place of a predicate        *)

\* A set of natural numbers has a least element.
LEMMA LeastElement ==
  ASSUME NEW T, T \subseteq Nat, T # {}
  PROVE  \E x \in T : \A y \in T : x <= y
<1> DEFINE R == OpToRel(<, Nat)
<1>1. IsWellFoundedOn(R, Nat)
  BY NatLessThanWellFounded
<1>2. PICK x \in T : \A y \in T : ~(<<y, x>> \in R)
  <2> HIDE DEF R
  <2> QED
    BY <1>1, WFMin
<1>3. \A y \in T : ~(y < x)
  BY <1>2 DEF OpToRel
<1> QED
  BY <1>3

\* A set with 0 in it and the successor of each element holds all of them.
LEMMA Induct ==
  ASSUME NEW S, 0 \in S, \A n \in Nat : n \in S => n + 1 \in S
  PROVE  Nat \subseteq S
<1> SUFFICES ASSUME Nat \ S # {} PROVE FALSE
  OBVIOUS
<1>1. PICK x \in Nat \ S : \A y \in Nat \ S : x <= y
  BY LeastElement
<1>2. x - 1 \in Nat /\ x - 1 \in S
  BY <1>1
<1> QED
  BY <1>1, <1>2

-----------------------------------------------------------------------------
(* Sequences that are joined                                               *)

\* s is part of u, behind the first base elements.
PlacedAt(u, base, s) ==
  base + Len(s) <= Len(u) /\ \A p \in 1..Len(s) : u[base + p] = s[p]

\* The parts of a sequence that is two joined.
LEMMA Joining ==
  ASSUME NEW S, NEW s \in Seq(S), NEW t \in Seq(S), NEW u, u = s \o t
  PROVE  /\ u \in Seq(S) /\ Len(u) = Len(s) + Len(t)
         /\ PlacedAt(u, 0, s) /\ PlacedAt(u, Len(s), t)
<1>1. Len(s) \in Nat /\ Len(t) \in Nat
  OBVIOUS
<1>2. /\ s \o t \in Seq(S) /\ Len(s \o t) = Len(s) + Len(t)
      /\ \A i \in 1..(Len(s) + Len(t)) :
           (s \o t)[i] = IF i <= Len(s) THEN s[i] ELSE t[i - Len(s)]
  BY ConcatProperties
<1>3. \A p \in 1..Len(s) : u[p] = s[p] /\ 0 + p = p
  BY <1>1, <1>2
<1>4. ASSUME NEW p \in 1..Len(t) PROVE u[Len(s) + p] = t[p]
  <2>1. /\ Len(s) + p \in 1..(Len(s) + Len(t)) /\ ~(Len(s) + p <= Len(s))
        /\ Len(s) + p - Len(s) = p
    BY <1>1
  <2> QED
    BY <1>2, <2>1
<1> QED
  BY <1>1, <1>2, <1>3, <1>4 DEF PlacedAt

\* f[i] joins the first i elements of s.
IsFlattening(f, s, n) ==
  \A i \in 1..n : f[i] = IF i = 1 THEN s[i] ELSE f[i-1] \o s[i]

\* There is such a function for every sequence of sequences.
LEMMA FlatteningExists ==
  ASSUME NEW S, NEW s \in Seq(Seq(S))
  PROVE  \A n \in Nat : n <= Len(s) =>
           \E f \in [1..n -> Seq(S)] : IsFlattening(f, s, n)
<1> DEFINE T == {n \in Nat : n <= Len(s) =>
                   \E f \in [1..n -> Seq(S)] : IsFlattening(f, s, n)}
<1>1. 0 \in T
  <2>1. [i \in 1..0 |-> <<>>] \in [1..0 -> Seq(S)]
    OBVIOUS
  <2>2. IsFlattening([i \in 1..0 |-> <<>>], s, 0)
    BY DEF IsFlattening
  <2> QED
    BY <2>1, <2>2
<1>2. ASSUME NEW n \in Nat, n \in T PROVE n + 1 \in T
  <2> SUFFICES ASSUME n + 1 <= Len(s)
               PROVE  \E f \in [1..(n + 1) -> Seq(S)] : IsFlattening(f, s, n + 1)
    OBVIOUS
  <2>1. PICK f \in [1..n -> Seq(S)] : IsFlattening(f, s, n)
    BY <1>2
  <2>2. s[n + 1] \in Seq(S)
    OBVIOUS
  <2> DEFINE last == IF n = 0 THEN s[1] ELSE f[n] \o s[n + 1]
             g    == [i \in 1..(n + 1) |-> IF i = n + 1 THEN last ELSE f[i]]
  <2>3. last \in Seq(S)
    <3>1. CASE n = 0
      BY <2>2, <3>1
    <3>2. CASE n # 0
      <4>1. f[n] \in Seq(S)
        BY <3>2
      <4> QED
        BY <2>2, <3>2, <4>1, ConcatProperties
    <3> QED
      BY <3>1, <3>2
  <2>4. g \in [1..(n + 1) -> Seq(S)]
    <3> HIDE DEF last
    <3> QED
      BY <2>3
  <2>5. ASSUME NEW i \in 1..(n + 1)
        PROVE  g[i] = IF i = 1 THEN s[i] ELSE g[i-1] \o s[i]
    <3>1. CASE i = n + 1
      <4>1. CASE n = 0
        BY <3>1, <4>1
      <4>2. CASE n # 0
        <5>1. g[i] = last /\ g[i - 1] = f[n] /\ i # 1
          <6> HIDE DEF last
          <6> QED
            BY <3>1, <4>2
        <5>2. last = f[n] \o s[n + 1]
          BY <4>2
        <5> HIDE DEF g, last
        <5> QED
          BY <3>1, <5>1, <5>2
      <4> QED
        BY <4>1, <4>2
    <3>2. CASE i # n + 1
      <4>1. g[i] = f[i] /\ (i # 1 => g[i - 1] = f[i - 1])
        <5> HIDE DEF last
        <5> QED
          BY <3>2
      <4>2. i \in 1..n
        BY <3>2
      <4>3. f[i] = IF i = 1 THEN s[i] ELSE f[i-1] \o s[i]
        BY <2>1, <4>2, Zenon DEF IsFlattening
      <4> HIDE DEF g
      <4> QED
        BY <4>1, <4>3, Zenon
    <3> QED
      BY <3>1, <3>2
  <2>6. IsFlattening(g, s, n + 1)
    <3> HIDE DEF g
    <3> QED
      BY <2>5 DEF IsFlattening
  <2> QED
    BY <2>4, <2>6
<1> HIDE DEF T
<1>3. Nat \subseteq T
  BY <1>1, <1>2, Induct
<1> QED
  BY <1>3 DEF T

\* Joining the elements one by one ends in FlattenSeq.
LEMMA Flattened ==
  ASSUME NEW S, NEW s \in Seq(Seq(S)), Len(s) > 0
  PROVE  \E f \in [1..Len(s) -> Seq(S)] :
           IsFlattening(f, s, Len(s)) /\ FlattenSeq(s) = f[Len(s)]
<1> DEFINE next(g) == [i \in 1..Len(s) |-> IF i = 1 THEN s[i] ELSE g[i-1] \o s[i]]
           flatten == CHOOSE g : g = next(g)
           T       == {n \in Nat : n \in 1..Len(s) => flatten[n] \in Seq(S)}
<1>0. Len(s) \in Nat /\ \A i \in 1..Len(s) : s[i] \in Seq(S)
  OBVIOUS
<1>1. FlattenSeq(s) = flatten[Len(s)]
  BY DEF FlattenSeq
<1>2. PICK f \in [1..Len(s) -> Seq(S)] : IsFlattening(f, s, Len(s))
  BY FlatteningExists
<1>3. f = next(f)
  BY <1>2 DEF IsFlattening
<1>4. flatten = next(flatten)
  <2> HIDE DEF next
  <2> QED
    BY <1>3
<1>5. /\ flatten = [i \in 1..Len(s) |-> flatten[i]]
      /\ IsFlattening(flatten, s, Len(s))
  <2>1. /\ next(flatten) = [i \in 1..Len(s) |-> next(flatten)[i]]
        /\ \A i \in 1..Len(s) : next(flatten)[i]
             = IF i = 1 THEN s[i] ELSE flatten[i-1] \o s[i]
    <3> HIDE DEF flatten
    <3> QED
      OBVIOUS
  <2> HIDE DEF next, flatten
  <2> QED
    BY <1>4, <2>1 DEF IsFlattening
<1> HIDE DEF flatten
<1>6. 0 \in T
  OBVIOUS
<1>7. ASSUME NEW n \in Nat, n \in T PROVE n + 1 \in T
  <2> SUFFICES ASSUME n + 1 \in 1..Len(s) PROVE flatten[n + 1] \in Seq(S)
    OBVIOUS
  <2>1. s[n + 1] \in Seq(S)
    BY <1>0
  <2>2. CASE n = 0
    <3>1. flatten[1] = s[1]
      <4>1. 1 \in 1..Len(s)
        BY <1>0
      <4> QED
        BY <1>5, <4>1, Zenon DEF IsFlattening
    <3> QED
      BY <2>1, <2>2, <3>1
  <2>3. CASE n # 0
    <3>1. n \in 1..Len(s)
      BY <1>0, <2>3
    <3>2. flatten[n] \in Seq(S) /\ flatten[n + 1] = flatten[n] \o s[n + 1]
      <4>1. PICK k \in 1..Len(s) : k = n + 1 /\ k # 1 /\ n = k - 1
        BY <2>3
      <4>2. flatten[k] = flatten[n] \o s[k]
        <5>1. flatten[k] = flatten[k - 1] \o s[k]
          BY <1>5, <4>1, Zenon DEF IsFlattening
        <5> QED
          BY <4>1, <5>1, Zenon
      <4> QED
        BY <1>7, <3>1, <4>1, <4>2
    <3> QED
      BY <2>1, <3>2, ConcatProperties
  <2> QED
    BY <2>2, <2>3
<1>8. \A n \in 1..Len(s) : flatten[n] \in Seq(S)
  <2> HIDE DEF T
  <2>1. Nat \subseteq T
    BY <1>6, <1>7, Induct
  <2> QED
    BY <2>1 DEF T
<1>9. flatten \in [1..Len(s) -> Seq(S)]
  BY <1>5, <1>8
<1> QED
  BY <1>1, <1>5, <1>9

\* What has been joined stays where it is.
LEMMA FlatteningGrows ==
  ASSUME NEW S, NEW s \in Seq(Seq(S)), NEW n, n = Len(s), NEW f \in [1..n -> Seq(S)],
         IsFlattening(f, s, n), NEW i \in 1..n
  PROVE  PlacedAt(f[n], 0, f[i])
<1> DEFINE T == {k \in Nat : k \in i..n => PlacedAt(f[k], 0, f[i])}
<1>0. n \in Nat /\ \A k \in 1..n : s[k] \in Seq(S) /\ f[k] \in Seq(S)
  <2>1. n \in Nat /\ \A k \in 1..n : s[k] \in Seq(S)
    OBVIOUS
  <2> QED
    BY <2>1
<1>1. 0 \in T
  OBVIOUS
<1>2. ASSUME NEW j \in Nat, j \in T PROVE j + 1 \in T
  <2> SUFFICES ASSUME j + 1 \in i..n PROVE PlacedAt(f[j + 1], 0, f[i])
    OBVIOUS
  <2>1. PICK k \in 1..n : k = j + 1
    BY <1>0
  <2>2. CASE k = i
    <3>1. Len(f[i]) \in Nat
      BY <1>0
    <3>2. PlacedAt(f[k], 0, f[i])
      BY <2>2, <3>1 DEF PlacedAt
    <3> QED
      BY <2>1, <3>2
  <2>3. CASE k # i
    <3>1. j \in i..n /\ j \in 1..n /\ k # 1 /\ j = k - 1
      BY <1>0, <2>1, <2>3
    <3>2. PlacedAt(f[j], 0, f[i])
      BY <1>2, <3>1
    <3>3. f[k] = f[j] \o s[k]
      <4>1. f[k] = f[k - 1] \o s[k]
        BY <3>1, Zenon DEF IsFlattening
      <4> QED
        BY <3>1, <4>1, Zenon
    <3>4. PlacedAt(f[k], 0, f[j])
      BY <1>0, <3>1, <3>3, Joining, Zenon
    <3>5. Len(f[i]) \in Nat /\ Len(f[j]) \in Nat /\ Len(f[k]) \in Nat
      BY <1>0, <3>1
    <3>6. PlacedAt(f[k], 0, f[i])
      BY <3>2, <3>4, <3>5 DEF PlacedAt
    <3> QED
      BY <2>1, <3>6
  <2> QED
    BY <2>2, <2>3
<1> HIDE DEF T
<1>3. Nat \subseteq T
  BY <1>1, <1>2, Induct
<1>4. n \in Nat /\ n \in i..n
  BY <1>0
<1> QED
  BY <1>3, <1>4 DEF T

\* The k-th element starts where what comes before it ends, and stays there.
LEMMA FlatteningBlock ==
  ASSUME NEW S, NEW s \in Seq(Seq(S)), NEW n, n = Len(s), NEW f \in [1..n -> Seq(S)],
         IsFlattening(f, s, n), NEW k \in 1..n, NEW base,
         k = 1 => base = 0, k # 1 => base = Len(f[k - 1])
  PROVE  /\ base \in Nat /\ f[n] \in Seq(S)
         /\ Len(f[k]) = base + Len(s[k]) /\ PlacedAt(f[n], base, s[k])
<1>1. n \in Nat /\ \A i \in 1..n : s[i] \in Seq(S)
  OBVIOUS
<1>2. \A i \in 1..n : f[i] \in Seq(S) /\ Len(f[i]) \in Nat
  <2>1. \A i \in 1..n : f[i] \in Seq(S)
    OBVIOUS
  <2> QED
    BY <2>1
<1>3. n \in 1..n
  BY <1>1
<1>4. PlacedAt(f[n], 0, f[k])
  BY FlatteningGrows, Zenon
<1>5. s[k] \in Seq(S) /\ Len(s[k]) \in Nat
  BY <1>1
<1>6. CASE k = 1
  <2>1. f[k] = s[k]
    <3>1. f[1] = s[1]
      <4>1. 1 \in 1..n
        BY <1>1
      <4> QED
        BY <4>1, Zenon DEF IsFlattening
    <3> QED
      BY <1>6, <3>1
  <2> QED
    BY <1>2, <1>3, <1>4, <1>5, <1>6, <2>1
<1>7. CASE k # 1
  <2>1. PICK j \in 1..n : j = k - 1
    BY <1>1, <1>7
  <2>2. f[k] = f[j] \o s[k] /\ base = Len(f[j])
    <3>1. f[k] = f[j] \o s[k]
      <4>1. f[k] = f[k - 1] \o s[k]
        BY <1>7, Zenon DEF IsFlattening
      <4> QED
        BY <2>1, <4>1, Zenon
    <3> QED
      BY <1>7, <2>1, <3>1, Zenon
  <2>3. f[j] \in Seq(S) /\ base \in Nat
    BY <1>2, <2>2
  <2>4. Len(f[k]) = base + Len(s[k]) /\ PlacedAt(f[k], base, s[k])
    <3>1. Len(f[k]) = Len(f[j]) + Len(s[k])
      BY <1>5, <2>2, <2>3
    <3>2. PlacedAt(f[k], Len(f[j]), s[k])
      BY <1>5, <2>2, <2>3, Joining, Zenon
    <3> QED
      BY <2>2, <3>1, <3>2, Zenon
  <2>5. PlacedAt(f[n], base, s[k])
    <3>1. ASSUME NEW p \in 1..Len(s[k]) PROVE f[n][base + p] = s[k][p]
      <4>1. base + p \in 1..Len(f[k]) /\ 0 + (base + p) = base + p
        <5>1. \A b, l \in Nat : \A i \in 1..l : b + i \in 1..(b + l) /\ 0 + (b + i) = b + i
          OBVIOUS
        <5> QED
          BY <1>5, <2>3, <2>4, <5>1, Zenon
      <4>2. f[n][0 + (base + p)] = f[k][base + p]
        BY <1>4, <4>1, Zenon DEF PlacedAt
      <4> QED
        BY <2>4, <4>1, <4>2 DEF PlacedAt
    <3>2. base + Len(s[k]) <= Len(f[n])
      <4>1. 0 + Len(f[k]) <= Len(f[n])
        BY <1>4, Zenon DEF PlacedAt
      <4>2. \A l \in Nat : 0 + l = l
        OBVIOUS
      <4> QED
        BY <1>2, <2>4, <4>1, <4>2, Zenon
    <3> QED
      BY <3>1, <3>2 DEF PlacedAt
  <2> QED
    BY <1>2, <1>3, <2>3, <2>4, <2>5
<1> QED
  BY <1>6, <1>7

-----------------------------------------------------------------------------
(* C strings                                                               *)

\* A string ends at the first NUL from where it starts.
LEMMA FirstNul ==
  ASSUME NEW S, NEW data \in Seq(S), NEW from \in Nat, NEW end \in from..Len(data),
         data[end] = NUL, \A p \in from..(end - 1) : data[p] # NUL
  PROVE  EndOfString(data, from) = end
<1> DEFINE nuls == {p \in from..Len(data) : data[p] = NUL}
<1>1. end \in nuls /\ \A p \in nuls : end <= p
  OBVIOUS
<1>2. \A x \in nuls : (\A y \in nuls : x <= y) => x = end
  BY <1>1
<1>3. Min(nuls) = end
  <2> HIDE DEF nuls
  <2> QED
    BY <1>1, <1>2 DEF Min
<1>4. EndOfString(data, from) = Min(nuls)
  BY <1>1 DEF EndOfString
<1> QED
  BY <1>3, <1>4

\* The C string of a string has no NUL, and is the string if that has none either.
LEMMA CStrings ==
  ASSUME NEW S, NEW s \in Seq(S)
  PROVE  /\ CString(s) \in Seq(S \ {NUL})
         /\ (\A p \in 1..Len(s) : s[p] # NUL) => CString(s) = s
<1> DEFINE nuls == {p \in 1..Len(s) : s[p] = NUL}
<1>0. Len(s) \in Nat /\ \A p \in 1..Len(s) : s[p] \in S
  OBVIOUS
<1>1. CASE nuls = {}
  <2>1. EndOfString(s, 1) = 0
    BY <1>1 DEF EndOfString
  <2>2. CString(s) = s
    BY <2>1 DEF CString
  <2>3. \A p \in 1..Len(s) : s[p] \in S \ {NUL}
    BY <1>0, <1>1
  <2>4. s \in Seq(S \ {NUL})
    <3>1. s = [p \in 1..Len(s) |-> s[p]]
      OBVIOUS
    <3> QED
      BY <1>0, <2>3, <3>1
  <2> QED
    BY <2>2, <2>4
<1>2. CASE nuls # {}
  <2>1. PICK end \in nuls : \A p \in nuls : end <= p
    <3>1. nuls \subseteq Nat
      OBVIOUS
    <3> HIDE DEF nuls
    <3> QED
      BY <1>2, <3>1, LeastElement
  <2>2. /\ end \in 1..Len(s) /\ s[end] = NUL /\ end - 1 \in Int
        /\ \A p \in 1..(end - 1) : s[p] # NUL /\ s[p] \in S \ {NUL}
    BY <1>0, <2>1
  <2>3. EndOfString(s, 1) = end
    BY <2>2, FirstNul
  <2>4. CString(s) = SubSeq(s, 1, end - 1)
    BY <2>2, <2>3 DEF CString
  <2>5. SubSeq(s, 1, end - 1) \in Seq(S \ {NUL})
    BY <2>2, SubSeqProperties
  <2> QED
    BY <2>2, <2>4, <2>5
<1> QED
  BY <1>1, <1>2

-----------------------------------------------------------------------------
(* The memory of an item of strings                                        *)

\* The memory of some strings, each with its NUL.
Memory(strs, n) == FlattenSeq([i \in 1..n |-> Append(strs[i], NUL)])

\* start[i] is the cell where the string behind the first i strings starts.
IsStart(start, strs, n) ==
  LET data == Memory(strs, n)
  IN /\ start[0] = 1
     /\ \A i \in 0..(n - 1) :
          LET end == EndOfString(data, start[i])
          IN /\ end # 0
             /\ start[i + 1] = end + 1
             /\ SubSeq(data, start[i], end - 1) = strs[i + 1]

\* A string in some memory is found from where it starts.
LEMMA StringInMemory ==
  ASSUME NEW S, NUL \notin S, NEW data \in Seq(S \cup {NUL}), NEW str \in Seq(S),
         NEW base \in Nat, NEW end, end = base + Len(str) + 1, end <= Len(data),
         data[end] = NUL, \A p \in 1..Len(str) : data[base + p] = str[p]
  PROVE  /\ EndOfString(data, base + 1) = end
         /\ SubSeq(data, base + 1, end - 1) = str
<1>0. /\ Len(str) \in Nat /\ Len(data) \in Nat
      /\ \A p \in 1..Len(str) : str[p] \in S
  OBVIOUS
<1>1. ASSUME NEW q \in (base + 1)..(end - 1) PROVE data[q] \in S
  <2>1. q - base \in 1..Len(str) /\ base + (q - base) = q
    BY <1>0
  <2> QED
    BY <1>0, <2>1
<1>2. EndOfString(data, base + 1) = end
  <2>1. base + 1 \in Nat /\ end \in (base + 1)..Len(data)
    BY <1>0
  <2>2. \A q \in (base + 1)..(end - 1) : data[q] # NUL
    BY <1>1
  <2> QED
    BY <2>1, <2>2, FirstNul
<1>3. SubSeq(data, base + 1, end - 1) = str
  <2> DEFINE sub == SubSeq(data, base + 1, end - 1)
  <2>1. base + 1 \in Int /\ end - 1 \in Int /\ end - 1 - (base + 1) + 1 = Len(str)
    BY <1>0
  <2>2. /\ sub \in Seq(S)
        /\ Len(sub) = IF base + 1 <= end - 1 THEN end - 1 - (base + 1) + 1 ELSE 0
        /\ \A p \in 1..(end - 1 - (base + 1) + 1) : sub[p] = data[base + 1 + p - 1]
    <3>1. \A q \in (base + 1)..(end - 1) : data[q] \in S
      BY <1>1
    <3> QED
      BY <2>1, <3>1, SubSeqProperties
  <2> HIDE DEF sub
  <2>3. Len(sub) = Len(str)
    BY <1>0, <2>1, <2>2
  <2>4. ASSUME NEW p \in 1..Len(str) PROVE sub[p] = str[p]
    <3>1. base + 1 + p - 1 = base + p
      BY <1>0
    <3>2. sub[p] = data[base + 1 + p - 1]
      BY <2>1, <2>2
    <3> QED
      BY <3>1, <3>2
  <2>5. sub = str
    <3>1. \A p \in 1..Len(sub) : sub[p] = str[p]
      BY <2>3, <2>4
    <3> QED
      BY <2>2, <2>3, <3>1, SeqEqual
  <2> QED
    BY <2>5 DEF sub
<1> QED
  BY <1>2, <1>3

\* Skipping a string of the memory leads to the next one.
LEMMA StringsStart ==
  ASSUME NEW S, NUL \notin S, NEW n \in Nat \ {0}, NEW strs \in [1..n -> Seq(S)]
  PROVE  \E start \in [0..n -> Nat] : IsStart(start, strs, n)
<1> DEFINE C     == S \cup {NUL}
           cells == [i \in 1..n |-> Append(strs[i], NUL)]
           data  == FlattenSeq(cells)
<1>1. ASSUME NEW i \in 1..n
      PROVE  /\ strs[i] \in Seq(S) /\ Len(strs[i]) \in Nat
             /\ \A p \in 1..Len(strs[i]) : strs[i][p] \in S
             /\ cells[i] \in Seq(C) /\ Len(cells[i]) = Len(strs[i]) + 1
             /\ \A p \in 1..Len(strs[i]) : cells[i][p] = strs[i][p]
             /\ cells[i][Len(strs[i]) + 1] = NUL
  <2>1. strs[i] \in Seq(S)
    OBVIOUS
  <2>2. Len(strs[i]) \in Nat /\ \A p \in 1..Len(strs[i]) : strs[i][p] \in S
    BY <2>1
  <2>3. strs[i] \in Seq(C)
    <3>1. strs[i] = [p \in 1..Len(strs[i]) |-> strs[i][p]]
      BY <2>1
    <3> QED
      BY <2>2, <3>1
  <2>4. cells[i] = Append(strs[i], NUL) /\ NUL \in C
    OBVIOUS
  <2> HIDE DEF cells, C
  <2> QED
    BY <2>1, <2>2, <2>3, <2>4, AppendProperties
<1>2. cells \in Seq(Seq(C)) /\ Len(cells) = n
  <2>1. cells = [i \in 1..n |-> cells[i]]
    OBVIOUS
  <2>2. \A i \in 1..n : cells[i] \in Seq(C)
    BY <1>1
  <2> HIDE DEF cells, C
  <2> QED
    BY <2>1, <2>2
<1>3. Memory(strs, n) = data
  BY DEF Memory
<1> HIDE DEF cells, C
<1>4. PICK f \in [1..n -> Seq(C)] : IsFlattening(f, cells, n) /\ data = f[n]
  <2>1. Len(cells) > 0
    BY <1>2
  <2>2. \E f \in [1..Len(cells) -> Seq(C)] :
          IsFlattening(f, cells, Len(cells)) /\ data = f[Len(cells)]
    BY <1>2, <2>1, Flattened, Zenon
  <2> QED
    BY <1>2, <2>2, Zenon
<1> HIDE DEF data
<1> DEFINE base(k) == IF k = 1 THEN 0 ELSE Len(f[k - 1])
           start   == [i \in 0..n |-> IF i = 0 THEN 1 ELSE Len(f[i]) + 1]
<1>5. ASSUME NEW k \in 1..n
      PROVE  /\ base(k) \in Nat /\ data \in Seq(C)
             /\ Len(f[k]) = base(k) + Len(cells[k]) /\ PlacedAt(data, base(k), cells[k])
  <2>1. PICK b : b = IF k = 1 THEN 0 ELSE Len(f[k - 1])
    OBVIOUS
  <2>2. /\ b \in Nat /\ f[n] \in Seq(C)
        /\ Len(f[k]) = b + Len(cells[k]) /\ PlacedAt(f[n], b, cells[k])
    <3>1. n = Len(cells) /\ (k = 1 => b = 0) /\ (k # 1 => b = Len(f[k - 1]))
      BY <1>2, <2>1
    <3> QED
      BY <1>2, <1>4, <3>1, FlatteningBlock, Zenon
  <2> QED
    BY <1>4, <2>1, <2>2, Zenon
<1>6. start \in [0..n -> Nat] /\ start[0] = 1
  <2>1. \A i \in 1..n : Len(f[i]) \in Nat
    BY <1>1, <1>5
  <2> QED
    BY <2>1
<1>7. ASSUME NEW i \in 0..(n - 1)
      PROVE  /\ EndOfString(data, start[i]) # 0
             /\ start[i + 1] = EndOfString(data, start[i]) + 1
             /\ SubSeq(data, start[i], EndOfString(data, start[i]) - 1) = strs[i + 1]
  <2>1. PICK k \in 1..n : k = i + 1
    OBVIOUS
  <2>2. PICK b \in Nat : b = base(k)
    BY <1>5
  <2>3. PICK str \in Seq(S) : str = strs[k]
    BY <1>1
  <2>4. PICK end : end = Len(f[k])
    OBVIOUS
  <2>5. start[i] = b + 1 /\ start[k] = end + 1
    <3>1. start[k] = Len(f[k]) + 1
      OBVIOUS
    <3>2. CASE i = 0
      BY <2>1, <2>2, <2>4, <3>1, <3>2
    <3>3. CASE i # 0
      <4>1. start[i] = Len(f[i]) + 1 /\ k - 1 = i /\ k # 1
        BY <2>1, <3>3
      <4>2. b = Len(f[i])
        BY <2>2, <4>1
      <4> HIDE DEF start
      <4> QED
        BY <2>4, <3>1, <4>1, <4>2
    <3> QED
      BY <3>2, <3>3
  <2>6. /\ Len(str) \in Nat /\ Len(cells[k]) = Len(str) + 1
        /\ \A p \in 1..Len(str) : cells[k][p] = str[p]
        /\ cells[k][Len(str) + 1] = NUL
    BY <1>1, <2>3
  <2>7. /\ data \in Seq(C) /\ end = b + Len(cells[k]) /\ end <= Len(data)
        /\ \A p \in 1..Len(cells[k]) : data[b + p] = cells[k][p]
    <3> HIDE DEF base, start
    <3>1. /\ data \in Seq(C) /\ end = b + Len(cells[k])
          /\ PlacedAt(data, b, cells[k])
      BY <1>5, <2>2, <2>4, Zenon
    <3> QED
      BY <3>1, Zenon DEF PlacedAt
  <2> HIDE DEF start, base
  <2>8. end = b + Len(str) + 1 /\ end \in Nat /\ end # 0
    BY <2>6, <2>7
  <2>9. data[end] = NUL
    <3>1. Len(str) + 1 \in 1..Len(cells[k]) /\ b + (Len(str) + 1) = end
      BY <2>6, <2>8
    <3>2. data[b + (Len(str) + 1)] = cells[k][Len(str) + 1]
      BY <2>7, <3>1
    <3> QED
      BY <2>6, <3>1, <3>2
  <2>10. \A p \in 1..Len(str) : data[b + p] = str[p]
    BY <2>6, <2>7
  <2>11. /\ EndOfString(data, b + 1) = end
         /\ SubSeq(data, b + 1, end - 1) = str
    <3>1. data \in Seq(S \cup {NUL})
      BY <2>7 DEF C
    <3> QED
      BY <2>7, <2>8, <2>9, <2>10, <3>1, StringInMemory
  <2>12. strs[i + 1] = str /\ start[i + 1] = end + 1
    BY <2>1, <2>3, <2>5
  <2> QED
    BY <2>5, <2>8, <2>11, <2>12
<1> HIDE DEF start, base
<1> QED
  BY <1>3, <1>6, <1>7 DEF IsStart

\* The getter finds each string at its index.
Found(it, strs, n) ==
  \A index \in 0..(n - 1) : getDataAsString(it, index) = strs[index + 1]

\* getDataAsString finds each string where it starts.
LEMMA StringsFound ==
  ASSUME NEW S, NUL \notin S, NEW n \in Nat \ {0}, NEW strs \in [1..n -> Seq(S)],
         NEW it, it.type = "STRING", it.count = n, it.data = Memory(strs, n)
  PROVE  Found(it, strs, n)
<1> SUFFICES ASSUME NEW index \in 0..(n - 1)
             PROVE  getDataAsString(it, index) = strs[index + 1]
  BY DEF Found
<1>1. PICK start \in [0..n -> Nat] : IsStart(start, strs, n)
  BY StringsStart
<1> DEFINE data    == Memory(strs, n)
           next(g) == [i \in 0..index |->
                         IF i = 0 THEN 1 ELSE EndOfString(it.data, g[i - 1]) + 1]
           curpos  == CHOOSE g : g = next(g)
           skipped == [i \in 0..index |-> start[i]]
           end     == EndOfString(it.data, curpos[index])
<1>2. /\ start[0] = 1
      /\ \A i \in 0..(n - 1) :
           /\ EndOfString(data, start[i]) # 0
           /\ start[i + 1] = EndOfString(data, start[i]) + 1
           /\ SubSeq(data, start[i], EndOfString(data, start[i]) - 1) = strs[i + 1]
  BY <1>1 DEF IsStart
<1> HIDE DEF data
<1>3. it.data = data
  BY DEF data
<1>4. ASSUME NEW i \in 0..index
      PROVE  start[i] = IF i = 0 THEN 1 ELSE EndOfString(it.data, skipped[i - 1]) + 1
  <2>1. CASE i = 0
    BY <1>2, <2>1
  <2>2. CASE i # 0
    <3>1. i - 1 \in 0..(n - 1) /\ i - 1 \in 0..index /\ (i - 1) + 1 = i
      BY <2>2
    <3>2. skipped[i - 1] = start[i - 1]
      BY <3>1
    <3>3. start[(i - 1) + 1] = EndOfString(data, start[i - 1]) + 1
      BY <1>2, <3>1
    <3> QED
      BY <1>3, <2>2, <3>1, <3>2, <3>3
  <2> QED
    BY <2>1, <2>2
<1>5. skipped = next(skipped)
  BY <1>4
<1>6. curpos = next(curpos)
  <2> HIDE DEF next, skipped
  <2> QED
    BY <1>5
<1>7. \A i \in 0..index :
        curpos[i] = IF i = 0 THEN 1 ELSE EndOfString(it.data, curpos[i - 1]) + 1
  <2>1. \A i \in 0..index : next(curpos)[i]
          = IF i = 0 THEN 1 ELSE EndOfString(it.data, curpos[i - 1]) + 1
    <3> HIDE DEF curpos
    <3> QED
      OBVIOUS
  <2> HIDE DEF next, curpos
  <2> QED
    BY <1>6, <2>1
<1>8. getDataAsString(it, index)
        = IF end = 0 THEN <<Garbage>> ELSE SubSeq(it.data, curpos[index], end - 1)
  <2>1. validateIndex(it, index)
    BY DEF validateIndex
  <2> QED
    BY <2>1 DEF getDataAsString
<1> HIDE DEF curpos
<1> DEFINE T == {k \in Nat : k \in 0..index => curpos[k] = start[k]}
<1>9. 0 \in T
  BY <1>2, <1>7
<1>10. ASSUME NEW k \in Nat, k \in T PROVE k + 1 \in T
  <2> SUFFICES ASSUME k + 1 \in 0..index PROVE curpos[k + 1] = start[k + 1]
    OBVIOUS
  <2>1. k \in 0..index /\ k \in 0..(n - 1) /\ k + 1 # 0 /\ (k + 1) - 1 = k
    OBVIOUS
  <2>2. curpos[k] = start[k]
    BY <1>10, <2>1
  <2>3. curpos[k + 1] = EndOfString(it.data, curpos[(k + 1) - 1]) + 1
    BY <1>7, <2>1
  <2>4. start[k + 1] = EndOfString(data, start[k]) + 1
    BY <1>2, <2>1
  <2> QED
    BY <1>3, <2>1, <2>2, <2>3, <2>4
<1>11. curpos[index] = start[index]
  <2> HIDE DEF T
  <2>1. Nat \subseteq T
    BY <1>9, <1>10, Induct
  <2>2. index \in Nat /\ index \in 0..index
    OBVIOUS
  <2> QED
    BY <2>1, <2>2 DEF T
<1> QED
  BY <1>2, <1>3, <1>8, <1>11

\* Reading an item of strings gives back the strings as far as their first NUL,
\* however many and however long they are, and nothing else.
THEOREM StringsReadBack ==
  ASSUME NEW S, NEW m, m.code = DataType.STRING, m.count \in Int,
         m.elements \in Seq(Seq(S)), ~Truncated(m),
         NEW it \in buildEpicsStatusItem(m), NEW index \in Int
  PROVE  /\ it.outcome = "item" /\ it.type = "STRING" /\ it.count = m.count
         /\ getDataAsString(it, index)
              = IF index \in 0..(m.count - 1) THEN CString(m.elements[index + 1])
                ELSE InvalidOperation
<1> DEFINE strs == [i \in 1..m.count |-> CString(m.elements[i])]
           mem  == FlattenSeq([i \in 1..m.count |-> Append(CString(m.elements[i]), NUL)])
<1>1. it = Item("STRING", m.count, mem)
  <2>1. it \in JmsStringEpicsBuilder(m)
    BY DEF buildEpicsStatusItem, DataType
  <2> QED
    BY <2>1 DEF JmsStringEpicsBuilder
<1> HIDE DEF mem
<1>2. it.outcome = "item" /\ it.type = "STRING" /\ it.count = m.count /\ it.data = mem
  BY <1>1 DEF Item
<1>3. CASE index \notin 0..(m.count - 1)
  BY <1>2, <1>3 DEF getDataAsString, validateIndex
<1>4. CASE index \in 0..(m.count - 1)
  <2>1. m.count \in Nat \ {0} /\ index + 1 \in 1..m.count
    BY <1>4
  <2>2. ASSUME NEW i \in 1..m.count PROVE CString(m.elements[i]) \in Seq(S \ {NUL})
    <3>1. Len(m.elements) \in Nat /\ i \in 1..Len(m.elements)
      BY <2>1 DEF Truncated
    <3>2. m.elements[i] \in Seq(S)
      BY <3>1
    <3> QED
      BY <3>2, CStrings
  <2>3. strs \in [1..m.count -> Seq(S \ {NUL})]
    BY <2>2
  <2>4. mem = Memory(strs, m.count)
    <3>1. [i \in 1..m.count |-> Append(CString(m.elements[i]), NUL)]
            = [i \in 1..m.count |-> Append(strs[i], NUL)]
      OBVIOUS
    <3> HIDE DEF strs
    <3> QED
      BY <3>1 DEF mem, Memory
  <2>5. strs[index + 1] = CString(m.elements[index + 1])
    BY <2>1
  <2> HIDE DEF strs
  <2>6. getDataAsString(it, index) = strs[index + 1]
    <3>1. NUL \notin S \ {NUL} /\ it.data = Memory(strs, m.count)
      BY <1>2, <2>4
    <3>2. Found(it, strs, m.count)
      BY <1>2, <2>1, <2>3, <3>1, StringsFound, Zenon
    <3> QED
      BY <1>4, <3>2 DEF Found
  <2> QED
    BY <1>2, <1>4, <2>5, <2>6
<1> QED
  BY <1>3, <1>4

-----------------------------------------------------------------------------
(* Bytes                                                                   *)

\* Reading an item of bytes gives back the bytes, however many, and garbage for those
\* that were missing.
THEOREM BytesReadBack ==
  ASSUME NEW m, m.code = DataType.BYTE, m.count \in Nat, Len(m.elements) \in Nat,
         NEW it \in buildEpicsStatusItem(m), NEW index \in Int
  PROVE  /\ it.outcome = "item" /\ it.type = "BYTE" /\ it.count = m.count
         /\ getDataAsByte(it, index)
              = IF index \notin 0..(m.count - 1) THEN InvalidOperation
                ELSE IF index < Len(m.elements) THEN <<m.elements[index + 1][1]>>
                ELSE <<Garbage>>
<1> DEFINE data == [i \in 1..m.count |-> IF i <= Len(m.elements) THEN m.elements[i][1]
                                         ELSE Garbage]
<1>1. it = Item("BYTE", m.count, data)
  <2>1. it \in JmsByteEpicsBuilder(m)
    BY DEF buildEpicsStatusItem, DataType
  <2> QED
    BY <2>1 DEF JmsByteEpicsBuilder, CannotAllocate
<1>2. it.outcome = "item" /\ it.type = "BYTE" /\ it.count = m.count /\ it.data = data
  BY <1>1 DEF Item
<1>3. ASSUME index \in 0..(m.count - 1)
      PROVE  data[index + 1] = IF index < Len(m.elements) THEN m.elements[index + 1][1]
                               ELSE Garbage
  <2>1. index + 1 \in 1..m.count /\ (index + 1 <= Len(m.elements) <=> index < Len(m.elements))
    BY <1>3
  <2> QED
    BY <2>1
<1>4. getDataAsByte(it, index)
        = IF index \notin 0..(m.count - 1) THEN InvalidOperation ELSE <<data[index + 1]>>
  <2> HIDE DEF data
  <2> QED
    BY <1>2 DEF getDataAsByte, Number, validateIndex
<1> HIDE DEF data
<1> QED
  BY <1>2, <1>3, <1>4
=============================================================================

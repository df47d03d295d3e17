----------------------------- MODULE EpicsItems -----------------------------
(***************************************************************************)
(* The value of an EPICS channel on its way from a message to a handler:   *)
(* JmsEpicsFactory picks a builder by the type in the message, the builder *)
(* copies the elements into memory, and the getters of EpicsStatusItemImpl *)
(* find an element there again.                                            *)
(*                                                                         *)
(* An element is a sequence of cells: the characters of a string, or one   *)
(* cell for a number.  Memory is a sequence of cells.  A message may hold  *)
(* fewer elements than it announces in count.                              *)
(***************************************************************************)
EXTENDS Integers, Sequences, SequencesExt

\* The codes of the types in a message.
DataType == [STRING |-> 0, SHORT |-> 1, FLOAT |-> 2, BYTE |-> 4, INT |-> 5,
             DOUBLE |-> 6]

\* The code of a message that ends within its type, its name or its count.
CutShort == 257

NUL     == "NUL"   \* the character that ends a string
Garbage == "?"     \* a cell nobody has written

Message(code, count, elements) ==
  [code |-> code, count |-> count, elements |-> elements]

\* What building an item ends in: an item, a null pointer, or an exception, which
\* onMessage does not catch, or the corruption of the heap.
Item(type, count, data) ==
  [outcome |-> "item", type |-> type, count |-> count, data |-> data]

NullItem   == [outcome |-> "null", type |-> "none", count |-> 0, data |-> <<>>]
Terminated == [NullItem EXCEPT !.outcome = "terminated"]

-----------------------------------------------------------------------------
(* The builders                                                            *)

Truncated(m) == Len(m.elements) < m.count

\* new[] of a negative number of elements throws.
CannotAllocate(m) == m.count < 0

\* The memory a builder of numbers allocates has count bytes, whatever their size.
\* What writing elements behind it does is undefined: nothing, when the heap has
\* room there, or other values, or the end of the program.
Numbers(m, type, size) ==
  IF Truncated(m) \/ CannotAllocate(m) THEN {Terminated}
  ELSE {Item(type, m.count, FlattenSeq(m.elements))}
         \cup IF size * m.count <= m.count THEN {}
              ELSE {Terminated,
                    Item(type, m.count, [i \in 1..m.count |-> Garbage])}

JmsShortEpicsBuilder(m)  == Numbers(m, "SHORT", 2)
JmsFloatEpicsBuilder(m)  == Numbers(m, "FLOAT", 4)
JmsIntEpicsBuilder(m)    == Numbers(m, "INT", 4)
JmsDoubleEpicsBuilder(m) == Numbers(m, "DOUBLE", 8)

\* readBytes reads what there is, and nobody looks at how much that was.
JmsByteEpicsBuilder(m) ==
  IF CannotAllocate(m) THEN {Terminated}
  ELSE {Item("BYTE", m.count,
             [i \in 1..m.count |-> IF i <= Len(m.elements) THEN m.elements[i][1]
                                   ELSE Garbage])}

\* Where the string that starts in a cell ends; 0 when it runs out of the memory.
EndOfString(data, from) ==
  LET nuls == {p \in from..Len(data) : data[p] = NUL}
  IN IF nuls = {} THEN 0 ELSE Min(nuls)

\* What strlen and strcpy see of a string: what comes before its first NUL.
CString(s) ==
  LET end == EndOfString(s, 1) IN IF end = 0 THEN s ELSE SubSeq(s, 1, end - 1)

\* Mutation of JmsStringEpicsBuilder: size counts the NUL of each string but the
\* last, so the last string ends where the memory does.
JmsStringEpicsBuilderShort(m) ==
  IF Truncated(m) THEN {Terminated}
  ELSE {Item("STRING", m.count,
             FlattenSeq([i \in 1..m.count |->
                           IF i < m.count THEN Append(CString(m.elements[i]), NUL)
                           ELSE CString(m.elements[i])]))}

\* The strings follow each other in the memory, each with its NUL.
JmsStringEpicsBuilder(m) ==
  IF Truncated(m) THEN {Terminated}
  ELSE {Item("STRING", m.count,
             FlattenSeq([i \in 1..m.count |-> Append(CString(m.elements[i]), NUL)]))}

\* What there may be after buildEpicsStatusItem.  A type it has no builder for is no
\* error, and what reading the type, or a builder reading the name and the count,
\* throws is caught: either way there is no item.
buildEpicsStatusItem(m) ==
  IF      m.code = DataType.SHORT  THEN JmsShortEpicsBuilder(m)
  ELSE IF m.code = DataType.INT    THEN JmsIntEpicsBuilder(m)
  ELSE IF m.code = DataType.DOUBLE THEN JmsDoubleEpicsBuilder(m)
  ELSE IF m.code = DataType.FLOAT  THEN JmsFloatEpicsBuilder(m)
  ELSE IF m.code = DataType.STRING THEN JmsStringEpicsBuilder(m)
  ELSE IF m.code = DataType.BYTE   THEN JmsByteEpicsBuilder(m)
  ELSE {NullItem}

-----------------------------------------------------------------------------
(* The getters of an item: an element, or InvalidOperation                 *)

InvalidOperation == <<"InvalidOperation">>

validateIndex(item, index) == index \in 0..(item.count - 1)

\* The strings before it are skipped one by one.
getDataAsString(item, index) ==
  LET curpos[i \in 0..index] ==
        IF i = 0 THEN 1 ELSE EndOfString(item.data, curpos[i - 1]) + 1
      start == curpos[index]
      end   == EndOfString(item.data, start)
  IN IF item.type # "STRING" \/ ~validateIndex(item, index) THEN InvalidOperation
     ELSE IF end = 0 THEN <<Garbage>>
     ELSE SubSeq(item.data, start, end - 1)

Number(item, type, index) ==
  IF item.type # type \/ ~validateIndex(item, index) THEN InvalidOperation
  ELSE <<item.data[index + 1]>>

getDataAsInt(item, index)    == Number(item, "INT", index)
getDataAsFloat(item, index)  == Number(item, "FLOAT", index)
getDataAsDouble(item, index) == Number(item, "DOUBLE", index)
getDataAsByte(item, index)   == Number(item, "BYTE", index)

\* The getters of the interface, none of them for the type SHORT.
EpicsStatusItem(item, index) ==
  [STRING |-> getDataAsString(item, index),
   INT    |-> getDataAsInt(item, index),
   FLOAT  |-> getDataAsFloat(item, index),
   DOUBLE |-> getDataAsDouble(item, index),
   BYTE   |-> getDataAsByte(item, index)]

-----------------------------------------------------------------------------
(* The handler of the example                                              *)

\* Mutation of GetterOf: the branch for strings is a copy of the one before it.
GetterOfCopied(type) == IF type \in {"INT", "STRING"} THEN "DOUBLE" ELSE type

\* Which getter it reads an item of a type with: the branch for integers reads
\* doubles, and other types are not read.
GetterOf(type) == IF type = "INT" THEN "DOUBLE" ELSE type

\* EpicsHandlerDemo uses the item without looking whether there is one, and catches
\* nothing.
EpicsHandlerDemoThrows(item) ==
  \/ item.outcome = "null"
  \/ /\ item.type \in {"DOUBLE", "INT", "STRING", "BYTE"}
     /\ \E index \in 0..(item.count - 1) :
          EpicsStatusItem(item, index)[GetterOf(item.type)] = InvalidOperation
=============================================================================

------------------------ MODULE MCEpicsSubscriptions ------------------------
(* Updates for EpicsSubscriptions: strings, one of them empty; strings with *)
(* a NUL inside, one of them missing; bytes; a number, which is written     *)
(* behind its memory; and a header that is cut short, of which no item is   *)
(* built, no more than of a type without a builder.                         *)
EXTENDS EpicsSubscriptions

MCCells == {"a", "b", "c", NUL, "1", "2", "3"}

MCForms ==
  {Message(DataType.STRING, 3, << <<"a", "b">>, <<>>, <<"c">> >>),
   Message(DataType.STRING, 2, << <<"a", NUL, "b">> >>),
   Message(DataType.BYTE, 2, << <<"1">>, <<"2">> >>),
   Message(DataType.INT, 1, << <<"3">> >>),
   Message(CutShort, 0, <<>>)}

\* For a run that publishes nothing.
NoForms == {}
=============================================================================

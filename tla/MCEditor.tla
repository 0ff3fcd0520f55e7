------------------------------ MODULE MCEditor ------------------------------
(* Editor on a buffer of five characters with a ring of six undo entries,   *)
(* a screen of two rows and three files, one of them larger than the buffer *)
(* and one with a name that is cut.                                         *)
EXTENDS Editor

CONSTANTS notes, longname, longnam

MCFiles == {notes, longname, longnam}
MCCut == [n \in MCFiles |-> IF n = longname THEN longnam ELSE n]
Oversized == <<"a", Newline, Space, "a", Newline, ".">>
MCChars == {"a", "A", ".", Newline, Space, Tab, NUL}
MCDisk0 ==
  {[n \in MCFiles |-> IF n = notes THEN <<"a", Newline, ".">>
                      ELSE IF n = longname THEN Oversized ELSE NoFile]}
=============================================================================

----------------------------- MODULE MCKeyboard -----------------------------
(* Keyboard with a ring of three slots, the keys A and control and one E0   *)
(* key (cursor up).                                                        *)
EXTENDS Keyboard

MCPlainKeys == {29, 30}
MCExtKeys == {72}
MCAscii == [sc \in 0 .. 127 |-> IF sc = 30 THEN 97 ELSE 0]
MCAsciiShift == [sc \in 0 .. 127 |-> IF sc = 30 THEN 65 ELSE 0]
=============================================================================

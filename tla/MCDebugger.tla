----------------------------- MODULE MCDebugger -----------------------------
(* Debugger on a loop of a one-byte instruction, a two-byte int 0x80 and a  *)
(* branch, with an exit behind it.                                         *)
EXTENDS Debugger

MCAddrs == {1, 2, 4, 5}
MCKind == [a \in MCAddrs |-> IF a = 2 THEN "syscall" ELSE IF a = 5 THEN "exit" ELSE "plain"]
MCSucc == [a \in MCAddrs |->
             IF a = 1 THEN {2} ELSE IF a = 2 THEN {4} ELSE IF a = 4 THEN {1, 5} ELSE {}]
=============================================================================

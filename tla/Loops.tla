-------------------------------- MODULE Loops --------------------------------
(***************************************************************************)
(* Loops of the code as iterated operators: the value after a turn depends *)
(* on the value before it.                                                 *)
(***************************************************************************)
EXTENDS Integers, Sequences

\* Op(x), with x evaluated only once.
Once(Op(_), x) == CHOOSE r \in {Op(y) : y \in {x}} : TRUE

\* A loop that repeats Op n times, and one over the members of a sequence.
Times(Op(_), n, x) ==
  LET it[i \in 0 .. n] == IF i = 0 THEN x ELSE Once(Op, it[i - 1])
  IN it[n]
ForEach(Op(_, _), x, seq) ==
  LET it[i \in 0 .. Len(seq)] == IF i = 0 THEN x ELSE Once(LAMBDA y : Op(y, seq[i]), it[i - 1])
  IN it[Len(seq)]
=============================================================================

---------------------------- MODULE BasicProgram ----------------------------
(***************************************************************************)
(* The program store (src/apps/basic/program.c): the flat buffer of        *)
(* tokenized lines as the sequence of its lines. A line occupies three     *)
(* bytes more than its tokens.                                             *)
(***************************************************************************)
EXTENDS BasicText

CONSTANT PROG_SIZE

ASSUME ProgramAssumption == PROG_SIZE \in Nat

LineSize(line) == Len(line.toks) + 3
prog_used(prog) == Total([i \in 1 .. Len(prog) |-> LineSize(prog[i])])

\* The first line with a number of at least num, or the place behind the last.
find_insert_pos(prog, num) ==
  Min({i \in 1 .. Len(prog) : prog[i].num >= num} \cup {Len(prog) + 1})

prog_has_line(prog, num) ==
  LET i == find_insert_pos(prog, num) IN i <= Len(prog) /\ prog[i].num = num
prog_find_line(prog, num) == prog[find_insert_pos(prog, num)]

\* The numbers of the first line and of the line behind num; 0 is NULL.
NoLine == 0
prog_first_line(prog) == IF prog = << >> THEN NoLine ELSE prog[1].num
prog_next_line(prog, num) ==
  LET i == find_insert_pos(prog, num)
  IN IF i >= Len(prog) THEN NoLine ELSE prog[i + 1].num

prog_delete_line(prog, num) ==
  IF prog_has_line(prog, num) THEN RemoveAt(prog, find_insert_pos(prog, num)) ELSE prog

\* Mutant: the old line is found by its place, whatever its number.
prog_insert_line_over(prog, num, tokens) ==
  LET i == find_insert_pos(prog, num)
      line == [num |-> num, toks |-> tokens]
      rest == IF i <= Len(prog) THEN RemoveAt(prog, i) ELSE prog
  IN IF prog_used(rest) + LineSize(line) > PROG_SIZE THEN rest ELSE InsertAt(rest, i, line)

\* Mutant: the line goes to the end of the buffer.
prog_insert_line_last(prog, num, tokens) ==
  LET line == [num |-> num, toks |-> tokens]
      rest == prog_delete_line(prog, num)
  IN IF prog_used(rest) + LineSize(line) > PROG_SIZE THEN rest ELSE Append(rest, line)

prog_insert_line(prog, num, tokens) ==
  LET line == [num |-> num, toks |-> tokens]
      rest == prog_delete_line(prog, num)
  IN IF prog_used(rest) + LineSize(line) > PROG_SIZE THEN rest
     ELSE InsertAt(rest, find_insert_pos(rest, num), line)
=============================================================================

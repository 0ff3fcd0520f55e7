----------------------------- MODULE EditBuffer -----------------------------
(***************************************************************************)
(* The editor's gap buffer with its ring of undo entries                   *)
(* (src/apps/editor/buffer.c), as operators on a record b. The two ends of *)
(* the array are b.left (buf[0 .. gap_start - 1]) and b.right              *)
(* (buf[gap_end ..]); the bytes inside the gap are never read. Positions   *)
(* are 0-based, as in the source.                                          *)
(***************************************************************************)
EXTENDS Loops, FiniteSets, SequencesExt

CONSTANTS
  BUFFER_SIZE, UNDO_STACK_SIZE,
  Chars          \* the characters: what a text and the undo ring hold

Newline == "\n"
Space == " "
Tab == "\t"
NUL == "NUL"      \* what buf_char_at returns behind the text

ASSUME EditBufferAssumption ==
  /\ BUFFER_SIZE \in Nat \ {0}
  /\ UNDO_STACK_SIZE \in Nat \ {0, 1}
  /\ {Newline, Space, Tab, NUL} \subseteq Chars

Boundary == [type |-> "BOUNDARY", pos |-> 0, ch |-> NUL]

-----------------------------------------------------------------------------
\* Text and undo ring

buf_text(b) == b.left \o b.right

buf_init ==
  [left |-> << >>, right |-> << >>,
   undo_stack |-> [i \in 0 .. UNDO_STACK_SIZE - 1 |-> Boundary],
   undo_top |-> 0, undo_count |-> 0, redo_count |-> 0, undo_replaying |-> FALSE]

buf_load(text) ==
  [buf_init EXCEPT !.left = SubSeq(text, 1, Min({Len(text), BUFFER_SIZE}))]

buf_length(b) == Len(b.left) + Len(b.right)
buf_cursor_pos(b) == Len(b.left)
buf_char_at(b, pos) == IF pos >= buf_length(b) THEN NUL ELSE buf_text(b)[pos + 1]

\* Mutants: the redo entries survive an edit; the count is not capped.
undo_push_keeps_redo(b, entry) ==
  IF b.undo_replaying THEN b
  ELSE [b EXCEPT !.undo_stack[b.undo_top] = entry,
                 !.undo_top = (@ + 1) % UNDO_STACK_SIZE,
                 !.undo_count = Min({@ + 1, UNDO_STACK_SIZE})]
undo_push_uncapped(b, entry) ==
  IF b.undo_replaying THEN b
  ELSE [b EXCEPT !.undo_stack[b.undo_top] = entry,
                 !.undo_top = (@ + 1) % UNDO_STACK_SIZE,
                 !.undo_count = @ + 1, !.redo_count = 0]

undo_push(b, entry) ==
  IF b.undo_replaying THEN b
  ELSE [b EXCEPT !.undo_stack[b.undo_top] = entry,
                 !.undo_top = (@ + 1) % UNDO_STACK_SIZE,
                 !.undo_count = Min({@ + 1, UNDO_STACK_SIZE}),
                 !.redo_count = 0]

buf_insert(b, c) ==
  IF buf_length(b) >= BUFFER_SIZE THEN b
  ELSE LET logged == undo_push(b, [type |-> "INSERT", pos |-> Len(b.left), ch |-> c])
       IN [logged EXCEPT !.left = Append(@, c)]

buf_delete_back(b) ==
  IF b.left = << >> THEN b
  ELSE LET logged == undo_push(b, [type |-> "DELETE", pos |-> Len(b.left) - 1, ch |-> Last(b.left)])
       IN [logged EXCEPT !.left = Front(@)]

buf_delete_fwd(b) ==
  IF b.right = << >> THEN b
  ELSE LET logged == undo_push(b, [type |-> "DELETE", pos |-> Len(b.left), ch |-> Head(b.right)])
       IN [logged EXCEPT !.right = Tail(@)]

buf_move_to(b, pos) ==
  LET at == Min({pos, buf_length(b)})
  IN [b EXCEPT !.left = SubSeq(buf_text(b), 1, at),
               !.right = SubSeq(buf_text(b), at + 1, buf_length(b))]
buf_move_left(b) == IF b.left = << >> THEN b ELSE buf_move_to(b, Len(b.left) - 1)
buf_move_right(b) == buf_move_to(b, Len(b.left) + 1)

\* Several characters inserted or deleted one after the other.
InsertAll(b, chars) == ForEach(buf_insert, b, chars)
DeleteMany(b, n) == Times(buf_delete_fwd, n, b)

Newest(b) == b.undo_stack[(b.undo_top + UNDO_STACK_SIZE - 1) % UNDO_STACK_SIZE]
NextRedo(b) == b.undo_stack[b.undo_top]     \* the next entry to redo

\* Mutant: commands are not set apart.
buf_undo_boundary_none(b) == b

buf_undo_boundary(b) ==
  IF b.undo_count = 0 \/ Newest(b).type = "BOUNDARY" THEN b ELSE undo_push(b, Boundary)

\* One entry changes sides between undo and redo.
StepBack(b) ==
  [b EXCEPT !.undo_top = (@ + UNDO_STACK_SIZE - 1) % UNDO_STACK_SIZE,
            !.undo_count = @ - 1, !.redo_count = @ + 1]
StepForward(b) ==
  [b EXCEPT !.undo_top = (@ + 1) % UNDO_STACK_SIZE,
            !.undo_count = @ + 1, !.redo_count = @ - 1]

Replaying(b, on) == [b EXCEPT !.undo_replaying = on]

UndoEntry(b) ==
  LET e == Newest(b)
      back == buf_move_to(StepBack(b), e.pos)
  IN IF b.undo_count = 0 \/ e.type = "BOUNDARY" THEN b
     ELSE IF e.type = "INSERT" THEN buf_delete_fwd(back) ELSE buf_insert(back, e.ch)

RedoEntry(b) ==
  LET e == NextRedo(b)
      forth == buf_move_to(StepForward(b), e.pos)
  IN IF b.redo_count = 0 \/ e.type = "BOUNDARY" THEN b
     ELSE IF e.type = "INSERT" THEN buf_insert(forth, e.ch) ELSE buf_delete_fwd(forth)

\* Both return false exactly when nothing is left to undo or redo, so a caller
\* that stops at false and one that goes on reach the same state.
buf_undo(b) ==
  LET skipped == IF b.undo_count > 0 /\ Newest(b).type = "BOUNDARY" THEN StepBack(b) ELSE b
  IN Replaying(Times(UndoEntry, UNDO_STACK_SIZE, Replaying(skipped, TRUE)), FALSE)

buf_redo(b) ==
  LET skipped == IF b.redo_count > 0 /\ NextRedo(b).type = "BOUNDARY" THEN StepForward(b) ELSE b
  IN Replaying(Times(RedoEntry, UNDO_STACK_SIZE, Replaying(skipped, TRUE)), FALSE)

-----------------------------------------------------------------------------
\* Lines

NewlinesIn(text) == {i \in 1 .. Len(text) : text[i] = Newline}

buf_line_count(b) == 1 + Cardinality(NewlinesIn(buf_text(b)))
buf_cursor_line(b) == Cardinality(NewlinesIn(b.left))
buf_cursor_col(b) == Len(b.left) - Max({0} \cup NewlinesIn(b.left))

buf_line_start(b, line) ==
  LET ends == NewlinesIn(buf_text(b))
  IN IF line = 0 THEN 0
     ELSE IF line > Cardinality(ends) THEN buf_length(b)
     ELSE CHOOSE i \in ends : Cardinality({j \in ends : j <= i}) = line

buf_line_length(b, line) ==
  LET start == buf_line_start(b, line)
  IN Min({buf_length(b)} \cup {i - 1 : i \in {j \in NewlinesIn(buf_text(b)) : j > start}}) - start

LineEnd(b, line) == buf_line_start(b, line) + buf_line_length(b, line)

-----------------------------------------------------------------------------
\* What the ring says about the text: a walk over its entries, i = 1 the next
\* one to undo (or to redo), that carries the text reached so far, the texts at
\* the far end of each group of changes, and whether every entry fitted.

BackEntry(b, i) == b.undo_stack[(b.undo_top + 2 * UNDO_STACK_SIZE - i) % UNDO_STACK_SIZE]
ForthEntry(b, i) == b.undo_stack[(b.undo_top + i - 1) % UNDO_STACK_SIZE]

\* Taking e's character out of a text, or putting it in.
Without(text, e) == SubSeq(text, 1, e.pos) \o SubSeq(text, e.pos + 2, Len(text))
With(text, e) == SubSeq(text, 1, e.pos) \o <<e.ch>> \o SubSeq(text, e.pos + 1, Len(text))
Holds(text, e) == e.pos < Len(text) /\ text[e.pos + 1] = e.ch
HasRoom(text, e) == e.pos <= Len(text) /\ Len(text) < BUFFER_SIZE

\* removing: the type of entry whose replay removes a character.
Walk(b, Entry(_), n, removing) ==
  LET Step(w, i) ==
        LET e == Entry(i)
            text == IF e.type = "BOUNDARY" THEN w.text
                    ELSE IF e.type = removing THEN Without(w.text, e) ELSE With(w.text, e)
            ends == e.type # "BOUNDARY" /\ (i = n \/ Entry(i + 1).type = "BOUNDARY")
        IN [text |-> text,
            groups |-> IF ends THEN Append(w.groups, text) ELSE w.groups,
            fits |-> w.fits /\ (e.type = "BOUNDARY" \/
                       IF e.type = removing THEN Holds(w.text, e) ELSE HasRoom(w.text, e))]
  IN ForEach(Step, [text |-> buf_text(b), groups |-> << >>, fits |-> TRUE], [i \in 1 .. n |-> i])

WalkBack(b) == LET Entry(i) == BackEntry(b, i) IN Walk(b, Entry, b.undo_count, "INSERT")
WalkForth(b) == LET Entry(i) == ForthEntry(b, i) IN Walk(b, Entry, b.redo_count, "DELETE")

\* The buffer as a line of texts, one per group of changes.
buf_history(b) ==
  [past |-> Reverse(WalkBack(b).groups), text |-> buf_text(b), future |-> WalkForth(b).groups]
=============================================================================

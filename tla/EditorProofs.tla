---------------------------- MODULE EditorProofs ----------------------------
(***************************************************************************)
(* For every size of buffer, ring and screen and every sequence of keys:   *)
(* the text fits its buffer and the undo counts their ring, every entry of *)
(* the ring fits the text it would be replayed on, the cursor is where the *)
(* screen shows it, and a text that counts as unmodified is what its file  *)
(* holds; a linewise deletion leaves every other line alone.               *)
(***************************************************************************)
EXTENDS Editor, NatLemmas, SequenceTheorems, FiniteSetTheorems

-----------------------------------------------------------------------------
(* Least and greatest elements.                                            *)

LEMMA MinTwo ==
  ASSUME NEW x \in Int, NEW y \in Int
  PROVE  Min({x, y}) = IF x <= y THEN x ELSE y
BY DEF Min

LEMMA MaxTwo ==
  ASSUME NEW x \in Int, NEW y \in Int
  PROVE  Max({x, y}) = IF x >= y THEN x ELSE y
BY DEF Max

LEMMA MinIn ==
  ASSUME NEW S, S \subseteq Nat, S # {}
  PROVE  Min(S) \in S /\ \A y \in S : Min(S) <= y
BY HasLeast DEF Min

LEMMA MaxIn ==
  ASSUME NEW N \in Nat, NEW S, S \subseteq 0 .. N, S # {}
  PROVE  Max(S) \in S /\ \A y \in S : Max(S) >= y
<1> DEFINE D == {N - y : y \in S}
<1>1. D \subseteq Nat /\ D # {}
  <2>1. ASSUME NEW y \in S PROVE N - y \in Nat
    OBVIOUS
  <2> QED BY <2>1
<1> HIDE DEF D
<1>2. PICK d \in D : \A e \in D : d <= e
  BY <1>1, HasLeast
<1>3. PICK m \in S : d = N - m
  BY DEF D
<1>4. ASSUME NEW y \in S PROVE m >= y
  <2>1. N - y \in D
    BY DEF D
  <2> QED BY <1>2, <1>3, <2>1
<1> QED BY <1>4 DEF Max

-----------------------------------------------------------------------------
(* Loops. Each loop of the editor has a lemma that says that it stays in   *)
(* a set its step does not leave.                                          *)

\* The values a loop of n deletions takes on, from x on.
Deletions(it, T, x, n) ==
  /\ DeleteMany(x, n) = it[n] /\ it[0] = x
  /\ \A k \in 1 .. n : it[k - 1] \in T => it[k] = buf_delete_fwd(it[k - 1])

LEMMA DeleteManyCourse ==
  ASSUME NEW T, NEW n \in Nat, NEW x \in T, \A y \in T : buf_delete_fwd(y) \in T
  PROVE  \E it : Deletions(it, T, x, n)
<1> DEFINE once(y) == CHOOSE r \in {buf_delete_fwd(z) : z \in {y}} : TRUE
           loop == CHOOSE it : it = [i \in 0 .. n |-> IF i = 0 THEN x ELSE once(it[i - 1])]
           step == [p \in Nat \X T |-> once(p[2])]
<1>1. \A y : once(y) = buf_delete_fwd(y)
  OBVIOUS
<1>2. DeleteMany(x, n) = loop[n]
  BY Zenon DEF DeleteMany, Times, Once
<1> HIDE DEF once
<1>3. \A k \in Nat : \A y \in T : step[<<k, y>>] = once(y)
  OBVIOUS
<1> HIDE DEF step
<1>4. \A y \in T : once(y) \in T
  BY <1>1
<1>5. PICK f : IsCourse(f, T, x, step, n)
  <2>1. IsUpdate(step, T)
    BY <1>3, <1>4 DEF IsUpdate
  <2> QED BY <2>1, Recursion
<1>6. f \in [0 .. n -> T] /\ f[0] = x /\ \A k \in 1 .. n : f[k] = once(f[k - 1])
  <2>1. ASSUME NEW k \in 1 .. n PROVE f[k] = once(f[k - 1])
    <3>1. k \in Nat /\ f[k - 1] \in T /\ f[k] = step[<<k, f[k - 1]>>]
      BY <1>5 DEF IsCourse
    <3> QED BY <1>3, <3>1
  <2> QED BY <1>5, <2>1 DEF IsCourse
<1>7. loop = [i \in 0 .. n |-> IF i = 0 THEN x ELSE once(loop[i - 1])]
  <2>1. f = [i \in 0 .. n |-> IF i = 0 THEN x ELSE once(f[i - 1])]
    BY <1>6
  <2> QED BY <2>1, Zenon
<1> HIDE DEF loop
<1>8. loop[0] = x /\ \A k \in 1 .. n : loop[k] = once(loop[k - 1])
  BY <1>7
<1>9. Deletions(loop, T, x, n)
  BY <1>1, <1>2, <1>8, Zenon DEF Deletions
<1> QED BY <1>9

LEMMA DeleteManyIn ==
  ASSUME NEW T, NEW n \in Nat, NEW x \in T, \A y \in T : buf_delete_fwd(y) \in T
  PROVE  DeleteMany(x, n) \in T
<1>1. PICK it : Deletions(it, T, x, n)
  BY DeleteManyCourse
<1>2. StaysIn(it, T, n)
  BY <1>1, Zenon DEF StaysIn, Deletions
<1> QED BY <1>1, <1>2, LoopStays DEF Deletions

LEMMA InsertAllIn ==
  ASSUME NEW T, NEW chars \in Seq(Chars), NEW x \in T,
         \A k \in 1 .. Len(chars) : \A y \in T : buf_insert(y, chars[k]) \in T
  PROVE  InsertAll(x, chars) \in T
<1> DEFINE n == Len(chars)
           once(i, y) == CHOOSE r \in {buf_insert(z, chars[i]) : z \in {y}} : TRUE
           loop == CHOOSE it : it = [i \in 0 .. n |-> IF i = 0 THEN x ELSE once(i, it[i - 1])]
           step == [p \in Nat \X T |-> IF p[1] \in 1 .. n THEN once(p[1], p[2]) ELSE x]
<1>0. n \in Nat
  BY LenProperties
<1>1. \A k \in 1 .. n : \A y : once(k, y) = buf_insert(y, chars[k])
  OBVIOUS
<1>2. InsertAll(x, chars) = loop[n]
  BY Zenon DEF InsertAll, ForEach, Once
<1> HIDE DEF n
<1> HIDE DEF once
<1>3. \A k \in Nat : \A y \in T : step[<<k, y>>] = IF k \in 1 .. n THEN once(k, y) ELSE x
  OBVIOUS
<1> HIDE DEF step
<1>4. \A k \in 1 .. n : \A y \in T : once(k, y) \in T
  BY <1>0, <1>1 DEF n
<1>5. PICK f : IsCourse(f, T, x, step, n)
  <2>1. IsUpdate(step, T)
    BY <1>3, <1>4 DEF IsUpdate
  <2> QED BY <1>0, <2>1, Recursion
<1>6. f \in [0 .. n -> T] /\ f[0] = x /\ \A k \in 1 .. n : f[k] = once(k, f[k - 1])
  <2>1. ASSUME NEW k \in 1 .. n PROVE f[k] = once(k, f[k - 1])
    <3>1. k \in Nat /\ f[k - 1] \in T /\ f[k] = step[<<k, f[k - 1]>>]
      BY <1>0, <1>5 DEF IsCourse
    <3> QED BY <1>3, <3>1
  <2> QED BY <1>5, <2>1 DEF IsCourse
<1>7. loop = [i \in 0 .. n |-> IF i = 0 THEN x ELSE once(i, loop[i - 1])]
  <2>1. f = [i \in 0 .. n |-> IF i = 0 THEN x ELSE once(i, f[i - 1])]
    BY <1>0, <1>6
  <2> QED BY <2>1, Zenon
<1> HIDE DEF loop
<1>8. StaysIn(loop, T, n)
  BY <1>0, <1>4, <1>7 DEF StaysIn
<1> QED BY <1>0, <1>2, <1>8, LoopStays

-----------------------------------------------------------------------------
(* Buffers and what the operations of buffer.c keep.                       *)

Texts == Seq(Chars)
Ring == 0 .. UNDO_STACK_SIZE - 1
Entries == [type : {"INSERT", "DELETE", "BOUNDARY"}, pos : Nat, ch : Chars]

Buffers ==
  [left : Texts, right : Texts, undo_stack : [Ring -> Entries], undo_top : Ring,
   undo_count : Nat, redo_count : Nat, undo_replaying : BOOLEAN]

\* The text fits the buffer and the entries fit the ring.
Fits(x) ==
  /\ Len(x.left) + Len(x.right) <= BUFFER_SIZE
  /\ x.undo_count + x.redo_count <= UNDO_STACK_SIZE

LEMMA TextType ==
  ASSUME NEW x \in Buffers
  PROVE  /\ buf_text(x) \in Texts /\ buf_length(x) \in Nat
         /\ Len(buf_text(x)) = buf_length(x)
         /\ buf_cursor_pos(x) \in Nat /\ buf_cursor_pos(x) <= buf_length(x)
<1>1. x.left \in Seq(Chars) /\ x.right \in Seq(Chars)
  BY DEF Buffers, Texts
<1>2. Len(x.left) \in Nat /\ Len(x.right) \in Nat
  BY <1>1, LenProperties
<1>3. x.left \o x.right \in Seq(Chars) /\ Len(x.left \o x.right) = Len(x.left) + Len(x.right)
  BY <1>1, ConcatProperties
<1>4. buf_text(x) \in Seq(Chars) /\ Len(buf_text(x)) = Len(x.left) + Len(x.right)
  BY <1>3, Zenon DEF buf_text
<1>5. buf_length(x) = Len(x.left) + Len(x.right) /\ buf_cursor_pos(x) = Len(x.left)
  BY DEF buf_length, buf_cursor_pos
<1>6. buf_length(x) \in Nat /\ buf_cursor_pos(x) \in Nat /\ buf_cursor_pos(x) <= buf_length(x)
  <2>1. PICK l \in Nat : l = Len(x.left)
    BY <1>2, Zenon
  <2>2. PICK r \in Nat : r = Len(x.right)
    BY <1>2, Zenon
  <2>3. buf_length(x) = l + r /\ buf_cursor_pos(x) = l
    BY <1>5, <2>1, <2>2, Zenon
  <2> QED BY <2>3
<1>7. Len(buf_text(x)) = buf_length(x)
  BY <1>4, <1>5, Zenon
<1> QED BY <1>4, <1>6, <1>7, Zenon DEF Texts

LEMMA CharType ==
  ASSUME NEW x \in Buffers, NEW pos \in Nat
  PROVE  buf_char_at(x, pos) \in Chars
<1>1. buf_text(x) \in Seq(Chars) /\ Len(buf_text(x)) = buf_length(x) /\ buf_length(x) \in Nat
  BY TextType DEF Texts
<1>2. CASE pos >= buf_length(x)
  BY <1>2, EditBufferAssumption DEF buf_char_at
<1>3. CASE ~(pos >= buf_length(x))
  <2>1. pos + 1 \in 1 .. Len(buf_text(x))
    BY <1>1, <1>3
  <2>2. buf_text(x)[pos + 1] \in Chars
    BY <1>1, <2>1, ElementOfSeq
  <2> QED BY <1>3, <2>2 DEF buf_char_at
<1> QED BY <1>2, <1>3

\* Moving the gap changes nothing but where it is.
LEMMA MoveTo ==
  ASSUME NEW x \in Buffers, NEW pos \in Nat
  PROVE  LET y == buf_move_to(x, pos)
         IN  /\ y \in Buffers /\ buf_text(y) = buf_text(x) /\ buf_length(y) = buf_length(x)
             /\ Len(y.left) = IF pos <= buf_length(x) THEN pos ELSE buf_length(x)
             /\ y.undo_stack = x.undo_stack /\ y.undo_top = x.undo_top
             /\ y.undo_count = x.undo_count /\ y.redo_count = x.redo_count
             /\ y.undo_replaying = x.undo_replaying
<1> DEFINE t == buf_text(x)
           at == Min({pos, buf_length(x)})
           y == buf_move_to(x, pos)
<1>1. t \in Seq(Chars) /\ Len(t) = buf_length(x) /\ Len(t) \in Nat
  BY TextType DEF Texts
<1>2. at \in 0 .. Len(t) /\ at = IF pos <= buf_length(x) THEN pos ELSE buf_length(x)
  BY <1>1, MinTwo
<1> HIDE DEF at, t
<1>3. y = [x EXCEPT !.left = SubSeq(t, 1, at), !.right = SubSeq(t, at + 1, Len(t))]
  BY <1>1 DEF buf_move_to, at, t
<1>4. SubSeq(t, 1, at) \in Seq(Chars) /\ Len(SubSeq(t, 1, at)) = at
  <2>1. \A i \in 1 .. at : t[i] \in Chars
    BY <1>1, <1>2, ElementOfSeq
  <2>2. at \in Int
    BY <1>2
  <2>3. /\ SubSeq(t, 1, at) \in Seq(Chars)
        /\ Len(SubSeq(t, 1, at)) = IF 1 <= at THEN at - 1 + 1 ELSE 0
    BY <2>1, <2>2, SubSeqProperties
  <2> QED BY <1>2, <2>3
<1>5. /\ SubSeq(t, at + 1, Len(t)) \in Seq(Chars)
      /\ Len(SubSeq(t, at + 1, Len(t))) = Len(t) - at
  <2>1. \A i \in at + 1 .. Len(t) : t[i] \in Chars
    BY <1>1, <1>2, ElementOfSeq
  <2>2. at + 1 \in Int /\ Len(t) \in Int
    BY <1>1, <1>2
  <2>3. /\ SubSeq(t, at + 1, Len(t)) \in Seq(Chars)
        /\ Len(SubSeq(t, at + 1, Len(t))) = IF at + 1 <= Len(t) THEN Len(t) - (at + 1) + 1 ELSE 0
    BY <2>1, <2>2, SubSeqProperties
  <2> QED BY <1>1, <1>2, <2>3
<1>6. SubSeq(t, 1, at) \o SubSeq(t, at + 1, Len(t)) = t
  <2>1. SubSeq(t, 1, at) \o SubSeq(t, at + 1, Len(t)) = SubSeq(t, 1, Len(t))
    <3>1. 1 \in 1 .. Len(t) + 1 /\ at \in 1 - 1 .. Len(t) /\ Len(t) \in at .. Len(t)
      BY <1>1, <1>2
    <3> QED BY <1>1, <3>1, ConcatAdjacentSubSeq
  <2> QED BY <1>1, <2>1, SubSeqFull
<1>7. /\ y \in Buffers
      /\ y.left = SubSeq(t, 1, at) /\ y.right = SubSeq(t, at + 1, Len(t))
      /\ y.undo_stack = x.undo_stack /\ y.undo_top = x.undo_top
      /\ y.undo_count = x.undo_count /\ y.redo_count = x.redo_count
      /\ y.undo_replaying = x.undo_replaying
  BY <1>3, <1>4, <1>5 DEF Buffers, Texts
<1>8. buf_text(y) = t /\ buf_length(y) = Len(t)
  <2>1. buf_text(y) = t
    BY <1>6, <1>7, Zenon DEF buf_text
  <2>2. buf_length(y) = Len(SubSeq(t, 1, at)) + Len(SubSeq(t, at + 1, Len(t)))
    BY <1>7, Zenon DEF buf_length
  <2>3. buf_length(y) = at + (Len(t) - at)
    BY <1>4, <1>5, <2>2
  <2> QED BY <1>1, <1>2, <2>1, <2>3
<1> HIDE DEF y
<1> QED BY <1>1, <1>2, <1>4, <1>7, <1>8 DEF t, y

\* y is a sound buffer if x is, in the same phase of replaying.
Keeps(x, y) == y \in Buffers /\ Fits(y) /\ y.undo_replaying = x.undo_replaying

\* The cursor and the text are the same, whatever happened to the ring.
SameText(x, y) == y.left = x.left /\ y.right = x.right

LEMMA MoveKeeps ==
  ASSUME NEW x \in Buffers, Fits(x), NEW pos \in Nat
  PROVE  Keeps(x, buf_move_to(x, pos)) /\ buf_text(buf_move_to(x, pos)) = buf_text(x)
<1> DEFINE y == buf_move_to(x, pos)
<1>1. /\ y \in Buffers /\ buf_text(y) = buf_text(x) /\ buf_length(y) = buf_length(x)
      /\ y.undo_count = x.undo_count /\ y.redo_count = x.redo_count
      /\ y.undo_replaying = x.undo_replaying
  BY MoveTo
<1> HIDE DEF y
<1>2. buf_length(y) <= BUFFER_SIZE
  BY <1>1, Zenon DEF Fits, buf_length
<1>3. Fits(y)
  BY <1>1, <1>2, Zenon DEF Fits, buf_length
<1> QED BY <1>1, <1>3 DEF Keeps, y

LEMMA PushKeeps ==
  ASSUME NEW x \in Buffers, Fits(x), NEW e \in Entries
  PROVE  LET y == undo_push(x, e)
         IN  /\ Keeps(x, y) /\ SameText(x, y)
             /\ ~x.undo_replaying => y.undo_count >= 1
<1> DEFINE y == undo_push(x, e)
<1>1. CASE x.undo_replaying
  <2>1. y = x
    BY <1>1 DEF undo_push
  <2> QED BY <1>1, <2>1 DEF Keeps, SameText
<1>2. CASE ~x.undo_replaying
  <2>1. /\ x.undo_top \in Ring /\ x.undo_count \in Nat /\ x.redo_count \in Nat
        /\ x.undo_stack \in [Ring -> Entries]
    BY DEF Buffers
  <2>2. (x.undo_top + 1) % UNDO_STACK_SIZE \in Ring
    BY <2>1, EditBufferAssumption DEF Ring
  <2> DEFINE m == Min({x.undo_count + 1, UNDO_STACK_SIZE})
  <2>3. m \in Nat /\ m <= UNDO_STACK_SIZE /\ m >= 1
    <3>1. x.undo_count + 1 \in Int /\ UNDO_STACK_SIZE \in Int
      BY <2>1, EditBufferAssumption
    <3>2. m = IF x.undo_count + 1 <= UNDO_STACK_SIZE THEN x.undo_count + 1 ELSE UNDO_STACK_SIZE
      BY <3>1, MinTwo
    <3> QED BY <2>1, <3>2, EditBufferAssumption
  <2> DEFINE stack == [x.undo_stack EXCEPT ![x.undo_top] = e]
             top == (x.undo_top + 1) % UNDO_STACK_SIZE
  <2>4. stack \in [Ring -> Entries]
    BY <2>1
  <2>5. y = [x EXCEPT !.undo_stack = stack, !.undo_top = top, !.undo_count = m, !.redo_count = 0]
    BY <1>2 DEF undo_push
  <2> HIDE DEF stack, top, m, y
  <2>6. y \in Buffers /\ SameText(x, y) /\ y.undo_replaying = x.undo_replaying
    BY <2>2, <2>3, <2>4, <2>5 DEF Buffers, SameText, top
  <2>7. y.undo_count = m /\ y.redo_count = 0
    BY <2>5 DEF Buffers
  <2>8. Fits(y)
    <3>1. Len(y.left) + Len(y.right) <= BUFFER_SIZE
      BY <2>6, Zenon DEF Fits, SameText
    <3>2. y.undo_count + y.redo_count <= UNDO_STACK_SIZE
      BY <2>3, <2>7
    <3> QED BY <3>1, <3>2 DEF Fits
  <2> QED BY <2>3, <2>6, <2>7, <2>8 DEF Keeps, y
<1> QED BY <1>1, <1>2

LEMMA InsertKeeps ==
  ASSUME NEW x \in Buffers, Fits(x), NEW c \in Chars
  PROVE  Keeps(x, buf_insert(x, c))
<1> DEFINE y == buf_insert(x, c)
           e == [type |-> "INSERT", pos |-> Len(x.left), ch |-> c]
           logged == undo_push(x, e)
<1>1. CASE buf_length(x) >= BUFFER_SIZE
  BY <1>1 DEF buf_insert, Keeps
<1>2. CASE ~(buf_length(x) >= BUFFER_SIZE)
  <2>1. x.left \in Seq(Chars) /\ x.right \in Seq(Chars)
    BY DEF Buffers, Texts
  <2>2. PICK l \in Nat : l = Len(x.left)
    BY <2>1, LenProperties
  <2>3. PICK r \in Nat : r = Len(x.right)
    BY <2>1, LenProperties
  <2>4. e \in Entries
    BY <2>2 DEF Entries
  <2>5. Keeps(x, logged) /\ SameText(x, logged)
    BY <2>4, PushKeeps
  <2> HIDE DEF logged
  <2>6. y = [logged EXCEPT !.left = Append(logged.left, c)]
    BY <1>2 DEF buf_insert, logged
  <2>7. logged \in Buffers /\ logged.left = x.left /\ logged.right = x.right
    BY <2>5 DEF Keeps, SameText
  <2>8. PICK text \in Seq(Chars) : text = Append(x.left, c)
    BY <2>1, AppendProperties
  <2>9. Len(text) = l + 1
    BY <2>1, <2>2, <2>8, AppendProperties
  <2>10. y = [logged EXCEPT !.left = text]
    BY <2>6, <2>7, <2>8, Zenon
  <2> HIDE DEF y
  <2>11. /\ y \in Buffers /\ y.left = text /\ y.right = x.right
         /\ y.undo_count = logged.undo_count /\ y.redo_count = logged.redo_count
         /\ y.undo_replaying = logged.undo_replaying
    BY <2>7, <2>10 DEF Buffers, Texts
  <2>12. l + r < BUFFER_SIZE
    <3>1. buf_length(x) = l + r
      BY <2>2, <2>3, Zenon DEF buf_length
    <3> QED BY <1>2, <3>1, EditBufferAssumption
  <2>13. Len(y.left) + Len(y.right) <= BUFFER_SIZE
    <3>1. Len(y.left) + Len(y.right) = (l + 1) + r
      BY <2>3, <2>9, <2>11, Zenon
    <3>2. (l + 1) + r <= BUFFER_SIZE
      BY <2>12, EditBufferAssumption
    <3> QED BY <3>1, <3>2, Zenon
  <2>14. y.undo_count + y.redo_count <= UNDO_STACK_SIZE
    BY <2>5, <2>11, Zenon DEF Keeps, Fits
  <2> QED BY <2>5, <2>11, <2>13, <2>14 DEF Keeps, Fits, y
<1> QED BY <1>1, <1>2

LEMMA DeleteFwdKeeps ==
  ASSUME NEW x \in Buffers, Fits(x)
  PROVE  Keeps(x, buf_delete_fwd(x))
<1> DEFINE y == buf_delete_fwd(x)
           e == [type |-> "DELETE", pos |-> Len(x.left), ch |-> Head(x.right)]
           logged == undo_push(x, e)
<1>1. CASE x.right = << >>
  BY <1>1 DEF buf_delete_fwd, Keeps
<1>2. CASE x.right # << >>
  <2>1. x.left \in Seq(Chars) /\ x.right \in Seq(Chars)
    BY DEF Buffers, Texts
  <2>2. PICK l \in Nat : l = Len(x.left)
    BY <2>1, LenProperties
  <2>3. PICK r \in Nat : r = Len(x.right)
    BY <2>1, LenProperties
  <2>4. e \in Entries
    BY <1>2, <2>1, <2>2, HeadTailProperties DEF Entries
  <2>5. Keeps(x, logged) /\ SameText(x, logged)
    BY <2>4, PushKeeps
  <2> HIDE DEF logged
  <2>6. y = [logged EXCEPT !.right = Tail(logged.right)]
    BY <1>2 DEF buf_delete_fwd, logged
  <2>7. logged \in Buffers /\ logged.left = x.left /\ logged.right = x.right
    BY <2>5 DEF Keeps, SameText
  <2>8. PICK text \in Seq(Chars) : text = Tail(x.right) /\ Len(text) = r - 1
    BY <1>2, <2>1, <2>3, HeadTailProperties
  <2>9. y = [logged EXCEPT !.right = text]
    BY <2>6, <2>7, <2>8, Zenon
  <2> HIDE DEF y
  <2>10. /\ y \in Buffers /\ y.left = x.left /\ y.right = text
         /\ y.undo_count = logged.undo_count /\ y.redo_count = logged.redo_count
         /\ y.undo_replaying = logged.undo_replaying
    BY <2>7, <2>9 DEF Buffers, Texts
  <2>11. Len(y.left) + Len(y.right) <= BUFFER_SIZE
    <3>1. Len(y.left) + Len(y.right) = l + (r - 1)
      BY <2>2, <2>8, <2>10, Zenon
    <3>2. l + r <= BUFFER_SIZE
      BY <2>2, <2>3, Zenon DEF Fits
    <3>3. l + (r - 1) <= BUFFER_SIZE
      BY <3>2, EditBufferAssumption
    <3> QED BY <3>1, <3>3, Zenon
  <2>12. y.undo_count + y.redo_count <= UNDO_STACK_SIZE
    BY <2>5, <2>10, Zenon DEF Keeps, Fits
  <2> QED BY <2>5, <2>10, <2>11, <2>12 DEF Keeps, Fits, y
<1> QED BY <1>1, <1>2

LEMMA DeleteBackKeeps ==
  ASSUME NEW x \in Buffers, Fits(x)
  PROVE  Keeps(x, buf_delete_back(x))
<1> DEFINE y == buf_delete_back(x)
           e == [type |-> "DELETE", pos |-> Len(x.left) - 1, ch |-> Last(x.left)]
           logged == undo_push(x, e)
<1>1. CASE x.left = << >>
  BY <1>1 DEF buf_delete_back, Keeps
<1>2. CASE x.left # << >>
  <2>1. x.left \in Seq(Chars) /\ x.right \in Seq(Chars)
    BY DEF Buffers, Texts
  <2>2. PICK l \in Nat \ {0} : l = Len(x.left)
    BY <1>2, <2>1, EmptySeq
  <2>3. PICK r \in Nat : r = Len(x.right)
    BY <2>1, LenProperties
  <2>4. \A i \in 1 .. l : x.left[i] \in Chars
    BY <2>1, <2>2, ElementOfSeq
  <2>5. e \in Entries
    <3>1. Last(x.left) \in Chars
      <4>1. l \in 1 .. l
        OBVIOUS
      <4> QED BY <2>2, <2>4, <4>1 DEF Last
    <3>2. Len(x.left) - 1 \in Nat
      BY <2>2
    <3> QED BY <3>1, <3>2 DEF Entries
  <2>6. Keeps(x, logged) /\ SameText(x, logged)
    BY <2>5, PushKeeps
  <2> HIDE DEF logged
  <2>7. y = [logged EXCEPT !.left = Front(logged.left)]
    BY <1>2 DEF buf_delete_back, logged
  <2>8. logged \in Buffers /\ logged.left = x.left /\ logged.right = x.right
    BY <2>6 DEF Keeps, SameText
  <2>9. PICK text \in Seq(Chars) : text = Front(x.left) /\ Len(text) = l - 1
    <3>1. \A i \in 1 .. l - 1 : x.left[i] \in Chars
      BY <2>4
    <3>2. l - 1 \in Int /\ 1 \in Int
      OBVIOUS
    <3>3. /\ SubSeq(x.left, 1, l - 1) \in Seq(Chars)
          /\ Len(SubSeq(x.left, 1, l - 1)) = IF 1 <= l - 1 THEN (l - 1) - 1 + 1 ELSE 0
      BY <3>1, <3>2, SubSeqProperties
    <3>4. Front(x.left) = SubSeq(x.left, 1, l - 1)
      BY <2>2, Zenon DEF Front
    <3> QED BY <3>3, <3>4
  <2>10. y = [logged EXCEPT !.left = text]
    BY <2>7, <2>8, <2>9, Zenon
  <2> HIDE DEF y
  <2>11. /\ y \in Buffers /\ y.left = text /\ y.right = x.right
         /\ y.undo_count = logged.undo_count /\ y.redo_count = logged.redo_count
         /\ y.undo_replaying = logged.undo_replaying
    BY <2>8, <2>10 DEF Buffers, Texts
  <2>12. Len(y.left) + Len(y.right) <= BUFFER_SIZE
    <3>1. Len(y.left) + Len(y.right) = (l - 1) + r
      BY <2>3, <2>9, <2>11, Zenon
    <3>2. l + r <= BUFFER_SIZE
      BY <2>2, <2>3, Zenon DEF Fits
    <3>3. (l - 1) + r <= BUFFER_SIZE
      BY <3>2, EditBufferAssumption
    <3> QED BY <3>1, <3>3, Zenon
  <2>13. y.undo_count + y.redo_count <= UNDO_STACK_SIZE
    BY <2>6, <2>11, Zenon DEF Keeps, Fits
  <2> QED BY <2>6, <2>11, <2>12, <2>13 DEF Keeps, Fits, y
<1> QED BY <1>1, <1>2

LEMMA BoundaryKeeps ==
  ASSUME NEW x \in Buffers, Fits(x)
  PROVE  /\ Keeps(x, buf_undo_boundary(x)) /\ SameText(x, buf_undo_boundary(x))
<1>1. Boundary \in Entries
  BY EditBufferAssumption DEF Boundary, Entries
<1>2. Keeps(x, undo_push(x, Boundary)) /\ SameText(x, undo_push(x, Boundary))
  BY <1>1, PushKeeps
<1> QED BY <1>2 DEF buf_undo_boundary, Keeps, SameText

\* The neighbours of the undo position.
LEMMA NeighbourTypes ==
  ASSUME NEW x \in Buffers
  PROVE  Newest(x) \in Entries /\ NextRedo(x) \in Entries
<1>1. x.undo_top \in Ring /\ x.undo_stack \in [Ring -> Entries]
  BY DEF Buffers
<1>2. (x.undo_top + UNDO_STACK_SIZE - 1) % UNDO_STACK_SIZE \in Ring
  BY <1>1, EditBufferAssumption DEF Ring
<1> QED BY <1>1, <1>2 DEF Newest, NextRedo

LEMMA StepKeeps ==
  ASSUME NEW x \in Buffers, Fits(x)
  PROVE  /\ x.undo_count > 0 => Keeps(x, StepBack(x)) /\ SameText(x, StepBack(x))
         /\ x.redo_count > 0 => Keeps(x, StepForward(x)) /\ SameText(x, StepForward(x))
<1>1. x.undo_top \in Ring /\ x.undo_count \in Nat /\ x.redo_count \in Nat
  BY DEF Buffers
<1>2. x.undo_count + x.redo_count <= UNDO_STACK_SIZE
  BY DEF Fits
<1>3. ASSUME x.undo_count > 0 PROVE Keeps(x, StepBack(x)) /\ SameText(x, StepBack(x))
  <2> DEFINE y == StepBack(x)
             top == (x.undo_top + UNDO_STACK_SIZE - 1) % UNDO_STACK_SIZE
  <2>1. top \in Ring
    BY <1>1, EditBufferAssumption DEF Ring
  <2>2. x.undo_count - 1 \in Nat /\ x.redo_count + 1 \in Nat
    BY <1>1, <1>3
  <2>3. y = [x EXCEPT !.undo_top = top, !.undo_count = x.undo_count - 1,
                      !.redo_count = x.redo_count + 1]
    BY DEF StepBack
  <2> HIDE DEF top, y
  <2>4. /\ y \in Buffers /\ SameText(x, y) /\ y.undo_replaying = x.undo_replaying
        /\ y.undo_count = x.undo_count - 1 /\ y.redo_count = x.redo_count + 1
    BY <2>1, <2>2, <2>3 DEF Buffers, SameText
  <2>5. y.undo_count + y.redo_count <= UNDO_STACK_SIZE
    BY <1>1, <1>2, <2>4, EditBufferAssumption
  <2>6. Len(y.left) + Len(y.right) <= BUFFER_SIZE
    BY <2>4, Zenon DEF Fits, SameText
  <2> QED BY <2>4, <2>5, <2>6 DEF Keeps, Fits, y
<1>4. ASSUME x.redo_count > 0 PROVE Keeps(x, StepForward(x)) /\ SameText(x, StepForward(x))
  <2> DEFINE y == StepForward(x)
             top == (x.undo_top + 1) % UNDO_STACK_SIZE
  <2>1. top \in Ring
    BY <1>1, EditBufferAssumption DEF Ring
  <2>2. x.undo_count + 1 \in Nat /\ x.redo_count - 1 \in Nat
    BY <1>1, <1>4
  <2>3. y = [x EXCEPT !.undo_top = top, !.undo_count = x.undo_count + 1,
                      !.redo_count = x.redo_count - 1]
    BY DEF StepForward
  <2> HIDE DEF top, y
  <2>4. /\ y \in Buffers /\ SameText(x, y) /\ y.undo_replaying = x.undo_replaying
        /\ y.undo_count = x.undo_count + 1 /\ y.redo_count = x.redo_count - 1
    BY <2>1, <2>2, <2>3 DEF Buffers, SameText
  <2>5. y.undo_count + y.redo_count <= UNDO_STACK_SIZE
    BY <1>1, <1>2, <2>4, EditBufferAssumption
  <2>6. Len(y.left) + Len(y.right) <= BUFFER_SIZE
    BY <2>4, Zenon DEF Fits, SameText
  <2> QED BY <2>4, <2>5, <2>6 DEF Keeps, Fits, y
<1> QED BY <1>3, <1>4

LEMMA KeepsTwice ==
  ASSUME NEW x, NEW y, NEW z, Keeps(x, y), Keeps(y, z)
  PROVE  Keeps(x, z)
BY DEF Keeps

LEMMA UndoEntryKeeps ==
  ASSUME NEW x \in Buffers, Fits(x)
  PROVE  Keeps(x, UndoEntry(x))
<1> DEFINE e == Newest(x)
           back == buf_move_to(StepBack(x), e.pos)
<1>1. e.pos \in Nat /\ e.ch \in Chars
  BY NeighbourTypes DEF Entries
<1>2. CASE x.undo_count = 0 \/ e.type = "BOUNDARY"
  BY <1>2 DEF UndoEntry, Keeps
<1>3. CASE ~(x.undo_count = 0 \/ e.type = "BOUNDARY")
  <2>1. x.undo_count > 0
    BY <1>3 DEF Buffers
  <2>2. PICK s : s = StepBack(x)
    OBVIOUS
  <2>3. Keeps(x, s)
    BY <2>1, <2>2, StepKeeps
  <2>4. PICK m : m = back
    OBVIOUS
  <2>5. Keeps(s, m)
    BY <1>1, <2>2, <2>3, <2>4, MoveKeeps DEF Keeps
  <2>6. Keeps(x, m) /\ m \in Buffers /\ Fits(m)
    BY <2>3, <2>5 DEF Keeps
  <2>7. Keeps(m, buf_delete_fwd(m)) /\ Keeps(m, buf_insert(m, e.ch))
    BY <1>1, <2>6, DeleteFwdKeeps, InsertKeeps
  <2>8. UndoEntry(x) = IF e.type = "INSERT" THEN buf_delete_fwd(m) ELSE buf_insert(m, e.ch)
    BY <1>3, <2>4, Zenon DEF UndoEntry
  <2> HIDE DEF e, back
  <2> QED BY <2>6, <2>7, <2>8, KeepsTwice
<1> QED BY <1>2, <1>3

LEMMA RedoEntryKeeps ==
  ASSUME NEW x \in Buffers, Fits(x)
  PROVE  Keeps(x, RedoEntry(x))
<1> DEFINE e == NextRedo(x)
           forth == buf_move_to(StepForward(x), e.pos)
<1>1. e.pos \in Nat /\ e.ch \in Chars
  BY NeighbourTypes DEF Entries
<1>2. CASE x.redo_count = 0 \/ e.type = "BOUNDARY"
  BY <1>2 DEF RedoEntry, Keeps
<1>3. CASE ~(x.redo_count = 0 \/ e.type = "BOUNDARY")
  <2>1. x.redo_count > 0
    BY <1>3 DEF Buffers
  <2>2. PICK s : s = StepForward(x)
    OBVIOUS
  <2>3. Keeps(x, s)
    BY <2>1, <2>2, StepKeeps
  <2>4. PICK m : m = forth
    OBVIOUS
  <2>5. Keeps(s, m)
    BY <1>1, <2>2, <2>3, <2>4, MoveKeeps DEF Keeps
  <2>6. Keeps(x, m) /\ m \in Buffers /\ Fits(m)
    BY <2>3, <2>5 DEF Keeps
  <2>7. Keeps(m, buf_delete_fwd(m)) /\ Keeps(m, buf_insert(m, e.ch))
    BY <1>1, <2>6, DeleteFwdKeeps, InsertKeeps
  <2>8. RedoEntry(x) = IF e.type = "INSERT" THEN buf_insert(m, e.ch) ELSE buf_delete_fwd(m)
    BY <1>3, <2>4, Zenon DEF RedoEntry
  <2> HIDE DEF e, forth
  <2> QED BY <2>6, <2>7, <2>8, KeepsTwice
<1> QED BY <1>2, <1>3

-----------------------------------------------------------------------------
(* The editor's loops.                                                     *)

LEMMA UndoLoop ==
  ASSUME NEW T, NEW n \in Nat, NEW x \in T, \A y \in T : UndoEntry(y) \in T
  PROVE  Times(UndoEntry, n, x) \in T
<1> DEFINE once(y) == CHOOSE r \in {UndoEntry(z) : z \in {y}} : TRUE
           loop == CHOOSE it : it = [i \in 0 .. n |-> IF i = 0 THEN x ELSE once(it[i - 1])]
           step == [p \in Nat \X T |-> once(p[2])]
<1>1. \A y : once(y) = UndoEntry(y)
  OBVIOUS
<1>2. Times(UndoEntry, n, x) = loop[n]
  BY Zenon DEF Times, Once
<1> HIDE DEF once
<1>3. \A k \in Nat : \A y \in T : step[<<k, y>>] = once(y)
  OBVIOUS
<1> HIDE DEF step
<1>4. \A y \in T : once(y) \in T
  BY <1>1
<1>5. PICK f : IsCourse(f, T, x, step, n)
  <2>1. IsUpdate(step, T)
    BY <1>3, <1>4 DEF IsUpdate
  <2> QED BY <2>1, Recursion
<1>6. f \in [0 .. n -> T] /\ f[0] = x /\ \A k \in 1 .. n : f[k] = once(f[k - 1])
  <2>1. ASSUME NEW k \in 1 .. n PROVE f[k] = once(f[k - 1])
    <3>1. k \in Nat /\ f[k - 1] \in T /\ f[k] = step[<<k, f[k - 1]>>]
      BY <1>5 DEF IsCourse
    <3> QED BY <1>3, <3>1
  <2> QED BY <1>5, <2>1 DEF IsCourse
<1>7. loop = [i \in 0 .. n |-> IF i = 0 THEN x ELSE once(loop[i - 1])]
  <2>1. f = [i \in 0 .. n |-> IF i = 0 THEN x ELSE once(f[i - 1])]
    BY <1>6
  <2> QED BY <2>1, Zenon
<1> HIDE DEF loop
<1>8. StaysIn(loop, T, n)
  BY <1>4, <1>7 DEF StaysIn
<1> QED BY <1>2, <1>8, LoopStays

LEMMA RedoLoop ==
  ASSUME NEW T, NEW n \in Nat, NEW x \in T, \A y \in T : RedoEntry(y) \in T
  PROVE  Times(RedoEntry, n, x) \in T
<1> DEFINE once(y) == CHOOSE r \in {RedoEntry(z) : z \in {y}} : TRUE
           loop == CHOOSE it : it = [i \in 0 .. n |-> IF i = 0 THEN x ELSE once(it[i - 1])]
           step == [p \in Nat \X T |-> once(p[2])]
<1>1. \A y : once(y) = RedoEntry(y)
  OBVIOUS
<1>2. Times(RedoEntry, n, x) = loop[n]
  BY Zenon DEF Times, Once
<1> HIDE DEF once
<1>3. \A k \in Nat : \A y \in T : step[<<k, y>>] = once(y)
  OBVIOUS
<1> HIDE DEF step
<1>4. \A y \in T : once(y) \in T
  BY <1>1
<1>5. PICK f : IsCourse(f, T, x, step, n)
  <2>1. IsUpdate(step, T)
    BY <1>3, <1>4 DEF IsUpdate
  <2> QED BY <2>1, Recursion
<1>6. f \in [0 .. n -> T] /\ f[0] = x /\ \A k \in 1 .. n : f[k] = once(f[k - 1])
  <2>1. ASSUME NEW k \in 1 .. n PROVE f[k] = once(f[k - 1])
    <3>1. k \in Nat /\ f[k - 1] \in T /\ f[k] = step[<<k, f[k - 1]>>]
      BY <1>5 DEF IsCourse
    <3> QED BY <1>3, <3>1
  <2> QED BY <1>5, <2>1 DEF IsCourse
<1>7. loop = [i \in 0 .. n |-> IF i = 0 THEN x ELSE once(loop[i - 1])]
  <2>1. f = [i \in 0 .. n |-> IF i = 0 THEN x ELSE once(f[i - 1])]
    BY <1>6
  <2> QED BY <2>1, Zenon
<1> HIDE DEF loop
<1>8. StaysIn(loop, T, n)
  BY <1>4, <1>7 DEF StaysIn
<1> QED BY <1>2, <1>8, LoopStays

LEMMA UndoTimes ==
  ASSUME NEW T, NEW n \in Nat, NEW x \in T, \A y \in T : buf_undo(y) \in T
  PROVE  Times(buf_undo, n, x) \in T
<1> DEFINE once(y) == CHOOSE r \in {buf_undo(z) : z \in {y}} : TRUE
           loop == CHOOSE it : it = [i \in 0 .. n |-> IF i = 0 THEN x ELSE once(it[i - 1])]
           step == [p \in Nat \X T |-> once(p[2])]
<1>1. \A y : once(y) = buf_undo(y)
  OBVIOUS
<1>2. Times(buf_undo, n, x) = loop[n]
  BY Zenon DEF Times, Once
<1> HIDE DEF once
<1>3. \A k \in Nat : \A y \in T : step[<<k, y>>] = once(y)
  OBVIOUS
<1> HIDE DEF step
<1>4. \A y \in T : once(y) \in T
  BY <1>1
<1>5. PICK f : IsCourse(f, T, x, step, n)
  <2>1. IsUpdate(step, T)
    BY <1>3, <1>4 DEF IsUpdate
  <2> QED BY <2>1, Recursion
<1>6. f \in [0 .. n -> T] /\ f[0] = x /\ \A k \in 1 .. n : f[k] = once(f[k - 1])
  <2>1. ASSUME NEW k \in 1 .. n PROVE f[k] = once(f[k - 1])
    <3>1. k \in Nat /\ f[k - 1] \in T /\ f[k] = step[<<k, f[k - 1]>>]
      BY <1>5 DEF IsCourse
    <3> QED BY <1>3, <3>1
  <2> QED BY <1>5, <2>1 DEF IsCourse
<1>7. loop = [i \in 0 .. n |-> IF i = 0 THEN x ELSE once(loop[i - 1])]
  <2>1. f = [i \in 0 .. n |-> IF i = 0 THEN x ELSE once(f[i - 1])]
    BY <1>6
  <2> QED BY <2>1, Zenon
<1> HIDE DEF loop
<1>8. StaysIn(loop, T, n)
  BY <1>4, <1>7 DEF StaysIn
<1> QED BY <1>2, <1>8, LoopStays

LEMMA RedoTimes ==
  ASSUME NEW T, NEW n \in Nat, NEW x \in T, \A y \in T : buf_redo(y) \in T
  PROVE  Times(buf_redo, n, x) \in T
<1> DEFINE once(y) == CHOOSE r \in {buf_redo(z) : z \in {y}} : TRUE
           loop == CHOOSE it : it = [i \in 0 .. n |-> IF i = 0 THEN x ELSE once(it[i - 1])]
           step == [p \in Nat \X T |-> once(p[2])]
<1>1. \A y : once(y) = buf_redo(y)
  OBVIOUS
<1>2. Times(buf_redo, n, x) = loop[n]
  BY Zenon DEF Times, Once
<1> HIDE DEF once
<1>3. \A k \in Nat : \A y \in T : step[<<k, y>>] = once(y)
  OBVIOUS
<1> HIDE DEF step
<1>4. \A y \in T : once(y) \in T
  BY <1>1
<1>5. PICK f : IsCourse(f, T, x, step, n)
  <2>1. IsUpdate(step, T)
    BY <1>3, <1>4 DEF IsUpdate
  <2> QED BY <2>1, Recursion
<1>6. f \in [0 .. n -> T] /\ f[0] = x /\ \A k \in 1 .. n : f[k] = once(f[k - 1])
  <2>1. ASSUME NEW k \in 1 .. n PROVE f[k] = once(f[k - 1])
    <3>1. k \in Nat /\ f[k - 1] \in T /\ f[k] = step[<<k, f[k - 1]>>]
      BY <1>5 DEF IsCourse
    <3> QED BY <1>3, <3>1
  <2> QED BY <1>5, <2>1 DEF IsCourse
<1>7. loop = [i \in 0 .. n |-> IF i = 0 THEN x ELSE once(loop[i - 1])]
  <2>1. f = [i \in 0 .. n |-> IF i = 0 THEN x ELSE once(f[i - 1])]
    BY <1>6
  <2> QED BY <2>1, Zenon
<1> HIDE DEF loop
<1>8. StaysIn(loop, T, n)
  BY <1>4, <1>7 DEF StaysIn
<1> QED BY <1>2, <1>8, LoopStays

LEMMA PasteTimes ==
  ASSUME NEW T, NEW n \in Nat, NEW x \in T, \A y \in T : PasteOnce(y) \in T
  PROVE  Times(PasteOnce, n, x) \in T
<1> DEFINE once(y) == CHOOSE r \in {PasteOnce(z) : z \in {y}} : TRUE
           loop == CHOOSE it : it = [i \in 0 .. n |-> IF i = 0 THEN x ELSE once(it[i - 1])]
           step == [p \in Nat \X T |-> once(p[2])]
<1>1. \A y : once(y) = PasteOnce(y)
  OBVIOUS
<1>2. Times(PasteOnce, n, x) = loop[n]
  BY Zenon DEF Times, Once
<1> HIDE DEF once
<1>3. \A k \in Nat : \A y \in T : step[<<k, y>>] = once(y)
  OBVIOUS
<1> HIDE DEF step
<1>4. \A y \in T : once(y) \in T
  BY <1>1
<1>5. PICK f : IsCourse(f, T, x, step, n)
  <2>1. IsUpdate(step, T)
    BY <1>3, <1>4 DEF IsUpdate
  <2> QED BY <2>1, Recursion
<1>6. f \in [0 .. n -> T] /\ f[0] = x /\ \A k \in 1 .. n : f[k] = once(f[k - 1])
  <2>1. ASSUME NEW k \in 1 .. n PROVE f[k] = once(f[k - 1])
    <3>1. k \in Nat /\ f[k - 1] \in T /\ f[k] = step[<<k, f[k - 1]>>]
      BY <1>5 DEF IsCourse
    <3> QED BY <1>3, <3>1
  <2> QED BY <1>5, <2>1 DEF IsCourse
<1>7. loop = [i \in 0 .. n |-> IF i = 0 THEN x ELSE once(loop[i - 1])]
  <2>1. f = [i \in 0 .. n |-> IF i = 0 THEN x ELSE once(f[i - 1])]
    BY <1>6
  <2> QED BY <2>1, Zenon
<1> HIDE DEF loop
<1>8. StaysIn(loop, T, n)
  BY <1>4, <1>7 DEF StaysIn
<1> QED BY <1>2, <1>8, LoopStays

LEMMA JoinTimes ==
  ASSUME NEW T, NEW n \in Nat, NEW x \in T, \A y \in T : JoinOnce(y) \in T
  PROVE  Times(JoinOnce, n, x) \in T
<1> DEFINE once(y) == CHOOSE r \in {JoinOnce(z) : z \in {y}} : TRUE
           loop == CHOOSE it : it = [i \in 0 .. n |-> IF i = 0 THEN x ELSE once(it[i - 1])]
           step == [p \in Nat \X T |-> once(p[2])]
<1>1. \A y : once(y) = JoinOnce(y)
  OBVIOUS
<1>2. Times(JoinOnce, n, x) = loop[n]
  BY Zenon DEF Times, Once
<1> HIDE DEF once
<1>3. \A k \in Nat : \A y \in T : step[<<k, y>>] = once(y)
  OBVIOUS
<1> HIDE DEF step
<1>4. \A y \in T : once(y) \in T
  BY <1>1
<1>5. PICK f : IsCourse(f, T, x, step, n)
  <2>1. IsUpdate(step, T)
    BY <1>3, <1>4 DEF IsUpdate
  <2> QED BY <2>1, Recursion
<1>6. f \in [0 .. n -> T] /\ f[0] = x /\ \A k \in 1 .. n : f[k] = once(f[k - 1])
  <2>1. ASSUME NEW k \in 1 .. n PROVE f[k] = once(f[k - 1])
    <3>1. k \in Nat /\ f[k - 1] \in T /\ f[k] = step[<<k, f[k - 1]>>]
      BY <1>5 DEF IsCourse
    <3> QED BY <1>3, <3>1
  <2> QED BY <1>5, <2>1 DEF IsCourse
<1>7. loop = [i \in 0 .. n |-> IF i = 0 THEN x ELSE once(loop[i - 1])]
  <2>1. f = [i \in 0 .. n |-> IF i = 0 THEN x ELSE once(f[i - 1])]
    BY <1>6
  <2> QED BY <2>1, Zenon
<1> HIDE DEF loop
<1>8. StaysIn(loop, T, n)
  BY <1>4, <1>7 DEF StaysIn
<1> QED BY <1>2, <1>8, LoopStays

LEMMA ToggleTimes ==
  ASSUME NEW T, NEW n \in Nat, NEW x \in T, \A y \in T : ToggleOnce(y) \in T
  PROVE  Times(ToggleOnce, n, x) \in T
<1> DEFINE once(y) == CHOOSE r \in {ToggleOnce(z) : z \in {y}} : TRUE
           loop == CHOOSE it : it = [i \in 0 .. n |-> IF i = 0 THEN x ELSE once(it[i - 1])]
           step == [p \in Nat \X T |-> once(p[2])]
<1>1. \A y : once(y) = ToggleOnce(y)
  OBVIOUS
<1>2. Times(ToggleOnce, n, x) = loop[n]
  BY Zenon DEF Times, Once
<1> HIDE DEF once
<1>3. \A k \in Nat : \A y \in T : step[<<k, y>>] = once(y)
  OBVIOUS
<1> HIDE DEF step
<1>4. \A y \in T : once(y) \in T
  BY <1>1
<1>5. PICK f : IsCourse(f, T, x, step, n)
  <2>1. IsUpdate(step, T)
    BY <1>3, <1>4 DEF IsUpdate
  <2> QED BY <2>1, Recursion
<1>6. f \in [0 .. n -> T] /\ f[0] = x /\ \A k \in 1 .. n : f[k] = once(f[k - 1])
  <2>1. ASSUME NEW k \in 1 .. n PROVE f[k] = once(f[k - 1])
    <3>1. k \in Nat /\ f[k - 1] \in T /\ f[k] = step[<<k, f[k - 1]>>]
      BY <1>5 DEF IsCourse
    <3> QED BY <1>3, <3>1
  <2> QED BY <1>5, <2>1 DEF IsCourse
<1>7. loop = [i \in 0 .. n |-> IF i = 0 THEN x ELSE once(loop[i - 1])]
  <2>1. f = [i \in 0 .. n |-> IF i = 0 THEN x ELSE once(f[i - 1])]
    BY <1>6
  <2> QED BY <2>1, Zenon
<1> HIDE DEF loop
<1>8. StaysIn(loop, T, n)
  BY <1>4, <1>7 DEF StaysIn
<1> QED BY <1>2, <1>8, LoopStays

LEMMA WordMotionIn ==
  ASSUME NEW T, NEW n \in Nat, NEW x \in T, NEW t, NEW k,
         \A y \in T : /\ word_forward_pos(t, k \in {"W", "B", "E"}, y) \in T
                     /\ word_backward_pos(t, k \in {"W", "B", "E"}, y) \in T
                     /\ word_end_pos(t, k \in {"W", "B", "E"}, y) \in T
  PROVE  WordMotion(t, k, n, x) \in T
<1> DEFINE once(y) == CHOOSE r \in {CASE k \in {"w", "W"} -> word_forward_pos(t, k \in {"W", "B", "E"}, z)
                            [] k \in {"b", "B"} -> word_backward_pos(t, k \in {"W", "B", "E"}, z)
                            [] OTHER -> word_end_pos(t, k \in {"W", "B", "E"}, z) : z \in {y}} : TRUE
           loop == CHOOSE it : it = [i \in 0 .. n |-> IF i = 0 THEN x ELSE once(it[i - 1])]
           step == [p \in Nat \X T |-> once(p[2])]
<1>1. \A y : once(y) = CASE k \in {"w", "W"} -> word_forward_pos(t, k \in {"W", "B", "E"}, y)
                            [] k \in {"b", "B"} -> word_backward_pos(t, k \in {"W", "B", "E"}, y)
                            [] OTHER -> word_end_pos(t, k \in {"W", "B", "E"}, y)
  OBVIOUS
<1>2. WordMotion(t, k, n, x) = loop[n]
  BY Zenon DEF WordMotion, Times, Once
<1> HIDE DEF once
<1>3. \A i \in Nat : \A y \in T : step[<<i, y>>] = once(y)
  OBVIOUS
<1> HIDE DEF step
<1>4. \A y \in T : once(y) \in T
  BY <1>1
<1>5. PICK f : IsCourse(f, T, x, step, n)
  <2>1. IsUpdate(step, T)
    BY <1>3, <1>4 DEF IsUpdate
  <2> QED BY <2>1, Recursion
<1>6. f \in [0 .. n -> T] /\ f[0] = x /\ \A i \in 1 .. n : f[i] = once(f[i - 1])
  <2>1. ASSUME NEW i \in 1 .. n PROVE f[i] = once(f[i - 1])
    <3>1. i \in Nat /\ f[i - 1] \in T /\ f[i] = step[<<i, f[i - 1]>>]
      BY <1>5 DEF IsCourse
    <3> QED BY <1>3, <3>1
  <2> QED BY <1>5, <2>1 DEF IsCourse
<1>7. loop = [i \in 0 .. n |-> IF i = 0 THEN x ELSE once(loop[i - 1])]
  <2>1. f = [i \in 0 .. n |-> IF i = 0 THEN x ELSE once(f[i - 1])]
    BY <1>6
  <2> QED BY <2>1, Zenon
<1> HIDE DEF loop
<1>8. StaysIn(loop, T, n)
  BY <1>4, <1>7 DEF StaysIn
<1> QED BY <1>2, <1>8, LoopStays

LEMMA ToggleAllIn ==
  ASSUME NEW T, NEW seq, Len(seq) \in Nat, NEW x \in T,
         \A k \in 1 .. Len(seq) : \A y \in T : ToggleAt(y, seq[k]) \in T
  PROVE  ForEach(ToggleAt, x, seq) \in T
<1> DEFINE n == Len(seq)
           once(i, y) == CHOOSE r \in {ToggleAt(z, seq[i]) : z \in {y}} : TRUE
           loop == CHOOSE it : it = [i \in 0 .. n |-> IF i = 0 THEN x ELSE once(i, it[i - 1])]
           step == [kt \in Nat \X T |-> IF kt[1] \in 1 .. n THEN once(kt[1], kt[2]) ELSE x]
<1>0. n \in Nat
  BY Len(seq) \in Nat
<1>1. \A k \in 1 .. n : \A y : once(k, y) = ToggleAt(y, seq[k])
  OBVIOUS
<1>2. ForEach(ToggleAt, x, seq) = loop[n]
  BY Zenon DEF ForEach, Once
<1> HIDE DEF n
<1> HIDE DEF once
<1>3. \A k \in Nat : \A y \in T : step[<<k, y>>] = IF k \in 1 .. n THEN once(k, y) ELSE x
  OBVIOUS
<1> HIDE DEF step
<1>4. \A k \in 1 .. n : \A y \in T : once(k, y) \in T
  BY <1>0, <1>1 DEF n
<1>5. PICK f : IsCourse(f, T, x, step, n)
  <2>1. IsUpdate(step, T)
    BY <1>3, <1>4 DEF IsUpdate
  <2> QED BY <1>0, <2>1, Recursion
<1>6. f \in [0 .. n -> T] /\ f[0] = x /\ \A k \in 1 .. n : f[k] = once(k, f[k - 1])
  <2>1. ASSUME NEW k \in 1 .. n PROVE f[k] = once(k, f[k - 1])
    <3>1. k \in Nat /\ f[k - 1] \in T /\ f[k] = step[<<k, f[k - 1]>>]
      BY <1>0, <1>5 DEF IsCourse
    <3> QED BY <1>3, <3>1
  <2> QED BY <1>5, <2>1 DEF IsCourse
<1>7. loop = [i \in 0 .. n |-> IF i = 0 THEN x ELSE once(i, loop[i - 1])]
  <2>1. f = [i \in 0 .. n |-> IF i = 0 THEN x ELSE once(i, f[i - 1])]
    BY <1>0, <1>6
  <2> QED BY <2>1, Zenon
<1> HIDE DEF loop
<1>8. StaysIn(loop, T, n)
  BY <1>0, <1>4, <1>7 DEF StaysIn
<1> QED BY <1>0, <1>2, <1>8, LoopStays

\* r and >: the loops of ReplaceKey and ShiftLines.
PutAll(x, seq, c) ==
  LET Put(buffer, p) == buf_insert(buf_delete_fwd(buf_move_to(buffer, p)), c)
  IN  ForEach(Put, x, seq)
ShiftAll(x, seq, k) ==
  LET Shift(buffer, line) == IF k = ">" THEN Indent(buffer, line) ELSE Outdent(buffer, line)
  IN  ForEach(Shift, x, seq)

LEMMA PutAllIn ==
  ASSUME NEW T, NEW seq, Len(seq) \in Nat, NEW x \in T, NEW c,
         \A k \in 1 .. Len(seq) : \A y \in T :
           buf_insert(buf_delete_fwd(buf_move_to(y, seq[k])), c) \in T
  PROVE  PutAll(x, seq, c) \in T
<1> DEFINE n == Len(seq)
           once(i, y) == CHOOSE r \in {buf_insert(buf_delete_fwd(buf_move_to(z, seq[i])), c) : z \in {y}} : TRUE
           loop == CHOOSE it : it = [i \in 0 .. n |-> IF i = 0 THEN x ELSE once(i, it[i - 1])]
           step == [kt \in Nat \X T |-> IF kt[1] \in 1 .. n THEN once(kt[1], kt[2]) ELSE x]
<1>0. n \in Nat
  BY Len(seq) \in Nat
<1>1. \A k \in 1 .. n : \A y : once(k, y) = buf_insert(buf_delete_fwd(buf_move_to(y, seq[k])), c)
  OBVIOUS
<1>2. PutAll(x, seq, c) = loop[n]
  BY Zenon DEF PutAll, ForEach, Once
<1> HIDE DEF n
<1> HIDE DEF once
<1>3. \A k \in Nat : \A y \in T : step[<<k, y>>] = IF k \in 1 .. n THEN once(k, y) ELSE x
  OBVIOUS
<1> HIDE DEF step
<1>4. \A k \in 1 .. n : \A y \in T : once(k, y) \in T
  BY <1>0, <1>1 DEF n
<1>5. PICK f : IsCourse(f, T, x, step, n)
  <2>1. IsUpdate(step, T)
    BY <1>3, <1>4 DEF IsUpdate
  <2> QED BY <1>0, <2>1, Recursion
<1>6. f \in [0 .. n -> T] /\ f[0] = x /\ \A k \in 1 .. n : f[k] = once(k, f[k - 1])
  <2>1. ASSUME NEW k \in 1 .. n PROVE f[k] = once(k, f[k - 1])
    <3>1. k \in Nat /\ f[k - 1] \in T /\ f[k] = step[<<k, f[k - 1]>>]
      BY <1>0, <1>5 DEF IsCourse
    <3> QED BY <1>3, <3>1
  <2> QED BY <1>5, <2>1 DEF IsCourse
<1>7. loop = [i \in 0 .. n |-> IF i = 0 THEN x ELSE once(i, loop[i - 1])]
  <2>1. f = [i \in 0 .. n |-> IF i = 0 THEN x ELSE once(i, f[i - 1])]
    BY <1>0, <1>6
  <2> QED BY <2>1, Zenon
<1> HIDE DEF loop
<1>8. StaysIn(loop, T, n)
  BY <1>0, <1>4, <1>7 DEF StaysIn
<1> QED BY <1>0, <1>2, <1>8, LoopStays

LEMMA ShiftAllIn ==
  ASSUME NEW T, NEW seq, Len(seq) \in Nat, NEW x \in T, NEW key,
         \A k \in 1 .. Len(seq) : \A y \in T :
           Indent(y, seq[k]) \in T /\ Outdent(y, seq[k]) \in T
  PROVE  ShiftAll(x, seq, key) \in T
<1> DEFINE n == Len(seq)
           once(i, y) == CHOOSE r \in {IF key = ">" THEN Indent(z, seq[i]) ELSE Outdent(z, seq[i]) : z \in {y}} : TRUE
           loop == CHOOSE it : it = [i \in 0 .. n |-> IF i = 0 THEN x ELSE once(i, it[i - 1])]
           step == [kt \in Nat \X T |-> IF kt[1] \in 1 .. n THEN once(kt[1], kt[2]) ELSE x]
<1>0. n \in Nat
  BY Len(seq) \in Nat
<1>1. \A k \in 1 .. n : \A y : once(k, y) = IF key = ">" THEN Indent(y, seq[k]) ELSE Outdent(y, seq[k])
  OBVIOUS
<1>2. ShiftAll(x, seq, key) = loop[n]
  BY Zenon DEF ShiftAll, ForEach, Once
<1> HIDE DEF n
<1> HIDE DEF once
<1>3. \A k \in Nat : \A y \in T : step[<<k, y>>] = IF k \in 1 .. n THEN once(k, y) ELSE x
  OBVIOUS
<1> HIDE DEF step
<1>4. \A k \in 1 .. n : \A y \in T : once(k, y) \in T
  BY <1>0, <1>1 DEF n
<1>5. PICK f : IsCourse(f, T, x, step, n)
  <2>1. IsUpdate(step, T)
    BY <1>3, <1>4 DEF IsUpdate
  <2> QED BY <1>0, <2>1, Recursion
<1>6. f \in [0 .. n -> T] /\ f[0] = x /\ \A k \in 1 .. n : f[k] = once(k, f[k - 1])
  <2>1. ASSUME NEW k \in 1 .. n PROVE f[k] = once(k, f[k - 1])
    <3>1. k \in Nat /\ f[k - 1] \in T /\ f[k] = step[<<k, f[k - 1]>>]
      BY <1>0, <1>5 DEF IsCourse
    <3> QED BY <1>3, <3>1
  <2> QED BY <1>5, <2>1 DEF IsCourse
<1>7. loop = [i \in 0 .. n |-> IF i = 0 THEN x ELSE once(i, loop[i - 1])]
  <2>1. f = [i \in 0 .. n |-> IF i = 0 THEN x ELSE once(i, f[i - 1])]
    BY <1>0, <1>6
  <2> QED BY <2>1, Zenon
<1> HIDE DEF loop
<1>8. StaysIn(loop, T, n)
  BY <1>0, <1>4, <1>7 DEF StaysIn
<1> QED BY <1>0, <1>2, <1>8, LoopStays

-----------------------------------------------------------------------------
(* Lines and positions.                                                    *)

LEMMA NewlinesType ==
  ASSUME NEW t \in Texts
  PROVE  /\ Len(t) \in Nat /\ NewlinesIn(t) \subseteq 1 .. Len(t)
         /\ IsFiniteSet(NewlinesIn(t)) /\ Cardinality(NewlinesIn(t)) \in Nat
<1>1. Len(t) \in Nat
  BY LenProperties DEF Texts
<1>2. NewlinesIn(t) \subseteq 1 .. Len(t)
  BY DEF NewlinesIn
<1>3. IsFiniteSet(NewlinesIn(t))
  <2>1. IsFiniteSet(1 .. Len(t))
    BY <1>1, FS_Interval
  <2> QED BY <1>2, <2>1, FS_Subset
<1> QED BY <1>1, <1>2, <1>3, FS_CardinalityType

\* The members of ends up to p, and how their number grows with p.
UpTo(ends, p) == {j \in ends : j <= p}

LEMMA UpToGrows ==
  ASSUME NEW N \in Nat, NEW ends, ends \subseteq 1 .. N, NEW p \in Nat, NEW q \in Nat, p <= q
  PROVE  /\ IsFiniteSet(UpTo(ends, p)) /\ Cardinality(UpTo(ends, p)) \in Nat
         /\ Cardinality(UpTo(ends, p)) <= Cardinality(UpTo(ends, q))
         /\ Cardinality(UpTo(ends, q)) \in Nat
         /\ p < q /\ q \in ends => Cardinality(UpTo(ends, p)) < Cardinality(UpTo(ends, q))
<1>1. IsFiniteSet(ends)
  <2>1. IsFiniteSet(1 .. N)
    BY FS_Interval
  <2> QED BY <2>1, FS_Subset
<1>2. IsFiniteSet(UpTo(ends, p)) /\ IsFiniteSet(UpTo(ends, q))
  BY <1>1, FS_Subset DEF UpTo
<1>3. UpTo(ends, p) \subseteq UpTo(ends, q)
  <2> SUFFICES ASSUME NEW j \in ends, j <= p PROVE j <= q
    BY DEF UpTo
  <2> QED OBVIOUS
<1>4. /\ Cardinality(UpTo(ends, p)) \in Nat /\ Cardinality(UpTo(ends, q)) \in Nat
      /\ Cardinality(UpTo(ends, p)) <= Cardinality(UpTo(ends, q))
      /\ Cardinality(UpTo(ends, p)) = Cardinality(UpTo(ends, q)) => UpTo(ends, p) = UpTo(ends, q)
  BY <1>2, <1>3, FS_Subset, FS_CardinalityType
<1>5. ASSUME p < q, q \in ends PROVE UpTo(ends, p) # UpTo(ends, q)
  BY <1>5 DEF UpTo
<1> QED BY <1>2, <1>4, <1>5

\* Between two neighbours at most one member is added.
LEMMA UpToStep ==
  ASSUME NEW N \in Nat, NEW ends, ends \subseteq 1 .. N, NEW p \in Nat \ {0}
  PROVE  /\ p \notin ends => UpTo(ends, p) = UpTo(ends, p - 1)
         /\ Cardinality(UpTo(ends, p)) <= Cardinality(UpTo(ends, p - 1)) + 1
<1>1. p - 1 \in Nat /\ p \in Nat
  OBVIOUS
<1>2. IsFiniteSet(UpTo(ends, p - 1)) /\ Cardinality(UpTo(ends, p - 1)) \in Nat
  <2>1. PICK o \in Nat : o = p - 1
    BY <1>1
  <2>2. o <= p
    BY <2>1
  <2>3. IsFiniteSet(UpTo(ends, o)) /\ Cardinality(UpTo(ends, o)) \in Nat
    BY <1>1, <2>2, UpToGrows
  <2> QED BY <2>1, <2>3
<1>3. CASE p \notin ends
  <2>1. UpTo(ends, p) = UpTo(ends, p - 1)
    <3>1. \A j \in ends : j <= p <=> j <= p - 1
      BY <1>3
    <3> QED BY <3>1, Zenon DEF UpTo
  <2> QED BY <1>2, <2>1
<1>4. CASE p \in ends
  <2>1. UpTo(ends, p) = UpTo(ends, p - 1) \cup {p}
    <3>1. \A j \in ends : j <= p <=> j <= p - 1 \/ j = p
      BY <1>4
    <3> QED BY <1>4, <3>1, Zenon DEF UpTo
  <2>2. p \notin UpTo(ends, p - 1)
    BY DEF UpTo
  <2>3. Cardinality(UpTo(ends, p)) = Cardinality(UpTo(ends, p - 1)) + 1
    BY <1>2, <2>1, <2>2, FS_AddElement
  <2> QED BY <1>2, <1>4, <2>3
<1> QED BY <1>3, <1>4

\* Among N positions the one that ends the given line.
LEMMA LineEndExists ==
  ASSUME NEW N \in Nat, NEW ends, ends \subseteq 1 .. N, NEW line \in Nat \ {0},
         line <= Cardinality(ends)
  PROVE  \E i \in ends : Cardinality(UpTo(ends, i)) = line
<1> DEFINE S == {i \in Nat : line <= Cardinality(UpTo(ends, i))}
<1>1. N \in S
  <2>1. UpTo(ends, N) = ends
    <3>1. \A j \in ends : j <= N
      OBVIOUS
    <3> QED BY <3>1, Zenon DEF UpTo
  <2> QED BY <2>1
<1>2. PICK i \in S : \A j \in S : i <= j
  BY <1>1, HasLeast
<1>3. i # 0
  <2>1. UpTo(ends, 0) = {}
    <3>1. \A j \in ends : ~(j <= 0)
      OBVIOUS
    <3> QED BY <3>1, Zenon DEF UpTo
  <2> QED BY <1>2, <2>1, FS_EmptySet
<1>4. i - 1 \in Nat /\ i - 1 \notin S /\ i \in Nat \ {0}
  BY <1>2, <1>3
<1>5. Cardinality(UpTo(ends, i - 1)) \in Nat /\ Cardinality(UpTo(ends, i)) \in Nat
  <2>1. PICK o \in Nat : o = i - 1
    BY <1>4
  <2>2. o <= i
    BY <1>4, <2>1
  <2>3. Cardinality(UpTo(ends, o)) \in Nat /\ Cardinality(UpTo(ends, i)) \in Nat
    BY <1>4, <2>2, UpToGrows
  <2> QED BY <2>1, <2>3
<1>6. Cardinality(UpTo(ends, i - 1)) < line /\ line <= Cardinality(UpTo(ends, i))
  BY <1>2, <1>4, <1>5
<1>7. Cardinality(UpTo(ends, i)) <= Cardinality(UpTo(ends, i - 1)) + 1
  BY <1>4, UpToStep
<1>8. i \in ends
  BY <1>4, <1>5, <1>6, UpToStep
<1> QED BY <1>5, <1>6, <1>7, <1>8

\* The start of a line that is not the first and ends with a newline.
LEMMA InnerLineStart ==
  ASSUME NEW x \in Buffers, NEW line \in Nat \ {0},
         line <= Cardinality(NewlinesIn(buf_text(x)))
  PROVE  /\ buf_line_start(x, line) \in NewlinesIn(buf_text(x))
         /\ Cardinality(UpTo(NewlinesIn(buf_text(x)), buf_line_start(x, line))) = line
<1> DEFINE ends == NewlinesIn(buf_text(x))
<1>1. ends \subseteq 1 .. buf_length(x) /\ buf_length(x) \in Nat /\ Cardinality(ends) \in Nat
  BY TextType, NewlinesType
<1>2. PICK i \in ends : Cardinality(UpTo(ends, i)) = line
  BY <1>1, LineEndExists
<1>3. buf_line_start(x, line) = CHOOSE j \in ends : Cardinality(UpTo(ends, j)) = line
  <2>1. line # 0 /\ ~(line > Cardinality(ends))
    BY <1>1
  <2> QED BY <2>1, Zenon DEF buf_line_start, UpTo
<1> HIDE DEF ends
<1>4. buf_line_start(x, line) \in ends /\ Cardinality(UpTo(ends, buf_line_start(x, line))) = line
  BY <1>2, <1>3, Zenon
<1> QED BY <1>4 DEF ends

LEMMA LineStart ==
  ASSUME NEW x \in Buffers, NEW line \in Nat
  PROVE  buf_line_start(x, line) \in 0 .. buf_length(x)
<1> DEFINE ends == NewlinesIn(buf_text(x))
<1>1. ends \subseteq 1 .. buf_length(x) /\ buf_length(x) \in Nat /\ Cardinality(ends) \in Nat
  BY TextType, NewlinesType
<1>2. CASE line = 0
  BY <1>1, <1>2 DEF buf_line_start
<1>3. CASE line # 0 /\ line > Cardinality(ends)
  BY <1>1, <1>3 DEF buf_line_start
<1>4. CASE line # 0 /\ line <= Cardinality(ends)
  <2>1. buf_line_start(x, line) \in ends
    BY <1>4, InnerLineStart
  <2> QED BY <1>1, <2>1
<1> QED BY <1>1, <1>2, <1>3, <1>4

LEMMA LineStartsOrdered ==
  ASSUME NEW x \in Buffers, NEW l \in Nat, NEW m \in Nat, l <= m
  PROVE  buf_line_start(x, l) <= buf_line_start(x, m)
<1> DEFINE ends == NewlinesIn(buf_text(x))
<1>1. ends \subseteq 1 .. buf_length(x) /\ buf_length(x) \in Nat /\ Cardinality(ends) \in Nat
  BY TextType, NewlinesType
<1>2. PICK p \in 0 .. buf_length(x) : p = buf_line_start(x, l)
  BY LineStart
<1>3. PICK q \in 0 .. buf_length(x) : q = buf_line_start(x, m)
  BY LineStart
<1>4. CASE l = 0
  BY <1>1, <1>2, <1>3, <1>4 DEF buf_line_start
<1>5. CASE m > Cardinality(ends) /\ m # 0
  <2>1. q = buf_length(x)
    BY <1>1, <1>3, <1>5 DEF buf_line_start
  <2> QED BY <1>1, <1>2, <1>3, <2>1
<1>6. CASE l # 0 /\ m <= Cardinality(ends)
  <2>1. p \in ends /\ Cardinality(UpTo(ends, p)) = l
    BY <1>1, <1>2, <1>6, InnerLineStart
  <2>2. q \in ends /\ Cardinality(UpTo(ends, q)) = m
    BY <1>1, <1>3, <1>6, InnerLineStart
  <2>3. SUFFICES ASSUME q < p PROVE FALSE
    BY <1>1, <1>2, <1>3
  <2>4. Cardinality(UpTo(ends, q)) < Cardinality(UpTo(ends, p))
    <3>1. q \in Nat /\ p \in Nat /\ q <= p
      BY <2>3, <1>1
    <3> HIDE DEF ends
    <3> QED BY <1>1, <2>1, <2>3, <3>1, UpToGrows
  <2> QED BY <2>1, <2>2, <2>4
<1> QED BY <1>1, <1>4, <1>5, <1>6

LEMMA LineLength ==
  ASSUME NEW x \in Buffers, NEW line \in Nat
  PROVE  /\ buf_line_length(x, line) \in Nat
         /\ LineEnd(x, line) \in buf_line_start(x, line) .. buf_length(x)
<1> DEFINE ends == NewlinesIn(buf_text(x))
           S == {buf_length(x)} \cup {i - 1 : i \in {j \in ends : j > buf_line_start(x, line)}}
<1>1. ends \subseteq 1 .. buf_length(x) /\ buf_length(x) \in Nat
  BY TextType, NewlinesType
<1>2. PICK start \in 0 .. buf_length(x) : start = buf_line_start(x, line)
  BY LineStart
<1>3. S \subseteq start .. buf_length(x) /\ S \subseteq Nat /\ S # {}
  BY <1>1, <1>2
<1>4. buf_line_length(x, line) = Min(S) - start
  BY <1>2 DEF buf_line_length
<1> HIDE DEF S
<1>5. Min(S) \in start .. buf_length(x)
  BY <1>3, MinIn
<1> QED BY <1>1, <1>2, <1>4, <1>5 DEF LineEnd

LEMMA CursorLine ==
  ASSUME NEW x \in Buffers
  PROVE  /\ buf_cursor_line(x) \in Nat /\ buf_cursor_col(x) \in Nat
         /\ buf_line_count(x) - 1 \in Nat /\ buf_cursor_line(x) <= buf_line_count(x) - 1
<1>1. x.left \in Seq(Chars) /\ x.right \in Seq(Chars) /\ buf_text(x) \in Seq(Chars)
  BY TextType DEF Buffers, Texts
<1>2. PICK l \in Nat : l = Len(x.left)
  BY <1>1, LenProperties
<1>3. PICK n \in Nat : n = Cardinality(NewlinesIn(buf_text(x)))
  BY <1>1, NewlinesType DEF Texts
<1>4. PICK m \in Nat : m = Cardinality(NewlinesIn(x.left))
  BY <1>1, NewlinesType DEF Texts
<1>5. buf_cursor_line(x) = m
  BY <1>4, Zenon DEF buf_cursor_line
<1>6. buf_line_count(x) - 1 = n
  <2>1. buf_line_count(x) = 1 + n
    BY <1>3, Zenon DEF buf_line_count
  <2> QED BY <2>1
<1>7. m <= n
  <2>1. NewlinesIn(x.left) \subseteq NewlinesIn(buf_text(x))
    <3> SUFFICES ASSUME NEW i \in NewlinesIn(x.left) PROVE i \in NewlinesIn(buf_text(x))
      OBVIOUS
    <3>1. i \in 1 .. Len(x.left) /\ x.left[i] = Newline
      BY DEF NewlinesIn
    <3>2. (x.left \o x.right)[i] = x.left[i] /\ i \in 1 .. Len(x.left \o x.right)
      <4>1. PICK r \in Nat : r = Len(x.right)
        BY <1>1, LenProperties
      <4>2. Len(x.left \o x.right) = l + r
        BY <1>1, <1>2, <4>1, ConcatProperties
      <4>3. i \in 1 .. l + r /\ i <= l
        BY <1>2, <3>1
      <4>4. i \in 1 .. Len(x.left) + Len(x.right)
        BY <1>2, <4>1, <4>3, Zenon
      <4> QED BY <1>1, <3>1, <4>2, <4>3, <4>4, ConcatProperties
    <3> QED BY <3>1, <3>2 DEF NewlinesIn, buf_text
  <2>2. IsFiniteSet(NewlinesIn(buf_text(x)))
    BY <1>1, NewlinesType DEF Texts
  <2>3. Cardinality(NewlinesIn(x.left)) <= Cardinality(NewlinesIn(buf_text(x)))
    BY <2>1, <2>2, FS_Subset
  <2> QED BY <1>3, <1>4, <2>3
<1>8. buf_cursor_col(x) \in Nat
  <2> DEFINE S == {0} \cup NewlinesIn(x.left)
  <2>1. S \subseteq 0 .. l /\ S # {}
    BY <1>2 DEF NewlinesIn
  <2>2. buf_cursor_col(x) = l - Max(S)
    BY <1>2, Zenon DEF buf_cursor_col
  <2> HIDE DEF S
  <2>3. Max(S) \in 0 .. l
    BY <2>1, MaxIn
  <2> QED BY <2>2, <2>3
<1> QED BY <1>5, <1>6, <1>7, <1>8

\* Where the runs of one character class begin and end.
LEMMA RunEndIn ==
  ASSUME NEW t \in Texts, NEW big, NEW class, NEW pos \in 0 .. Len(t)
  PROVE  RunEnd(t, big, class, pos) \in pos .. Len(t)
<1> DEFINE S == {q \in pos .. Len(t) : q = Len(t) \/ Class(big, t[q + 1]) # class}
<1>1. Len(t) \in Nat
  BY LenProperties DEF Texts
<1>2. Len(t) \in S /\ S \subseteq pos .. Len(t) /\ S \subseteq Nat
  BY <1>1
<1>3. RunEnd(t, big, class, pos) = Min(S)
  BY DEF RunEnd
<1> HIDE DEF S
<1> QED BY <1>2, <1>3, MinIn

LEMMA RunStartIn ==
  ASSUME NEW t, NEW big, NEW class, NEW pos \in Nat
  PROVE  RunStart(t, big, class, pos) \in 0 .. pos
<1> DEFINE S == {q \in 0 .. pos : q = 0 \/ Class(big, t[q]) # class}
<1>1. 0 \in S /\ S \subseteq 0 .. pos
  OBVIOUS
<1>2. RunStart(t, big, class, pos) = Max(S)
  BY DEF RunStart
<1> HIDE DEF S
<1> QED BY <1>1, <1>2, MaxIn

\* A word motion stays in the text.
LEMMA WordStepsIn ==
  ASSUME NEW t \in Texts, NEW big, NEW pos \in 0 .. Len(t)
  PROVE  /\ word_forward_pos(t, big, pos) \in 0 .. Len(t)
         /\ word_backward_pos(t, big, pos) \in 0 .. Len(t)
         /\ word_end_pos(t, big, pos) \in 0 .. Len(t)
<1>1. PICK n \in Nat : n = Len(t)
  BY LenProperties DEF Texts
<1>2. word_forward_pos(t, big, pos) \in 0 .. n
  <2>1. PICK e : e = RunEnd(t, big, Class(big, t[pos + 1]), pos)
    OBVIOUS
  <2>2. e \in 0 .. Len(t)
    BY <1>1, <2>1, RunEndIn
  <2>3. RunEnd(t, big, "white", e) \in 0 .. Len(t)
    BY <1>1, <2>2, RunEndIn
  <2> QED BY <1>1, <2>1, <2>3 DEF word_forward_pos
<1>3. word_backward_pos(t, big, pos) \in 0 .. n
  <2>1. CASE pos = 0
    BY <1>1, <2>1 DEF word_backward_pos
  <2>2. CASE pos # 0
    <3> DEFINE S == {q \in 0 .. pos - 1 : q = 0 \/ ~is_whitespace(t[q + 1])}
    <3>1. pos - 1 \in Nat /\ pos <= n
      BY <1>1, <2>2
    <3>2. 0 \in S /\ S \subseteq 0 .. pos - 1
      BY <3>1
    <3> HIDE DEF S
    <3>3. PICK on : on = Max(S)
      OBVIOUS
    <3>4. on \in 0 .. pos - 1
      BY <3>1, <3>2, <3>3, MaxIn
    <3>5. RunStart(t, big, Class(big, t[on + 1]), on) \in 0 .. on
      BY <3>1, <3>4, RunStartIn
    <3>6. \/ word_backward_pos(t, big, pos) = 0
          \/ word_backward_pos(t, big, pos) = RunStart(t, big, Class(big, t[on + 1]), on)
      BY <3>3, Zenon DEF word_backward_pos, S
    <3> QED BY <3>1, <3>4, <3>5, <3>6
  <2> QED BY <2>1, <2>2
<1>4. word_end_pos(t, big, pos) \in 0 .. n
  <2>1. PICK on : on = RunEnd(t, big, "white", pos + 1)
    OBVIOUS
  <2>2. CASE pos + 1 >= n \/ on >= n
    <3>1. word_end_pos(t, big, pos) = Max({0, n - 1})
      BY <1>1, <2>1, <2>2, Zenon DEF word_end_pos
    <3> QED BY <3>1, MaxTwo
  <2>3. CASE ~(pos + 1 >= n \/ on >= n)
    <3>1. pos + 1 \in 0 .. Len(t)
      BY <1>1, <2>3
    <3>2. on \in pos + 1 .. n
      BY <1>1, <2>1, <3>1, RunEndIn
    <3>3. on \in 0 .. Len(t)
      BY <1>1, <3>2
    <3>4. PICK e : e = RunEnd(t, big, Class(big, t[on + 1]), on)
      OBVIOUS
    <3>5. e \in on .. n
      BY <1>1, <3>3, <3>4, RunEndIn
    <3>6. word_end_pos(t, big, pos) = e - 1
      BY <1>1, <2>1, <2>3, <3>4, Zenon DEF word_end_pos
    <3> QED BY <3>2, <3>5, <3>6
  <2> QED BY <2>2, <2>3
<1> QED BY <1>1, <1>2, <1>3, <1>4

LEMMA WordMotionStays ==
  ASSUME NEW t \in Texts, NEW k, NEW n \in Nat, NEW pos \in 0 .. Len(t)
  PROVE  WordMotion(t, k, n, pos) \in 0 .. Len(t)
<1> DEFINE T == 0 .. Len(t)
<1>1. \A y \in T : /\ word_forward_pos(t, k \in {"W", "B", "E"}, y) \in T
                   /\ word_backward_pos(t, k \in {"W", "B", "E"}, y) \in T
                   /\ word_end_pos(t, k \in {"W", "B", "E"}, y) \in T
  <2>1. PICK big : big = (k \in {"W", "B", "E"})
    OBVIOUS
  <2>2. \A y \in T : /\ word_forward_pos(t, big, y) \in T
                     /\ word_backward_pos(t, big, y) \in T
                     /\ word_end_pos(t, big, y) \in T
    BY WordStepsIn
  <2> QED BY <2>1, <2>2, Zenon
<1> HIDE DEF T
<1>2. pos \in T
  BY DEF T
<1> QED BY <1>1, <1>2, WordMotionIn DEF T

\* The positions the editor computes for the buffer b.
LEMMA LineColType ==
  ASSUME b \in Buffers, NEW line \in Nat, NEW col \in Nat
  PROVE  LineCol(line, col) \in Nat
<1>1. PICK start \in 0 .. buf_length(b) : start = buf_line_start(b, line)
  BY LineStart
<1>2. PICK llen \in Nat : llen = buf_line_length(b, line)
  BY LineLength
<1>3. buf_length(b) \in Nat
  BY TextType
<1>4. LineCol(line, col) = start + Min({col, llen})
  BY <1>1, <1>2, Zenon DEF LineCol
<1>5. Min({col, llen}) \in Nat
  BY MinTwo
<1> QED BY <1>1, <1>3, <1>4, <1>5

LEMMA MoveVerticalType ==
  ASSUME b \in Buffers, NEW delta \in Int
  PROVE  move_vertical(delta) \in Nat
<1>1. PICK line \in Nat : line = buf_cursor_line(b)
  BY CursorLine
<1>2. PICK col \in Nat : col = buf_cursor_col(b)
  BY CursorLine
<1>3. PICK last \in Nat : last = LastLine
  BY CursorLine DEF LastLine
<1>4. PICK to \in Int : to = Min({line + delta, last})
  BY MinTwo
<1>5. PICK at \in Nat : at = Max({0, to})
  BY MaxTwo
<1>6. move_vertical(delta) = LineCol(at, col)
  BY <1>1, <1>2, <1>3, <1>4, <1>5, Zenon DEF move_vertical
<1> QED BY <1>6, LineColType

LEMMA CursorLineEnds ==
  ASSUME b \in Buffers
  PROVE  /\ buf_line_start(b, buf_cursor_line(b)) \in Nat
         /\ LineEnd(b, buf_cursor_line(b)) \in Nat
         /\ LineEnd(b, buf_cursor_line(b)) <= buf_length(b)
         /\ FirstNonBlank \in Nat
<1>1. PICK line \in Nat : line = buf_cursor_line(b)
  BY CursorLine
<1>2. PICK n \in Nat : n = buf_length(b)
  BY TextType
<1>3. PICK start \in 0 .. n : start = buf_line_start(b, line)
  BY <1>2, LineStart
<1>4. PICK end \in start .. n : end = LineEnd(b, line)
  BY <1>2, <1>3, LineLength
<1>5. FirstNonBlank \in Nat
  <2> DEFINE S == {p \in start .. end : p = end \/ Text[p + 1] \notin {Space, Tab}}
  <2>1. end \in S /\ S \subseteq Nat
    BY <1>3, <1>4
  <2>2. FirstNonBlank = Min(S)
    BY <1>1, <1>3, <1>4, Zenon DEF FirstNonBlank
  <2> HIDE DEF S
  <2> QED BY <2>1, <2>2, MinIn
<1> QED BY <1>1, <1>2, <1>3, <1>4, <1>5

LEMMA TargetType ==
  ASSUME b \in Buffers, NEW k \in MotionKeys, NEW n \in Nat \ {0}
  PROVE  Target(k, n) \in Nat
<1>1. PICK pos \in Nat : pos = buf_cursor_pos(b) /\ pos <= buf_length(b)
  BY TextType
<1>2. PICK size \in Nat : size = buf_length(b)
  BY TextType
<1>3. PICK line \in Nat : line = buf_cursor_line(b)
  BY CursorLine
<1>4. PICK last \in Nat : last = LastLine
  BY CursorLine DEF LastLine
<1>5. CASE k = "h"
  <2>1. Target(k, n) = Max({0, pos - n})
    BY <1>1, <1>5 DEF Target
  <2> QED BY <2>1, MaxTwo
<1>6. CASE k = "l"
  <2>1. Target(k, n) = Min({size, pos + n})
    BY <1>1, <1>2, <1>6 DEF Target
  <2> QED BY <2>1, MinTwo
<1>7. CASE k = "j"
  <2>1. Target(k, n) = move_vertical(n)
    BY <1>7 DEF Target
  <2> QED BY <2>1, MoveVerticalType
<1>8. CASE k = "k"
  <2>1. Target(k, n) = move_vertical(-n)
    BY <1>8 DEF Target
  <2>2. -n \in Int
    OBVIOUS
  <2> QED BY <2>1, <2>2, MoveVerticalType
<1>9. CASE k = "0"
  <2>1. Target(k, n) = buf_line_start(b, buf_cursor_line(b))
    BY <1>9 DEF Target
  <2> QED BY <2>1, CursorLineEnds
<1>10. CASE k = "$"
  <2>1. Target(k, n) = LineEnd(b, line) - (IF buf_line_length(b, line) > 0 THEN 1 ELSE 0)
    BY <1>3, <1>10 DEF Target
  <2>2. PICK start \in 0 .. size : start = buf_line_start(b, line)
    BY <1>2, LineStart
  <2>3. PICK llen \in Nat : llen = buf_line_length(b, line)
    BY LineLength
  <2>4. LineEnd(b, line) = start + llen
    BY <2>2, <2>3, Zenon DEF LineEnd
  <2>5. PICK end \in Nat : end = LineEnd(b, line) /\ end = start + llen
    BY <2>4
  <2>6. Target(k, n) = end - (IF llen > 0 THEN 1 ELSE 0)
    BY <2>1, <2>3, <2>5
  <2> QED BY <2>5, <2>6
<1>11. CASE k = "^"
  <2>1. Target(k, n) = FirstNonBlank
    BY <1>11 DEF Target
  <2> QED BY <2>1, CursorLineEnds
<1>12. CASE k = "G"
  <2>1. PICK to : to = IF n > 1 THEN Min({n - 1, last}) ELSE last
    OBVIOUS
  <2>2. to \in Nat
    BY <2>1, MinTwo
  <2>3. Target(k, n) = LineCol(to, 0)
    BY <1>4, <1>12, <2>1 DEF Target
  <2> QED BY <2>2, <2>3, LineColType
<1>13. PICK half \in Nat : half = ScreenRows \div 2
  BY EditorAssumption
<1>14. CASE k = "PGUP"
  <2>1. Target(k, n) = move_vertical(-half * n)
    BY <1>13, <1>14 DEF Target
  <2>2. -half * n \in Int
    OBVIOUS
  <2> QED BY <2>1, <2>2, MoveVerticalType
<1>15. CASE k = "PGDN"
  <2>1. Target(k, n) = move_vertical(half * n)
    BY <1>13, <1>15 DEF Target
  <2>2. half * n \in Int
    OBVIOUS
  <2> QED BY <2>1, <2>2, MoveVerticalType
<1>16. CASE k \in WordKeys
  <2>1. Target(k, n) = WordMotion(Text, k, n, pos)
    BY <1>1, <1>16 DEF Target, WordKeys
  <2>2. Text \in Texts /\ Len(Text) = size
    BY <1>2, TextType DEF Text
  <2>3. pos \in 0 .. Len(Text)
    BY <1>1, <1>2, <2>2
  <2>4. WordMotion(Text, k, n, pos) \in 0 .. Len(Text)
    BY <2>2, <2>3, WordMotionStays
  <2> QED BY <2>1, <2>2, <2>4
<1> QED BY <1>5, <1>6, <1>7, <1>8, <1>9, <1>10, <1>11, <1>12, <1>14, <1>15, <1>16 DEF MotionKeys

-----------------------------------------------------------------------------
(* Texts with one character more or less.                                  *)

PutIn(t, p, c) ==
  [i \in 1 .. Len(t) + 1 |-> IF i <= p THEN t[i] ELSE IF i = p + 1 THEN c ELSE t[i - 1]]
TakeOut(t, p) == [i \in 1 .. Len(t) - 1 |-> IF i <= p THEN t[i] ELSE t[i + 1]]

LEMMA PutInType ==
  ASSUME NEW t \in Texts, NEW p \in Nat, NEW c \in Chars, p <= Len(t)
  PROVE  /\ PutIn(t, p, c) \in Texts /\ Len(PutIn(t, p, c)) = Len(t) + 1
         /\ PutIn(t, p, c)[p + 1] = c
         /\ TakeOut(PutIn(t, p, c), p) = t
<1>1. PICK n \in Nat : n = Len(t)
  BY LenProperties DEF Texts
<1>2. t \in [1 .. n -> Chars]
  BY <1>1, LenProperties DEF Texts
<1>3. PICK u : u = PutIn(t, p, c)
  OBVIOUS
<1>4. u = [i \in 1 .. n + 1 |-> IF i <= p THEN t[i] ELSE IF i = p + 1 THEN c ELSE t[i - 1]]
  BY <1>1, <1>3, Zenon DEF PutIn
<1>5. u \in [1 .. n + 1 -> Chars] /\ u[p + 1] = c
  BY <1>1, <1>2, <1>4
<1>6. u \in Texts /\ Len(u) = n + 1
  BY <1>5 DEF Texts
<1>7. TakeOut(u, p) = t
  <2>1. TakeOut(u, p) = [i \in 1 .. n |-> IF i <= p THEN u[i] ELSE u[i + 1]]
    <3>1. Len(u) - 1 = n
      BY <1>6
    <3> QED BY <3>1, Zenon DEF TakeOut
  <2>2. \A i \in 1 .. n : (IF i <= p THEN u[i] ELSE u[i + 1]) = t[i]
    BY <1>2, <1>4
  <2>3. TakeOut(u, p) = [i \in 1 .. n |-> t[i]]
    BY <2>1, <2>2
  <2> QED BY <1>2, <2>3
<1> QED BY <1>1, <1>3, <1>5, <1>6, <1>7

LEMMA TakeOutType ==
  ASSUME NEW t \in Texts, NEW p \in Nat, p < Len(t)
  PROVE  /\ TakeOut(t, p) \in Texts /\ Len(TakeOut(t, p)) = Len(t) - 1
         /\ PutIn(TakeOut(t, p), p, t[p + 1]) = t
<1>1. PICK n \in Nat : n = Len(t)
  BY LenProperties DEF Texts
<1>2. t \in [1 .. n -> Chars] /\ n - 1 \in Nat
  BY <1>1, LenProperties DEF Texts
<1>3. PICK u : u = TakeOut(t, p)
  OBVIOUS
<1>4. u = [i \in 1 .. n - 1 |-> IF i <= p THEN t[i] ELSE t[i + 1]]
  BY <1>1, <1>3, Zenon DEF TakeOut
<1>5. u \in [1 .. n - 1 -> Chars]
  BY <1>1, <1>2, <1>4
<1>6. u \in Texts /\ Len(u) = n - 1
  BY <1>2, <1>5 DEF Texts
<1>7. PutIn(u, p, t[p + 1]) = t
  <2>1. PutIn(u, p, t[p + 1])
          = [i \in 1 .. n |-> IF i <= p THEN u[i] ELSE IF i = p + 1 THEN t[p + 1] ELSE u[i - 1]]
    <3>1. Len(u) + 1 = n
      BY <1>6
    <3> QED BY <3>1, Zenon DEF PutIn
  <2>2. \A i \in 1 .. n : (IF i <= p THEN u[i] ELSE IF i = p + 1 THEN t[p + 1] ELSE u[i - 1]) = t[i]
    BY <1>1, <1>2, <1>4
  <2>3. PutIn(u, p, t[p + 1]) = [i \in 1 .. n |-> t[i]]
    BY <2>1, <2>2
  <2> QED BY <1>2, <2>3
<1> QED BY <1>1, <1>3, <1>6, <1>7

\* v is s with t behind it, n and m long.
IsJoin(v, s, n, t, m) ==
  /\ v \in Seq(Chars) /\ Len(v) = n + m
  /\ \A i \in 1 .. n + m : v[i] = IF i <= n THEN s[i] ELSE t[i - n]

LEMMA JoinAt ==
  ASSUME NEW s \in Seq(Chars), NEW t \in Seq(Chars), NEW n \in Nat, NEW m \in Nat,
         Len(s) = n, Len(t) = m
  PROVE  IsJoin(s \o t, s, n, t, m)
<1>1. /\ s \o t \in Seq(Chars) /\ Len(s \o t) = Len(s) + Len(t)
      /\ \A i \in 1 .. Len(s) + Len(t) : (s \o t)[i] = IF i <= Len(s) THEN s[i] ELSE t[i - Len(s)]
  BY ConcatProperties
<1> QED BY <1>1, Zenon DEF IsJoin

\* What inserting and deleting at the gap do to the text.
LEMMA GapEdits ==
  ASSUME NEW l \in Texts, NEW r \in Texts, NEW c \in Chars
  PROVE  /\ Append(l, c) \o r = PutIn(l \o r, Len(l), c)
         /\ r # << >> => /\ Len(l) < Len(l \o r) /\ (l \o r)[Len(l) + 1] = Head(r)
                         /\ l \o Tail(r) = TakeOut(l \o r, Len(l))
<1>1. PICK n \in Nat : n = Len(l)
  BY LenProperties DEF Texts
<1>2. PICK m \in Nat : m = Len(r)
  BY LenProperties DEF Texts
<1>3. PICK t : t = l \o r
  OBVIOUS
<1>4. /\ t \in Seq(Chars) /\ Len(t) = n + m
      /\ \A i \in 1 .. n + m : t[i] = IF i <= n THEN l[i] ELSE r[i - n]
  BY <1>1, <1>2, <1>3, ConcatProperties DEF Texts
<1>5. Append(l, c) \o r = PutIn(t, n, c)
  <2>1. PICK u : u = PutIn(t, n, c)
    OBVIOUS
  <2>2. u \in Seq(Chars) /\ Len(u) = n + m + 1
    BY <1>4, <2>1, PutInType DEF Texts
  <2>3. \A i \in 1 .. n + m + 1 : u[i] = IF i <= n THEN t[i] ELSE IF i = n + 1 THEN c ELSE t[i - 1]
    BY <1>4, <2>1 DEF PutIn
  <2>4. PICK a : a = Append(l, c)
    OBVIOUS
  <2>5. /\ a \in Seq(Chars) /\ Len(a) = n + 1
        /\ \A i \in 1 .. n : a[i] = l[i]
        /\ a[n + 1] = c
    BY <1>1, <2>4, AppendProperties DEF Texts
  <2>6. PICK v : v = a \o r
    OBVIOUS
  <2> PICK k \in Nat : k = n + 1
    OBVIOUS
  <2>7. /\ v \in Seq(Chars) /\ Len(v) = k + m
        /\ \A i \in 1 .. k + m : v[i] = IF i <= k THEN a[i] ELSE r[i - k]
    <3>1. Len(a) = k /\ r \in Seq(Chars)
      BY <2>5 DEF Texts
    <3>2. IsJoin(a \o r, a, k, r, m)
      BY <1>2, <2>5, <3>1, JoinAt
    <3> QED BY <2>6, <3>2 DEF IsJoin
  <2>8. ASSUME NEW i \in 1 .. k + m PROVE v[i] = u[i]
    <3>1. CASE i <= n
      <4>1. i \in 1 .. n + m + 1 /\ i \in 1 .. n + m /\ i \in 1 .. n /\ i <= k
        BY <3>1
      <4>2. u[i] = t[i] /\ t[i] = l[i]
        BY <1>4, <2>3, <3>1, <4>1
      <4>3. v[i] = a[i] /\ a[i] = l[i]
        BY <2>5, <2>7, <4>1
      <4> QED BY <4>2, <4>3
    <3>2. CASE i = k
      BY <2>3, <2>5, <2>7, <3>2
    <3>3. CASE i > k
      <4>1. /\ i \in 1 .. n + m + 1 /\ i - 1 \in 1 .. n + m /\ ~(i <= n) /\ i # n + 1
            /\ ~(i <= k) /\ ~(i - 1 <= n) /\ (i - 1) - n = i - k
        BY <3>3
      <4>2. u[i] = t[i - 1] /\ t[i - 1] = r[(i - 1) - n] /\ v[i] = r[i - k]
        BY <1>4, <2>3, <2>7, <4>1
      <4> QED BY <4>1, <4>2
    <3> QED BY <3>1, <3>2, <3>3
  <2>9. v = u
    <3>1. Len(u) = k + m
      BY <2>2
    <3> QED BY <2>2, <2>7, <2>8, <3>1, SeqEqual
  <2> QED BY <2>1, <2>4, <2>6, <2>9
<1>6. ASSUME r # << >>
      PROVE  n < n + m /\ t[n + 1] = Head(r) /\ l \o Tail(r) = TakeOut(t, n)
  <2>1. m > 0
    BY <1>2, <1>6, EmptySeq DEF Texts
  <2>2. PICK a : a = Tail(r)
    OBVIOUS
  <2>3. a \in Seq(Chars) /\ Len(a) = m - 1 /\ \A i \in 1 .. m - 1 : a[i] = r[i + 1]
    BY <1>2, <1>6, <2>2, HeadTailProperties DEF Texts
  <2>4. t[n + 1] = Head(r)
    BY <1>2, <1>4, <2>1
  <2>5. PICK u : u = TakeOut(t, n)
    OBVIOUS
  <2> PICK k \in Nat : k = m - 1
    BY <2>1
  <2>6. u \in Seq(Chars) /\ Len(u) = n + k
    <3>1. t \in Texts /\ n < Len(t)
      BY <1>4, <2>1 DEF Texts
    <3>2. u \in Texts /\ Len(u) = Len(t) - 1
      BY <2>5, <3>1, TakeOutType
    <3> QED BY <1>4, <3>2 DEF Texts
  <2>7. \A i \in 1 .. n + k : u[i] = IF i <= n THEN t[i] ELSE t[i + 1]
    <3>1. Len(t) - 1 = n + k
      BY <1>4
    <3> QED BY <2>5, <3>1 DEF TakeOut
  <2>8. PICK v : v = l \o a
    OBVIOUS
  <2>9. /\ v \in Seq(Chars) /\ Len(v) = n + k
        /\ \A i \in 1 .. n + k : v[i] = IF i <= n THEN l[i] ELSE a[i - n]
    <3>1. Len(a) = k /\ l \in Seq(Chars)
      BY <2>3 DEF Texts
    <3>2. IsJoin(l \o a, l, n, a, k)
      BY <1>1, <2>3, <3>1, JoinAt
    <3> QED BY <2>8, <3>2 DEF IsJoin
  <2>10. ASSUME NEW i \in 1 .. n + k PROVE v[i] = u[i]
    <3>1. CASE i <= n
      <4>1. i \in 1 .. n + m
        BY <3>1
      <4> QED BY <1>4, <2>7, <2>9, <3>1, <4>1
    <3>2. CASE ~(i <= n)
      <4>1. i + 1 \in 1 .. n + m /\ i - n \in 1 .. m - 1 /\ ~(i + 1 <= n)
            /\ (i + 1) - n = (i - n) + 1
        BY <3>2
      <4>2. u[i] = t[i + 1] /\ t[i + 1] = r[(i + 1) - n] /\ v[i] = a[i - n]
        BY <1>4, <2>7, <2>9, <3>2, <4>1
      <4>3. a[i - n] = r[(i - n) + 1]
        BY <2>3, <4>1
      <4> QED BY <4>1, <4>2, <4>3
    <3> QED BY <3>1, <3>2
  <2>11. v = u
    BY <2>6, <2>9, <2>10, SeqEqual
  <2> QED BY <2>1, <2>2, <2>4, <2>5, <2>8, <2>11
<1> QED BY <1>1, <1>3, <1>4, <1>5, <1>6

LEMMA GapDeletesBack ==
  ASSUME NEW l \in Texts, NEW r \in Texts, l # << >>
  PROVE  /\ Len(l) - 1 \in Nat /\ Len(l) - 1 < Len(l \o r)
         /\ (l \o r)[(Len(l) - 1) + 1] = Last(l)
         /\ Front(l) \o r = TakeOut(l \o r, Len(l) - 1)
<1>1. PICK n \in Nat \ {0} : n = Len(l)
  BY EmptySeq DEF Texts
<1>2. PICK m \in Nat : m = Len(r)
  BY LenProperties DEF Texts
<1>3. PICK t : t = l \o r
  OBVIOUS
<1>4. /\ t \in Seq(Chars) /\ Len(t) = n + m
      /\ \A i \in 1 .. n + m : t[i] = IF i <= n THEN l[i] ELSE r[i - n]
  BY <1>1, <1>2, <1>3, ConcatProperties DEF Texts
<1>5. PICK a : a = Front(l)
  OBVIOUS
<1>6. a \in Seq(Chars) /\ Len(a) = n - 1 /\ \A i \in 1 .. n - 1 : a[i] = l[i]
  <2>1. a = SubSeq(l, 1, n - 1)
    BY <1>1, <1>5, Zenon DEF Front
  <2>2. \A i \in 1 .. n - 1 : l[i] \in Chars
    BY <1>1, ElementOfSeq DEF Texts
  <2>3. /\ SubSeq(l, 1, n - 1) \in Seq(Chars)
        /\ Len(SubSeq(l, 1, n - 1)) = IF 1 <= n - 1 THEN (n - 1) - 1 + 1 ELSE 0
        /\ \A i \in 1 .. (n - 1) - 1 + 1 : SubSeq(l, 1, n - 1)[i] = l[1 + i - 1]
    BY <2>2, SubSeqProperties
  <2> QED BY <2>1, <2>3
<1>7. PICK u : u = TakeOut(t, n - 1)
  OBVIOUS
<1> PICK k \in Nat : k = n - 1
  OBVIOUS
<1>8. u \in Seq(Chars) /\ Len(u) = k + m
  <2>1. t \in Texts /\ k < Len(t)
    BY <1>4 DEF Texts
  <2>2. u \in Texts /\ Len(u) = Len(t) - 1
    BY <1>7, <2>1, TakeOutType
  <2> QED BY <1>4, <2>2 DEF Texts
<1>9. \A i \in 1 .. k + m : u[i] = IF i <= k THEN t[i] ELSE t[i + 1]
  <2>1. Len(t) - 1 = k + m
    BY <1>4
  <2> QED BY <1>7, <2>1 DEF TakeOut
<1>10. PICK v : v = a \o r
  OBVIOUS
<1>11. /\ v \in Seq(Chars) /\ Len(v) = k + m
       /\ \A i \in 1 .. k + m : v[i] = IF i <= k THEN a[i] ELSE r[i - k]
  <2>1. Len(a) = k /\ r \in Seq(Chars)
    BY <1>6 DEF Texts
  <2>2. IsJoin(a \o r, a, k, r, m)
    BY <1>2, <1>6, <2>1, JoinAt
  <2> QED BY <1>10, <2>2 DEF IsJoin
<1>12. ASSUME NEW i \in 1 .. k + m PROVE v[i] = u[i]
  <2>1. CASE i <= k
    <3>1. i \in 1 .. n + m /\ i \in 1 .. n - 1 /\ i <= n
      BY <2>1
    <3> QED BY <1>4, <1>6, <1>9, <1>11, <2>1, <3>1
  <2>2. CASE ~(i <= k)
    <3>1. i + 1 \in 1 .. n + m /\ ~(i + 1 <= n) /\ (i + 1) - n = i - k
      BY <2>2
    <3>2. u[i] = t[i + 1] /\ t[i + 1] = r[(i + 1) - n] /\ v[i] = r[i - k]
      BY <1>4, <1>9, <1>11, <2>2, <3>1
    <3> QED BY <3>1, <3>2
  <2> QED BY <2>1, <2>2
<1>13. v = u
  BY <1>8, <1>11, <1>12, SeqEqual
<1>14. t[n] = Last(l)
  BY <1>1, <1>4 DEF Last
<1>15. /\ n - 1 \in Nat /\ n - 1 < n + m /\ (n - 1) + 1 = n
  OBVIOUS
<1> QED BY <1>1, <1>3, <1>4, <1>5, <1>7, <1>10, <1>13, <1>14, <1>15

-----------------------------------------------------------------------------
(* The undo ring. A log f of a buffer gives the text at each entry: f[0]   *)
(* is the text now, f[i] the text before the i newest entries, f[-i] the   *)
(* one after the next i entries to redo.                                   *)

Sized == {t \in Texts : Len(t) <= BUFFER_SIZE}

\* The slot of the entry that is the i-th to undo, or, below 1, to redo.
Slot(top, i) ==
  IF top - i >= UNDO_STACK_SIZE THEN top - i - UNDO_STACK_SIZE
  ELSE IF top - i >= 0 THEN top - i ELSE top - i + UNDO_STACK_SIZE
EntryAt(x, i) == x.undo_stack[Slot(x.undo_top, i)]

\* Undoing e leads from t to u; redoing it, from u to t.
Undoes(e, t, u) ==
  /\ e.type = "BOUNDARY" => u = t
  /\ e.type = "INSERT" => e.pos < Len(t) /\ t[e.pos + 1] = e.ch /\ u = TakeOut(t, e.pos)
  /\ e.type = "DELETE" => e.pos <= Len(t) /\ Len(t) < BUFFER_SIZE /\ u = PutIn(t, e.pos, e.ch)
Redoes(e, u, t) ==
  /\ e.type = "BOUNDARY" => t = u
  /\ e.type = "INSERT" => e.pos <= Len(u) /\ Len(u) < BUFFER_SIZE /\ t = PutIn(u, e.pos, e.ch)
  /\ e.type = "DELETE" => e.pos < Len(u) /\ u[e.pos + 1] = e.ch /\ t = TakeOut(u, e.pos)

IsLog(x, f) ==
  /\ \A i \in -x.redo_count .. x.undo_count : f[i] \in Sized
  /\ f[0] = buf_text(x)
  /\ \A i \in 1 - x.redo_count .. x.undo_count : Undoes(EntryAt(x, i), f[i - 1], f[i])
Replayable(x) == \E f : IsLog(x, f)

LEMMA UndoRedo ==
  ASSUME NEW e \in Entries, NEW t \in Sized, NEW u \in Sized, Undoes(e, t, u)
  PROVE  Redoes(e, u, t)
<1>1. t \in Texts /\ u \in Texts /\ Len(t) <= BUFFER_SIZE /\ BUFFER_SIZE \in Nat
  BY EditBufferAssumption DEF Sized
<1>2. PICK n \in Nat : n = Len(t)
  BY <1>1, LenProperties DEF Texts
<1>3. e.pos \in Nat /\ e.ch \in Chars /\ e.type \in {"BOUNDARY", "INSERT", "DELETE"}
  BY DEF Entries
<1>4. CASE e.type = "BOUNDARY"
  BY <1>4 DEF Undoes, Redoes
<1>5. CASE e.type = "INSERT"
  <2>1. e.pos < Len(t) /\ t[e.pos + 1] = e.ch /\ u = TakeOut(t, e.pos)
    BY <1>5 DEF Undoes
  <2>2. Len(u) = Len(t) - 1 /\ PutIn(u, e.pos, e.ch) = t
    BY <1>1, <1>3, <2>1, TakeOutType
  <2>3. e.pos <= Len(u) /\ Len(u) < BUFFER_SIZE
    BY <1>1, <1>2, <1>3, <2>1, <2>2
  <2> QED BY <1>5, <2>2, <2>3 DEF Redoes
<1>6. CASE e.type = "DELETE"
  <2>1. e.pos <= Len(t) /\ u = PutIn(t, e.pos, e.ch)
    BY <1>6 DEF Undoes
  <2>2. Len(u) = Len(t) + 1 /\ u[e.pos + 1] = e.ch /\ TakeOut(u, e.pos) = t
    BY <1>1, <1>3, <2>1, PutInType
  <2>3. e.pos < Len(u)
    BY <1>2, <1>3, <2>1, <2>2
  <2> QED BY <1>6, <2>2, <2>3 DEF Redoes
<1> QED BY <1>3, <1>4, <1>5, <1>6

LEMMA SlotFacts ==
  ASSUME NEW top \in Ring
  PROVE  /\ \A i \in 1 - UNDO_STACK_SIZE .. UNDO_STACK_SIZE : Slot(top, i) \in Ring
         /\ Slot(top, 0) = top /\ Slot(top, 1) \in Ring /\ Slot(top, -1) \in Ring
         /\ \A i \in 1 - UNDO_STACK_SIZE .. UNDO_STACK_SIZE - 1 :
              Slot(Slot(top, 1), i) = Slot(top, i + 1)
         /\ \A i \in 2 - UNDO_STACK_SIZE .. UNDO_STACK_SIZE :
              Slot(Slot(top, -1), i) = Slot(top, i - 1)
         /\ \A i \in 1 .. UNDO_STACK_SIZE - 1 : Slot(top, i) # top
<1> PICK S \in Nat : S = UNDO_STACK_SIZE /\ S >= 2
  BY EditBufferAssumption
<1>1. top \in 0 .. S - 1
  BY DEF Ring
<1> QED BY <1>1 DEF Slot, Ring

LEMMA RingModulo ==
  ASSUME NEW a \in Nat, a < 3 * UNDO_STACK_SIZE
  PROVE  a % UNDO_STACK_SIZE =
           IF a < UNDO_STACK_SIZE THEN a
           ELSE IF a < 2 * UNDO_STACK_SIZE THEN a - UNDO_STACK_SIZE ELSE a - 2 * UNDO_STACK_SIZE
<1> PICK S \in Nat : S = UNDO_STACK_SIZE /\ S >= 2
  BY EditBufferAssumption
<1>1. CASE a < S
  BY <1>1, SMTT(30)
<1>2. CASE a >= S /\ a < 2 * S
  <2>1. PICK r \in Nat : r = a - S /\ r < S
    BY <1>2
  <2>2. a = S * 1 + r
    BY <2>1
  <2>3. (S * 1 + r) % S = r
    BY <2>1, SMTT(30)
  <2> QED BY <1>2, <2>1, <2>2, <2>3
<1>3. CASE a >= 2 * S
  <2>1. PICK r \in Nat : r = a - 2 * S /\ r < S
    BY <1>3
  <2>2. a = S * 2 + r
    BY <2>1
  <2>3. (S * 2 + r) % S = r
    BY <2>1, SMTT(30)
  <2> QED BY <1>3, <2>1, <2>2, <2>3
<1> QED BY <1>1, <1>2, <1>3

\* The code's index arithmetic.
LEMMA SlotModulo ==
  ASSUME NEW top \in Ring
  PROVE  /\ (top + 1) % UNDO_STACK_SIZE = Slot(top, -1)
         /\ (top + UNDO_STACK_SIZE - 1) % UNDO_STACK_SIZE = Slot(top, 1)
         /\ \A i \in 1 .. UNDO_STACK_SIZE :
              /\ (top + 2 * UNDO_STACK_SIZE - i) % UNDO_STACK_SIZE = Slot(top, i)
              /\ (top + i - 1) % UNDO_STACK_SIZE = Slot(top, 1 - i)
<1> PICK S \in Nat : S = UNDO_STACK_SIZE /\ S >= 2
  BY EditBufferAssumption
<1>1. top \in 0 .. S - 1
  BY DEF Ring
<1>2. ASSUME NEW a \in Nat, a < 3 * S
      PROVE  a % S = IF a < S THEN a ELSE IF a < 2 * S THEN a - S ELSE a - 2 * S
  BY <1>2, RingModulo
<1>3. (top + 1) % S = Slot(top, -1)
  <2>1. PICK a \in Nat : a = top + 1 /\ a < 3 * S
    BY <1>1
  <2>2. a % S = IF a < S THEN a ELSE IF a < 2 * S THEN a - S ELSE a - 2 * S
    BY <1>2, <2>1
  <2> QED BY <1>1, <2>1, <2>2 DEF Slot
<1>4. (top + S - 1) % S = Slot(top, 1)
  <2>1. PICK a \in Nat : a = top + S - 1 /\ a < 3 * S
    BY <1>1
  <2>2. a % S = IF a < S THEN a ELSE IF a < 2 * S THEN a - S ELSE a - 2 * S
    BY <1>2, <2>1
  <2> QED BY <1>1, <2>1, <2>2 DEF Slot
<1>5. ASSUME NEW i \in 1 .. S PROVE (top + 2 * S - i) % S = Slot(top, i)
  <2>1. PICK a \in Nat : a = top + 2 * S - i /\ a < 3 * S
    BY <1>1
  <2>2. a % S = IF a < S THEN a ELSE IF a < 2 * S THEN a - S ELSE a - 2 * S
    BY <1>2, <2>1
  <2> QED BY <1>1, <2>1, <2>2 DEF Slot
<1>6. ASSUME NEW i \in 1 .. S PROVE (top + i - 1) % S = Slot(top, 1 - i)
  <2>1. PICK a \in Nat : a = top + i - 1 /\ a < 3 * S
    BY <1>1
  <2>2. a % S = IF a < S THEN a ELSE IF a < 2 * S THEN a - S ELSE a - 2 * S
    BY <1>2, <2>1
  <2> QED BY <1>1, <2>1, <2>2 DEF Slot
<1> QED BY <1>3, <1>4, <1>5, <1>6

LEMMA SlotTypes ==
  ASSUME NEW x \in Buffers, Fits(x)
  PROVE  /\ x.undo_top \in Ring /\ x.undo_stack \in [Ring -> Entries]
         /\ x.undo_count \in Nat /\ x.redo_count \in Nat
         /\ x.undo_count + x.redo_count <= UNDO_STACK_SIZE
         /\ UNDO_STACK_SIZE \in Nat /\ UNDO_STACK_SIZE >= 2
         /\ \A i \in 1 - x.redo_count .. x.undo_count :
              i \in 1 - UNDO_STACK_SIZE .. UNDO_STACK_SIZE /\ EntryAt(x, i) \in Entries
<1>1. /\ x.undo_top \in Ring /\ x.undo_stack \in [Ring -> Entries]
      /\ x.undo_count \in Nat /\ x.redo_count \in Nat
  BY DEF Buffers
<1>2. x.undo_count + x.redo_count <= UNDO_STACK_SIZE
  BY DEF Fits
<1>3. UNDO_STACK_SIZE \in Nat /\ UNDO_STACK_SIZE >= 2
  BY EditBufferAssumption
<1>4. ASSUME NEW i \in 1 - x.redo_count .. x.undo_count
      PROVE  i \in 1 - UNDO_STACK_SIZE .. UNDO_STACK_SIZE /\ EntryAt(x, i) \in Entries
  <2>1. i \in 1 - UNDO_STACK_SIZE .. UNDO_STACK_SIZE
    BY <1>1, <1>2, <1>3
  <2>2. Slot(x.undo_top, i) \in Ring
    BY <1>1, <2>1, SlotFacts
  <2> QED BY <1>1, <2>1, <2>2 DEF EntryAt
<1> QED BY <1>1, <1>2, <1>3, <1>4

\* Whatever leaves the ring and the text alone keeps the log.
LEMMA SameRing ==
  ASSUME NEW x, NEW y, Replayable(x), buf_text(y) = buf_text(x),
         y.undo_stack = x.undo_stack, y.undo_top = x.undo_top,
         y.undo_count = x.undo_count, y.redo_count = x.redo_count
  PROVE  Replayable(y)
<1>1. PICK f : IsLog(x, f)
  BY DEF Replayable
<1>2. IsLog(y, f)
  BY <1>1 DEF IsLog, EntryAt
<1> QED BY <1>2 DEF Replayable

\* A change that is logged with the entry that undoes it keeps the log, also
\* when the entry takes the slot of the oldest one.
LEMMA ChangeKeepsLog ==
  ASSUME NEW x \in Buffers, Fits(x), NEW y \in Buffers, Fits(y), NEW e \in Entries, Replayable(x),
         y.undo_stack = [x.undo_stack EXCEPT ![x.undo_top] = e],
         y.undo_top = Slot(x.undo_top, -1),
         y.undo_count = IF x.undo_count + 1 <= UNDO_STACK_SIZE THEN x.undo_count + 1
                        ELSE UNDO_STACK_SIZE,
         y.redo_count = 0,
         buf_text(y) \in Sized, Undoes(e, buf_text(y), buf_text(x))
  PROVE  Replayable(y)
<1>1. PICK f : IsLog(x, f)
  BY DEF Replayable
<1>2. PICK top \in Ring : top = x.undo_top
  BY SlotTypes
<1>3. PICK n \in Nat : n = x.undo_count
  BY SlotTypes
<1>4. PICK m \in Nat : m = y.undo_count /\ m <= n + 1 /\ m <= UNDO_STACK_SIZE
  BY <1>3, SlotTypes
<1>5. PICK r \in Nat : r = x.redo_count
  BY SlotTypes
<1>6. PICK g : g = [i \in 0 .. m |-> IF i = 0 THEN buf_text(y) ELSE f[i - 1]]
  OBVIOUS
<1>7. /\ \A i \in -r .. n : f[i] \in Sized
      /\ f[0] = buf_text(x)
      /\ \A i \in 1 - r .. n : Undoes(EntryAt(x, i), f[i - 1], f[i])
  BY <1>1, <1>3, <1>5 DEF IsLog
<1>8. \A i \in 0 .. m : g[i] \in Sized
  <2>1. ASSUME NEW i \in 0 .. m PROVE g[i] \in Sized
    <3>1. CASE i = 0
      BY <1>6, <3>1
    <3>2. CASE i # 0
      <4>1. i - 1 \in -r .. n
        BY <1>4, <3>2
      <4> QED BY <1>6, <1>7, <3>2, <4>1
    <3> QED BY <3>1, <3>2
  <2> QED BY <2>1
<1>9. ASSUME NEW i \in 1 .. m PROVE Undoes(EntryAt(y, i), g[i - 1], g[i])
  <2>1. i \in 2 - UNDO_STACK_SIZE .. UNDO_STACK_SIZE
    BY <1>4, SlotTypes
  <2>2. Slot(y.undo_top, i) = Slot(top, i - 1)
    BY <1>2, <2>1, SlotFacts
  <2>3. x.undo_stack \in [Ring -> Entries]
    BY SlotTypes
  <2>4. CASE i = 1
    <3>1. Slot(top, i - 1) = top
      BY <2>4, SlotFacts
    <3>2. EntryAt(y, i) = e
      BY <1>2, <2>2, <2>3, <3>1 DEF EntryAt
    <3>3. g[i - 1] = buf_text(y) /\ g[i] = f[0]
      BY <1>6, <2>4
    <3> QED BY <1>7, <3>2, <3>3
  <2>5. CASE i # 1
    <3> PICK j \in Nat : j = i - 1
      BY <2>5
    <3>1. j \in 1 .. UNDO_STACK_SIZE - 1 /\ j \in 1 - r .. n /\ j \in 0 .. m /\ j # 0 /\ i # 0
      <4>1. UNDO_STACK_SIZE \in Nat
        BY EditBufferAssumption
      <4> QED BY <1>3, <1>4, <1>5, <2>5, <4>1
    <3>2. Slot(top, j) # top
      BY <3>1, SlotFacts
    <3>3. EntryAt(y, i) = x.undo_stack[Slot(top, j)]
      BY <1>2, <2>2, <2>3, <3>2 DEF EntryAt
    <3>4. EntryAt(y, i) = EntryAt(x, j)
      BY <1>2, <3>3 DEF EntryAt
    <3>5. g[i - 1] = f[j - 1] /\ g[i] = f[j]
      BY <1>6, <3>1
    <3> QED BY <1>7, <3>1, <3>4, <3>5
  <2> QED BY <2>4, <2>5
<1>10. IsLog(y, g)
  <2>1. g[0] = buf_text(y)
    BY <1>6
  <2>2. \A i \in -y.redo_count .. y.undo_count : g[i] \in Sized
    BY <1>4, <1>8
  <2>3. \A i \in 1 - y.redo_count .. y.undo_count : Undoes(EntryAt(y, i), g[i - 1], g[i])
    BY <1>4, <1>9
  <2> QED BY <2>1, <2>2, <2>3 DEF IsLog
<1> QED BY <1>10 DEF Replayable

\* An entry that changes sides with its change undone, or done again.
LEMMA BackKeepsLog ==
  ASSUME NEW x \in Buffers, Fits(x), NEW f, IsLog(x, f), x.undo_count > 0, NEW y,
         y.undo_stack = x.undo_stack, y.undo_top = Slot(x.undo_top, 1),
         y.undo_count = x.undo_count - 1, y.redo_count = x.redo_count + 1,
         buf_text(y) = f[1]
  PROVE  Replayable(y)
<1>2. PICK top \in Ring : top = x.undo_top
  BY SlotTypes
<1>3. PICK n \in Nat : n = x.undo_count /\ n >= 1
  BY SlotTypes
<1>4. PICK r \in Nat : r = x.redo_count
  BY SlotTypes
<1>5. n + r <= UNDO_STACK_SIZE /\ UNDO_STACK_SIZE \in Nat
  BY <1>3, <1>4, SlotTypes
<1>6. PICK g : g = [i \in -(r + 1) .. n - 1 |-> f[i + 1]]
  OBVIOUS
<1>7. /\ \A i \in -r .. n : f[i] \in Sized
      /\ \A i \in 1 - r .. n : Undoes(EntryAt(x, i), f[i - 1], f[i])
  BY <1>3, <1>4 DEF IsLog
<1>8. ASSUME NEW i \in -(r + 1) .. n - 1 PROVE g[i] \in Sized
  <2>1. i + 1 \in -r .. n
    OBVIOUS
  <2> QED BY <1>6, <1>7, <2>1
<1>9. ASSUME NEW i \in 1 - (r + 1) .. n - 1 PROVE Undoes(EntryAt(y, i), g[i - 1], g[i])
  <2>1. i + 1 \in 1 - r .. n /\ i \in 1 - UNDO_STACK_SIZE .. UNDO_STACK_SIZE - 1
    BY <1>3, <1>5
  <2>2. Slot(y.undo_top, i) = Slot(top, i + 1)
    BY <1>2, <2>1, SlotFacts
  <2>3. EntryAt(y, i) = EntryAt(x, i + 1)
    BY <1>2, <2>2 DEF EntryAt
  <2>4. /\ i - 1 \in -(r + 1) .. n - 1 /\ i \in -(r + 1) .. n - 1
        /\ (i - 1) + 1 = (i + 1) - 1
    OBVIOUS
  <2>5. g[i - 1] = f[(i + 1) - 1] /\ g[i] = f[i + 1]
    BY <1>6, <2>4
  <2> QED BY <1>7, <2>1, <2>3, <2>5
<1>10. IsLog(y, g)
  <2>1. g[0] = buf_text(y)
    <3>1. 0 \in -(r + 1) .. n - 1
      BY <1>3
    <3> QED BY <1>6, <3>1
  <2>2. \A i \in -y.redo_count .. y.undo_count : g[i] \in Sized
    BY <1>3, <1>4, <1>8
  <2>3. \A i \in 1 - y.redo_count .. y.undo_count : Undoes(EntryAt(y, i), g[i - 1], g[i])
    BY <1>3, <1>4, <1>9
  <2> QED BY <2>1, <2>2, <2>3 DEF IsLog
<1> QED BY <1>10 DEF Replayable

LEMMA ForthKeepsLog ==
  ASSUME NEW x \in Buffers, Fits(x), NEW f, IsLog(x, f), x.redo_count > 0, NEW y,
         y.undo_stack = x.undo_stack, y.undo_top = Slot(x.undo_top, -1),
         y.undo_count = x.undo_count + 1, y.redo_count = x.redo_count - 1,
         buf_text(y) = f[-1]
  PROVE  Replayable(y)
<1>2. PICK top \in Ring : top = x.undo_top
  BY SlotTypes
<1>3. PICK n \in Nat : n = x.undo_count
  BY SlotTypes
<1>4. PICK r \in Nat : r = x.redo_count /\ r >= 1
  BY SlotTypes
<1>5. n + r <= UNDO_STACK_SIZE /\ UNDO_STACK_SIZE \in Nat
  BY <1>3, <1>4, SlotTypes
<1>6. PICK g : g = [i \in -(r - 1) .. n + 1 |-> f[i - 1]]
  OBVIOUS
<1>7. /\ \A i \in -r .. n : f[i] \in Sized
      /\ \A i \in 1 - r .. n : Undoes(EntryAt(x, i), f[i - 1], f[i])
  BY <1>3, <1>4 DEF IsLog
<1>8. ASSUME NEW i \in -(r - 1) .. n + 1 PROVE g[i] \in Sized
  <2>1. i - 1 \in -r .. n
    OBVIOUS
  <2> QED BY <1>6, <1>7, <2>1
<1>9. ASSUME NEW i \in 1 - (r - 1) .. n + 1 PROVE Undoes(EntryAt(y, i), g[i - 1], g[i])
  <2>1. i - 1 \in 1 - r .. n /\ i \in 2 - UNDO_STACK_SIZE .. UNDO_STACK_SIZE
    BY <1>4, <1>5
  <2>2. Slot(y.undo_top, i) = Slot(top, i - 1)
    BY <1>2, <2>1, SlotFacts
  <2>3. EntryAt(y, i) = EntryAt(x, i - 1)
    BY <1>2, <2>2 DEF EntryAt
  <2>4. i - 1 \in -(r - 1) .. n + 1 /\ i \in -(r - 1) .. n + 1
    OBVIOUS
  <2>5. g[i - 1] = f[(i - 1) - 1] /\ g[i] = f[i - 1]
    BY <1>6, <2>4
  <2> QED BY <1>7, <2>1, <2>3, <2>5
<1>10. IsLog(y, g)
  <2>1. g[0] = buf_text(y)
    <3>1. 0 \in -(r - 1) .. n + 1 /\ 0 - 1 = -1
      BY <1>4
    <3> QED BY <1>6, <3>1
  <2>2. \A i \in -y.redo_count .. y.undo_count : g[i] \in Sized
    BY <1>3, <1>4, <1>8
  <2>3. \A i \in 1 - y.redo_count .. y.undo_count : Undoes(EntryAt(y, i), g[i - 1], g[i])
    BY <1>3, <1>4, <1>9
  <2> QED BY <2>1, <2>2, <2>3 DEF IsLog
<1> QED BY <1>10 DEF Replayable

LEMMA EmptyLog ==
  ASSUME NEW y, buf_text(y) \in Sized, y.undo_count = 0, y.redo_count = 0
  PROVE  Replayable(y)
<1>1. IsLog(y, [i \in {0} |-> buf_text(y)])
  BY DEF IsLog
<1> QED BY <1>1 DEF Replayable

-----------------------------------------------------------------------------
(* What the operations do to the text and the ring.                        *)

EqualRings(x, y) ==
  /\ y.undo_stack = x.undo_stack /\ y.undo_top = x.undo_top
  /\ y.undo_count = x.undo_count /\ y.redo_count = x.redo_count

LEMMA SizedText ==
  ASSUME NEW x \in Buffers, Fits(x)
  PROVE  buf_text(x) \in Sized /\ Len(buf_text(x)) <= BUFFER_SIZE
<1>1. buf_text(x) \in Texts /\ Len(buf_text(x)) = buf_length(x)
  BY TextType
<1>2. buf_length(x) <= BUFFER_SIZE
  BY DEF Fits, buf_length
<1> QED BY <1>1, <1>2 DEF Sized

LEMMA Pushed ==
  ASSUME NEW x \in Buffers, Fits(x), ~x.undo_replaying, NEW e \in Entries
  PROVE  LET y == undo_push(x, e)
         IN  /\ y.undo_stack = [x.undo_stack EXCEPT ![x.undo_top] = e]
             /\ y.undo_top = Slot(x.undo_top, -1)
             /\ y.undo_count = IF x.undo_count + 1 <= UNDO_STACK_SIZE THEN x.undo_count + 1
                               ELSE UNDO_STACK_SIZE
             /\ y.redo_count = 0
<1> DEFINE y == undo_push(x, e)
<1>1. PICK m : m = Min({x.undo_count + 1, UNDO_STACK_SIZE})
  OBVIOUS
<1>2. m = IF x.undo_count + 1 <= UNDO_STACK_SIZE THEN x.undo_count + 1 ELSE UNDO_STACK_SIZE
  <2>1. x.undo_count + 1 \in Int /\ UNDO_STACK_SIZE \in Int
    BY SlotTypes
  <2> QED BY <1>1, <2>1, MinTwo
<1>3. PICK top : top = (x.undo_top + 1) % UNDO_STACK_SIZE
  OBVIOUS
<1>4. top = Slot(x.undo_top, -1)
  BY <1>3, SlotTypes, SlotModulo
<1>5. PICK stack : stack = [x.undo_stack EXCEPT ![x.undo_top] = e]
  OBVIOUS
<1>6. y = [x EXCEPT !.undo_stack = stack, !.undo_top = top, !.undo_count = m, !.redo_count = 0]
  BY <1>1, <1>3, <1>5 DEF undo_push
<1> HIDE DEF y
<1>7. y.undo_stack = stack /\ y.undo_top = top /\ y.undo_count = m /\ y.redo_count = 0
  BY <1>6 DEF Buffers
<1> QED BY <1>2, <1>4, <1>5, <1>7 DEF y

\* A change of the text together with the entry that undoes it.
LEMMA LoggedChange ==
  ASSUME NEW x \in Buffers, Fits(x), ~x.undo_replaying, Replayable(x), NEW e \in Entries,
         NEW y \in Buffers, Fits(y), EqualRings(undo_push(x, e), y),
         Undoes(e, buf_text(y), buf_text(x))
  PROVE  Replayable(y)
<1>1. /\ y.undo_stack = [x.undo_stack EXCEPT ![x.undo_top] = e]
      /\ y.undo_top = Slot(x.undo_top, -1)
      /\ y.undo_count = IF x.undo_count + 1 <= UNDO_STACK_SIZE THEN x.undo_count + 1
                        ELSE UNDO_STACK_SIZE
      /\ y.redo_count = 0
  BY Pushed, Zenon DEF EqualRings
<1>2. buf_text(y) \in Sized
  BY SizedText
<1> QED BY <1>1, <1>2, ChangeKeepsLog

LEMMA InsertEffect ==
  ASSUME NEW x \in Buffers, Fits(x), NEW c \in Chars, buf_length(x) < BUFFER_SIZE
  PROVE  LET e == [type |-> "INSERT", pos |-> Len(x.left), ch |-> c]
         IN  /\ e \in Entries /\ EqualRings(undo_push(x, e), buf_insert(x, c))
             /\ buf_text(buf_insert(x, c)) = PutIn(buf_text(x), Len(x.left), c)
             /\ Undoes(e, buf_text(buf_insert(x, c)), buf_text(x))
<1> DEFINE e == [type |-> "INSERT", pos |-> Len(x.left), ch |-> c]
           y == buf_insert(x, c)
           logged == undo_push(x, e)
<1>1. x.left \in Texts /\ x.right \in Texts
  BY DEF Buffers
<1>2. PICK l \in Nat : l = Len(x.left)
  BY <1>1, LenProperties DEF Texts
<1>3. e \in Entries
  BY <1>2 DEF Entries
<1>4. logged \in Buffers /\ logged.left = x.left /\ logged.right = x.right
  BY <1>3, PushKeeps DEF Keeps, SameText
<1> HIDE DEF logged
<1>5. y = [logged EXCEPT !.left = Append(x.left, c)]
  <2>1. ~(buf_length(x) >= BUFFER_SIZE)
    BY TextType, EditBufferAssumption
  <2>2. y = [logged EXCEPT !.left = Append(logged.left, c)]
    BY <2>1 DEF buf_insert, logged
  <2> QED BY <1>4, <2>2, Zenon
<1> HIDE DEF y
<1>6. PICK text : text = Append(x.left, c)
  OBVIOUS
<1>7. EqualRings(logged, y) /\ y.left = text /\ y.right = x.right
  BY <1>4, <1>5, <1>6 DEF EqualRings, Buffers
<1>8. PICK t \in Texts : t = buf_text(x)
  BY TextType
<1>9. PICK u : u = buf_text(y)
  OBVIOUS
<1>10. u = PutIn(t, l, c)
  <2>1. Append(x.left, c) \o x.right = PutIn(x.left \o x.right, Len(x.left), c)
    BY <1>1, GapEdits
  <2> QED BY <1>2, <1>6, <1>7, <1>8, <1>9, <2>1, Zenon DEF buf_text
<1>11. PICK n \in Nat : n = Len(t) /\ l <= n
  BY <1>2, <1>8, TextType DEF buf_cursor_pos
<1>12. Len(u) = n + 1 /\ u[l + 1] = c /\ t = TakeOut(u, l)
  BY <1>10, <1>11, PutInType
<1>13. Undoes(e, u, t)
  <2>1. /\ e.type # "BOUNDARY" /\ e.type # "DELETE"
        /\ e.pos < Len(u) /\ u[e.pos + 1] = e.ch /\ t = TakeOut(u, e.pos)
    <3>1. e.type = "INSERT" /\ e.pos = l /\ e.ch = c /\ l < n + 1
      BY <1>2, <1>11
    <3> HIDE DEF e
    <3> QED BY <1>12, <3>1
  <2> HIDE DEF e
  <2> QED BY <2>1 DEF Undoes
<1> QED BY <1>2, <1>3, <1>7, <1>8, <1>9, <1>10, <1>13, Zenon DEF logged, y, e

LEMMA DeleteFwdEffect ==
  ASSUME NEW x \in Buffers, Fits(x), x.right # << >>
  PROVE  LET e == [type |-> "DELETE", pos |-> Len(x.left), ch |-> Head(x.right)]
         IN  /\ e \in Entries /\ EqualRings(undo_push(x, e), buf_delete_fwd(x))
             /\ buf_text(buf_delete_fwd(x)) = TakeOut(buf_text(x), Len(x.left))
             /\ Undoes(e, buf_text(buf_delete_fwd(x)), buf_text(x))
<1> DEFINE e == [type |-> "DELETE", pos |-> Len(x.left), ch |-> Head(x.right)]
           y == buf_delete_fwd(x)
           logged == undo_push(x, e)
<1>1. x.left \in Texts /\ x.right \in Texts
  BY DEF Buffers
<1>2. PICK l \in Nat : l = Len(x.left)
  BY <1>1, LenProperties DEF Texts
<1>3. e \in Entries
  BY <1>1, <1>2, HeadTailProperties DEF Entries, Texts
<1>4. logged \in Buffers /\ logged.left = x.left /\ logged.right = x.right
  BY <1>3, PushKeeps DEF Keeps, SameText
<1> HIDE DEF logged
<1>5. y = [logged EXCEPT !.right = Tail(x.right)]
  <2>1. y = [logged EXCEPT !.right = Tail(logged.right)]
    BY DEF buf_delete_fwd, logged
  <2> QED BY <1>4, <2>1, Zenon
<1> HIDE DEF y
<1>6. PICK text : text = Tail(x.right)
  OBVIOUS
<1>7. EqualRings(logged, y) /\ y.left = x.left /\ y.right = text
  BY <1>4, <1>5, <1>6 DEF EqualRings, Buffers
<1>8. PICK t \in Texts : t = buf_text(x)
  BY TextType
<1>9. PICK u : u = buf_text(y)
  OBVIOUS
<1> PICK c \in Chars : c = Head(x.right)
  BY <1>3 DEF Entries
<1>10. u = TakeOut(t, l) /\ l < Len(t) /\ t[l + 1] = c
  <2>1. /\ Len(x.left) < Len(x.left \o x.right)
        /\ (x.left \o x.right)[Len(x.left) + 1] = Head(x.right)
        /\ x.left \o Tail(x.right) = TakeOut(x.left \o x.right, Len(x.left))
    BY <1>1, EditBufferAssumption, GapEdits
  <2> QED BY <1>2, <1>6, <1>7, <1>8, <1>9, <2>1, Zenon DEF buf_text
<1>11. PICK n \in Nat : n = Len(t) /\ n <= BUFFER_SIZE
  BY <1>8, SizedText, TextType
<1>12. Len(u) = n - 1 /\ PutIn(u, l, c) = t
  BY <1>10, <1>11, TakeOutType
<1>13. Undoes(e, u, t)
  <2>1. /\ e.type # "BOUNDARY" /\ e.type # "INSERT"
        /\ e.pos <= Len(u) /\ Len(u) < BUFFER_SIZE /\ t = PutIn(u, e.pos, e.ch)
    <3>1. e.type = "DELETE" /\ e.pos = l /\ e.ch = c /\ l <= n - 1 /\ n - 1 < BUFFER_SIZE
      <4>1. l < n /\ BUFFER_SIZE \in Nat
        BY <1>10, <1>11, EditBufferAssumption
      <4> QED BY <1>2, <1>11, <4>1
    <3> HIDE DEF e
    <3> QED BY <1>12, <3>1
  <2> HIDE DEF e
  <2> QED BY <2>1 DEF Undoes
<1> QED BY <1>2, <1>3, <1>7, <1>8, <1>9, <1>10, <1>13, Zenon DEF logged, y, e

LEMMA DeleteBackEffect ==
  ASSUME NEW x \in Buffers, Fits(x), x.left # << >>
  PROVE  LET e == [type |-> "DELETE", pos |-> Len(x.left) - 1, ch |-> Last(x.left)]
         IN  /\ e \in Entries /\ EqualRings(undo_push(x, e), buf_delete_back(x))
             /\ Undoes(e, buf_text(buf_delete_back(x)), buf_text(x))
<1> DEFINE e == [type |-> "DELETE", pos |-> Len(x.left) - 1, ch |-> Last(x.left)]
           y == buf_delete_back(x)
           logged == undo_push(x, e)
<1>1. x.left \in Texts /\ x.right \in Texts
  BY DEF Buffers
<1>2. PICK l \in Nat : l = Len(x.left) - 1
  BY <1>1, GapDeletesBack
<1>8. PICK t \in Texts : t = buf_text(x)
  BY TextType
<1>11. PICK n \in Nat : n = Len(t) /\ n <= BUFFER_SIZE
  BY <1>8, SizedText, TextType
<1>10. /\ l < n /\ t[l + 1] = Last(x.left)
       /\ Front(x.left) \o x.right = TakeOut(t, l)
  BY <1>1, <1>2, <1>8, <1>11, GapDeletesBack DEF buf_text
<1> PICK c \in Chars : c = Last(x.left)
  <2>1. l + 1 \in 1 .. Len(t)
    BY <1>10, <1>11
  <2> QED BY <1>10, <2>1, ElementOfSeq DEF Texts
<1>3. e \in Entries
  BY <1>2 DEF Entries
<1>4. logged \in Buffers /\ logged.left = x.left /\ logged.right = x.right
  BY <1>3, PushKeeps DEF Keeps, SameText
<1> HIDE DEF logged
<1>5. y = [logged EXCEPT !.left = Front(x.left)]
  <2>1. y = [logged EXCEPT !.left = Front(logged.left)]
    BY DEF buf_delete_back, logged
  <2> QED BY <1>4, <2>1, Zenon
<1> HIDE DEF y
<1>6. PICK text : text = Front(x.left)
  OBVIOUS
<1>7. EqualRings(logged, y) /\ y.left = text /\ y.right = x.right
  BY <1>4, <1>5, <1>6 DEF EqualRings, Buffers
<1>9. PICK u : u = buf_text(y) /\ u = TakeOut(t, l)
  BY <1>6, <1>7, <1>10, Zenon DEF buf_text
<1>12. Len(u) = n - 1 /\ PutIn(u, l, c) = t
  BY <1>9, <1>10, <1>11, TakeOutType
<1>13. Undoes(e, u, t)
  <2>1. /\ e.type # "BOUNDARY" /\ e.type # "INSERT"
        /\ e.pos <= Len(u) /\ Len(u) < BUFFER_SIZE /\ t = PutIn(u, e.pos, e.ch)
    <3>1. e.type = "DELETE" /\ e.pos = l /\ e.ch = c /\ l <= n - 1 /\ n - 1 < BUFFER_SIZE
      <4>1. BUFFER_SIZE \in Nat
        BY EditBufferAssumption
      <4> QED BY <1>2, <1>10, <1>11, <4>1
    <3> HIDE DEF e
    <3> QED BY <1>12, <3>1
  <2> HIDE DEF e
  <2> QED BY <2>1 DEF Undoes
<1> QED BY <1>2, <1>3, <1>7, <1>8, <1>9, <1>13, Zenon DEF logged, y, e

\* Every operation of a command leaves the ring in step with the text.
LEMMA EditsKeepLog ==
  ASSUME NEW x \in Buffers, Fits(x), ~x.undo_replaying, Replayable(x)
  PROVE  /\ \A c \in Chars : Replayable(buf_insert(x, c))
         /\ Replayable(buf_delete_fwd(x)) /\ Replayable(buf_delete_back(x))
         /\ Replayable(buf_undo_boundary(x))
         /\ \A pos \in Nat : Replayable(buf_move_to(x, pos))
<1>1. ASSUME NEW c \in Chars PROVE Replayable(buf_insert(x, c))
  <2>1. CASE buf_length(x) >= BUFFER_SIZE
    BY <2>1 DEF buf_insert
  <2>2. CASE ~(buf_length(x) >= BUFFER_SIZE)
    <3>1. buf_length(x) < BUFFER_SIZE
      BY <2>2, TextType, EditBufferAssumption
    <3> DEFINE e == [type |-> "INSERT", pos |-> Len(x.left), ch |-> c]
    <3>2. PICK y \in Buffers : y = buf_insert(x, c) /\ Fits(y)
      BY InsertKeeps DEF Keeps
    <3>3. e \in Entries /\ EqualRings(undo_push(x, e), y) /\ Undoes(e, buf_text(y), buf_text(x))
      BY <3>1, <3>2, InsertEffect, Zenon
    <3> HIDE DEF e
    <3> QED BY <3>2, <3>3, LoggedChange
  <2> QED BY <2>1, <2>2
<1>2. Replayable(buf_delete_fwd(x))
  <2>1. CASE x.right = << >>
    BY <2>1 DEF buf_delete_fwd
  <2>2. CASE x.right # << >>
    <3> DEFINE e == [type |-> "DELETE", pos |-> Len(x.left), ch |-> Head(x.right)]
    <3>1. PICK y \in Buffers : y = buf_delete_fwd(x) /\ Fits(y)
      BY DeleteFwdKeeps DEF Keeps
    <3>2. e \in Entries /\ EqualRings(undo_push(x, e), y) /\ Undoes(e, buf_text(y), buf_text(x))
      BY <2>2, <3>1, DeleteFwdEffect, Zenon
    <3> HIDE DEF e
    <3> QED BY <3>1, <3>2, LoggedChange
  <2> QED BY <2>1, <2>2
<1>3. Replayable(buf_delete_back(x))
  <2>1. CASE x.left = << >>
    BY <2>1 DEF buf_delete_back
  <2>2. CASE x.left # << >>
    <3> DEFINE e == [type |-> "DELETE", pos |-> Len(x.left) - 1, ch |-> Last(x.left)]
    <3>1. PICK y \in Buffers : y = buf_delete_back(x) /\ Fits(y)
      BY DeleteBackKeeps DEF Keeps
    <3>2. e \in Entries /\ EqualRings(undo_push(x, e), y) /\ Undoes(e, buf_text(y), buf_text(x))
      BY <2>2, <3>1, DeleteBackEffect, Zenon
    <3> HIDE DEF e
    <3> QED BY <3>1, <3>2, LoggedChange
  <2> QED BY <2>1, <2>2
<1>4. Replayable(buf_undo_boundary(x))
  <2>1. PICK y : y = undo_push(x, Boundary)
    OBVIOUS
  <2>2. Boundary \in Entries /\ Boundary.type = "BOUNDARY"
    BY EditBufferAssumption DEF Boundary, Entries
  <2>3. y \in Buffers /\ Fits(y) /\ SameText(x, y)
    BY <2>1, <2>2, PushKeeps DEF Keeps
  <2>4. Undoes(Boundary, buf_text(y), buf_text(x)) /\ EqualRings(undo_push(x, Boundary), y)
    BY <2>1, <2>2, <2>3 DEF Undoes, SameText, buf_text, EqualRings
  <2>5. Replayable(y)
    BY <2>2, <2>3, <2>4, LoggedChange
  <2> QED BY <2>1, <2>5 DEF buf_undo_boundary
<1>5. ASSUME NEW pos \in Nat PROVE Replayable(buf_move_to(x, pos))
  <2>1. PICK y : y = buf_move_to(x, pos)
    OBVIOUS
  <2>2. /\ buf_text(y) = buf_text(x)
        /\ y.undo_stack = x.undo_stack /\ y.undo_top = x.undo_top
        /\ y.undo_count = x.undo_count /\ y.redo_count = x.redo_count
    BY <2>1, MoveTo
  <2> QED BY <2>1, <2>2, SameRing
<1> QED BY <1>1, <1>2, <1>3, <1>4, <1>5

-----------------------------------------------------------------------------
(* Replaying: the operations log nothing then, an entry changes sides.     *)

LEMMA ReplayedEdit ==
  ASSUME NEW x \in Buffers, Fits(x), x.undo_replaying, NEW pos \in Nat, NEW c \in Chars,
         NEW t, t = buf_text(x), NEW m, m = buf_move_to(x, pos)
  PROVE  /\ pos < Len(t) => /\ buf_text(buf_delete_fwd(m)) = TakeOut(t, pos)
                            /\ EqualRings(x, buf_delete_fwd(m))
         /\ pos <= Len(t) /\ Len(t) < BUFFER_SIZE =>
              /\ buf_text(buf_insert(m, c)) = PutIn(t, pos, c)
              /\ EqualRings(x, buf_insert(m, c))
<1>1. PICK n \in Nat : n = buf_length(x) /\ n = Len(t)
  BY TextType
<1>2. /\ m \in Buffers /\ buf_text(m) = t /\ buf_length(m) = n
      /\ pos <= n => Len(m.left) = pos
      /\ EqualRings(x, m) /\ m.undo_replaying
  BY <1>1, MoveTo DEF EqualRings
<1>3. Fits(m)
  BY <1>2, MoveKeeps DEF Keeps
<1>4. \A e : undo_push(m, e) = m
  BY <1>2 DEF undo_push
<1>5. ASSUME pos < Len(t)
      PROVE  buf_text(buf_delete_fwd(m)) = TakeOut(t, pos) /\ EqualRings(x, buf_delete_fwd(m))
  <2>1. pos <= n /\ pos # n
    BY <1>1, <1>5
  <2>2. m.right # << >>
    <3> SUFFICES ASSUME m.right = << >> PROVE FALSE
      OBVIOUS
    <3>1. Len(m.right) = 0
      OBVIOUS
    <3>2. buf_length(m) = pos + 0
      BY <1>2, <2>1, <3>1, Zenon DEF buf_length
    <3> QED BY <1>2, <2>1, <3>2
  <2>3. /\ EqualRings(m, buf_delete_fwd(m))
        /\ buf_text(buf_delete_fwd(m)) = TakeOut(buf_text(m), Len(m.left))
    BY <1>2, <1>3, <1>4, <2>2, DeleteFwdEffect, Zenon
  <2> QED BY <1>2, <2>1, <2>3, Zenon DEF EqualRings
<1>6. ASSUME pos <= Len(t), Len(t) < BUFFER_SIZE
      PROVE  buf_text(buf_insert(m, c)) = PutIn(t, pos, c) /\ EqualRings(x, buf_insert(m, c))
  <2>1. /\ EqualRings(m, buf_insert(m, c))
        /\ buf_text(buf_insert(m, c)) = PutIn(buf_text(m), Len(m.left), c)
    <3>1. buf_length(m) < BUFFER_SIZE
      BY <1>1, <1>2, <1>6
    <3> QED BY <1>2, <1>3, <1>4, <3>1, InsertEffect, Zenon
  <2> QED BY <1>1, <1>2, <1>6, <2>1, Zenon DEF EqualRings
<1> QED BY <1>5, <1>6

\* One entry back, and one forth.
LEMMA SteppedBack ==
  ASSUME NEW x \in Buffers, Fits(x), x.undo_count > 0, NEW s, s = StepBack(x)
  PROVE  /\ s \in Buffers /\ Fits(s) /\ buf_text(s) = buf_text(x)
         /\ s.undo_replaying = x.undo_replaying
         /\ s.undo_stack = x.undo_stack /\ s.undo_top = Slot(x.undo_top, 1)
         /\ s.undo_count = x.undo_count - 1 /\ s.redo_count = x.redo_count + 1
<1>1. Keeps(x, s) /\ SameText(x, s)
  BY StepKeeps
<1>2. PICK top : top = (x.undo_top + UNDO_STACK_SIZE - 1) % UNDO_STACK_SIZE
  OBVIOUS
<1>3. top = Slot(x.undo_top, 1)
  BY <1>2, SlotTypes, SlotModulo
<1>4. s = [x EXCEPT !.undo_top = top, !.undo_count = x.undo_count - 1,
                    !.redo_count = x.redo_count + 1]
  BY <1>2 DEF StepBack
<1>5. /\ s.undo_stack = x.undo_stack /\ s.undo_top = top
      /\ s.undo_count = x.undo_count - 1 /\ s.redo_count = x.redo_count + 1
  BY <1>4 DEF Buffers
<1> QED BY <1>1, <1>3, <1>5 DEF Keeps, SameText, buf_text

LEMMA SteppedForward ==
  ASSUME NEW x \in Buffers, Fits(x), x.redo_count > 0, NEW s, s = StepForward(x)
  PROVE  /\ s \in Buffers /\ Fits(s) /\ buf_text(s) = buf_text(x)
         /\ s.undo_replaying = x.undo_replaying
         /\ s.undo_stack = x.undo_stack /\ s.undo_top = Slot(x.undo_top, -1)
         /\ s.undo_count = x.undo_count + 1 /\ s.redo_count = x.redo_count - 1
<1>1. Keeps(x, s) /\ SameText(x, s)
  BY StepKeeps
<1>2. PICK top : top = (x.undo_top + 1) % UNDO_STACK_SIZE
  OBVIOUS
<1>3. top = Slot(x.undo_top, -1)
  BY <1>2, SlotTypes, SlotModulo
<1>4. s = [x EXCEPT !.undo_top = top, !.undo_count = x.undo_count + 1,
                    !.redo_count = x.redo_count - 1]
  BY <1>2 DEF StepForward
<1>5. /\ s.undo_stack = x.undo_stack /\ s.undo_top = top
      /\ s.undo_count = x.undo_count + 1 /\ s.redo_count = x.redo_count - 1
  BY <1>4 DEF Buffers
<1> QED BY <1>1, <1>3, <1>5 DEF Keeps, SameText, buf_text

\* The newest entry undoes the last change, the next redo entry the last undo.
LEMMA NextEntries ==
  ASSUME NEW x \in Buffers, Fits(x), NEW f, IsLog(x, f)
  PROVE  /\ f[0] = buf_text(x)
         /\ x.undo_count > 0 => Undoes(Newest(x), f[0], f[1]) /\ f[1] \in Sized
         /\ x.redo_count > 0 => Redoes(NextRedo(x), f[0], f[-1]) /\ f[-1] \in Sized
<1>1. PICK n \in Nat : n = x.undo_count
  BY SlotTypes
<1>2. PICK r \in Nat : r = x.redo_count
  BY SlotTypes
<1>3. /\ \A i \in -r .. n : f[i] \in Sized
      /\ f[0] = buf_text(x)
      /\ \A i \in 1 - r .. n : Undoes(EntryAt(x, i), f[i - 1], f[i])
  BY <1>1, <1>2 DEF IsLog
<1>4. Newest(x) = EntryAt(x, 1) /\ NextRedo(x) = EntryAt(x, 0)
  BY SlotTypes, SlotModulo, SlotFacts DEF Newest, NextRedo, EntryAt
<1>5. ASSUME n > 0 PROVE Undoes(Newest(x), f[0], f[1]) /\ f[1] \in Sized
  <2>1. 1 \in 1 - r .. n /\ 1 \in -r .. n /\ 1 - 1 = 0
    BY <1>5
  <2> QED BY <1>3, <1>4, <2>1
<1>6. ASSUME r > 0 PROVE Redoes(NextRedo(x), f[0], f[-1]) /\ f[-1] \in Sized
  <2>1. 0 \in 1 - r .. n /\ -1 \in -r .. n /\ 0 \in -r .. n /\ 0 - 1 = -1
    BY <1>6
  <2>2. Undoes(EntryAt(x, 0), f[-1], f[0]) /\ f[-1] \in Sized /\ f[0] \in Sized
    BY <1>3, <2>1
  <2>3. EntryAt(x, 0) \in Entries
    BY <1>1, <1>2, <2>1, SlotTypes
  <2> QED BY <1>4, <2>2, <2>3, UndoRedo
<1> QED BY <1>1, <1>2, <1>3, <1>5, <1>6

LEMMA ReplayKeepsLog ==
  ASSUME NEW x \in Buffers, Fits(x), x.undo_replaying, Replayable(x)
  PROVE  Replayable(UndoEntry(x)) /\ Replayable(RedoEntry(x))
<1>1. PICK f : IsLog(x, f)
  BY DEF Replayable
<1>2. PICK t \in Sized : t = buf_text(x) /\ t = f[0]
  BY <1>1, SizedText, NextEntries
<1>3. PICK n \in Nat : n = Len(t)
  BY <1>2, LenProperties DEF Sized, Texts
<1>4. Replayable(UndoEntry(x))
  <2> DEFINE newest == Newest(x)
  <2>1. PICK e \in Entries : e = newest
    BY NeighbourTypes
  <2>2. CASE x.undo_count = 0 \/ e.type = "BOUNDARY"
    BY <2>1, <2>2 DEF UndoEntry
  <2>3. CASE ~(x.undo_count = 0 \/ e.type = "BOUNDARY")
    <3>1. x.undo_count > 0
      BY <2>3 DEF Buffers
    <3>2. Undoes(e, t, f[1])
      BY <1>1, <1>2, <2>1, <3>1, NextEntries
    <3>3. PICK s : s = StepBack(x)
      OBVIOUS
    <3>4. /\ s \in Buffers /\ Fits(s) /\ buf_text(s) = t /\ s.undo_replaying
          /\ s.undo_stack = x.undo_stack /\ s.undo_top = Slot(x.undo_top, 1)
          /\ s.undo_count = x.undo_count - 1 /\ s.redo_count = x.redo_count + 1
      BY <1>2, <3>1, <3>3, SteppedBack
    <3>5. PICK m : m = buf_move_to(s, e.pos)
      OBVIOUS
    <3>6. PICK y : y = IF e.type = "INSERT" THEN buf_delete_fwd(m) ELSE buf_insert(m, e.ch)
      OBVIOUS
    <3>7. UndoEntry(x) = y
      BY <2>1, <2>3, <3>3, <3>5, <3>6, Zenon DEF UndoEntry
    <3>8. e.pos \in Nat /\ e.ch \in Chars /\ e.type \in {"INSERT", "DELETE"}
      BY <2>3 DEF Entries
    <3>9. buf_text(y) = f[1] /\ EqualRings(s, y)
      <4>1. CASE e.type = "INSERT"
        <5>1. e.pos < Len(t) /\ f[1] = TakeOut(t, e.pos) /\ y = buf_delete_fwd(m)
          BY <3>2, <3>6, <4>1 DEF Undoes
        <5> QED BY <3>4, <3>5, <3>8, <5>1, ReplayedEdit
      <4>2. CASE e.type = "DELETE"
        <5>1. /\ e.pos <= Len(t) /\ Len(t) < BUFFER_SIZE /\ f[1] = PutIn(t, e.pos, e.ch)
              /\ y = buf_insert(m, e.ch)
          BY <3>2, <3>6, <4>2 DEF Undoes
        <5> QED BY <3>4, <3>5, <3>8, <5>1, ReplayedEdit
      <4> QED BY <3>8, <4>1, <4>2
    <3>10. Replayable(y)
      BY <1>1, <3>1, <3>4, <3>9, BackKeepsLog DEF EqualRings
    <3> QED BY <3>7, <3>10
  <2> QED BY <2>2, <2>3
<1>5. Replayable(RedoEntry(x))
  <2>1. PICK e \in Entries : e = NextRedo(x)
    BY NeighbourTypes
  <2>2. CASE x.redo_count = 0 \/ e.type = "BOUNDARY"
    BY <2>1, <2>2 DEF RedoEntry
  <2>3. CASE ~(x.redo_count = 0 \/ e.type = "BOUNDARY")
    <3>1. x.redo_count > 0
      BY <2>3 DEF Buffers
    <3>2. Redoes(e, t, f[-1])
      BY <1>1, <1>2, <2>1, <3>1, NextEntries
    <3>3. PICK s : s = StepForward(x)
      OBVIOUS
    <3>4. /\ s \in Buffers /\ Fits(s) /\ buf_text(s) = t /\ s.undo_replaying
          /\ s.undo_stack = x.undo_stack /\ s.undo_top = Slot(x.undo_top, -1)
          /\ s.undo_count = x.undo_count + 1 /\ s.redo_count = x.redo_count - 1
      BY <1>2, <3>1, <3>3, SteppedForward
    <3>5. PICK m : m = buf_move_to(s, e.pos)
      OBVIOUS
    <3>6. PICK y : y = IF e.type = "INSERT" THEN buf_insert(m, e.ch) ELSE buf_delete_fwd(m)
      OBVIOUS
    <3>7. RedoEntry(x) = y
      BY <2>1, <2>3, <3>3, <3>5, <3>6, Zenon DEF RedoEntry
    <3>8. e.pos \in Nat /\ e.ch \in Chars /\ e.type \in {"INSERT", "DELETE"}
      BY <2>3 DEF Entries
    <3>9. buf_text(y) = f[-1] /\ EqualRings(s, y)
      <4>1. CASE e.type = "DELETE"
        <5>1. e.pos < Len(t) /\ f[-1] = TakeOut(t, e.pos) /\ y = buf_delete_fwd(m)
          BY <3>2, <3>6, <4>1 DEF Redoes
        <5> QED BY <3>4, <3>5, <3>8, <5>1, ReplayedEdit
      <4>2. CASE e.type = "INSERT"
        <5>1. /\ e.pos <= Len(t) /\ Len(t) < BUFFER_SIZE /\ f[-1] = PutIn(t, e.pos, e.ch)
              /\ y = buf_insert(m, e.ch)
          BY <3>2, <3>6, <4>2 DEF Redoes
        <5> QED BY <3>4, <3>5, <3>8, <5>1, ReplayedEdit
      <4> QED BY <3>8, <4>1, <4>2
    <3>10. Replayable(y)
      BY <1>1, <3>1, <3>4, <3>9, ForthKeepsLog DEF EqualRings
    <3> QED BY <3>7, <3>10
  <2> QED BY <2>2, <2>3
<1> QED BY <1>4, <1>5

\* Stepping over a boundary changes no text.
LEMMA BoundarySkipped ==
  ASSUME NEW x \in Buffers, Fits(x), Replayable(x)
  PROVE  /\ x.undo_count > 0 /\ Newest(x).type = "BOUNDARY" => Replayable(StepBack(x))
         /\ x.redo_count > 0 /\ NextRedo(x).type = "BOUNDARY" => Replayable(StepForward(x))
         /\ \A on \in BOOLEAN : Replayable(Replaying(x, on))
<1>1. PICK f : IsLog(x, f)
  BY DEF Replayable
<1>2. ASSUME x.undo_count > 0, Newest(x).type = "BOUNDARY" PROVE Replayable(StepBack(x))
  <2>1. PICK s : s = StepBack(x)
    OBVIOUS
  <2>2. f[1] = buf_text(x)
    BY <1>1, <1>2, NextEntries DEF Undoes
  <2>3. /\ buf_text(s) = f[1]
        /\ s.undo_stack = x.undo_stack /\ s.undo_top = Slot(x.undo_top, 1)
        /\ s.undo_count = x.undo_count - 1 /\ s.redo_count = x.redo_count + 1
    BY <1>2, <2>1, <2>2, SteppedBack
  <2> QED BY <1>1, <1>2, <2>1, <2>3, BackKeepsLog
<1>3. ASSUME x.redo_count > 0, NextRedo(x).type = "BOUNDARY" PROVE Replayable(StepForward(x))
  <2>1. PICK s : s = StepForward(x)
    OBVIOUS
  <2>2. f[-1] = buf_text(x)
    BY <1>1, <1>3, NextEntries DEF Redoes
  <2>3. /\ buf_text(s) = f[-1]
        /\ s.undo_stack = x.undo_stack /\ s.undo_top = Slot(x.undo_top, -1)
        /\ s.undo_count = x.undo_count + 1 /\ s.redo_count = x.redo_count - 1
    BY <1>3, <2>1, <2>2, SteppedForward
  <2> QED BY <1>1, <1>3, <2>1, <2>3, ForthKeepsLog
<1>4. ASSUME NEW on \in BOOLEAN PROVE Replayable(Replaying(x, on))
  <2>1. PICK y : y = Replaying(x, on)
    OBVIOUS
  <2>2. /\ y.left = x.left /\ y.right = x.right
        /\ y.undo_stack = x.undo_stack /\ y.undo_top = x.undo_top
        /\ y.undo_count = x.undo_count /\ y.redo_count = x.redo_count
    BY <2>1 DEF Replaying, Buffers
  <2> QED BY <2>1, <2>2, SameRing DEF buf_text
<1> QED BY <1>2, <1>3, <1>4

-----------------------------------------------------------------------------
(* The walks over the ring find every entry fitting.                       *)

LEMMA WalkedEdits ==
  ASSUME NEW t \in Texts, NEW e \in Entries
  PROVE  /\ e.pos < Len(t) => Without(t, e) = TakeOut(t, e.pos)
         /\ e.pos <= Len(t) => With(t, e) = PutIn(t, e.pos, e.ch)
<1>1. PICK p \in Nat : p = e.pos
  BY DEF Entries
<1>2. PICK n \in Nat : n = Len(t)
  BY LenProperties DEF Texts
<1>3. t \in Seq(Chars) /\ e.ch \in Chars
  BY DEF Texts, Entries
<1> SUFFICES ASSUME p <= n
             PROVE  /\ p < n => Without(t, e) = TakeOut(t, p)
                    /\ With(t, e) = PutIn(t, p, e.ch)
  BY <1>1, <1>2
<1>4. PICK l : l = SubSeq(t, 1, p)
  OBVIOUS
<1>5. PICK r : r = SubSeq(t, p + 1, n)
  OBVIOUS
<1>6. l \in Texts /\ Len(l) = p
  <2>1. \A i \in 1 .. p : t[i] \in Chars
    BY <1>2, <1>3, ElementOfSeq
  <2>2. l \in Seq(Chars) /\ Len(l) = IF 1 <= p THEN p - 1 + 1 ELSE 0
    BY <1>4, <2>1, SubSeqProperties
  <2> QED BY <2>2 DEF Texts
<1>7. r \in Texts /\ Len(r) = n - p
  <2>1. \A i \in p + 1 .. n : t[i] \in Chars
    BY <1>2, <1>3, ElementOfSeq
  <2>2. p + 1 \in Int /\ n \in Int
    OBVIOUS
  <2>3. r \in Seq(Chars) /\ Len(r) = IF p + 1 <= n THEN n - (p + 1) + 1 ELSE 0
    BY <1>5, <2>1, <2>2, SubSeqProperties
  <2> QED BY <2>3 DEF Texts
<1>8. l \o r = t
  <2>1. 1 \in 1 .. Len(t) + 1 /\ p \in 1 - 1 .. Len(t) /\ n \in p .. Len(t)
    BY <1>2
  <2>2. SubSeq(t, 1, p) \o SubSeq(t, p + 1, n) = SubSeq(t, 1, n)
    BY <1>3, <2>1, ConcatAdjacentSubSeq
  <2> QED BY <1>2, <1>3, <1>4, <1>5, <2>2, SubSeqFull
<1>9. With(t, e) = PutIn(t, p, e.ch)
  <2>1. Append(l, e.ch) \o r = PutIn(t, p, e.ch)
    BY <1>3, <1>6, <1>7, <1>8, GapEdits
  <2>2. Append(l, e.ch) = l \o <<e.ch>>
    BY <1>3, <1>6, AppendIsConcat DEF Texts
  <2>3. With(t, e) = (l \o <<e.ch>>) \o r
    BY <1>1, <1>2, <1>4, <1>5, Zenon DEF With
  <2> QED BY <2>1, <2>2, <2>3
<1>10. ASSUME p < n PROVE Without(t, e) = TakeOut(t, p)
  <2>1. r # << >>
    <3>1. Len(r) # 0
      BY <1>7, <1>10
    <3> QED BY <1>7, <3>1, EmptySeq DEF Texts
  <2>2. l \o Tail(r) = TakeOut(t, p)
    BY <1>3, <1>6, <1>7, <1>8, <2>1, GapEdits
  <2>3. Tail(r) = SubSeq(t, p + 2, n)
    <3>1. p + 1 \in 1 .. Len(t) /\ n \in p + 1 .. Len(t) /\ (p + 1) + 1 = p + 2
      BY <1>2, <1>10
    <3>2. Tail(SubSeq(t, p + 1, n)) = SubSeq(t, (p + 1) + 1, n)
      BY <1>3, <3>1, HeadTailOfSubSeq
    <3> QED BY <1>5, <3>1, <3>2
  <2>4. Without(t, e) = l \o SubSeq(t, p + 2, n)
    BY <1>1, <1>2, <1>4, Zenon DEF Without
  <2> QED BY <2>2, <2>3, <2>4
<1> QED BY <1>9, <1>10

\* Replaying e leads from t to u, in a walk that removes the entries' characters
\* for the type given.
Leads(e, t, u, removing) ==
  /\ e.type = "BOUNDARY" => u = t
  /\ e.type # "BOUNDARY" /\ e.type = removing => Holds(t, e) /\ u = Without(t, e)
  /\ e.type # "BOUNDARY" /\ e.type # removing => HasRoom(t, e) /\ u = With(t, e)

LEMMA LeadsBack ==
  ASSUME NEW e \in Entries, NEW t \in Sized, NEW u \in Sized
  PROVE  /\ Undoes(e, t, u) => Leads(e, t, u, "INSERT")
         /\ Redoes(e, t, u) => Leads(e, t, u, "DELETE")
<1>1. t \in Texts /\ e.type \in {"INSERT", "DELETE", "BOUNDARY"} /\ e.pos \in Nat
  BY DEF Sized, Entries
<1>2. PICK n \in Nat : n = Len(t)
  BY <1>1, LenProperties DEF Texts
<1>3. e.pos < Len(t) => Without(t, e) = TakeOut(t, e.pos)
  BY <1>1, WalkedEdits
<1>4. e.pos <= Len(t) => With(t, e) = PutIn(t, e.pos, e.ch)
  BY <1>1, WalkedEdits
<1>5. CASE e.type = "BOUNDARY"
  BY <1>5 DEF Undoes, Redoes, Leads
<1>6. CASE e.type = "INSERT"
  BY <1>3, <1>4, <1>6 DEF Undoes, Redoes, Leads, Holds, HasRoom
<1>7. CASE e.type = "DELETE"
  BY <1>3, <1>4, <1>7 DEF Undoes, Redoes, Leads, Holds, HasRoom
<1> QED BY <1>1, <1>5, <1>6, <1>7

\* A walk over the entries e[1 .. n].
WalkStep(e, n, removing, w, i) ==
  LET text == IF e[i].type = "BOUNDARY" THEN w.text
              ELSE IF e[i].type = removing THEN Without(w.text, e[i]) ELSE With(w.text, e[i])
      ends == e[i].type # "BOUNDARY" /\ (i = n \/ e[i + 1].type = "BOUNDARY")
  IN [text |-> text,
      groups |-> IF ends THEN Append(w.groups, text) ELSE w.groups,
      fits |-> w.fits /\ (e[i].type = "BOUNDARY" \/
                 IF e[i].type = removing THEN Holds(w.text, e[i]) ELSE HasRoom(w.text, e[i]))]
WalkStart(t) == [text |-> t, groups |-> << >>, fits |-> TRUE]

IsWalk(w, e, n, removing, t) ==
  /\ w = [i \in 0 .. n |-> IF i = 0 THEN WalkStart(t) ELSE WalkStep(e, n, removing, w[i - 1], i)]
  /\ \A i \in 0 .. n : w[i].fits

LEMMA FittingWalk ==
  ASSUME NEW n \in Nat, NEW e, NEW f, NEW removing,
         \A k \in 0 .. n : f[k] \in Sized,
         \A k \in 1 .. n : Leads(e[k], f[k - 1], f[k], removing)
  PROVE  \E w : IsWalk(w, e, n, removing, f[0])
<1> DEFINE T == Seq(Sized)
           Ends(k) == e[k].type # "BOUNDARY" /\ (k = n \/ e[k + 1].type = "BOUNDARY")
           step == [kt \in Nat \X T |-> IF kt[1] \in 1 .. n /\ Ends(kt[1])
                                        THEN Append(kt[2], f[kt[1]]) ELSE kt[2]]
<1>1. \A k \in Nat : \A s \in T :
        step[<<k, s>>] = IF k \in 1 .. n /\ Ends(k) THEN Append(s, f[k]) ELSE s
  OBVIOUS
<1> HIDE DEF step, Ends
<1>2. IsUpdate(step, T)
  <2>1. ASSUME NEW k \in Nat, NEW s \in T PROVE step[<<k, s>>] \in T
    <3>1. k \in 1 .. n => f[k] \in Sized
      OBVIOUS
    <3>2. k \in 1 .. n => Append(s, f[k]) \in T
      BY <3>1, AppendProperties
    <3> QED BY <1>1, <3>2
  <2> HIDE DEF T
  <2> QED BY <2>1 DEF IsUpdate
<1>3. << >> \in T
  OBVIOUS
<1> HIDE DEF T
<1>4. PICK g : IsCourse(g, T, << >>, step, n)
  BY <1>2, <1>3, Recursion
<1>5. /\ g[0] = << >>
      /\ \A k \in 1 .. n : g[k] = IF Ends(k) THEN Append(g[k - 1], f[k]) ELSE g[k - 1]
  <2>1. ASSUME NEW k \in 1 .. n
        PROVE  g[k] = IF Ends(k) THEN Append(g[k - 1], f[k]) ELSE g[k - 1]
    <3>1. k \in Nat /\ g[k - 1] \in T /\ g[k] = step[<<k, g[k - 1]>>]
      BY <1>4 DEF IsCourse
    <3> QED BY <1>1, <3>1
  <2> QED BY <1>4, <2>1 DEF IsCourse
<1>6. PICK w : w = [k \in 0 .. n |-> [text |-> f[k], groups |-> g[k], fits |-> TRUE]]
  OBVIOUS
<1>7. w[0] = WalkStart(f[0])
  <2>1. 0 \in 0 .. n
    OBVIOUS
  <2>2. w[0] = [text |-> f[0], groups |-> g[0], fits |-> TRUE]
    BY <1>6, <2>1, Zenon
  <2> QED BY <1>5, <2>2, Zenon DEF WalkStart
<1>8. ASSUME NEW k \in 1 .. n PROVE w[k] = WalkStep(e, n, removing, w[k - 1], k)
  <2>1. /\ w[k] = [text |-> f[k], groups |-> g[k], fits |-> TRUE]
        /\ w[k - 1] = [text |-> f[k - 1], groups |-> g[k - 1], fits |-> TRUE]
    <3>1. k \in 0 .. n /\ k - 1 \in 0 .. n
      OBVIOUS
    <3> QED BY <1>6, <3>1
  <2>2. PICK v : v = w[k - 1]
    OBVIOUS
  <2>3. v.text = f[k - 1] /\ v.groups = g[k - 1] /\ v.fits = TRUE
    BY <2>1, <2>2
  <2>4. f[k] = IF e[k].type = "BOUNDARY" THEN v.text
               ELSE IF e[k].type = removing THEN Without(v.text, e[k]) ELSE With(v.text, e[k])
    BY <2>3 DEF Leads
  <2>5. v.fits /\ (e[k].type = "BOUNDARY" \/
          IF e[k].type = removing THEN Holds(v.text, e[k]) ELSE HasRoom(v.text, e[k]))
    BY <2>3 DEF Leads
  <2>6. g[k] = IF Ends(k) THEN Append(v.groups, f[k]) ELSE v.groups
    BY <1>5, <2>3
  <2>7. PICK fits \in BOOLEAN : fits = (v.fits /\ (e[k].type = "BOUNDARY" \/
          IF e[k].type = removing THEN Holds(v.text, e[k]) ELSE HasRoom(v.text, e[k])))
    BY <2>5, Zenon
  <2>8. WalkStep(e, n, removing, v, k)
          = [text |-> f[k], groups |-> IF Ends(k) THEN Append(v.groups, f[k]) ELSE v.groups,
             fits |-> fits]
    BY <2>4, <2>7, Zenon DEF WalkStep, Ends
  <2>9. fits = TRUE
    BY <2>5, <2>7, Zenon
  <2> QED BY <2>1, <2>2, <2>6, <2>8, <2>9, Zenon
<1>9. w = [i \in 0 .. n |-> IF i = 0 THEN WalkStart(f[0]) ELSE WalkStep(e, n, removing, w[i - 1], i)]
  <2>1. w = [i \in 0 .. n |-> w[i]]
    BY <1>6
  <2>2. \A i \in 0 .. n :
          w[i] = IF i = 0 THEN WalkStart(f[0]) ELSE WalkStep(e, n, removing, w[i - 1], i)
    BY <1>7, <1>8
  <2> QED BY <2>1, <2>2
<1>10. \A i \in 0 .. n : w[i].fits
  BY <1>6
<1> QED BY <1>9, <1>10 DEF IsWalk

\* The walks, as loops.
BackStep(x, w, i) ==
  LET e == BackEntry(x, i)
      text == IF e.type = "BOUNDARY" THEN w.text
              ELSE IF e.type = "INSERT" THEN Without(w.text, e) ELSE With(w.text, e)
      ends == e.type # "BOUNDARY" /\ (i = x.undo_count \/ BackEntry(x, i + 1).type = "BOUNDARY")
  IN [text |-> text,
      groups |-> IF ends THEN Append(w.groups, text) ELSE w.groups,
      fits |-> w.fits /\ (e.type = "BOUNDARY" \/
                 IF e.type = "INSERT" THEN Holds(w.text, e) ELSE HasRoom(w.text, e))]
ForthStep(x, w, i) ==
  LET e == ForthEntry(x, i)
      text == IF e.type = "BOUNDARY" THEN w.text
              ELSE IF e.type = "DELETE" THEN Without(w.text, e) ELSE With(w.text, e)
      ends == e.type # "BOUNDARY" /\ (i = x.redo_count \/ ForthEntry(x, i + 1).type = "BOUNDARY")
  IN [text |-> text,
      groups |-> IF ends THEN Append(w.groups, text) ELSE w.groups,
      fits |-> w.fits /\ (e.type = "BOUNDARY" \/
                 IF e.type = "DELETE" THEN Holds(w.text, e) ELSE HasRoom(w.text, e))]

LEMMA WalkedBack ==
  ASSUME NEW x, NEW n \in Nat, n = x.undo_count, NEW e, NEW w,
         e = [i \in 1 .. n + 1 |-> BackEntry(x, i)],
         IsWalk(w, e, n, "INSERT", buf_text(x))
  PROVE  WalkBack(x).fits
<1> DEFINE seq == [i \in 1 .. x.undo_count |-> i]
           once(i, y) == CHOOSE r \in {BackStep(x, z, seq[i]) : z \in {y}} : TRUE
           loop == CHOOSE it : it = [i \in 0 .. Len(seq) |-> IF i = 0
                     THEN [text |-> buf_text(x), groups |-> << >>, fits |-> TRUE]
                     ELSE once(i, it[i - 1])]
<1>1. WalkBack(x) = loop[Len(seq)]
  BY Zenon DEF WalkBack, Walk, ForEach, Once, BackStep
<1>2. Len(seq) = n /\ \A k \in 1 .. n : seq[k] = k
  OBVIOUS
<1>3. ASSUME NEW k \in 1 .. n, NEW y PROVE once(k, y) = WalkStep(e, n, "INSERT", y, k)
  <2>1. once(k, y) = BackStep(x, y, seq[k])
    OBVIOUS
  <2>2. k \in 1 .. n + 1 /\ k + 1 \in 1 .. n + 1
    OBVIOUS
  <2>3. e[k] = BackEntry(x, k) /\ e[k + 1] = BackEntry(x, k + 1)
    BY <2>2, Zenon
  <2>4. BackStep(x, y, k) = WalkStep(e, n, "INSERT", y, k)
    BY <2>3, Zenon DEF BackStep, WalkStep
  <2> QED BY <1>2, <2>1, <2>4, Zenon
<1> HIDE DEF once
<1>4. loop = [i \in 0 .. n |-> IF i = 0 THEN WalkStart(buf_text(x)) ELSE once(i, loop[i - 1])]
  <2>1. w = [i \in 0 .. n |-> IF i = 0 THEN WalkStart(buf_text(x)) ELSE once(i, w[i - 1])]
    <3>1. \A i \in 0 .. n :
            (IF i = 0 THEN WalkStart(buf_text(x)) ELSE WalkStep(e, n, "INSERT", w[i - 1], i))
              = (IF i = 0 THEN WalkStart(buf_text(x)) ELSE once(i, w[i - 1]))
      BY <1>3
    <3>2. w = [i \in 0 .. n |-> IF i = 0 THEN WalkStart(buf_text(x))
                                ELSE WalkStep(e, n, "INSERT", w[i - 1], i)]
      BY DEF IsWalk
    <3> QED BY <3>1, <3>2, Zenon
  <2> QED BY <1>2, <2>1, Zenon DEF WalkStart
<1> HIDE DEF loop
<1> DEFINE S == {k \in Nat : k <= n => loop[k] = w[k]}
<1>5. 0 \in S
  BY <1>4 DEF IsWalk
<1>6. ASSUME NEW k \in Nat, k \in S PROVE k + 1 \in S
  <2> SUFFICES ASSUME k + 1 <= n PROVE loop[k + 1] = w[k + 1]
    OBVIOUS
  <2>1. k + 1 \in 0 .. n /\ k + 1 \in 1 .. n /\ k + 1 # 0 /\ (k + 1) - 1 = k /\ loop[k] = w[k]
    BY <1>6
  <2>2. loop[k + 1] = once(k + 1, loop[k])
    BY <1>4, <2>1
  <2>3. w[k + 1] = WalkStep(e, n, "INSERT", w[k], k + 1)
    BY <2>1 DEF IsWalk
  <2> QED BY <1>3, <2>1, <2>2, <2>3
<1> HIDE DEF S
<1>7. Nat \subseteq S
  BY <1>5, <1>6, InductionOnSets
<1>8. loop[n] = w[n] /\ w[n].fits
  <2>1. loop[n] = w[n]
    BY <1>7 DEF S
  <2>2. n \in 0 .. n
    OBVIOUS
  <2> QED BY <2>1, <2>2, Zenon DEF IsWalk
<1> HIDE DEF seq
<1> QED BY <1>1, <1>2, <1>8, Zenon

LEMMA WalkedForth ==
  ASSUME NEW x, NEW n \in Nat, n = x.redo_count, NEW e, NEW w,
         e = [i \in 1 .. n + 1 |-> ForthEntry(x, i)],
         IsWalk(w, e, n, "DELETE", buf_text(x))
  PROVE  WalkForth(x).fits
<1> DEFINE seq == [i \in 1 .. x.redo_count |-> i]
           once(i, y) == CHOOSE r \in {ForthStep(x, z, seq[i]) : z \in {y}} : TRUE
           loop == CHOOSE it : it = [i \in 0 .. Len(seq) |-> IF i = 0
                     THEN [text |-> buf_text(x), groups |-> << >>, fits |-> TRUE]
                     ELSE once(i, it[i - 1])]
<1>1. WalkForth(x) = loop[Len(seq)]
  BY Zenon DEF WalkForth, Walk, ForEach, Once, ForthStep
<1>2. Len(seq) = n /\ \A k \in 1 .. n : seq[k] = k
  OBVIOUS
<1>3. ASSUME NEW k \in 1 .. n, NEW y PROVE once(k, y) = WalkStep(e, n, "DELETE", y, k)
  <2>1. once(k, y) = ForthStep(x, y, seq[k])
    OBVIOUS
  <2>2. k \in 1 .. n + 1 /\ k + 1 \in 1 .. n + 1
    OBVIOUS
  <2>3. e[k] = ForthEntry(x, k) /\ e[k + 1] = ForthEntry(x, k + 1)
    BY <2>2, Zenon
  <2>4. ForthStep(x, y, k) = WalkStep(e, n, "DELETE", y, k)
    BY <2>3, Zenon DEF ForthStep, WalkStep
  <2> QED BY <1>2, <2>1, <2>4, Zenon
<1> HIDE DEF once
<1>4. loop = [i \in 0 .. n |-> IF i = 0 THEN WalkStart(buf_text(x)) ELSE once(i, loop[i - 1])]
  <2>1. w = [i \in 0 .. n |-> IF i = 0 THEN WalkStart(buf_text(x)) ELSE once(i, w[i - 1])]
    <3>1. \A i \in 0 .. n :
            (IF i = 0 THEN WalkStart(buf_text(x)) ELSE WalkStep(e, n, "DELETE", w[i - 1], i))
              = (IF i = 0 THEN WalkStart(buf_text(x)) ELSE once(i, w[i - 1]))
      BY <1>3
    <3>2. w = [i \in 0 .. n |-> IF i = 0 THEN WalkStart(buf_text(x))
                                ELSE WalkStep(e, n, "DELETE", w[i - 1], i)]
      BY DEF IsWalk
    <3> QED BY <3>1, <3>2, Zenon
  <2> QED BY <1>2, <2>1, Zenon DEF WalkStart
<1> HIDE DEF loop
<1> DEFINE S == {k \in Nat : k <= n => loop[k] = w[k]}
<1>5. 0 \in S
  BY <1>4 DEF IsWalk
<1>6. ASSUME NEW k \in Nat, k \in S PROVE k + 1 \in S
  <2> SUFFICES ASSUME k + 1 <= n PROVE loop[k + 1] = w[k + 1]
    OBVIOUS
  <2>1. k + 1 \in 0 .. n /\ k + 1 \in 1 .. n /\ k + 1 # 0 /\ (k + 1) - 1 = k /\ loop[k] = w[k]
    BY <1>6
  <2>2. loop[k + 1] = once(k + 1, loop[k])
    BY <1>4, <2>1
  <2>3. w[k + 1] = WalkStep(e, n, "DELETE", w[k], k + 1)
    BY <2>1 DEF IsWalk
  <2> QED BY <1>3, <2>1, <2>2, <2>3
<1> HIDE DEF S
<1>7. Nat \subseteq S
  BY <1>5, <1>6, InductionOnSets
<1>8. loop[n] = w[n] /\ w[n].fits
  <2>1. loop[n] = w[n]
    BY <1>7 DEF S
  <2>2. n \in 0 .. n
    OBVIOUS
  <2> QED BY <2>1, <2>2, Zenon DEF IsWalk
<1> HIDE DEF seq
<1> QED BY <1>1, <1>2, <1>8, Zenon

LEMMA RingFits ==
  ASSUME NEW x \in Buffers, Fits(x), Replayable(x)
  PROVE  WalkBack(x).fits /\ WalkForth(x).fits
<1>1. PICK f : IsLog(x, f)
  BY DEF Replayable
<1>2. PICK n \in Nat : n = x.undo_count
  BY SlotTypes
<1>3. PICK m \in Nat : m = x.redo_count
  BY SlotTypes
<1>4. /\ \A i \in -m .. n : f[i] \in Sized
      /\ f[0] = buf_text(x)
      /\ \A i \in 1 - m .. n : Undoes(EntryAt(x, i), f[i - 1], f[i])
  BY <1>1, <1>2, <1>3 DEF IsLog
<1>5. UNDO_STACK_SIZE \in Nat /\ n + m <= UNDO_STACK_SIZE
  BY <1>2, <1>3, SlotTypes
<1>6. \A i \in 1 - m .. n : EntryAt(x, i) \in Entries
  BY <1>2, <1>3, SlotTypes
<1>7. WalkBack(x).fits
  <2>1. PICK e : e = [i \in 1 .. n + 1 |-> BackEntry(x, i)]
    OBVIOUS
  <2>2. ASSUME NEW k \in 1 .. n PROVE Leads(e[k], f[k - 1], f[k], "INSERT")
    <3>1. /\ k \in 1 .. UNDO_STACK_SIZE /\ k \in 1 - m .. n /\ k \in 1 .. n + 1
          /\ k \in -m .. n /\ k - 1 \in -m .. n
      BY <1>5
    <3>2. e[k] = EntryAt(x, k)
      BY <2>1, <3>1, SlotTypes, SlotModulo DEF BackEntry, EntryAt
    <3> QED BY <1>4, <1>6, <3>1, <3>2, LeadsBack
  <2>3. \A k \in 0 .. n : f[k] \in Sized
    BY <1>4
  <2>4. PICK w : IsWalk(w, e, n, "INSERT", f[0])
    BY <2>2, <2>3, FittingWalk
  <2> QED BY <1>2, <1>4, <2>1, <2>4, WalkedBack
<1>8. WalkForth(x).fits
  <2>1. PICK e : e = [i \in 1 .. m + 1 |-> ForthEntry(x, i)]
    OBVIOUS
  <2>2. PICK g : g = [i \in 0 .. m |-> f[0 - i]]
    OBVIOUS
  <2>3. ASSUME NEW k \in 1 .. m PROVE Leads(e[k], g[k - 1], g[k], "DELETE")
    <3>1. /\ k \in 1 .. UNDO_STACK_SIZE /\ 1 - k \in 1 - m .. n /\ k \in 1 .. m + 1
          /\ -k \in -m .. n /\ 1 - k \in -m .. n /\ (1 - k) - 1 = -k
          /\ k \in 0 .. m /\ k - 1 \in 0 .. m /\ 0 - (k - 1) = 1 - k /\ 0 - k = -k
      BY <1>5
    <3>2. e[k] = EntryAt(x, 1 - k)
      BY <2>1, <3>1, SlotTypes, SlotModulo DEF ForthEntry, EntryAt
    <3>3. g[k - 1] = f[1 - k] /\ g[k] = f[-k]
      BY <2>2, <3>1
    <3>4. Undoes(e[k], g[k], g[k - 1]) /\ e[k] \in Entries
      BY <1>4, <1>6, <3>1, <3>2, <3>3
    <3>5. g[k] \in Sized /\ g[k - 1] \in Sized
      BY <1>4, <3>1, <3>3
    <3> QED BY <3>4, <3>5, UndoRedo, LeadsBack
  <2>4. \A k \in 0 .. m : g[k] \in Sized
    <3>1. \A k \in 0 .. m : 0 - k \in -m .. n
      OBVIOUS
    <3> QED BY <1>4, <2>2, <3>1
  <2>5. g[0] = buf_text(x)
    <3>1. 0 \in 0 .. m /\ 0 - 0 = 0
      OBVIOUS
    <3> QED BY <1>4, <2>2, <3>1
  <2>6. PICK w : IsWalk(w, e, m, "DELETE", g[0])
    BY <2>3, <2>4, FittingWalk
  <2> QED BY <1>3, <2>1, <2>5, <2>6, WalkedForth
<1> QED BY <1>7, <1>8

-----------------------------------------------------------------------------
(* Between two keys the buffer is sound and not replaying. What commands   *)
(* do to it leaves it so.                                                  *)

Ready == {x \in Buffers : Fits(x) /\ ~x.undo_replaying /\ Replayable(x)}
Replays == {x \in Buffers : Fits(x) /\ x.undo_replaying /\ Replayable(x)}

LEMMA ReadyMoves ==
  ASSUME NEW x \in Ready
  PROVE  /\ \A pos \in Nat : /\ buf_move_to(x, pos) \in Ready
                             /\ buf_text(buf_move_to(x, pos)) = buf_text(x)
         /\ buf_move_left(x) \in Ready /\ buf_text(buf_move_left(x)) = buf_text(x)
         /\ buf_move_right(x) \in Ready /\ buf_text(buf_move_right(x)) = buf_text(x)
         /\ buf_undo_boundary(x) \in Ready /\ SameText(x, buf_undo_boundary(x))
<1>1. x \in Buffers /\ Fits(x) /\ ~x.undo_replaying /\ Replayable(x)
  BY DEF Ready
<1>2. ASSUME NEW pos \in Nat
      PROVE  buf_move_to(x, pos) \in Ready /\ buf_text(buf_move_to(x, pos)) = buf_text(x)
  BY <1>1, MoveKeeps, EditsKeepLog DEF Keeps, Ready
<1>3. PICK l \in Nat : l = Len(x.left)
  BY <1>1, TextType DEF buf_cursor_pos
<1>4. buf_move_left(x) \in Ready /\ buf_text(buf_move_left(x)) = buf_text(x)
  <2>1. CASE x.left = << >>
    BY <2>1 DEF buf_move_left
  <2>2. CASE x.left # << >>
    <3>1. l # 0
      BY <1>1, <1>3, <2>2, EmptySeq DEF Buffers, Texts
    <3>2. l - 1 \in Nat
      BY <3>1
    <3>3. buf_move_left(x) = buf_move_to(x, l - 1)
      BY <1>3, <2>2 DEF buf_move_left
    <3> QED BY <1>2, <3>2, <3>3
  <2> QED BY <2>1, <2>2
<1>5. buf_move_right(x) \in Ready /\ buf_text(buf_move_right(x)) = buf_text(x)
  <2>1. buf_move_right(x) = buf_move_to(x, l + 1) /\ l + 1 \in Nat
    BY <1>3 DEF buf_move_right
  <2> QED BY <1>2, <2>1
<1>6. buf_undo_boundary(x) \in Ready /\ SameText(x, buf_undo_boundary(x))
  BY <1>1, BoundaryKeeps, EditsKeepLog DEF Keeps, Ready
<1> QED BY <1>2, <1>4, <1>5, <1>6

LEMMA ReadyEdits ==
  ASSUME NEW x \in Ready
  PROVE  /\ \A c \in Chars : buf_insert(x, c) \in Ready
         /\ buf_delete_fwd(x) \in Ready /\ buf_delete_back(x) \in Ready
<1>1. x \in Buffers /\ Fits(x) /\ ~x.undo_replaying /\ Replayable(x)
  BY DEF Ready
<1>2. ASSUME NEW c \in Chars PROVE buf_insert(x, c) \in Ready
  BY <1>1, InsertKeeps, EditsKeepLog DEF Keeps, Ready
<1>3. buf_delete_fwd(x) \in Ready
  BY <1>1, DeleteFwdKeeps, EditsKeepLog DEF Keeps, Ready
<1>4. buf_delete_back(x) \in Ready
  BY <1>1, DeleteBackKeeps, EditsKeepLog DEF Keeps, Ready
<1> QED BY <1>2, <1>3, <1>4

LEMMA ReadyLoops ==
  ASSUME NEW x \in Ready
  PROVE  /\ \A n \in Nat : DeleteMany(x, n) \in Ready
         /\ \A chars \in Texts : InsertAll(x, chars) \in Ready
<1>1. \A y \in Ready : buf_delete_fwd(y) \in Ready
  BY ReadyEdits
<1>2. ASSUME NEW n \in Nat PROVE DeleteMany(x, n) \in Ready
  BY <1>1, DeleteManyIn
<1>3. ASSUME NEW chars \in Seq(Chars) PROVE InsertAll(x, chars) \in Ready
  <2>1. \A k \in 1 .. Len(chars) : chars[k] \in Chars
    BY ElementOfSeq
  <2>2. \A k \in 1 .. Len(chars) : \A y \in Ready : buf_insert(y, chars[k]) \in Ready
    BY <2>1, ReadyEdits
  <2> QED BY <2>2, InsertAllIn
<1> QED BY <1>2, <1>3 DEF Texts

LEMMA DeleteOne ==
  ASSUME NEW x \in Ready, x.right # << >>
  PROVE  /\ buf_delete_fwd(x).left = x.left
         /\ buf_delete_fwd(x).right = Tail(x.right)
<1> DEFINE e == [type |-> "DELETE", pos |-> Len(x.left), ch |-> Head(x.right)]
           logged == undo_push(x, e)
<1>1. x \in Buffers /\ Fits(x) /\ x.left \in Seq(Chars) /\ x.right \in Seq(Chars)
  BY DEF Ready, Buffers, Texts
<1>2. e \in Entries
  <2>1. Len(x.left) \in Nat
    BY <1>1, LenProperties
  <2> QED BY <1>1, <2>1, HeadTailProperties DEF Entries
<1>3. Keeps(x, logged) /\ SameText(x, logged)
  BY <1>1, <1>2, PushKeeps
<1> HIDE DEF logged
<1>4. buf_delete_fwd(x) = [logged EXCEPT !.right = Tail(logged.right)]
  BY DEF buf_delete_fwd, logged
<1> QED BY <1>3, <1>4 DEF Keeps, SameText, Buffers

\* Deleting n characters takes just the n behind the cursor.
LEMMA DeleteManyExact ==
  ASSUME NEW x \in Ready, NEW n \in Nat, n <= Len(x.right)
  PROVE  /\ DeleteMany(x, n).left = x.left
         /\ DeleteMany(x, n).right = SubSeq(x.right, n + 1, Len(x.right))
<1> DEFINE R == x.right
<1>1. R \in Seq(Chars) /\ Len(R) \in Nat
  <2>1. R \in Seq(Chars)
    BY DEF Ready, Buffers, Texts
  <2> QED BY <2>1, LenProperties
<1>2. \A y \in Ready : buf_delete_fwd(y) \in Ready
  BY ReadyEdits
<1>3. PICK it : Deletions(it, Ready, x, n)
  BY <1>2, DeleteManyCourse
<1> DEFINE Sound(k) == /\ it[k] \in Ready /\ it[k].left = x.left
                       /\ it[k].right = SubSeq(R, k + 1, Len(R))
           S == {k \in Nat : k <= n => Sound(k)}
<1>4. 0 \in S
  <2>1. SubSeq(R, 0 + 1, Len(R)) = R
    BY <1>1, SubSeqFull
  <2>2. Sound(0)
    BY <1>3, <2>1, Zenon DEF Deletions
  <2> HIDE DEF Sound
  <2> QED BY <2>2
<1>5. ASSUME NEW k \in Nat, k \in S PROVE k + 1 \in S
  <2> SUFFICES ASSUME k + 1 <= n PROVE Sound(k + 1)
    OBVIOUS
  <2>1. Sound(k)
    BY <1>5
  <2>2. /\ k + 1 \in 1 .. n /\ (k + 1) - 1 = k /\ k + 1 \in 1 .. Len(R)
        /\ Len(R) \in k + 1 .. Len(R) /\ Len(R) \in Int
    BY <1>1
  <2>3. it[k + 1] = buf_delete_fwd(it[k])
    BY <1>3, <2>1, <2>2 DEF Deletions
  <2>4. it[k].right # << >>
    <3>1. \A i \in k + 1 .. Len(R) : R[i] \in Chars
      BY <1>1, ElementOfSeq
    <3>2. Len(SubSeq(R, k + 1, Len(R))) = Len(R) - (k + 1) + 1
      BY <2>2, <3>1, SubSeqProperties
    <3>3. Len(SubSeq(R, k + 1, Len(R))) # 0
      BY <1>1, <2>2, <3>2
    <3> QED BY <2>1, <3>3, EmptySeq, Zenon
  <2>5. Tail(SubSeq(R, k + 1, Len(R))) = SubSeq(R, (k + 1) + 1, Len(R))
    BY <1>1, <2>2, HeadTailOfSubSeq
  <2>6. /\ it[k + 1] \in Ready /\ it[k + 1].left = it[k].left
        /\ it[k + 1].right = Tail(it[k].right)
    BY <1>2, <2>1, <2>3, <2>4, DeleteOne, Zenon
  <2> HIDE DEF R
  <2> QED BY <2>1, <2>5, <2>6, Zenon
<1> HIDE DEF S, Sound, R
<1>6. Nat \subseteq S
  BY <1>4, <1>5, InductionOnSets
<1>7. Sound(n)
  BY <1>6 DEF S
<1> QED BY <1>3, <1>7, Zenon DEF Sound, R, Deletions

LEMMA ReadyUndo ==
  ASSUME NEW x \in Ready
  PROVE  buf_undo(x) \in Ready /\ buf_redo(x) \in Ready
<1>1. x \in Buffers /\ Fits(x) /\ ~x.undo_replaying /\ Replayable(x)
  BY DEF Ready
<1>2. UNDO_STACK_SIZE \in Nat
  BY EditBufferAssumption
\* Switching the replaying on and off.
<1>3. ASSUME NEW y \in Buffers, Fits(y), NEW on \in BOOLEAN
      PROVE  /\ Replaying(y, on) \in Buffers /\ Fits(Replaying(y, on))
             /\ Replaying(y, on).undo_replaying = on
  <2>1. Replaying(y, on) = [y EXCEPT !.undo_replaying = on]
    BY DEF Replaying
  <2> HIDE DEF Replaying
  <2>2. /\ Replaying(y, on) \in Buffers /\ Replaying(y, on).undo_replaying = on
        /\ SameText(y, Replaying(y, on))
        /\ Replaying(y, on).undo_count = y.undo_count /\ Replaying(y, on).redo_count = y.redo_count
    BY <2>1 DEF Buffers, SameText
  <2> QED BY <1>3, <2>2, Zenon DEF Fits, SameText
<1>4. ASSUME NEW y \in Replays PROVE Replaying(y, FALSE) \in Ready
  BY <1>3, BoundarySkipped DEF Replays, Ready
<1>5. ASSUME NEW y \in Buffers, Fits(y), Replayable(y) PROVE Replaying(y, TRUE) \in Replays
  BY <1>3, <1>5, BoundarySkipped DEF Replays
<1>6. buf_undo(x) \in Ready
  <2>1. \A y \in Replays : UndoEntry(y) \in Replays
    BY UndoEntryKeeps, ReplayKeepsLog DEF Keeps, Replays
  <2>2. PICK skipped :
          skipped = IF x.undo_count > 0 /\ Newest(x).type = "BOUNDARY" THEN StepBack(x) ELSE x
    OBVIOUS
  <2>3. skipped \in Buffers /\ Fits(skipped) /\ Replayable(skipped)
    BY <1>1, <2>2, StepKeeps, BoundarySkipped DEF Keeps
  <2>4. Times(UndoEntry, UNDO_STACK_SIZE, Replaying(skipped, TRUE)) \in Replays
    BY <1>2, <1>5, <2>1, <2>3, UndoLoop
  <2>5. buf_undo(x) = Replaying(Times(UndoEntry, UNDO_STACK_SIZE, Replaying(skipped, TRUE)), FALSE)
    BY <2>2, Zenon DEF buf_undo
  <2> QED BY <1>4, <2>4, <2>5
<1>7. buf_redo(x) \in Ready
  <2>1. \A y \in Replays : RedoEntry(y) \in Replays
    BY RedoEntryKeeps, ReplayKeepsLog DEF Keeps, Replays
  <2>2. PICK skipped :
          skipped = IF x.redo_count > 0 /\ NextRedo(x).type = "BOUNDARY" THEN StepForward(x) ELSE x
    OBVIOUS
  <2>3. skipped \in Buffers /\ Fits(skipped) /\ Replayable(skipped)
    BY <1>1, <2>2, StepKeeps, BoundarySkipped DEF Keeps
  <2>4. Times(RedoEntry, UNDO_STACK_SIZE, Replaying(skipped, TRUE)) \in Replays
    BY <1>2, <1>5, <2>1, <2>3, RedoLoop
  <2>5. buf_redo(x) = Replaying(Times(RedoEntry, UNDO_STACK_SIZE, Replaying(skipped, TRUE)), FALSE)
    BY <2>2, Zenon DEF buf_redo
  <2> QED BY <1>4, <2>4, <2>5
<1> QED BY <1>6, <1>7

\* Blanks counted for a command: none, or a few.
LEMMA CountType ==
  ASSUME NEW N \in Nat, NEW S, 0 \in S, S \subseteq 0 .. N
  PROVE  Max(S) \in Nat
<1>1. Max(S) \in S
  BY MaxIn
<1>2. Max(S) \in 0 .. N
  BY <1>1, Zenon
<1> QED BY <1>2

LEMMA ReadyPaste ==
  ASSUME NEW x \in Ready, yank.text \in Texts
  PROVE  PasteOnce(x) \in Ready
<1>1. PICK end \in Nat : end = LineEnd(x, buf_cursor_line(x))
  <2>1. x \in Buffers
    BY DEF Ready
  <2>2. PICK line \in Nat : line = buf_cursor_line(x)
    BY <2>1, CursorLine
  <2>3. LineEnd(x, line) \in buf_line_start(x, line) .. buf_length(x)
    BY <2>1, LineLength
  <2>4. buf_line_start(x, line) \in Nat /\ buf_length(x) \in Nat
    BY <2>1, LineStart, TextType
  <2> QED BY <2>2, <2>3, <2>4
<1>2. <<Newline>> \o yank.text \in Texts
  <2>1. <<Newline>> \in Seq(Chars)
    BY EditBufferAssumption
  <2> QED BY <2>1, ConcatProperties DEF Texts
<1>3. CASE yank.linewise
  <2>1. buf_move_to(x, end) \in Ready
    BY ReadyMoves
  <2>2. PasteOnce(x) = InsertAll(buf_move_to(x, end), <<Newline>> \o yank.text)
    BY <1>1, <1>3, Zenon DEF PasteOnce
  <2> QED BY <1>2, <2>1, <2>2, ReadyLoops
<1>4. CASE ~yank.linewise
  <2>1. PasteOnce(x) = InsertAll(buf_move_right(x), yank.text)
    BY <1>4 DEF PasteOnce
  <2> QED BY <2>1, ReadyMoves, ReadyLoops
<1> QED BY <1>3, <1>4

LEMMA ReadyJoin ==
  ASSUME NEW x \in Ready
  PROVE  JoinOnce(x) \in Ready
<1>1. PICK end \in Nat : end = LineEnd(x, buf_cursor_line(x))
  <2>1. x \in Buffers
    BY DEF Ready
  <2>2. PICK line \in Nat : line = buf_cursor_line(x)
    BY <2>1, CursorLine
  <2>3. LineEnd(x, line) \in buf_line_start(x, line) .. buf_length(x)
    BY <2>1, LineLength
  <2>4. buf_line_start(x, line) \in Nat /\ buf_length(x) \in Nat
    BY <2>1, LineStart, TextType
  <2> QED BY <2>2, <2>3, <2>4
<1>2. PICK cut \in Ready : cut = buf_delete_fwd(buf_move_to(x, end))
  BY ReadyMoves, ReadyEdits
<1>3. PICK n \in Nat : n = Len(cut.right)
  BY LenProperties DEF Ready, Buffers, Texts
<1> DEFINE S == {m \in 0 .. n : \A i \in 1 .. m : cut.right[i] \in {Space, Tab}}
<1>4. Max(S) \in Nat
  <2>1. 0 \in S /\ S \subseteq 0 .. n
    OBVIOUS
  <2> HIDE DEF S
  <2> QED BY <2>1, CountType
<1>5. JoinOnce(x) = IF CanJoin(x) THEN buf_insert(DeleteMany(cut, Max(S)), Space) ELSE x
  BY <1>1, <1>2, <1>3, Zenon DEF JoinOnce
<1> HIDE DEF S
<1>6. DeleteMany(cut, Max(S)) \in Ready /\ Space \in Chars
  BY <1>4, ReadyLoops, EditBufferAssumption
<1> QED BY <1>5, <1>6, ReadyEdits

LEMMA ReadyShift ==
  ASSUME NEW x \in Ready, NEW line \in Nat
  PROVE  Indent(x, line) \in Ready /\ Outdent(x, line) \in Ready
<1>1. x \in Buffers
  BY DEF Ready
<1>2. PICK start \in Nat : start = buf_line_start(x, line)
  BY <1>1, LineStart, TextType
<1>3. PICK llen \in Nat : llen = buf_line_length(x, line)
  BY <1>1, LineLength
<1>4. buf_move_to(x, start) \in Ready
  BY ReadyMoves
<1>5. Indent(x, line) \in Ready
  <2>1. Indentation \in Texts
    BY EditBufferAssumption DEF Indentation, Texts
  <2> QED BY <1>2, <1>4, <2>1, ReadyLoops DEF Indent
<1>6. Outdent(x, line) \in Ready
  <2>1. PICK n \in Nat : n = Min({Len(Indentation), llen})
    BY MinTwo DEF Indentation
  <2> DEFINE S == {m \in 0 .. n : \A i \in 0 .. m - 1 : buf_char_at(x, start + i) = Space}
  <2>2. Max(S) \in Nat
    <3>1. 0 \in S /\ S \subseteq 0 .. n
      OBVIOUS
    <3> HIDE DEF S
    <3> QED BY <3>1, CountType
  <2>3. Outdent(x, line) = DeleteMany(buf_move_to(x, start), Max(S))
    BY <1>2, <1>3, <2>1, Zenon DEF Outdent
  <2> HIDE DEF S
  <2> QED BY <1>4, <2>2, <2>3, ReadyLoops
<1> QED BY <1>5, <1>6

LEMMA ReadyToggle ==
  ASSUME NEW x \in Ready
  PROVE  /\ \A pos \in Nat : ToggleAt(x, pos) \in Ready
         /\ ToggleOnce(x) \in Ready
<1>1. x \in Buffers
  BY DEF Ready
<1>2. ASSUME NEW pos \in Nat PROVE ToggleAt(x, pos) \in Ready
  <2>1. PICK c \in Chars : c = buf_char_at(x, pos)
    BY <1>1, CharType
  <2>2. toggled(c) \in Chars
    BY EditorAssumption DEF toggled
  <2>3. buf_insert(buf_delete_fwd(buf_move_to(x, pos)), toggled(c)) \in Ready
    BY <2>2, ReadyMoves, ReadyEdits
  <2>4. \/ ToggleAt(x, pos) = x
        \/ ToggleAt(x, pos) = buf_insert(buf_delete_fwd(buf_move_to(x, pos)), toggled(c))
    BY <2>1, Zenon DEF ToggleAt
  <2> QED BY <2>3, <2>4
<1>3. ToggleOnce(x) \in Ready
  <2>1. PICK pos \in Nat : pos = buf_cursor_pos(x)
    BY <1>1, TextType
  <2>2. ToggleAt(x, pos) \in Ready
    BY <1>2
  <2>3. buf_move_to(ToggleAt(x, pos), pos + 1) \in Ready
    BY <2>2, ReadyMoves
  <2>4. \/ ToggleOnce(x) = x
        \/ ToggleOnce(x) = buf_move_to(ToggleAt(x, pos), pos + 1)
    BY <2>1, Zenon DEF ToggleOnce
  <2> QED BY <2>3, <2>4
<1> QED BY <1>2, <1>3

\* The loops of the commands.
LEMMA ReadyTimes ==
  ASSUME NEW x \in Ready, NEW n \in Nat
  PROVE  /\ Times(buf_undo, n, x) \in Ready /\ Times(buf_redo, n, x) \in Ready
         /\ yank.text \in Texts => Times(PasteOnce, n, x) \in Ready
         /\ Times(JoinOnce, n, x) \in Ready /\ Times(ToggleOnce, n, x) \in Ready
<1>1. Times(buf_undo, n, x) \in Ready
  <2>1. \A y \in Ready : buf_undo(y) \in Ready
    BY ReadyUndo
  <2> QED BY <2>1, UndoTimes
<1>2. Times(buf_redo, n, x) \in Ready
  <2>1. \A y \in Ready : buf_redo(y) \in Ready
    BY ReadyUndo
  <2> QED BY <2>1, RedoTimes
<1>3. ASSUME yank.text \in Texts PROVE Times(PasteOnce, n, x) \in Ready
  <2>1. \A y \in Ready : PasteOnce(y) \in Ready
    BY <1>3, ReadyPaste
  <2> QED BY <2>1, PasteTimes
<1>4. Times(JoinOnce, n, x) \in Ready
  <2>1. \A y \in Ready : JoinOnce(y) \in Ready
    BY ReadyJoin
  <2> QED BY <2>1, JoinTimes
<1>5. Times(ToggleOnce, n, x) \in Ready
  <2>1. \A y \in Ready : ToggleOnce(y) \in Ready
    BY ReadyToggle
  <2> QED BY <2>1, ToggleTimes
<1> QED BY <1>1, <1>2, <1>3, <1>4, <1>5

LEMMA ReadyRanges ==
  ASSUME NEW x \in Ready, NEW from \in Int, NEW n \in Nat, n > 0 => from \in Nat
  PROVE  LET seq == [i \in 1 .. n |-> from + i - 1]
         IN  /\ \A c \in Chars : PutAll(x, seq, c) \in Ready
             /\ \A k : ShiftAll(x, seq, k) \in Ready
             /\ ForEach(ToggleAt, x, seq) \in Ready
<1> DEFINE seq == [i \in 1 .. n |-> from + i - 1]
<1>1. Len(seq) = n /\ \A i \in 1 .. n : seq[i] \in Nat
  OBVIOUS
<1> HIDE DEF seq
<1>2. Len(seq) \in Nat /\ \A i \in 1 .. Len(seq) : seq[i] \in Nat
  BY <1>1
<1>3. ASSUME NEW c \in Chars PROVE PutAll(x, seq, c) \in Ready
  <2>1. \A i \in 1 .. Len(seq) : \A y \in Ready :
          buf_insert(buf_delete_fwd(buf_move_to(y, seq[i])), c) \in Ready
    <3> SUFFICES ASSUME NEW i \in 1 .. Len(seq), NEW y \in Ready
                 PROVE  buf_insert(buf_delete_fwd(buf_move_to(y, seq[i])), c) \in Ready
      OBVIOUS
    <3>1. buf_move_to(y, seq[i]) \in Ready
      BY <1>2, ReadyMoves
    <3> QED BY <3>1, ReadyEdits
  <2> QED BY <1>2, <2>1, PutAllIn
<1>4. ASSUME NEW k PROVE ShiftAll(x, seq, k) \in Ready
  <2>1. \A i \in 1 .. Len(seq) : \A y \in Ready :
          Indent(y, seq[i]) \in Ready /\ Outdent(y, seq[i]) \in Ready
    BY <1>2, ReadyShift
  <2> QED BY <1>2, <2>1, ShiftAllIn
<1>5. ForEach(ToggleAt, x, seq) \in Ready
  <2>1. \A i \in 1 .. Len(seq) : \A y \in Ready : ToggleAt(y, seq[i]) \in Ready
    BY <1>2, ReadyToggle
  <2> QED BY <1>2, <2>1, ToggleAllIn
<1> QED BY <1>3, <1>4, <1>5 DEF seq

-----------------------------------------------------------------------------
(* The inductive invariant, and what a key may do to the buffer.           *)

Modes == {"NORMAL", "INSERT", "COMMAND", "VISUAL", "VISUAL_LINE"}
KeyPrefixes ==
  [repeat_count : 0 .. MAX_COUNT, count_active : BOOLEAN,
   awaiting : {"", "g", "r", ">", "<"}, op : {"", "d", "y", "c"}, op_count : Nat]

\* Outside normal mode nothing is left of a command but a g in visual mode.
PrefixOK ==
  /\ mode \in Modes /\ prefix \in KeyPrefixes
  /\ prefix.op # "" => prefix.op_count >= 1
  /\ mode \in {"VISUAL", "VISUAL_LINE"} =>
       prefix.op = "" /\ (prefix.awaiting = "" => prefix = NoPrefix)
  /\ mode \in {"INSERT", "COMMAND"} => prefix = NoPrefix

YankOK == yank.text \in Texts /\ Len(yank.text) < YANK_SIZE
Shown == view.top_line \in Nat /\ CursorShown
FilesOK ==
  /\ filename \in Files \cup {Nobody} /\ home \in Files \cup {Nobody}
  /\ disk \in [Files -> Texts \cup {NoFile, Damaged}]
  /\ cmd_buf \in Commands

EditorInv ==
  /\ b \in Ready /\ Shown
  /\ PrefixOK /\ YankOK /\ sel_anchor \in Nat /\ FilesOK
  /\ UnmodifiedMeansSaved

\* A key leaves a sound buffer with its cursor on the screen, and the text as
\* it was unless it is marked as modified.
Effect ==
  /\ b' \in Ready /\ Shown'
  /\ ~modified' => ~modified /\ buf_text(b') = Text

LEMMA ScrollShows ==
  ASSUME view.top_line \in Nat, NEW line \in Nat
  PROVE  /\ view_scroll_to_cursor(line) \in Nat
         /\ view_scroll_to_cursor(line) <= line
         /\ line < view_scroll_to_cursor(line) + ScreenRows
<1>1. PICK top \in Nat : top = view.top_line
  OBVIOUS
<1>2. PICK up \in Nat : up = Min({top, line}) /\ up <= line
  BY MinTwo
<1>3. view_scroll_to_cursor(line) =
        IF line >= up + ScreenRows THEN line - ScreenRows + 1 ELSE up
  BY <1>1, <1>2 DEF view_scroll_to_cursor
<1> QED BY <1>2, <1>3, EditorAssumption

LEMMA MoveShows ==
  ASSUME EditorInv, NEW y \in Ready, Move(y)
  PROVE  b' = y /\ Shown'
<1>1. y \in Buffers /\ b' = y /\ view' = sync_cursor(y)
  BY DEF Move, Ready
<1>2. PICK line \in Nat : line = buf_cursor_line(y)
  BY <1>1, CursorLine
<1>3. PICK top \in Nat : top = view_scroll_to_cursor(line) /\ top <= line /\ line < top + ScreenRows
  BY ScrollShows DEF EditorInv, Shown
<1>4. view' = [top_line |-> top, cursor_line |-> line, cursor_col |-> buf_cursor_col(y)]
  BY <1>1, <1>2, <1>3, Zenon DEF sync_cursor
<1>5. view'.top_line = top /\ view'.cursor_line = line /\ view'.cursor_col = buf_cursor_col(y)
  BY <1>4
<1>6. buf_cursor_line(b') = line /\ buf_cursor_col(b') = buf_cursor_col(y)
  BY <1>1, <1>2, Zenon
<1> QED BY <1>1, <1>3, <1>5, <1>6 DEF Shown, CursorShown, buf_cursor_line, buf_cursor_col

LEMMA MoveEffect ==
  ASSUME EditorInv, NEW y \in Ready, buf_text(y) = Text, Move(y), ~modified' => ~modified
  PROVE  Effect
BY MoveShows DEF Effect

LEMMA EditEffect ==
  ASSUME EditorInv, NEW y \in Ready, Edit(y)
  PROVE  Effect
BY MoveShows DEF Effect, Edit

LEMMA QuietEffect ==
  ASSUME EditorInv, NEW y \in Ready, SameText(b, y), b' = y, UNCHANGED <<view, modified>>
  PROVE  Effect
<1>1. b'.left = b.left /\ b'.right = b.right /\ b' \in Ready
  BY DEF SameText
<1>2. buf_text(b') = Text
  BY <1>1, Zenon DEF buf_text, Text
<1>3. Shown'
  BY <1>1 DEF EditorInv, Shown, CursorShown, buf_cursor_line, buf_cursor_col
<1> QED BY <1>1, <1>2, <1>3 DEF Effect

LEMMA StillEffect ==
  ASSUME EditorInv, UNCHANGED <<b, view, modified>>
  PROVE  Effect
<1>1. b \in Ready /\ SameText(b, b)
  BY DEF EditorInv, SameText
<1> QED BY <1>1, QuietEffect

\* What is left to show of a key that does not touch the files.
LEMMA KeyKeepsInv ==
  ASSUME EditorInv, Effect, PrefixOK', YankOK', sel_anchor' \in Nat, cmd_buf' \in Commands,
         UNCHANGED files
  PROVE  EditorInv'
<1>1. FilesOK'
  BY DEF EditorInv, FilesOK, files
<1>2. UnmodifiedMeansSaved'
  <2>1. CASE modified'
    BY <2>1 DEF UnmodifiedMeansSaved
  <2>2. CASE ~modified'
    <3>1. Text' = Text /\ home' = home /\ disk' = disk /\ ~modified
      BY <2>2 DEF Effect, Text, files
    <3>2. UnmodifiedMeansSaved
      BY DEF EditorInv
    <3> QED BY <3>1, <3>2 DEF UnmodifiedMeansSaved
  <2> QED BY <2>1, <2>2
<1> QED BY <1>1, <1>2 DEF EditorInv, Effect

-----------------------------------------------------------------------------
(* Operators on ranges and lines.                                          *)

LEMMA LoggedReady ==
  ASSUME b \in Ready
  PROVE  /\ Logged \in Ready /\ SameText(b, Logged) /\ buf_text(Logged) = Text
         /\ \A start, end \in Nat : start <= end => delete_range(start, end) \in Ready
<1>1. Logged \in Ready /\ SameText(b, Logged)
  BY ReadyMoves DEF Logged
<1>2. buf_text(Logged) = Text
  BY <1>1, Zenon DEF SameText, buf_text, Text
<1>3. ASSUME NEW start \in Nat, NEW end \in Nat, start <= end
      PROVE  delete_range(start, end) \in Ready
  <2>1. PICK y \in Ready : y = Logged
    BY <1>1
  <2>2. buf_move_to(y, start) \in Ready
    BY ReadyMoves
  <2>3. PICK n \in Nat : n = end - start
    BY <1>3
  <2>4. DeleteMany(buf_move_to(y, start), n) \in Ready
    BY <2>2, ReadyLoops
  <2> QED BY <2>1, <2>3, <2>4 DEF delete_range
<1> QED BY <1>1, <1>2, <1>3

\* What deleting a range takes out of the text, and that nothing else changes.
LEMMA DeleteRangeExact ==
  ASSUME b \in Ready, NEW start \in Nat, NEW end \in Nat,
         start <= end, end <= buf_length(b)
  PROVE  buf_text(delete_range(start, end))
           = SubSeq(Text, 1, start) \o SubSeq(Text, end + 1, buf_length(b))
<1> DEFINE n == buf_length(b)
<1>1. PICK x \in Ready : x = Logged /\ buf_text(x) = Text
  BY LoggedReady
<1>2. Text \in Seq(Chars) /\ Len(Text) = n /\ n \in Nat
  <2>1. b \in Buffers
    BY DEF Ready
  <2> QED BY <2>1, TextType DEF Text, Texts
<1>3. buf_length(x) = n
  <2>1. x \in Buffers
    BY DEF Ready
  <2> QED BY <1>1, <1>2, <2>1, TextType
<1> HIDE DEF n
<1>4. PICK y \in Ready : y = buf_move_to(x, start)
  BY ReadyMoves
<1>5. y.left = SubSeq(Text, 1, start) /\ y.right = SubSeq(Text, start + 1, n)
  <2>1. Min({start, n}) = start
    BY <1>2, MinTwo DEF n
  <2>2. y = [x EXCEPT !.left = SubSeq(Text, 1, start), !.right = SubSeq(Text, start + 1, n)]
    BY <1>1, <1>3, <1>4, <2>1, Zenon DEF buf_move_to
  <2> QED BY <2>2 DEF Ready, Buffers
<1>6. y.right \in Seq(Chars) /\ Len(y.right) = n - start
  <2>1. \A i \in start + 1 .. n : Text[i] \in Chars
    BY <1>2, ElementOfSeq
  <2>2. start + 1 \in Int /\ n \in Int
    BY <1>2
  <2>3. /\ SubSeq(Text, start + 1, n) \in Seq(Chars)
        /\ Len(SubSeq(Text, start + 1, n)) = IF start + 1 <= n THEN n - (start + 1) + 1 ELSE 0
    BY <2>1, <2>2, SubSeqProperties
  <2>4. start <= n
    BY <1>2 DEF n
  <2>5. (IF start + 1 <= n THEN n - (start + 1) + 1 ELSE 0) = n - start
    BY <1>2, <2>4
  <2> QED BY <1>5, <2>3, <2>5, Zenon
<1>7. PICK m \in Nat : m = end - start /\ m <= n - start
  BY <1>2 DEF n
<1>8. PICK z : z = DeleteMany(y, m)
  OBVIOUS
<1>9. z.left = y.left /\ z.right = SubSeq(y.right, m + 1, n - start)
  BY <1>6, <1>7, <1>8, DeleteManyExact
<1>10. SubSeq(y.right, m + 1, n - start) = SubSeq(Text, end + 1, n)
  <2>1. CASE end < n
    <3>1. /\ start + 1 \in 1 .. Len(Text) /\ n \in 1 .. Len(Text)
          /\ m + 1 \in 1 .. n - (start + 1) + 1 /\ n - start \in 1 .. n - (start + 1) + 1
      BY <1>2, <1>7, <2>1
    <3>2. SubSeq(SubSeq(Text, start + 1, n), m + 1, n - start)
            = SubSeq(Text, (start + 1) + (m + 1) - 1, (start + 1) + (n - start) - 1)
      BY <1>2, <3>1, SubSeqOfSubSeq
    <3>3. (start + 1) + (m + 1) - 1 = end + 1 /\ (start + 1) + (n - start) - 1 = n
      BY <1>2, <1>7
    <3> QED BY <1>5, <3>2, <3>3, Zenon
  <2>2. CASE ~(end < n)
    <3>1. end = n
      BY <1>2, <2>2 DEF n
    <3>2. /\ m + 1 \in Int /\ n - start \in Int /\ n - start < m + 1
          /\ end + 1 \in Int /\ n \in Int /\ n < end + 1
      BY <1>2, <1>7, <3>1
    <3>3. SubSeq(y.right, m + 1, n - start) = << >>
      BY <3>2, SubSeqEmpty
    <3>4. SubSeq(Text, end + 1, n) = << >>
      BY <3>2, SubSeqEmpty
    <3> QED BY <3>3, <3>4
  <2> QED BY <2>1, <2>2
<1>11. buf_text(z) = SubSeq(Text, 1, start) \o SubSeq(Text, end + 1, n)
  BY <1>5, <1>9, <1>10, Zenon DEF buf_text
<1> QED BY <1>1, <1>4, <1>7, <1>8, <1>11, Zenon DEF delete_range, n

LEMMA YankRangeType ==
  ASSUME b \in Buffers, NEW start \in Nat, NEW end \in Nat, start <= end
  PROVE  yank_range(start, end) \in Texts /\ Len(yank_range(start, end)) < YANK_SIZE
<1>1. PICK n \in Nat : n = Min({end - start, YANK_SIZE - 1}) /\ n < YANK_SIZE
  BY MinTwo, EditorAssumption
<1>2. \A i \in 1 .. n : buf_char_at(b, start + i - 1) \in Chars
  BY CharType
<1>3. yank_range(start, end) = [i \in 1 .. n |-> buf_char_at(b, start + i - 1)]
  BY <1>1, Zenon DEF yank_range
<1>4. PICK f : f = yank_range(start, end)
  OBVIOUS
<1>5. f \in [1 .. n -> Chars]
  BY <1>2, <1>3, <1>4
<1>6. f \in Seq(Chars) /\ Len(f) = n
  BY <1>5
<1> QED BY <1>1, <1>4, <1>6 DEF Texts

LEMMA YankKeeps ==
  ASSUME b \in Ready, NEW start \in Nat, NEW end \in Nat, start <= end,
         NEW linewise, Yank(start, end, linewise)
  PROVE  YankOK'
<1>1. b \in Buffers
  BY DEF Ready
<1>2. yank' = [text |-> yank_range(start, end), linewise |-> linewise]
  BY DEF Yank
<1>3. yank'.text = yank_range(start, end)
  BY <1>2
<1> QED BY <1>1, <1>3, YankRangeType DEF YankOK

Operators == {"d", "y", "c"}
AfterOperator(op) == IF op = "c" THEN "INSERT" ELSE "NORMAL"

LEMMA ApplyEffect ==
  ASSUME EditorInv, NEW op \in Operators, NEW start \in Nat, NEW end \in Nat, start <= end,
         NEW linewise, Apply(op, start, end, linewise)
  PROVE  Effect /\ YankOK' /\ mode' = AfterOperator(op)
<1>1. b \in Ready
  BY DEF EditorInv
<1>2. YankOK'
  BY <1>1, YankKeeps DEF Apply
<1>3. mode' = AfterOperator(op)
  BY DEF Apply, AfterOperator
<1>4. Effect
  <2>1. CASE op = "y"
    <3>1. b' = Logged /\ UNCHANGED <<view, modified>>
      BY <2>1 DEF Apply, Quiet
    <3>2. PICK y \in Ready : y = Logged /\ SameText(b, y)
      BY <1>1, LoggedReady
    <3>3. b' = y /\ UNCHANGED <<view, modified>>
      BY <3>1, <3>2
    <3> QED BY <3>2, <3>3, QuietEffect
  <2>2. CASE op # "y"
    <3>1. PICK y \in Ready : y = delete_range(start, end)
      BY <1>1, LoggedReady
    <3>2. Edit(y)
      BY <2>2, <3>1 DEF Apply
    <3> QED BY <3>2, EditEffect
  <2> QED BY <2>1, <2>2
<1> QED BY <1>2, <1>3, <1>4

LEMMA CharwiseEffect ==
  ASSUME EditorInv, NEW op \in Operators, NEW from \in Nat, NEW to \in Nat,
         apply_operator_charwise(op, from, to)
  PROVE  Effect /\ YankOK' /\ mode' = AfterOperator(op)
<1>1. PICK start \in Nat : start = Min({from, to})
  BY MinTwo
<1>2. PICK end \in Nat : end = Max({from, to}) /\ start <= end
  BY <1>1, MinTwo, MaxTwo
<1>3. Apply(op, start, end, FALSE)
  BY <1>1, <1>2 DEF apply_operator_charwise
<1> QED BY <1>2, <1>3, ApplyEffect

\* The end of a line lies behind the start of every earlier one.
LEMMA LinesType ==
  ASSUME b \in Buffers, NEW l \in Nat, NEW m \in Nat, l <= m
  PROVE  /\ buf_line_start(b, l) \in Nat /\ LineEndIncl(m) \in Nat
         /\ buf_line_start(b, l) <= LineEndIncl(m)
<1>1. PICK n \in Nat : n = buf_length(b)
  BY TextType
<1>2. PICK start \in 0 .. n : start = buf_line_start(b, l)
  BY <1>1, LineStart
<1>3. PICK last \in 0 .. n : last = buf_line_start(b, m) /\ start <= last
  BY <1>1, <1>2, LineStart, LineStartsOrdered
<1>4. PICK end \in last .. n : end = LineEnd(b, m)
  BY <1>1, <1>3, LineLength
<1>5. LineEndIncl(m) = Min({end + 1, n})
  BY <1>1, <1>4, Zenon DEF LineEndIncl
<1>6. LineEndIncl(m) \in Nat /\ start <= LineEndIncl(m)
  BY <1>3, <1>5, MinTwo
<1> QED BY <1>2, <1>6

LEMMA LinewiseEffect ==
  ASSUME EditorInv, NEW op \in Operators, NEW l \in Nat, NEW m \in Nat, l <= m,
         apply_operator_linewise(op, l, m)
  PROVE  Effect /\ YankOK' /\ mode' = AfterOperator(op)
<1>1. b \in Buffers
  BY DEF EditorInv, Ready
<1>2. PICK start \in Nat : start = buf_line_start(b, l) /\ start <= LineEndIncl(m)
  BY <1>1, LinesType
<1>3. PICK end \in Nat : end = LineEndIncl(m)
  BY <1>1, LinesType
<1>4. Apply(op, start, end, TRUE) /\ start <= end
  BY <1>2, <1>3 DEF apply_operator_linewise
<1> QED BY <1>4, ApplyEffect

\* Shifting a range of lines.
LEMMA ShiftLinesReady ==
  ASSUME b \in Ready, NEW k, NEW from \in Nat, NEW to \in Nat
  PROVE  ShiftLines(k, from, to) \in Ready
<1>1. PICK n \in Nat : n = Max({0, to - from + 1})
  BY MaxTwo
<1>2. ShiftLines(k, from, to) = ShiftAll(Logged, [i \in 1 .. n |-> from + i - 1], k)
  BY <1>1, Zenon DEF ShiftLines, ShiftAll
<1>3. PICK y \in Ready : y = Logged
  BY LoggedReady
<1>4. from \in Int
  OBVIOUS
<1> QED BY <1>2, <1>3, <1>4, ReadyRanges

-----------------------------------------------------------------------------
(* The keys of normal mode.                                                *)

LEMMA PrefixFields ==
  ASSUME NEW p \in KeyPrefixes
  PROVE  p.repeat_count \in Nat /\ p.repeat_count <= MAX_COUNT /\ MAX_COUNT \in Nat
<1>1. MAX_COUNT \in Nat
  BY EditorAssumption
<1>2. p.repeat_count \in 0 .. MAX_COUNT
  BY DEF KeyPrefixes
<1> QED BY <1>1, <1>2

LEMMA PrefixFacts ==
  ASSUME EditorInv
  PROVE  /\ Count \in Nat \ {0} /\ prefix \in KeyPrefixes /\ NoPrefix \in KeyPrefixes
         /\ NoPrefix.op = "" /\ b \in Ready /\ b \in Buffers
<1>1. prefix \in KeyPrefixes
  BY DEF EditorInv, PrefixOK
<1>2. PICK r \in Nat : r = prefix.repeat_count
  BY <1>1, PrefixFields
<1>3. Count \in Nat \ {0}
  BY <1>2, MaxTwo DEF Count
<1>4. NoPrefix \in KeyPrefixes /\ NoPrefix.op = ""
  BY EditorAssumption DEF NoPrefix, KeyPrefixes
<1> QED BY <1>1, <1>3, <1>4 DEF EditorInv, Ready

\* A finished command leaves no prefix.
LEMMA ClearedPrefix ==
  ASSUME EditorInv, prefix' = NoPrefix, mode' \in Modes
  PROVE  PrefixOK'
BY PrefixFacts DEF PrefixOK

LEMMA CountKeyInv ==
  ASSUME EditorInv, NEW d \in Digits, CountKey(d)
  PROVE  EditorInv'
<1>1. UNCHANGED <<b, view, mode, modified, yank, sel_anchor, cmd_buf, files>> /\ mode = "NORMAL"
  BY DEF CountKey, Normal
<1>2. Effect
  BY <1>1, StillEffect
<1>3. PICK p \in KeyPrefixes : p = prefix /\ (p.op # "" => p.op_count >= 1)
  BY DEF EditorInv, PrefixOK
<1>4. PICK r \in 0 .. MAX_COUNT : r = Min({p.repeat_count * 10 + d, MAX_COUNT})
  <2>1. p.repeat_count \in Nat /\ d \in Nat
    <3>1. d \in 0 .. 9
      BY EditorAssumption
    <3> QED BY <3>1, PrefixFields
  <2>2. p.repeat_count * 10 + d \in Nat
    BY <2>1
  <2> QED BY <2>2, MinTwo, EditorAssumption
<1>5. prefix' = [p EXCEPT !.repeat_count = r, !.count_active = TRUE]
  BY <1>3, <1>4 DEF CountKey
<1>6. prefix' \in KeyPrefixes /\ prefix'.op = p.op /\ prefix'.op_count = p.op_count
  BY <1>5 DEF KeyPrefixes
<1>7. PrefixOK'
  BY <1>1, <1>3, <1>6 DEF PrefixOK, Modes
<1> QED BY <1>1, <1>2, <1>7, KeyKeepsInv DEF EditorInv, FilesOK, YankOK

LEMMA ReplaceKeyInv ==
  ASSUME EditorInv, NEW c, ReplaceKey(c)
  PROVE  EditorInv'
<1>1. UNCHANGED <<mode, yank, sel_anchor, cmd_buf, files>> /\ prefix' = NoPrefix
  BY DEF ReplaceKey
<1>2. PrefixOK'
  BY <1>1, ClearedPrefix DEF EditorInv, PrefixOK
<1>3. PICK size \in Nat : size = buf_length(b)
  BY PrefixFacts, TextType
<1>4. PICK pos \in Nat : pos = buf_cursor_pos(b) /\ pos <= size
  BY <1>3, PrefixFacts, TextType
<1>5. PICK count \in Nat \ {0} : count = Count
  BY PrefixFacts
<1>6. PICK n \in Nat : n = Min({count, size - pos})
  BY <1>4, MinTwo
<1>7. CASE c \in Typed
  <2>1. PICK x \in Ready : x = Logged
    BY PrefixFacts, LoggedReady
  <2>2. c \in Chars
    BY <1>7, EditorAssumption
  <2>3. PICK y \in Ready : y = PutAll(x, [i \in 1 .. n |-> pos + i - 1], c)
    <3>1. pos \in Int /\ (n > 0 => pos \in Nat)
      OBVIOUS
    <3> QED BY <2>2, <3>1, ReadyRanges
  <2>4. Edit(buf_move_to(y, pos + count - 1))
    BY <1>3, <1>4, <1>5, <1>6, <1>7, <2>1, <2>3, Zenon DEF ReplaceKey, PutAll
  <2>5. pos + count - 1 \in Nat
    OBVIOUS
  <2>6. PICK z \in Ready : z = buf_move_to(y, pos + count - 1)
    BY <2>5, ReadyMoves
  <2>7. Edit(z)
    BY <2>4, <2>6
  <2>8. Effect
    BY <2>7, EditEffect
  <2> QED BY <1>1, <1>2, <2>8, KeyKeepsInv DEF EditorInv, FilesOK, YankOK
<1>8. CASE c \notin Typed
  <2>1. UNCHANGED <<b, view, modified>>
    BY <1>8 DEF ReplaceKey, Quiet
  <2>2. Effect
    BY <2>1, StillEffect
  <2> QED BY <1>1, <1>2, <2>2, KeyKeepsInv DEF EditorInv, FilesOK, YankOK
<1> QED BY <1>7, <1>8

LEMMA GKeyInv ==
  ASSUME EditorInv, NEW k, GKey(k)
  PROVE  EditorInv'
<1>1. UNCHANGED <<sel_anchor, cmd_buf, files>> /\ mode = "NORMAL"
  BY DEF GKey, Normal
<1>2. PICK p \in KeyPrefixes : p = prefix /\ (p.op # "" => p.op_count >= 1)
  BY DEF EditorInv, PrefixOK
<1>3. PICK line \in Nat : line = buf_cursor_line(b)
  BY PrefixFacts, CursorLine
<1>4. CASE k = "g" /\ prefix.op # ""
  <2>1. apply_operator_linewise(p.op, 0, line) /\ prefix' = NoPrefix
    BY <1>2, <1>3, <1>4 DEF GKey
  <2>2. p.op \in Operators
    BY <1>2, <1>4 DEF KeyPrefixes, Operators
  <2>3. Effect /\ YankOK' /\ mode' = AfterOperator(p.op)
    BY <2>1, <2>2, LinewiseEffect
  <2>4. PrefixOK'
    BY <2>1, <2>3, ClearedPrefix DEF AfterOperator, Modes
  <2> QED BY <1>1, <2>3, <2>4, KeyKeepsInv DEF EditorInv, FilesOK
<1>5. CASE k = "g" /\ prefix.op = ""
  <2>1. /\ Move(buf_move_to(b, LineCol(Min({Max({prefix.repeat_count, 1}) - 1, LastLine}), 0)))
        /\ UNCHANGED <<modified, mode, yank>> /\ prefix' = NoPrefix
    BY <1>5 DEF GKey
  <2>2. PICK last \in Nat : last = LastLine
    BY PrefixFacts, CursorLine DEF LastLine
  <2>3. PICK r \in Nat : r = prefix.repeat_count
    BY <1>2, PrefixFields
  <2>4. PICK m \in Nat \ {0} : m = Max({r, 1})
    BY MaxTwo
  <2>5. PICK to \in Nat : to = Min({m - 1, last})
    BY MinTwo
  <2>6. PICK at \in Nat : at = LineCol(to, 0)
    BY PrefixFacts, LineColType
  <2>7. PICK y \in Ready : y = buf_move_to(b, at) /\ buf_text(y) = Text
    BY PrefixFacts, ReadyMoves DEF Text
  <2>8. Move(y)
    BY <2>1, <2>2, <2>3, <2>4, <2>5, <2>6, <2>7
  <2>9. Effect
    BY <2>1, <2>7, <2>8, MoveEffect
  <2>10. PrefixOK'
    BY <1>1, <2>1, ClearedPrefix DEF Modes
  <2> QED BY <1>1, <2>1, <2>9, <2>10, KeyKeepsInv DEF EditorInv, FilesOK, YankOK
<1>6. CASE k # "g"
  <2>1. /\ prefix' = [NoPrefix EXCEPT !.op = p.op, !.op_count = p.op_count]
        /\ UNCHANGED <<b, view, modified, mode, yank>>
    BY <1>2, <1>6 DEF GKey
  <2>2. Effect
    BY <2>1, StillEffect
  <2>3. /\ prefix' \in KeyPrefixes /\ prefix'.op = p.op /\ prefix'.op_count = p.op_count
    <3>1. PICK none \in KeyPrefixes : none = NoPrefix
      BY PrefixFacts
    <3>2. prefix' = [none EXCEPT !.op = p.op, !.op_count = p.op_count]
      BY <2>1, <3>1
    <3> QED BY <3>2 DEF KeyPrefixes
  <2>4. PrefixOK'
    BY <1>1, <1>2, <2>1, <2>3 DEF PrefixOK, Modes
  <2> QED BY <1>1, <2>1, <2>2, <2>4, KeyKeepsInv DEF EditorInv, FilesOK, YankOK
<1> QED BY <1>4, <1>5, <1>6

LEMMA ShiftKeyInv ==
  ASSUME EditorInv, NEW k, ShiftKey(k)
  PROVE  EditorInv'
<1>1. UNCHANGED <<mode, yank, sel_anchor, cmd_buf, files>> /\ prefix' = NoPrefix
  BY DEF ShiftKey
<1>2. PrefixOK'
  BY <1>1, ClearedPrefix DEF EditorInv, PrefixOK
<1>3. CASE k = prefix.awaiting
  <2>1. PICK line \in Nat : line = buf_cursor_line(b)
    BY PrefixFacts, CursorLine
  <2>2. PICK last \in Nat : last = LastLine
    BY PrefixFacts, CursorLine DEF LastLine
  <2>3. PICK count \in Nat \ {0} : count = Count
    BY PrefixFacts
  <2>4. PICK to \in Nat : to = Min({line + count - 1, last})
    BY MinTwo
  <2>5. PICK y \in Ready : y = ShiftLines(k, line, to)
    BY PrefixFacts, ShiftLinesReady
  <2>6. Edit(y)
    BY <1>3, <2>1, <2>2, <2>3, <2>4, <2>5 DEF ShiftKey
  <2>7. Effect
    BY <2>6, EditEffect
  <2> QED BY <1>1, <1>2, <2>7, KeyKeepsInv DEF EditorInv, FilesOK, YankOK
<1>4. CASE k # prefix.awaiting
  <2>1. UNCHANGED <<b, view, modified>>
    BY <1>4 DEF ShiftKey, Quiet
  <2>2. Effect
    BY <2>1, StillEffect
  <2> QED BY <1>1, <1>2, <2>2, KeyKeepsInv DEF EditorInv, FilesOK, YankOK
<1> QED BY <1>3, <1>4

LEMMA OperatorMotionInv ==
  ASSUME EditorInv, NEW k \in MotionKeys \cup {"d", "y", "c", "g", "u"},
         handle_operator_motion(k)
  PROVE  EditorInv'
<1>1. UNCHANGED <<sel_anchor, cmd_buf, files>> /\ mode = "NORMAL" /\ prefix.op # ""
  BY DEF handle_operator_motion, Normal
<1>2. PICK p \in KeyPrefixes : p = prefix /\ p.op_count >= 1
  BY <1>1 DEF EditorInv, PrefixOK
<1>3. PICK op \in Operators : op = prefix.op
  BY <1>1, <1>2 DEF KeyPrefixes, Operators
<1>4. PICK line \in Nat : line = buf_cursor_line(b)
  BY PrefixFacts, CursorLine
<1>5. PICK last \in Nat : last = LastLine /\ line <= last
  BY <1>4, PrefixFacts, CursorLine DEF LastLine
<1>6. PICK n \in Nat \ {0} : n = prefix.op_count * Count
  <2>1. PICK i \in Nat \ {0} : i = prefix.op_count
    <3>1. p.op_count \in Nat
      BY DEF KeyPrefixes
    <3>2. p.op_count \in Nat \ {0}
      BY <1>2, <3>1
    <3> QED BY <1>2, <3>2
  <2>2. PICK j \in Nat \ {0} : j = Count
    BY PrefixFacts
  <2>3. i * j \in Nat \ {0}
    OBVIOUS
  <2> QED BY <2>1, <2>2, <2>3
<1>7. PICK pos \in Nat : pos = buf_cursor_pos(b) /\ pos <= buf_length(b)
  BY PrefixFacts, TextType
<1>8. ASSUME Effect, YankOK', mode' = AfterOperator(op), prefix' = NoPrefix
      PROVE  EditorInv'
  <2>1. PrefixOK'
    BY <1>8, ClearedPrefix DEF AfterOperator, Modes
  <2> QED BY <1>1, <1>8, <2>1, KeyKeepsInv DEF EditorInv, FilesOK
<1>9. k # "g" => prefix' = NoPrefix
  BY DEF handle_operator_motion
<1>10. CASE k = op
  <2>1. PICK to \in Nat : to = Min({line + n - 1, last}) /\ line <= to
    BY <1>5, MinTwo
  <2>2. apply_operator_linewise(op, line, to) /\ k # "g"
    BY <1>3, <1>4, <1>5, <1>6, <1>10, <2>1 DEF handle_operator_motion, Operators
  <2> QED BY <1>8, <1>9, <2>1, <2>2, LinewiseEffect
<1>11. CASE k \in {"e", "E"}
  <2>1. PICK to \in Nat : to = WordMotion(Text, k, n, pos)
    <3>1. Text \in Texts /\ Len(Text) = buf_length(b) /\ buf_length(b) \in Nat
      BY PrefixFacts, TextType DEF Text
    <3>2. pos \in 0 .. Len(Text) /\ Len(Text) \in Nat
      BY <1>7, <3>1
    <3>3. WordMotion(Text, k, n, pos) \in 0 .. Len(Text)
      BY <3>1, <3>2, WordMotionStays
    <3> QED BY <3>2, <3>3
  <2>2. apply_operator_charwise(op, pos, to + 1) /\ k # "g"
    BY <1>3, <1>6, <1>7, <1>11, <2>1 DEF handle_operator_motion, Operators
  <2>3. to + 1 \in Nat
    OBVIOUS
  <2> QED BY <1>8, <1>9, <2>2, <2>3, CharwiseEffect
<1>12. CASE k \in {"w", "W", "b", "B", "h", "l", "0"}
  <2>1. PICK to \in Nat : to = Target(k, n)
    BY <1>12, PrefixFacts, TargetType DEF MotionKeys, WordKeys
  <2>2. apply_operator_charwise(op, pos, to) /\ k # "g"
    BY <1>3, <1>6, <1>7, <1>12, <2>1 DEF handle_operator_motion, Operators
  <2> QED BY <1>8, <1>9, <2>1, <2>2, CharwiseEffect
<1>13. CASE k = "$"
  <2>1. PICK to \in Nat : to = LineEnd(b, line)
    BY <1>4, PrefixFacts, CursorLineEnds
  <2>2. apply_operator_charwise(op, pos, to) /\ k # "g"
    BY <1>3, <1>4, <1>7, <1>13, <2>1 DEF handle_operator_motion, Operators
  <2> QED BY <1>8, <1>9, <2>1, <2>2, CharwiseEffect
<1>14. CASE k = "j"
  <2>1. PICK to \in Nat : to = Min({line + n, last}) /\ line <= to
    BY <1>5, MinTwo
  <2>2. apply_operator_linewise(op, line, to) /\ k # "g"
    BY <1>3, <1>4, <1>5, <1>6, <1>14, <2>1 DEF handle_operator_motion, Operators
  <2> QED BY <1>8, <1>9, <2>1, <2>2, LinewiseEffect
<1>15. CASE k = "k"
  <2>1. PICK from \in Nat : from = Max({0, line - n}) /\ from <= line
    BY MaxTwo
  <2>2. apply_operator_linewise(op, from, line) /\ k # "g"
    BY <1>3, <1>4, <1>6, <1>15, <2>1 DEF handle_operator_motion, Operators
  <2> QED BY <1>8, <1>9, <2>1, <2>2, LinewiseEffect
<1>16. CASE k = "G"
  <2>1. apply_operator_linewise(op, line, last) /\ k # "g"
    BY <1>3, <1>4, <1>5, <1>16 DEF handle_operator_motion, Operators
  <2> QED BY <1>5, <1>8, <1>9, <2>1, LinewiseEffect
<1>17. CASE /\ k # op
            /\ k \notin {"e", "E", "w", "W", "b", "B", "h", "l", "0", "$", "j", "k", "G"}
  <2>1. UNCHANGED <<b, view, modified, mode, yank>>
    BY <1>3, <1>17 DEF handle_operator_motion
  <2>2. Effect
    BY <2>1, StillEffect
  <2>3. PrefixOK'
    <3>1. CASE k # "g"
      BY <1>1, <1>9, <2>1, <3>1, ClearedPrefix DEF Modes
    <3>2. CASE k = "g"
      <4>1. PICK none \in KeyPrefixes : none = NoPrefix
        BY PrefixFacts
      <4>2. prefix' = [none EXCEPT !.awaiting = "g", !.op = p.op, !.op_count = p.op_count]
        BY <1>2, <3>2, <4>1 DEF handle_operator_motion
      <4>3. prefix' \in KeyPrefixes /\ prefix'.op_count = p.op_count
        BY <4>2 DEF KeyPrefixes
      <4> QED BY <1>1, <1>2, <2>1, <4>3 DEF PrefixOK, Modes
    <3> QED BY <3>1, <3>2
  <2> QED BY <1>1, <2>1, <2>2, <2>3, KeyKeepsInv DEF EditorInv, FilesOK, YankOK
<1> QED BY <1>10, <1>11, <1>12, <1>13, <1>14, <1>15, <1>16, <1>17

LEMMA MotionKeyInv ==
  ASSUME EditorInv, NEW k \in MotionKeys, MotionKey(k)
  PROVE  EditorInv'
<1>1. UNCHANGED <<mode, modified, yank, sel_anchor, cmd_buf, files>> /\ prefix' = NoPrefix
  BY DEF MotionKey
<1>2. PrefixOK'
  BY <1>1, ClearedPrefix DEF EditorInv, PrefixOK
<1>3. PICK n \in Nat \ {0} : n = Count
  BY PrefixFacts
<1>4. PICK pos \in Nat : pos = Target(k, n)
  BY PrefixFacts, TargetType
<1>5. PICK y \in Ready : y = buf_move_to(b, pos) /\ buf_text(y) = Text
  BY PrefixFacts, ReadyMoves DEF Text
<1>6. Move(y)
  BY <1>3, <1>4, <1>5 DEF MotionKey
<1>7. Effect
  BY <1>1, <1>5, <1>6, MoveEffect
<1> QED BY <1>1, <1>2, <1>7, KeyKeepsInv DEF EditorInv, FilesOK, YankOK

LEMMA FirstKeyInv ==
  ASSUME EditorInv, NEW k \in {"g", "r", ">", "<", "d", "y", "c"}, FirstKey(k)
  PROVE  EditorInv'
<1>1. UNCHANGED <<b, view, mode, modified, yank, sel_anchor, cmd_buf, files>> /\ mode = "NORMAL"
  BY DEF FirstKey, Plain, Normal
<1>2. Effect
  BY <1>1, StillEffect
<1>3. PICK none \in KeyPrefixes : none = NoPrefix /\ none.op = ""
  BY PrefixFacts
<1>4. PICK count \in 1 .. MAX_COUNT : count = Count
  <2>1. PICK r \in Nat : r = prefix.repeat_count /\ r <= MAX_COUNT
    BY PrefixFacts, PrefixFields
  <2>2. MAX_COUNT \in Nat \ {0}
    BY EditorAssumption
  <2>3. Count = Max({1, r})
    BY <2>1 DEF Count
  <2> QED BY <2>1, <2>2, <2>3, MaxTwo
<1>5. prefix' \in KeyPrefixes /\ (prefix'.op # "" => prefix'.op_count >= 1)
  <2>1. CASE k = "g"
    <3>1. prefix' = [none EXCEPT !.awaiting = k]
      BY <1>3, <2>1 DEF FirstKey
    <3> QED BY <1>3, <2>1, <3>1 DEF KeyPrefixes
  <2>2. CASE k \in {"d", "y", "c"}
    <3>1. prefix' = [none EXCEPT !.op = k, !.op_count = count]
      BY <1>3, <1>4, <2>2 DEF FirstKey
    <3>2. count \in Nat /\ count >= 1
      OBVIOUS
    <3>3. prefix' \in KeyPrefixes /\ prefix'.op_count = count
      BY <1>3, <2>2, <3>1, <3>2 DEF KeyPrefixes
    <3> QED BY <3>2, <3>3
  <2>3. CASE k \in {"r", ">", "<"}
    <3>1. prefix' = [none EXCEPT !.awaiting = k, !.repeat_count = count, !.count_active = TRUE]
      BY <1>3, <1>4, <2>3 DEF FirstKey
    <3>2. count \in 0 .. MAX_COUNT
      OBVIOUS
    <3> QED BY <1>3, <2>3, <3>1, <3>2 DEF KeyPrefixes
  <2> QED BY <2>1, <2>2, <2>3
<1>6. PrefixOK'
  BY <1>1, <1>5 DEF PrefixOK, Modes
<1> QED BY <1>1, <1>2, <1>6, KeyKeepsInv DEF EditorInv, FilesOK, YankOK

LEMMA InsertKeyInv ==
  ASSUME EditorInv, NEW k \in {"i", "a", "A", "I", "o", "O"}, InsertKey(k)
  PROVE  EditorInv'
<1>1. UNCHANGED <<yank, sel_anchor, cmd_buf, files>> /\ prefix' = NoPrefix /\ mode' = "INSERT"
  BY DEF InsertKey
<1>2. PrefixOK'
  BY <1>1, ClearedPrefix DEF Modes
<1>3. PICK x \in Ready : x = Logged /\ SameText(b, x) /\ buf_text(x) = Text
  BY PrefixFacts, LoggedReady
<1>4. PICK line \in Nat : line = buf_cursor_line(b)
  BY PrefixFacts, CursorLine
<1>5. PICK end \in Nat : end = LineEnd(b, line)
  BY <1>4, PrefixFacts, CursorLineEnds
<1>6. Newline \in Chars
  BY EditBufferAssumption
<1>7. CASE k = "i"
  <2>1. b' = x /\ UNCHANGED <<view, modified>>
    BY <1>3, <1>7 DEF InsertKey, Quiet
  <2>2. Effect
    BY <1>3, <2>1, QuietEffect
  <2> QED BY <1>1, <1>2, <2>2, KeyKeepsInv DEF EditorInv, FilesOK, YankOK
<1>8. CASE k = "a"
  <2>1. PICK y \in Ready : y = buf_move_right(x) /\ buf_text(y) = Text
    BY <1>3, ReadyMoves
  <2>2. Move(y) /\ UNCHANGED modified
    BY <1>3, <1>8, <2>1 DEF InsertKey
  <2>3. Effect
    BY <2>1, <2>2, MoveEffect
  <2> QED BY <1>1, <1>2, <2>3, KeyKeepsInv DEF EditorInv, FilesOK, YankOK
<1>9. CASE k = "A"
  <2>1. PICK y \in Ready : y = buf_move_to(x, end) /\ buf_text(y) = Text
    BY <1>3, ReadyMoves
  <2>2. Move(y) /\ UNCHANGED modified
    BY <1>3, <1>4, <1>5, <1>9, <2>1 DEF InsertKey
  <2>3. Effect
    BY <2>1, <2>2, MoveEffect
  <2> QED BY <1>1, <1>2, <2>3, KeyKeepsInv DEF EditorInv, FilesOK, YankOK
<1>10. CASE k = "I"
  <2>1. PICK pos \in Nat : pos = FirstNonBlank
    BY PrefixFacts, CursorLineEnds
  <2>2. PICK y \in Ready : y = buf_move_to(x, pos) /\ buf_text(y) = Text
    BY <1>3, ReadyMoves
  <2>3. Move(y) /\ UNCHANGED modified
    BY <1>3, <1>10, <2>1, <2>2 DEF InsertKey
  <2>4. Effect
    BY <2>2, <2>3, MoveEffect
  <2> QED BY <1>1, <1>2, <2>4, KeyKeepsInv DEF EditorInv, FilesOK, YankOK
<1>11. CASE k = "o"
  <2>1. PICK y \in Ready : y = buf_insert(buf_move_to(x, end), Newline)
    <3>1. buf_move_to(x, end) \in Ready
      BY ReadyMoves
    <3> QED BY <1>6, <3>1, ReadyEdits
  <2>2. Edit(y)
    BY <1>3, <1>4, <1>5, <1>11, <2>1 DEF InsertKey
  <2>3. Effect
    BY <2>2, EditEffect
  <2> QED BY <1>1, <1>2, <2>3, KeyKeepsInv DEF EditorInv, FilesOK, YankOK
<1>12. CASE k = "O"
  <2>1. PICK start \in Nat : start = buf_line_start(b, line)
    BY <1>4, PrefixFacts, CursorLineEnds
  <2>2. PICK y \in Ready : y = buf_move_left(buf_insert(buf_move_to(x, start), Newline))
    <3>1. buf_move_to(x, start) \in Ready
      BY ReadyMoves
    <3>2. buf_insert(buf_move_to(x, start), Newline) \in Ready
      BY <1>6, <3>1, ReadyEdits
    <3> QED BY <3>2, ReadyMoves
  <2>3. Edit(y)
    BY <1>3, <1>4, <1>12, <2>1, <2>2 DEF InsertKey
  <2>4. Effect
    BY <2>3, EditEffect
  <2> QED BY <1>1, <1>2, <2>4, KeyKeepsInv DEF EditorInv, FilesOK, YankOK
<1> QED BY <1>7, <1>8, <1>9, <1>10, <1>11, <1>12

LEMMA LineKeyInv ==
  ASSUME EditorInv, NEW k, LineKey(k)
  PROVE  EditorInv'
<1>1. /\ UNCHANGED <<sel_anchor, cmd_buf, files>> /\ prefix' = NoPrefix
      /\ mode' = IF k = "D" THEN mode ELSE "INSERT"
  BY DEF LineKey
<1>2. PrefixOK'
  <2>1. mode \in Modes
    BY DEF EditorInv, PrefixOK
  <2> QED BY <1>1, <2>1, ClearedPrefix DEF Modes
<1>3. PICK line \in Nat : line = buf_cursor_line(b)
  BY PrefixFacts, CursorLine
<1>4. PICK end \in Nat : end = LineEnd(b, line)
  BY <1>3, PrefixFacts, CursorLineEnds
<1>5. PICK start \in Nat :
        start = IF k = "S" THEN buf_line_start(b, line) ELSE buf_cursor_pos(b)
  BY <1>3, PrefixFacts, CursorLineEnds, TextType
<1>6. CASE start < end
  <2>0. start <= end
    BY <1>6
  <2>1. PICK y \in Ready : y = delete_range(start, end)
    BY <2>0, PrefixFacts, LoggedReady
  <2>2. Yank(start, end, FALSE) /\ Edit(y)
    BY <1>3, <1>4, <1>5, <1>6, <2>1 DEF LineKey
  <2>3. Effect
    BY <2>2, EditEffect
  <2>4. YankOK'
    BY <2>0, <2>2, PrefixFacts, YankKeeps
  <2> QED BY <1>1, <1>2, <2>3, <2>4, KeyKeepsInv DEF EditorInv, FilesOK
<1>7. CASE ~(start < end)
  <2>1. PICK y \in Ready : y = Logged /\ SameText(b, y)
    BY PrefixFacts, LoggedReady
  <2>2. b' = y /\ UNCHANGED <<view, modified, yank>>
    BY <1>3, <1>4, <1>5, <1>7, <2>1 DEF LineKey, Quiet
  <2>3. Effect
    BY <2>1, <2>2, QuietEffect
  <2> QED BY <1>1, <1>2, <2>2, <2>3, KeyKeepsInv DEF EditorInv, FilesOK, YankOK
<1> QED BY <1>6, <1>7

LEMMA YankLineKeyInv ==
  ASSUME EditorInv, YankLineKey
  PROVE  EditorInv'
<1>1. UNCHANGED <<b, view, mode, modified, sel_anchor, cmd_buf, files>> /\ prefix' = NoPrefix
  BY DEF YankLineKey
<1>2. PrefixOK'
  BY <1>1, ClearedPrefix DEF EditorInv, PrefixOK
<1>3. PICK line \in Nat : line = buf_cursor_line(b)
  BY PrefixFacts, CursorLine
<1>4. PICK start \in Nat : start = buf_line_start(b, line)
  BY <1>3, PrefixFacts, CursorLineEnds
<1>5. PICK end \in Nat : end = LineEnd(b, line) /\ start <= end
  <2>1. PICK llen \in Nat : llen = buf_line_length(b, line)
    BY PrefixFacts, LineLength
  <2>2. LineEnd(b, line) = start + llen
    BY <1>4, <2>1, Zenon DEF LineEnd
  <2> QED BY <2>2
<1>6. Yank(start, end, TRUE)
  BY <1>3, <1>4, <1>5 DEF YankLineKey
<1>7. YankOK'
  BY <1>5, <1>6, PrefixFacts, YankKeeps
<1>8. Effect
  BY <1>1, StillEffect
<1> QED BY <1>1, <1>2, <1>7, <1>8, KeyKeepsInv DEF EditorInv, FilesOK

LEMMA EditKeyInv ==
  ASSUME EditorInv, NEW k \in EditKeys, EditKey(k)
  PROVE  EditorInv'
<1>1. UNCHANGED <<mode, yank, sel_anchor, cmd_buf, files>> /\ prefix' = NoPrefix
  BY DEF EditKey
<1>2. PrefixOK'
  BY <1>1, ClearedPrefix DEF EditorInv, PrefixOK
<1>3. PICK x \in Ready : x = Logged /\ SameText(b, x) /\ buf_text(x) = Text
  BY PrefixFacts, LoggedReady
<1>4. PICK n \in Nat : n = Count
  BY PrefixFacts
<1>5. Effect
  <2>1. CASE k = "x"
    <3>1. PICK y \in Ready : y = DeleteMany(x, n)
      BY ReadyLoops
    <3>2. Edit(y)
      BY <1>3, <1>4, <2>1, <3>1 DEF EditKey
    <3> QED BY <3>2, EditEffect
  <2>2. CASE k = "p"
    <3>1. PICK y \in Ready : y = Times(PasteOnce, n, x)
      BY ReadyTimes DEF EditorInv, YankOK
    <3>2. Edit(y) \/ UNCHANGED <<b, view, modified>>
      BY <1>3, <1>4, <2>2, <3>1, Zenon DEF EditKey, Quiet
    <3> QED BY <3>2, EditEffect, StillEffect
  <2>3. CASE k = "J"
    <3>1. PICK y \in Ready : y = Times(JoinOnce, n, x)
      BY ReadyTimes
    <3>2. Move(y) /\ modified' = (modified \/ CanJoin(b))
      BY <1>3, <1>4, <2>3, <3>1, Zenon DEF EditKey
    <3>3. CASE CanJoin(b)
      BY <3>2, <3>3, MoveShows DEF Effect
    \* Without a line to join, nothing happens at all.
    <3>4. CASE ~CanJoin(b)
      <4>1. ~CanJoin(x)
        <5>1. buf_cursor_line(x) = buf_cursor_line(b)
          BY <1>3, Zenon DEF SameText, buf_cursor_line
        <5>2. buf_line_count(x) = buf_line_count(b)
          BY <1>3, Zenon DEF buf_line_count, Text
        <5> QED BY <3>4, <5>1, <5>2, Zenon DEF CanJoin
      <4>2. JoinOnce(x) = x
        BY <4>1, Zenon DEF JoinOnce
      <4>3. y \in {x}
        <5>1. x \in {x} /\ \A z \in {x} : JoinOnce(z) \in {x}
          BY <4>2
        <5> QED BY <3>1, <5>1, JoinTimes
      <4>4. buf_text(y) = Text
        BY <1>3, <4>3
      <4> QED BY <3>2, <4>4, MoveEffect, <3>4
    <3> QED BY <3>3, <3>4
  <2>4. CASE k = "~"
    <3>1. PICK y \in Ready : y = Times(ToggleOnce, n, x)
      BY ReadyTimes
    <3>2. Move(y) /\ modified' = (modified \/ buf_text(b') # Text)
      BY <1>3, <1>4, <2>4, <3>1, Zenon DEF EditKey
    <3> QED BY <3>2, MoveShows DEF Effect
  <2> QED BY <2>1, <2>2, <2>3, <2>4 DEF EditKeys
<1> QED BY <1>1, <1>2, <1>5, KeyKeepsInv DEF EditorInv, FilesOK, YankOK

LEMMA UndoKeyInv ==
  ASSUME EditorInv, NEW k, UndoKey(k)
  PROVE  EditorInv'
<1>1. UNCHANGED <<mode, yank, sel_anchor, cmd_buf, files>> /\ prefix' = NoPrefix
  BY DEF UndoKey
<1>2. PrefixOK'
  BY <1>1, ClearedPrefix DEF EditorInv, PrefixOK
<1>3. PICK n \in Nat : n = Count
  BY PrefixFacts
<1>4. PICK x \in Ready : x = Logged
  BY PrefixFacts, LoggedReady
<1>5. PICK y \in Ready : y = IF k = "u" THEN Times(buf_undo, n, x) ELSE Times(buf_redo, n, b)
  BY PrefixFacts, ReadyTimes
<1>6. Edit(y)
  BY <1>3, <1>4, <1>5, Zenon DEF UndoKey
<1>7. Effect
  BY <1>6, EditEffect
<1> QED BY <1>1, <1>2, <1>7, KeyKeepsInv DEF EditorInv, FilesOK, YankOK

LEMMA VisualKeyInv ==
  ASSUME EditorInv, NEW k, VisualKey(k)
  PROVE  EditorInv'
<1>1. /\ UNCHANGED <<b, view, modified, yank, cmd_buf, files>> /\ prefix' = NoPrefix
      /\ mode' \in Modes /\ sel_anchor' = buf_cursor_pos(b)
  BY DEF VisualKey, Modes
<1>2. PrefixOK'
  BY <1>1, ClearedPrefix
<1>3. sel_anchor' \in Nat
  BY <1>1, PrefixFacts, TextType
<1>4. Effect
  BY <1>1, StillEffect
<1> QED BY <1>1, <1>2, <1>3, <1>4, KeyKeepsInv DEF EditorInv, FilesOK, YankOK

LEMMA ColonKeyInv ==
  ASSUME EditorInv, ColonKey
  PROVE  EditorInv'
<1>1. /\ UNCHANGED <<b, view, modified, yank, sel_anchor, files>> /\ prefix' = NoPrefix
      /\ mode' \in Modes /\ cmd_buf' = NoCommand
  BY DEF ColonKey, Modes
<1>2. PrefixOK'
  BY <1>1, ClearedPrefix
<1>3. cmd_buf' \in Commands
  BY <1>1 DEF Commands, NoCommand
<1>4. Effect
  BY <1>1, StillEffect
<1> QED BY <1>1, <1>2, <1>3, <1>4, KeyKeepsInv DEF EditorInv, YankOK

-----------------------------------------------------------------------------
(* The keys of insert mode.                                                *)

LEMMA EscapeInsertInv ==
  ASSUME EditorInv, EscapeInsert
  PROVE  EditorInv'
<1>1. /\ UNCHANGED <<modified, prefix, yank, sel_anchor, cmd_buf, files>>
      /\ mode = "INSERT" /\ mode' = "NORMAL"
  BY DEF EscapeInsert, Insert
<1>2. prefix = NoPrefix
  BY <1>1 DEF EditorInv, PrefixOK
<1>3. PrefixOK'
  BY <1>1, <1>2, ClearedPrefix DEF Modes
<1>4. PICK x \in Ready : x = Logged /\ buf_text(x) = Text
  BY PrefixFacts, LoggedReady
<1>5. PICK y \in Ready : /\ y = IF buf_cursor_col(b) > 0 THEN buf_move_left(x) ELSE x
                         /\ buf_text(y) = Text
  BY <1>4, ReadyMoves
<1>6. Move(y)
  BY <1>4, <1>5, Zenon DEF EscapeInsert
<1>7. Effect
  BY <1>1, <1>5, <1>6, MoveEffect
<1> QED BY <1>1, <1>3, <1>7, KeyKeepsInv DEF EditorInv, FilesOK, YankOK

TypeKeys == Typed \cup {Newline, "TAB", "BACKSPACE", "DELETE", "LEFT", "RIGHT", "UP", "DOWN"}

LEMMA TypeKeyInv ==
  ASSUME EditorInv, NEW k \in TypeKeys, TypeKey(k)
  PROVE  EditorInv'
<1>1. /\ UNCHANGED <<mode, prefix, yank, sel_anchor, cmd_buf, files>> /\ mode = "INSERT"
  BY DEF TypeKey, Insert
<1>2. PrefixOK'
  BY <1>1 DEF EditorInv, PrefixOK
<1>3. b \in Ready
  BY PrefixFacts
<1>4. Effect
  <2>1. CASE k = "BACKSPACE"
    <3>1. PICK y \in Ready : y = buf_delete_back(b)
      BY <1>3, ReadyEdits
    <3>2. Edit(y)
      BY <2>1, <3>1 DEF TypeKey
    <3> QED BY <3>2, EditEffect
  <2>2. CASE k = "DELETE"
    <3>1. PICK y \in Ready : y = buf_delete_fwd(b)
      BY <1>3, ReadyEdits
    <3>2. Edit(y)
      BY <2>2, <3>1 DEF TypeKey
    <3> QED BY <3>2, EditEffect
  <2>3. CASE k = "TAB"
    <3>1. Indentation \in Texts
      BY EditBufferAssumption DEF Indentation, Texts
    <3>2. PICK y \in Ready : y = InsertAll(b, Indentation)
      BY <1>3, <3>1, ReadyLoops
    <3>3. Edit(y)
      BY <2>3, <3>2 DEF TypeKey
    <3> QED BY <3>3, EditEffect
  <2>4. CASE k \in {"LEFT", "RIGHT", "UP", "DOWN"}
    <3>0. -1 \in Int /\ 1 \in Int
      OBVIOUS
    <3>1. PICK up \in Nat : up = move_vertical(-1)
      BY <3>0, PrefixFacts, MoveVerticalType
    <3>2. PICK down \in Nat : down = move_vertical(1)
      BY <3>0, PrefixFacts, MoveVerticalType
    <3>3. PICK y \in Ready :
            /\ buf_text(y) = Text
            /\ y = CASE k = "LEFT" -> buf_move_left(b)
                     [] k = "RIGHT" -> buf_move_right(b)
                     [] k = "UP" -> buf_move_to(b, up)
                     [] OTHER -> buf_move_to(b, down)
      BY <1>3, ReadyMoves DEF Text
    <3>4. Move(y) /\ UNCHANGED modified
      BY <2>4, <3>1, <3>2, <3>3 DEF TypeKey
    <3> QED BY <3>3, <3>4, MoveEffect
  <2>5. CASE k \notin {"BACKSPACE", "DELETE", "TAB", "LEFT", "RIGHT", "UP", "DOWN"}
    <3>1. k \in Chars
      BY <2>5, EditorAssumption, EditBufferAssumption DEF TypeKeys
    <3>2. PICK y \in Ready : y = buf_insert(b, k)
      BY <1>3, <3>1, ReadyEdits
    <3>3. Edit(y)
      BY <2>5, <3>2 DEF TypeKey
    <3> QED BY <3>3, EditEffect
  <2> QED BY <2>1, <2>2, <2>3, <2>4, <2>5
<1> QED BY <1>1, <1>2, <1>4, KeyKeepsInv DEF EditorInv, FilesOK, YankOK

-----------------------------------------------------------------------------
(* The keys of the visual modes.                                           *)

LEMMA LineAtOrdered ==
  ASSUME b \in Buffers, NEW p \in Nat, NEW q \in Nat, p <= q
  PROVE  LineAt(p) \in Nat /\ LineAt(q) \in Nat /\ LineAt(p) <= LineAt(q)
<1>1. NewlinesIn(Text) \subseteq 1 .. buf_length(b) /\ buf_length(b) \in Nat
  BY TextType, NewlinesType DEF Text
<1>2. LineAt(p) = Cardinality(UpTo(NewlinesIn(Text), p))
  BY DEF LineAt, UpTo
<1>3. LineAt(q) = Cardinality(UpTo(NewlinesIn(Text), q))
  BY DEF LineAt, UpTo
<1> QED BY <1>1, <1>2, <1>3, UpToGrows

LEMMA ScanLinesType ==
  ASSUME b \in Buffers, NEW start \in Nat, NEW end \in Nat
  PROVE  /\ ScanLines(start, end).sline \in Nat /\ ScanLines(start, end).eline \in Nat
         /\ start < end => ScanLines(start, end).sline <= ScanLines(start, end).eline
         /\ start >= buf_length(b) => ScanLines(start, end).sline = 0
<1>1. buf_length(b) \in Nat
  BY TextType
<1>2. PICK s \in Nat : s = IF start < buf_length(b) THEN LineAt(start) ELSE 0
  BY LineAtOrdered
<1>3. PICK e \in Nat : e = IF end > 0 THEN LineAt(end - 1) ELSE 0
  BY LineAtOrdered
<1>4. start < end => s <= e
  BY <1>2, <1>3, LineAtOrdered
<1>5. ScanLines(start, end) = [sline |-> s, eline |-> e]
  BY <1>2, <1>3, Zenon DEF ScanLines
<1>6. start >= buf_length(b) => s = 0
  BY <1>1, <1>2
<1> QED BY <1>4, <1>5, <1>6

LEMMA SelectionType ==
  ASSUME EditorInv
  PROVE  /\ get_sel_bounds.start \in Nat /\ get_sel_bounds.end \in Nat
         /\ get_sel_bounds.start <= get_sel_bounds.end
<1>1. b \in Buffers
  BY PrefixFacts
<1>2. PICK size \in Nat : size = buf_length(b)
  BY <1>1, TextType
<1>3. PICK pos \in Nat : pos = buf_cursor_pos(b) /\ pos <= size
  BY <1>1, <1>2, TextType
<1>4. PICK anchor \in Nat : anchor = sel_anchor
  BY DEF EditorInv
<1>5. PICK start \in Nat : start = Min({pos, anchor}) /\ start <= pos
  BY MinTwo
<1>6. PICK last \in Nat : last = Max({pos, anchor}) /\ pos <= last
  BY MaxTwo
<1>7. PICK end \in Nat : end = Min({last + 1, size}) /\ start <= end /\ (start < size => start < end)
  <2>1. Min({last + 1, size}) = IF last + 1 <= size THEN last + 1 ELSE size
    BY MinTwo
  <2> QED BY <1>3, <1>5, <1>6, <2>1
<1>8. CASE mode = "VISUAL"
  <2>1. get_sel_bounds = [start |-> start, end |-> end]
    BY <1>2, <1>3, <1>4, <1>5, <1>6, <1>7, <1>8, Zenon DEF get_sel_bounds
  <2> QED BY <1>7, <2>1
<1>9. CASE mode # "VISUAL"
  <2>1. PICK s \in Nat : /\ s = ScanLines(start, end).sline
                         /\ start >= size => s = 0
                         /\ start < end => s <= ScanLines(start, end).eline
    BY <1>1, <1>2, ScanLinesType
  <2>2. PICK e \in Nat : e = ScanLines(start, end).eline
    BY <1>1, ScanLinesType
  <2>3. s <= e
    BY <1>7, <2>1, <2>2
  <2>4. get_sel_bounds = [start |-> buf_line_start(b, s), end |-> LineEndIncl(e)]
    BY <1>2, <1>3, <1>4, <1>5, <1>6, <1>7, <1>9, <2>1, <2>2, Zenon DEF get_sel_bounds
  <2> QED BY <1>1, <2>3, <2>4, LinesType
<1> QED BY <1>8, <1>9

\* Behind the last full line every line number leads to the end of the text.
LEMMA LastLineEnd ==
  ASSUME b \in Buffers, buf_length(b) > 0, NEW line \in Nat,
         LineAt(buf_length(b) - 1) <= line
  PROVE  LineEndIncl(line) = buf_length(b)
<1> DEFINE n == buf_length(b)
           ends == NewlinesIn(Text)
           S == {n} \cup {i - 1 : i \in {j \in ends : j > buf_line_start(b, line)}}
<1>1. ends \subseteq 1 .. n /\ n \in Nat \ {0} /\ n - 1 \in Nat
  BY TextType, NewlinesType DEF Text
<1>2. PICK start \in 0 .. n : start = buf_line_start(b, line)
  BY LineStart
<1>3. LineAt(n - 1) = Cardinality(UpTo(ends, n - 1))
  BY DEF LineAt, UpTo
<1>4. ASSUME NEW i \in ends, i > start PROVE i = n
  <2> SUFFICES ASSUME i # n PROVE FALSE
    OBVIOUS
  <2>1. i \in Nat /\ 0 <= i /\ i <= n - 1 /\ 0 < i /\ start < i /\ start <= i
    BY <1>1, <1>4
  <2>2. Cardinality(UpTo(ends, i)) \in Nat /\ Cardinality(UpTo(ends, i)) <= Cardinality(UpTo(ends, n - 1))
        /\ Cardinality(UpTo(ends, n - 1)) \in Nat
    <3> HIDE DEF n, ends
    <3> QED BY <1>1, <2>1, UpToGrows
  <2>3. Cardinality(UpTo(ends, i)) > line
    <3>1. CASE line = 0
      <4>1. Cardinality(UpTo(ends, 0)) \in Nat /\ Cardinality(UpTo(ends, 0)) < Cardinality(UpTo(ends, i))
        <5> HIDE DEF n, ends
        <5> QED BY <1>1, <2>1, UpToGrows
      <4> QED BY <2>2, <3>1, <4>1
    <3>2. CASE line # 0 /\ line <= Cardinality(ends)
      <4>1. start \in ends /\ Cardinality(UpTo(ends, start)) = line
        BY <1>2, <3>2, InnerLineStart DEF Text
      <4>2. start \in Nat
        BY <1>2
      <4>3. Cardinality(UpTo(ends, start)) < Cardinality(UpTo(ends, i))
        <5> HIDE DEF n, ends
        <5> QED BY <1>1, <2>1, <4>2, UpToGrows
      <4> QED BY <2>2, <4>1, <4>3
    <3>3. CASE line # 0 /\ line > Cardinality(ends)
      <4>1. start = n
        BY <1>2, <3>3 DEF buf_line_start, Text
      <4> QED BY <1>1, <2>1, <4>1
    <3>4. Cardinality(ends) \in Nat
      BY TextType, NewlinesType DEF Text
    <3> QED BY <3>1, <3>2, <3>3, <3>4
  <2> QED BY <1>3, <2>2, <2>3
<1>5. S \subseteq n - 1 .. n /\ S \subseteq Nat /\ S # {}
  BY <1>1, <1>2, <1>4
<1>6. buf_line_length(b, line) = Min(S) - start
  BY <1>2 DEF buf_line_length, Text
<1> HIDE DEF S
<1>7. Min(S) \in n - 1 .. n
  BY <1>5, MinIn
<1>8. LineEnd(b, line) = Min(S)
  BY <1>1, <1>2, <1>6, <1>7 DEF LineEnd
<1>9. PICK e \in n - 1 .. n : e = LineEnd(b, line)
  BY <1>7, <1>8
<1>10. Min({e + 1, n}) = n
  BY <1>1, <1>9, MinTwo
<1> QED BY <1>9, <1>10, Zenon DEF LineEndIncl, n

\* The selection reaches from the start of the anchor's line to the end of the
\* cursor's, whichever of them comes first.
LEMMA LineSelection ==
  ASSUME EditorInv, mode = "VISUAL_LINE",
         NEW start \in Nat, start = Min({sel_anchor, buf_cursor_pos(b)}), start < buf_length(b),
         NEW last \in Nat, last = Max({sel_anchor, buf_cursor_pos(b)})
  PROVE  /\ get_sel_bounds.start = buf_line_start(b, LineAt(start))
         /\ get_sel_bounds.end = LineEndIncl(LineAt(last))
<1>1. b \in Buffers
  BY PrefixFacts
<1>2. PICK size \in Nat : size = buf_length(b)
  BY <1>1, TextType
<1>3. PICK pos \in Nat : pos = buf_cursor_pos(b)
  BY <1>1, TextType
<1>4. PICK anchor \in Nat : anchor = sel_anchor
  BY DEF EditorInv
<1>5. start = Min({pos, anchor}) /\ last = Max({pos, anchor}) /\ start <= last
  <2>1. {pos, anchor} = {sel_anchor, buf_cursor_pos(b)}
    BY <1>3, <1>4
  <2>2. start = Min({pos, anchor}) /\ last = Max({pos, anchor})
    BY <2>1
  <2> QED BY <2>2, MinTwo, MaxTwo
<1>6. PICK end \in Nat : /\ end = Min({last + 1, size}) /\ end > 0 /\ end <= size
                         /\ last < size => end - 1 = last
                         /\ last >= size => end = size
  <2>1. last + 1 \in Int /\ size \in Int
    OBVIOUS
  <2>2. Min({last + 1, size}) = IF last + 1 <= size THEN last + 1 ELSE size
    BY <2>1, MinTwo
  <2> QED BY <1>2, <1>5, <2>2
<1>7. PICK s \in Nat : s = LineAt(start)
  BY <1>1, LineAtOrdered
<1>8. PICK e \in Nat : e = LineAt(end - 1)
  <2>1. end - 1 \in Nat
    BY <1>6
  <2> QED BY <1>1, <2>1, LineAtOrdered
<1>9. ScanLines(start, end) = [sline |-> s, eline |-> e]
  BY <1>2, <1>6, <1>7, <1>8 DEF ScanLines
<1>10. get_sel_bounds = [start |-> buf_line_start(b, s), end |-> LineEndIncl(e)]
  <2>1. ScanLines(start, end).sline = s /\ ScanLines(start, end).eline = e
    BY <1>9
  <2>2. mode # "VISUAL"
    OBVIOUS
  <2> QED BY <1>2, <1>3, <1>4, <1>5, <1>6, <2>1, <2>2, Zenon DEF get_sel_bounds
<1>11. LineEndIncl(e) = LineEndIncl(LineAt(last))
  <2>1. CASE last < size
    BY <1>6, <1>8, <2>1
  <2>2. CASE last >= size
    <3>1. end - 1 = size - 1 /\ size > 0 /\ size - 1 \in Nat /\ size - 1 <= last
      BY <1>6, <2>2
    <3>2. PICK l \in Nat : l = LineAt(last) /\ LineAt(size - 1) <= l
      BY <1>1, <3>1, LineAtOrdered
    <3>3. LineAt(size - 1) <= e
      BY <1>8, <3>1
    <3>4. LineEndIncl(e) = size /\ LineEndIncl(l) = size
      BY <1>1, <1>2, <3>1, <3>2, <3>3, LastLineEnd
    <3> QED BY <3>2, <3>4
  <2> QED BY <1>2, <2>1, <2>2
<1> QED BY <1>7, <1>10, <1>11

\* Between two commands of a visual mode no prefix is left.
LEMMA VisualPrefix ==
  ASSUME EditorInv, Visual, prefix.awaiting = ""
  PROVE  prefix = NoPrefix
BY DEF EditorInv, PrefixOK, Visual

LEMMA VisualGKeyInv ==
  ASSUME EditorInv, NEW k, VisualGKey(k)
  PROVE  EditorInv'
<1>1. UNCHANGED <<mode, modified, yank, sel_anchor, cmd_buf, files>> /\ prefix' = NoPrefix
  BY DEF VisualGKey
<1>2. PrefixOK'
  BY <1>1, ClearedPrefix DEF EditorInv, PrefixOK
<1>3. PICK y \in Ready : y = buf_move_to(b, 0) /\ buf_text(y) = Text
  BY PrefixFacts, ReadyMoves DEF Text
<1>4. Move(y) \/ UNCHANGED <<b, view>>
  BY <1>3 DEF VisualGKey
<1>5. Effect
  BY <1>1, <1>3, <1>4, MoveEffect, StillEffect
<1> QED BY <1>1, <1>2, <1>5, KeyKeepsInv DEF EditorInv, FilesOK, YankOK

LEMMA VisualModeKeyInv ==
  ASSUME EditorInv, NEW k, VisualModeKey(k)
  PROVE  EditorInv'
<1>1. /\ UNCHANGED <<b, view, modified, yank, sel_anchor, cmd_buf, files>>
      /\ Visual /\ prefix.awaiting = ""
  BY DEF VisualModeKey
<1>2. prefix = NoPrefix /\ mode \in {"VISUAL", "VISUAL_LINE"}
  BY <1>1, VisualPrefix DEF Visual
<1>3. Effect
  BY <1>1, StillEffect
<1>4. PrefixOK'
  <2>1. CASE k = "g"
    <3>1. PICK none \in KeyPrefixes : none = NoPrefix /\ none.op = ""
      BY PrefixFacts
    <3>2. prefix' = [none EXCEPT !.awaiting = "g"] /\ mode' = mode
      BY <1>2, <2>1, <3>1 DEF VisualModeKey
    <3>3. prefix' \in KeyPrefixes /\ prefix'.awaiting = "g" /\ prefix'.op = ""
      BY <3>1, <3>2 DEF KeyPrefixes
    <3> QED BY <1>2, <3>2, <3>3 DEF PrefixOK, Modes
  <2>2. CASE k # "g"
    <3>1. prefix' = NoPrefix
      BY <1>2, <2>2 DEF VisualModeKey
    <3>2. mode' \in Modes
      <4>1. mode' = "VISUAL" \/ mode' = "VISUAL_LINE" \/ mode' = mode \/ mode' = "NORMAL"
        BY Zenon DEF VisualModeKey
      <4> QED BY <1>2, <4>1 DEF Modes
    <3> QED BY <3>1, <3>2, ClearedPrefix
  <2> QED BY <2>1, <2>2
<1> QED BY <1>1, <1>3, <1>4, KeyKeepsInv DEF EditorInv, FilesOK, YankOK

LEMMA VisualMotionKeyInv ==
  ASSUME EditorInv, NEW k, VisualMotionKey(k)
  PROVE  EditorInv'
<1>1. UNCHANGED <<mode, modified, prefix, yank, sel_anchor, cmd_buf, files>> /\ k \in MotionKeys
  BY DEF VisualMotionKey
<1>2. PrefixOK'
  BY <1>1 DEF EditorInv, PrefixOK
<1>3. PICK pos \in Nat : pos = Target(k, 1)
  <2>1. 1 \in Nat \ {0}
    OBVIOUS
  <2> QED BY <1>1, <2>1, PrefixFacts, TargetType
<1>4. PICK y \in Ready : y = buf_move_to(b, pos) /\ buf_text(y) = Text
  BY PrefixFacts, ReadyMoves DEF Text
<1>5. Move(y)
  BY <1>3, <1>4 DEF VisualMotionKey
<1>6. Effect
  BY <1>1, <1>4, <1>5, MoveEffect
<1> QED BY <1>1, <1>2, <1>6, KeyKeepsInv DEF EditorInv, FilesOK, YankOK

LEMMA VisualActionKeyInv ==
  ASSUME EditorInv, NEW k, VisualActionKey(k)
  PROVE  EditorInv'
<1>1. /\ UNCHANGED <<prefix, sel_anchor, cmd_buf, files>> /\ Visual /\ prefix.awaiting = ""
      /\ mode' = IF k = "c" THEN "INSERT" ELSE "NORMAL"
  BY DEF VisualActionKey
<1>2. PrefixOK'
  BY <1>1, VisualPrefix, ClearedPrefix DEF Modes
<1>3. PICK start \in Nat : start = get_sel_bounds.start /\ start <= get_sel_bounds.end
  BY SelectionType
<1>4. PICK end \in Nat : end = get_sel_bounds.end /\ start <= end
  BY <1>3, SelectionType
<1>5. PICK x \in Ready : x = Logged
  BY PrefixFacts, LoggedReady
<1>6. CASE k \in {"y", "d", "c"}
  <2>1. PICK y \in Ready : y = delete_range(start, end)
    BY <1>4, PrefixFacts, LoggedReady
  <2>2. /\ Yank(start, end, mode = "VISUAL_LINE")
        /\ IF k = "y" THEN Quiet(b) ELSE Edit(y)
    BY <1>3, <1>4, <1>6, <2>1 DEF VisualActionKey
  <2>3. YankOK'
    BY <1>4, <2>2, PrefixFacts, YankKeeps
  <2>4. CASE k = "y"
    <3>1. Effect
      BY <2>2, <2>4, StillEffect DEF Quiet
    <3> QED BY <1>1, <1>2, <2>3, <3>1, KeyKeepsInv DEF EditorInv, FilesOK
  <2>5. CASE k # "y"
    <3>1. Effect
      BY <2>2, <2>5, EditEffect
    <3> QED BY <1>1, <1>2, <2>3, <3>1, KeyKeepsInv DEF EditorInv, FilesOK
  <2> QED BY <2>4, <2>5
<1>7. CASE k \in {">", "<"}
  <2>1. PICK from \in Nat : from = ScanLines(start, end).sline
    BY PrefixFacts, ScanLinesType
  <2>2. PICK to \in Nat : to = ScanLines(start, end).eline
    BY PrefixFacts, ScanLinesType
  <2>3. PICK y \in Ready : y = ShiftLines(k, from, to)
    BY PrefixFacts, ShiftLinesReady
  <2>4. Edit(y) /\ UNCHANGED yank
    BY <1>3, <1>4, <1>7, <2>1, <2>2, <2>3 DEF VisualActionKey
  <2>5. Effect
    BY <2>4, EditEffect
  <2> QED BY <1>1, <1>2, <2>4, <2>5, KeyKeepsInv DEF EditorInv, FilesOK, YankOK
<1>8. CASE k = "~"
  <2>1. PICK n \in Nat : n = Max({0, end - start})
    BY MaxTwo
  <2>2. PICK y \in Ready : y = ForEach(ToggleAt, x, [i \in 1 .. n |-> start + i - 1])
    <3>1. start \in Int
      OBVIOUS
    <3> QED BY <3>1, ReadyRanges
  <2>3. Edit(y) /\ UNCHANGED yank
    BY <1>3, <1>4, <1>5, <1>8, <2>1, <2>2 DEF VisualActionKey
  <2>4. Effect
    BY <2>3, EditEffect
  <2> QED BY <1>1, <1>2, <2>3, <2>4, KeyKeepsInv DEF EditorInv, FilesOK, YankOK
<1> QED BY <1>6, <1>7, <1>8 DEF VisualActionKey

-----------------------------------------------------------------------------
(* The command line and the file.                                          *)

LEMMA LinesDeleted ==
  ASSUME EditorInv, mode = "VISUAL_LINE", VisualActionKey("d"),
         Min({sel_anchor, buf_cursor_pos(b)}) < buf_length(b)
  PROVE  LET from == buf_line_start(b, LineAt(Min({sel_anchor, buf_cursor_pos(b)})))
             to == LineEndIncl(LineAt(Max({sel_anchor, buf_cursor_pos(b)})))
         IN buf_text(b') = SubSeq(Text, 1, from) \o SubSeq(Text, to + 1, buf_length(b))
<1>1. b \in Ready /\ b \in Buffers /\ sel_anchor \in Nat
  BY PrefixFacts DEF EditorInv
<1>2. PICK pos \in Nat : pos = buf_cursor_pos(b)
  BY <1>1, TextType
<1>3. PICK start \in Nat : start = Min({sel_anchor, buf_cursor_pos(b)})
  BY <1>1, <1>2, MinTwo
<1>4. PICK last \in Nat : last = Max({sel_anchor, buf_cursor_pos(b)}) /\ start <= last
  <2>1. Min({sel_anchor, pos}) = IF sel_anchor <= pos THEN sel_anchor ELSE pos
    BY <1>1, MinTwo
  <2>2. Max({sel_anchor, pos}) = IF sel_anchor >= pos THEN sel_anchor ELSE pos
    BY <1>1, MaxTwo
  <2> QED BY <1>1, <1>2, <1>3, <2>1, <2>2
<1>5. PICK from \in Nat : from = buf_line_start(b, LineAt(start)) /\ from = get_sel_bounds.start
  <2>1. get_sel_bounds.start = buf_line_start(b, LineAt(start))
    BY <1>3, <1>4, LineSelection
  <2> QED BY <2>1, SelectionType
<1>6. PICK to \in Nat : to = LineEndIncl(LineAt(last)) /\ to = get_sel_bounds.end /\ from <= to
  <2>1. get_sel_bounds.end = LineEndIncl(LineAt(last))
    BY <1>3, <1>4, LineSelection
  <2> QED BY <1>5, <2>1, SelectionType
<1>7. to <= buf_length(b)
  <2>1. PICK l \in Nat : l = LineAt(last)
    BY <1>1, LineAtOrdered
  <2>2. PICK size \in Nat : size = buf_length(b)
    BY <1>1, TextType
  <2>3. PICK e \in Nat : e = LineEnd(b, l)
    <3>1. buf_line_start(b, l) \in 0 .. buf_length(b) /\ buf_length(b) \in Nat
      BY <1>1, <2>2, LineStart
    <3>2. LineEnd(b, l) \in buf_line_start(b, l) .. buf_length(b)
      BY <1>1, LineLength
    <3> QED BY <3>1, <3>2
  <2>4. to = Min({e + 1, size})
    BY <1>6, <2>1, <2>2, <2>3, Zenon DEF LineEndIncl
  <2> QED BY <2>2, <2>4, MinTwo
<1>8. b' = delete_range(from, to)
  <2>1. Edit(delete_range(from, to))
    BY <1>5, <1>6 DEF VisualActionKey
  <2> QED BY <2>1 DEF Edit, Move
<1>9. buf_text(b') = SubSeq(Text, 1, from) \o SubSeq(Text, to + 1, buf_length(b))
  BY <1>1, <1>6, <1>7, <1>8, DeleteRangeExact
<1> QED BY <1>3, <1>4, <1>5, <1>6, <1>9

LEMMA CommandTypeKeyInv ==
  ASSUME EditorInv, NEW c \in Commands, CommandTypeKey(c)
  PROVE  EditorInv'
<1>1. /\ UNCHANGED <<b, view, mode, modified, prefix, yank, sel_anchor, files>>
      /\ cmd_buf' \in Commands
  BY DEF CommandTypeKey
<1>2. PrefixOK'
  BY <1>1 DEF EditorInv, PrefixOK
<1>3. Effect
  BY <1>1, StillEffect
<1> QED BY <1>1, <1>2, <1>3, KeyKeepsInv DEF EditorInv, YankOK

LEMMA CommandLeaveKeyInv ==
  ASSUME EditorInv, CommandLeaveKey
  PROVE  EditorInv'
<1>1. /\ UNCHANGED <<b, view, modified, prefix, yank, sel_anchor, files>>
      /\ mode = "COMMAND" /\ mode' = "NORMAL" /\ cmd_buf' = NoCommand
  BY DEF CommandLeaveKey, Command
<1>2. prefix = NoPrefix
  BY <1>1 DEF EditorInv, PrefixOK
<1>3. PrefixOK'
  BY <1>1, <1>2, ClearedPrefix DEF Modes
<1>4. cmd_buf' \in Commands
  BY <1>1 DEF Commands, NoCommand
<1>5. Effect
  BY <1>1, StillEffect
<1> QED BY <1>1, <1>3, <1>4, <1>5, KeyKeepsInv DEF EditorInv, YankOK

\* What fits the buffer is loaded whole.
LEMMA LoadedType ==
  ASSUME NEW content \in Texts \cup {NoFile}
  PROVE  /\ Loaded(content) \in Texts /\ Len(Loaded(content)) <= BUFFER_SIZE
         /\ content \in Texts /\ Len(content) <= BUFFER_SIZE => Loaded(content) = content
<1>1. NoFile \notin Texts /\ BUFFER_SIZE \in Nat
  BY EditorAssumption, EditBufferAssumption DEF Texts
<1>2. CASE content = NoFile
  <2>1. Loaded(content) = << >>
    BY <1>2 DEF Loaded
  <2> QED BY <1>1, <1>2, <2>1 DEF Texts
<1>3. CASE content \in Texts
  <2>1. PICK n \in Nat : n = Len(content)
    BY <1>3, LenProperties DEF Texts
  <2>2. PICK m \in 0 .. n : m = Min({n, BUFFER_SIZE}) /\ m <= BUFFER_SIZE
                            /\ (n <= BUFFER_SIZE => m = n)
    BY <1>1, MinTwo
  <2>3. content # NoFile
    BY <1>1, <1>3
  <2>4. Loaded(content) = SubSeq(content, 1, m)
    BY <2>1, <2>2, <2>3, Zenon DEF Loaded
  <2>5. SubSeq(content, 1, m) \in Seq(Chars) /\ Len(SubSeq(content, 1, m)) = m
    <3>1. content \in Seq(Chars) /\ \A i \in 1 .. m : content[i] \in Chars
      BY <1>3, <2>1, <2>2, ElementOfSeq DEF Texts
    <3>2. m \in Int
      BY <2>2
    <3>3. /\ SubSeq(content, 1, m) \in Seq(Chars)
          /\ Len(SubSeq(content, 1, m)) = IF 1 <= m THEN m - 1 + 1 ELSE 0
      BY <3>1, <3>2, SubSeqProperties
    <3>4. PICK s : s = SubSeq(content, 1, m)
      OBVIOUS
    <3>5. s \in Seq(Chars) /\ Len(s) = IF 1 <= m THEN m - 1 + 1 ELSE 0
      BY <3>3, <3>4, Zenon
    <3>6. Len(s) = m
      BY <2>1, <2>2, <3>5
    <3> QED BY <3>4, <3>5, <3>6, Zenon
  <2>6. ASSUME Len(content) <= BUFFER_SIZE PROVE SubSeq(content, 1, m) = content
    <3>1. m = Len(content)
      BY <2>1, <2>2, <2>6
    <3> QED BY <1>3, <3>1, SubSeqFull DEF Texts
  <2> QED BY <2>2, <2>4, <2>5, <2>6 DEF Texts
<1> QED BY <1>2, <1>3

LEMMA SaveKeepsInv ==
  ASSUME EditorInv, NEW name \in Files \cup {Nobody}, NEW ok \in BOOLEAN,
         do_save(name, ok), UNCHANGED b
  PROVE  /\ filename' \in Files \cup {Nobody} /\ home' \in Files \cup {Nobody}
         /\ disk' \in [Files -> Texts \cup {NoFile, Damaged}]
         /\ UnmodifiedMeansSaved'
<1>1. /\ filename \in Files \cup {Nobody} /\ home \in Files \cup {Nobody}
      /\ disk \in [Files -> Texts \cup {NoFile, Damaged}]
  BY DEF EditorInv, FilesOK
<1>2. Text' = Text /\ Text \in Texts
  BY PrefixFacts, TextType DEF Text
<1>3. CASE ok
  <2>1. name # Nobody /\ name \in Files /\ Written(name)
    BY <1>3 DEF do_save
  <2>2. /\ disk' = [disk EXCEPT ![name] = Text]
        /\ home' = name /\ filename' = Cut[name] /\ modified' = FALSE
    BY <2>1 DEF Written
  <2>3. filename' \in Files
    BY <2>1, <2>2, EditorAssumption
  <2>4. Loaded(Text) = Text
    <3>1. Len(Text) <= BUFFER_SIZE
      BY PrefixFacts, TextType, Zenon DEF Ready, Fits, Text, buf_length
    <3> QED BY <1>2, <3>1, LoadedType
  <2>5. disk' \in [Files -> Texts \cup {NoFile, Damaged}] /\ disk'[name] = Text
    BY <1>1, <1>2, <2>1, <2>2
  <2>6. UnmodifiedMeansSaved'
    <3>1. home' # Nobody /\ Text' = Loaded(disk'[home'])
      BY <1>2, <2>1, <2>2, <2>4, <2>5
    <3> QED BY <3>1 DEF UnmodifiedMeansSaved, Loaded
  <2> QED BY <2>1, <2>2, <2>3, <2>5, <2>6
<1>4. CASE ~ok
  <2>1. NotWritten(name)
    BY <1>4 DEF do_save
  <2>2. UNCHANGED <<filename, home, modified>>
    BY <2>1 DEF NotWritten
  <2>3. \/ UNCHANGED disk
        \/ name \in Files /\ disk' = [disk EXCEPT ![name] = Damaged]
    BY <2>1 DEF NotWritten
  <2>4. disk' \in [Files -> Texts \cup {NoFile, Damaged}]
    BY <1>1, <2>3
  <2>5. UnmodifiedMeansSaved'
    <3>1. UnmodifiedMeansSaved
      BY DEF EditorInv
    <3>2. CASE UNCHANGED disk
      BY <1>2, <2>2, <3>1, <3>2 DEF UnmodifiedMeansSaved
    <3>3. CASE name \in Files /\ disk' = [disk EXCEPT ![name] = Damaged]
      <4>1. home # Nobody => disk'[home] = disk[home] \/ disk'[home] = Damaged
        BY <1>1, <3>3
      <4> QED BY <1>2, <2>2, <3>1, <4>1 DEF UnmodifiedMeansSaved
    <3> QED BY <2>3, <3>2, <3>3
  <2> QED BY <1>1, <2>2, <2>4, <2>5
<1> QED BY <1>3, <1>4

LEMMA CommandExecuteInv ==
  ASSUME EditorInv, NEW ok \in BOOLEAN, cmd_execute(ok)
  PROVE  EditorInv'
<1>1. /\ UNCHANGED <<b, view, prefix, yank, sel_anchor>>
      /\ mode = "COMMAND" /\ (mode' = mode \/ mode' = "NORMAL") /\ cmd_buf' = NoCommand
  BY DEF cmd_execute, Command
<1>2. prefix = NoPrefix
  BY <1>1 DEF EditorInv, PrefixOK
<1>3. PrefixOK'
  BY <1>1, <1>2, ClearedPrefix DEF Modes
<1>4. cmd_buf' \in Commands
  BY <1>1 DEF Commands, NoCommand
<1>5. b' \in Ready /\ Shown'
  BY <1>1 DEF EditorInv, Shown, CursorShown
<1>6. PICK name \in Files \cup {Nobody} :
        cmd_buf.verb \in {"w", "wq"} =>
          name = IF cmd_buf.arg = NoArg THEN filename ELSE cmd_buf.arg
  <2>1. filename \in Files \cup {Nobody} /\ cmd_buf \in Commands
    BY DEF EditorInv, FilesOK
  <2>2. cmd_buf.arg \in {NoArg, Nobody} \cup Files
    BY <2>1 DEF Commands
  <2> QED BY <2>1, <2>2
<1>7. /\ filename' \in Files \cup {Nobody} /\ home' \in Files \cup {Nobody}
      /\ disk' \in [Files -> Texts \cup {NoFile, Damaged}]
      /\ UnmodifiedMeansSaved'
  <2>1. CASE cmd_buf.verb \in {"w", "wq"}
    <3>1. do_save(name, ok)
      BY <1>6, <2>1 DEF cmd_execute
    <3> QED BY <1>1, <3>1, SaveKeepsInv
  <2>2. CASE cmd_buf.verb \notin {"w", "wq"}
    <3>1. UNCHANGED <<modified, filename, disk, home>>
      BY <2>2 DEF cmd_execute
    <3>2. Text' = Text
      BY <1>1 DEF Text
    <3> QED BY <3>1, <3>2 DEF EditorInv, FilesOK, UnmodifiedMeansSaved
  <2> QED BY <2>1, <2>2
<1> QED BY <1>1, <1>3, <1>4, <1>5, <1>7 DEF EditorInv, FilesOK, YankOK

-----------------------------------------------------------------------------
(* The start of the editor.                                                *)

LEMMA InitBuffer ==
  /\ buf_init \in Ready /\ buf_text(buf_init) = << >>
  /\ \A content \in Texts \cup {NoFile} :
       /\ buf_load(Loaded(content)) \in Ready
       /\ buf_text(buf_load(Loaded(content))) = Loaded(content)
<1>1. Boundary \in Entries
  BY EditBufferAssumption DEF Boundary, Entries
<1>2. << >> \in Texts /\ 0 \in Ring
  BY EditBufferAssumption DEF Texts, Ring
<1>3. PICK stack \in [Ring -> Entries] : stack = [i \in 0 .. UNDO_STACK_SIZE - 1 |-> Boundary]
  BY <1>1 DEF Ring
<1>4. buf_init = [left |-> << >>, right |-> << >>, undo_stack |-> stack, undo_top |-> 0,
                  undo_count |-> 0, redo_count |-> 0, undo_replaying |-> FALSE]
  BY <1>3 DEF buf_init
<1>5. /\ buf_init \in Buffers /\ buf_init.left = << >> /\ buf_init.right = << >>
      /\ buf_init.undo_count = 0 /\ buf_init.redo_count = 0 /\ ~buf_init.undo_replaying
  BY <1>2, <1>3, <1>4 DEF Buffers
<1>6. Len(<< >>) = 0
  OBVIOUS
<1>7. UNDO_STACK_SIZE \in Nat /\ BUFFER_SIZE \in Nat
  BY EditBufferAssumption
<1>8. buf_init \in Ready
  <2>1. Len(buf_init.left) + Len(buf_init.right) = 0 + 0
    BY <1>5, <1>6, Zenon
  <2>2. Fits(buf_init)
    BY <1>5, <1>7, <2>1 DEF Fits
  <2>3. Replayable(buf_init)
    BY <1>5, <2>2, SizedText, EmptyLog
  <2> QED BY <1>5, <2>2, <2>3 DEF Ready
<1>9. buf_text(buf_init) = << >>
  BY <1>5 DEF buf_text
<1>10. ASSUME NEW content \in Texts \cup {NoFile}
       PROVE  /\ buf_load(Loaded(content)) \in Ready
              /\ buf_text(buf_load(Loaded(content))) = Loaded(content)
  <2>1. PICK t \in Texts : t = Loaded(content) /\ Len(t) <= BUFFER_SIZE
    BY LoadedType
  <2>2. PICK n \in Nat : n = Len(t) /\ n <= BUFFER_SIZE
    BY <2>1, LenProperties DEF Texts
  <2>3. Min({Len(t), BUFFER_SIZE}) = Len(t)
    <3>1. Min({n, BUFFER_SIZE}) = n
      BY <1>7, <2>2, MinTwo
    <3> QED BY <2>2, <3>1
  <2>4. SubSeq(t, 1, Min({Len(t), BUFFER_SIZE})) = t
    BY <2>3, SubSeqFull DEF Texts
  <2>5. PICK empty \in Buffers : empty = buf_init
    BY <1>5
  <2>6. buf_load(t) = [empty EXCEPT !.left = t]
    BY <2>4, <2>5, Zenon DEF buf_load
  <2>7. PICK y \in Buffers : y = buf_load(t) /\ y.left = t /\ y.right = << >>
                             /\ y.undo_count = 0 /\ y.redo_count = 0 /\ ~y.undo_replaying
    BY <1>5, <2>5, <2>6 DEF Buffers
  <2>8. Fits(y)
    <3>1. Len(y.left) + Len(y.right) = n + 0
      BY <1>6, <2>2, <2>7, Zenon
    <3> QED BY <1>7, <2>2, <2>7, <3>1 DEF Fits
  <2>9. buf_text(y) = t
    <3>1. buf_text(y) = t \o << >>
      BY <2>7, Zenon DEF buf_text
    <3>2. t \o << >> = t
      BY ConcatEmptySeq DEF Texts
    <3> QED BY <3>1, <3>2, Zenon
  <2>10. Replayable(y)
    BY <2>7, <2>8, SizedText, EmptyLog
  <2> QED BY <2>1, <2>7, <2>8, <2>9, <2>10 DEF Ready
<1> QED BY <1>8, <1>9, <1>10

LEMMA EditorStarts ==
  Init => EditorInv
<1> SUFFICES ASSUME Init PROVE EditorInv
  OBVIOUS
<1>1. /\ mode = "NORMAL" /\ modified = FALSE /\ prefix = NoPrefix /\ cmd_buf = NoCommand
      /\ yank = [text |-> << >>, linewise |-> FALSE] /\ sel_anchor = 0
  BY DEF Init
<1>2. disk \in [Files -> Texts \cup {NoFile}]
  BY EditorAssumption DEF Init, Texts
<1>3. PICK fname \in Files \cup {Nobody} :
        /\ home = fname
        /\ filename = IF fname = Nobody THEN Nobody ELSE Cut[fname]
        /\ b = IF fname = Nobody THEN buf_init ELSE buf_load(Loaded(disk[fname]))
  BY DEF Init
<1>4. filename \in Files \cup {Nobody}
  BY <1>3, EditorAssumption
<1>5. b \in Ready /\ UnmodifiedMeansSaved
  <2>1. CASE fname = Nobody
    BY <1>3, <2>1, InitBuffer DEF UnmodifiedMeansSaved, Text
  <2>2. CASE fname # Nobody
    <3>1. PICK content \in Texts \cup {NoFile} : content = disk[fname]
      BY <1>2, <2>2
    <3>2. b = buf_load(Loaded(content))
      BY <1>3, <2>2, <3>1
    <3>3. b \in Ready /\ buf_text(b) = Loaded(content)
      BY <3>2, InitBuffer
    <3> QED BY <1>3, <2>2, <3>1, <3>3 DEF UnmodifiedMeansSaved, Text
  <2> QED BY <2>1, <2>2
<1>6. Shown
  <2>1. b \in Buffers
    BY <1>5 DEF Ready
  <2>2. PICK line \in Nat : line = buf_cursor_line(b)
    BY <2>1, CursorLine
  <2>3. PICK top \in Nat : /\ top = Max({0, line - ScreenRows + 1})
                           /\ top <= line /\ line < top + ScreenRows
    <3>1. ScreenRows \in Nat \ {0}
      BY EditorAssumption
    <3>2. Max({0, line - ScreenRows + 1}) =
            IF 0 >= line - ScreenRows + 1 THEN 0 ELSE line - ScreenRows + 1
      BY <3>1, MaxTwo
    <3> QED BY <3>1, <3>2
  <2>4. view = [top_line |-> top, cursor_line |-> line, cursor_col |-> buf_cursor_col(b)]
    BY <2>2, <2>3, Zenon DEF Init
  <2> QED BY <2>2, <2>3, <2>4 DEF Shown, CursorShown
<1>7. PrefixOK
  <2>1. NoPrefix \in KeyPrefixes /\ NoPrefix.op = ""
    <3>1. MAX_COUNT \in Nat
      BY EditorAssumption
    <3> QED BY <3>1 DEF NoPrefix, KeyPrefixes
  <2> QED BY <1>1, <2>1 DEF PrefixOK, Modes
<1>8. YankOK
  <2>1. yank.text = << >> /\ YANK_SIZE \in Nat \ {0}
    BY <1>1, EditorAssumption
  <2> QED BY <2>1 DEF YankOK, Texts
<1>9. FilesOK
  <2>1. cmd_buf \in Commands
    BY <1>1 DEF Commands, NoCommand
  <2>2. disk \in [Files -> Texts \cup {NoFile, Damaged}]
    BY <1>2
  <2> QED BY <1>3, <1>4, <2>1, <2>2 DEF FilesOK
<1> QED BY <1>1, <1>5, <1>6, <1>7, <1>8, <1>9 DEF EditorInv

LEMMA EditorSteps ==
  EditorInv /\ [Next]_vars => EditorInv'
<1> SUFFICES ASSUME EditorInv, [Next]_vars PROVE EditorInv'
  OBVIOUS
<1>1. CASE FreeKey
  <2>1. ASSUME NEW k \in {"u", "CTRL_R"}, UndoKey(k) PROVE EditorInv'
    BY <2>1, UndoKeyInv
  <2>2. CASE EscapeInsert
    BY <2>2, EscapeInsertInv
  <2> QED BY <1>1, <2>1, <2>2 DEF FreeKey
<1>2. CASE NormalKey
  <2>1. ASSUME NEW d \in Digits, CountKey(d) PROVE EditorInv'
    BY <2>1, CountKeyInv
  <2>2. ASSUME NEW c \in Typed \cup {"ESC"}, ReplaceKey(c) PROVE EditorInv'
    BY <2>2, ReplaceKeyInv
  <2>3. ASSUME NEW k \in {"g", "x"}, GKey(k) PROVE EditorInv'
    BY <2>3, GKeyInv
  <2>4. ASSUME NEW k \in {">", "<"}, ShiftKey(k) PROVE EditorInv'
    BY <2>4, ShiftKeyInv
  <2>5. ASSUME NEW k \in MotionKeys \cup {"d", "y", "c", "g", "u"}, handle_operator_motion(k)
        PROVE  EditorInv'
    BY <2>5, OperatorMotionInv
  <2>6. ASSUME NEW k \in MotionKeys, MotionKey(k) PROVE EditorInv'
    BY <2>6, MotionKeyInv
  <2>7. ASSUME NEW k \in {"g", "r", ">", "<", "d", "y", "c"}, FirstKey(k) PROVE EditorInv'
    BY <2>7, FirstKeyInv
  <2>8. ASSUME NEW k \in {"i", "a", "A", "I", "o", "O"}, InsertKey(k) PROVE EditorInv'
    BY <2>8, InsertKeyInv
  <2>9. ASSUME NEW k \in {"D", "C", "S"}, LineKey(k) PROVE EditorInv'
    BY <2>9, LineKeyInv
  <2>10. CASE YankLineKey
    BY <2>10, YankLineKeyInv
  <2>11. ASSUME NEW k \in {"x", "p", "J", "~"}, EditKey(k) PROVE EditorInv'
    BY <2>11, EditKeyInv DEF EditKeys
  <2>12. ASSUME NEW k \in {"v", "V"}, VisualKey(k) PROVE EditorInv'
    BY <2>12, VisualKeyInv
  <2>13. CASE ColonKey
    BY <2>13, ColonKeyInv
  <2> QED BY <1>2, <2>1, <2>2, <2>3, <2>4, <2>5, <2>6, <2>7, <2>8, <2>9, <2>10, <2>11,
             <2>12, <2>13, Zenon DEF NormalKey
<1>3. CASE InsertModeKey
  <2>1. ASSUME NEW k \in TypeKeys, TypeKey(k) PROVE EditorInv'
    BY <2>1, TypeKeyInv
  <2> QED BY <1>3, <2>1, Zenon DEF InsertModeKey, TypeKeys
<1>4. CASE VisualModeKeys
  <2>1. ASSUME NEW k \in {"g", "x"}, VisualGKey(k) PROVE EditorInv'
    BY <2>1, VisualGKeyInv
  <2>2. ASSUME NEW k \in {"ESC", "v", "V", "g"}, VisualModeKey(k) PROVE EditorInv'
    BY <2>2, VisualModeKeyInv
  <2>3. ASSUME NEW k \in MotionKeys, VisualMotionKey(k) PROVE EditorInv'
    BY <2>3, VisualMotionKeyInv
  <2>4. ASSUME NEW k \in {"y", "d", "c", ">", "<", "~"}, VisualActionKey(k) PROVE EditorInv'
    BY <2>4, VisualActionKeyInv
  <2> QED BY <1>4, <2>1, <2>2, <2>3, <2>4, Zenon DEF VisualModeKeys
<1>5. CASE CommandModeKey
  <2>1. ASSUME NEW c \in Commands, CommandTypeKey(c) PROVE EditorInv'
    BY <2>1, CommandTypeKeyInv
  <2>2. CASE CommandLeaveKey
    BY <2>2, CommandLeaveKeyInv
  <2>3. ASSUME NEW ok \in BOOLEAN, cmd_execute(ok) PROVE EditorInv'
    BY <2>3, CommandExecuteInv
  <2> QED BY <1>5, <2>1, <2>2, <2>3, Zenon DEF CommandModeKey
<1>6. CASE UNCHANGED vars
  BY <1>6 DEF vars, EditorInv, Shown, CursorShown, PrefixOK, YankOK, FilesOK,
              UnmodifiedMeansSaved, Text
<1> QED BY <1>1, <1>2, <1>3, <1>4, <1>5, <1>6, Zenon DEF Next

LEMMA EditorInvHolds == Spec => []EditorInv
<1>1. Init => EditorInv
  BY EditorStarts
<1>2. EditorInv /\ [Next]_vars => EditorInv'
  BY EditorSteps
<1> QED BY <1>1, <1>2, PTL DEF Spec

\* The type invariant: however the commands are combined, the text never grows
\* out of the buffer nor the undo entries out of their ring, a replay ends with
\* the key that started it, and no pending command leaks into another mode.
THEOREM EditorTypeCorrect == Spec => []EdTypeOK
<1>1. EditorInv => EdTypeOK
  <2> SUFFICES ASSUME EditorInv PROVE EdTypeOK
    OBVIOUS
  <2>1. b \in Buffers /\ Fits(b) /\ ~b.undo_replaying
    BY DEF EditorInv, Ready
  <2>2. buf_length(b) <= BUFFER_SIZE
    BY <2>1, Zenon DEF Fits, buf_length
  <2>3. b.undo_top \in 0 .. UNDO_STACK_SIZE - 1
    BY <2>1 DEF Buffers, Ring
  <2>4. prefix.repeat_count <= MAX_COUNT
    BY PrefixFacts, PrefixFields
  <2>5. PrefixOK
    BY DEF EditorInv
  <2>6. /\ mode # "NORMAL" => prefix.op = ""
        /\ mode \notin {"NORMAL", "VISUAL", "VISUAL_LINE"} => prefix = NoPrefix
        /\ mode \in {"NORMAL", "INSERT", "COMMAND", "VISUAL", "VISUAL_LINE"}
    BY <2>5, PrefixFacts DEF PrefixOK, Modes
  <2> QED BY <2>1, <2>2, <2>3, <2>4, <2>6 DEF EdTypeOK, EditorInv, FilesOK, YankOK, Fits
<1> QED BY <1>1, EditorInvHolds, PTL

\* Every entry of the undo ring fits the text it would be replayed on, for every
\* size of ring and buffer: buf_undo deletes the very character that was typed
\* and never meets a full buffer, also when the ring has overwritten its oldest
\* entries and some commands were undone or redone in part.
THEOREM RingReplays == Spec => []LogMatchesText
<1>1. EditorInv => LogMatchesText
  BY RingFits DEF EditorInv, Ready, LogMatchesText
<1> QED BY <1>1, EditorInvHolds, PTL

\* At every render the cursor is where the screen shows it: each handler that
\* moves the cursor calls sync_cursor, whatever the command did to the text.
THEOREM CursorIsShown == Spec => []CursorShown
<1>1. EditorInv => CursorShown
  BY DEF EditorInv, Shown
<1> QED BY <1>1, EditorInvHolds, PTL

\* :q without a ! loses nothing: each handler that changes the text sets the
\* flag, and only a write that succeeded clears it. A file that a failed save has
\* damaged is the exception: its flag stays as it was.
THEOREM QuittingLosesNothing == Spec => []UnmodifiedMeansSaved
<1>1. EditorInv => UnmodifiedMeansSaved
  BY DEF EditorInv
<1> QED BY <1>1, EditorInvHolds, PTL

\* Deleting a linewise selection leaves the lines before the anchor's and behind
\* the cursor's as they were, character by character, and takes the lines from
\* the one to the other whole: get_sel_bounds finds their ends by counting
\* newlines, and delete_range deletes forward from the first, one by one.
THEOREM SelectionSparesOtherLines == Spec => LinesOutsideSelectionStay
<1> DEFINE Step ==
      /\ mode = "VISUAL_LINE" /\ VisualActionKey("d")
      /\ Min({sel_anchor, buf_cursor_pos(b)}) < buf_length(b)
      => LET from == buf_line_start(b, LineAt(Min({sel_anchor, buf_cursor_pos(b)})))
             to == LineEndIncl(LineAt(Max({sel_anchor, buf_cursor_pos(b)})))
         IN buf_text(b') = SubSeq(Text, 1, from) \o SubSeq(Text, to + 1, buf_length(b))
<1>1. EditorInv /\ [Next]_vars => [Step]_vars
  <2>1. EditorInv => Step
    <3> SUFFICES ASSUME EditorInv, mode = "VISUAL_LINE", VisualActionKey("d"),
                        Min({sel_anchor, buf_cursor_pos(b)}) < buf_length(b)
                 PROVE  Step
      BY Zenon
    <3> QED BY LinesDeleted, Zenon
  <2> HIDE DEF Step
  <2> QED BY <2>1
<1>2. Spec => [][Step]_vars
  <2> HIDE DEF Step
  <2> QED BY <1>1, EditorInvHolds, PTL DEF Spec
<1> QED BY <1>2, PTL DEF LinesOutsideSelectionStay
=============================================================================

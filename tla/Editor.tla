------------------------------- MODULE Editor -------------------------------
(***************************************************************************)
(* The modal editor (src/apps/editor/editor.c and the cursor part of       *)
(* view.c): one action per kind of key in each mode. Keys with two names   *)
(* (h and the left arrow) are one key here; messages and drawing are left  *)
(* out, and the characters typed on the command line are reduced to the    *)
(* command they spell. Every action is one turn of the loop in             *)
(* editor_open, which renders before the next key.                         *)
(***************************************************************************)
EXTENDS EditBuffer

CONSTANTS
  YANK_SIZE,     \* sizeof(yank_buf)
  MAX_COUNT,     \* the cap on repeat_count
  ScreenRows,    \* rows of text on the screen
  Digits,        \* the digit keys pressed, a subset of 0 .. 9
  Typed,         \* printable characters typed
  Files,         \* file names, in the form the directory holds
  Cut,           \* a name after the copy into filename[13]
  Disk0,         \* the directory at the start: possible contents
  NoFile, Damaged,
  MaxKeys        \* bound: keys pressed, but for those of FreeKey

ASSUME EditorAssumption ==
  /\ YANK_SIZE \in Nat \ {0} /\ ScreenRows \in Nat \ {0}
  /\ MAX_COUNT \in Nat \ {0} /\ MaxKeys \in Nat
  /\ Digits \subseteq 0 .. 9
  /\ Typed \cup {"a", "A"} \subseteq Chars
  /\ Disk0 \subseteq [Files -> Seq(Chars) \cup {NoFile}] /\ NoFile \notin Seq(Chars)
  /\ Cut \in [Files -> Files] /\ \A n \in Files : Cut[Cut[n]] = Cut[n]

VARIABLES
  b,             \* the buffer
  view,          \* top_line, cursor_line, cursor_col
  mode,
  modified,
  prefix,        \* what earlier keys of a command left: count, operator, flags
  yank,          \* yank_buf and yank_linewise
  sel_anchor,
  cmd_buf,       \* the command typed behind the colon
  filename,
  running,
  disk,          \* the file system: external
  home,          \* history: the file last read or written
  presses        \* the number of keys so far, but for those of FreeKey

vars == <<b, view, mode, modified, prefix, yank, sel_anchor, cmd_buf, filename,
          running, disk, home, presses>>
files == <<filename, running, disk, home>>

NoPrefix ==
  [repeat_count |-> 0, count_active |-> FALSE, awaiting |-> "", op |-> "", op_count |-> 0]

Nobody == ""     \* filename[0] = '\0'
NoArg == "-"     \* w or wq without an argument
Commands ==
  [verb : {"", "q", "q!", "?"}, arg : {NoArg}]
    \cup [verb : {"w", "wq"}, arg : {NoArg, Nobody} \cup Files]
NoCommand == [verb |-> "", arg |-> NoArg]
Text == buf_text(b)

-----------------------------------------------------------------------------
\* Positions

is_word_char(c) == c \in {"a", "A"}
is_whitespace(c) == c \in {Space, Tab, Newline}
toggled(c) == CASE c = "a" -> "A" [] c = "A" -> "a" [] OTHER -> c

\* Character classes of the word motions, big: those of W, B and E.
Class(big, c) ==
  CASE is_whitespace(c) -> "white" [] big \/ is_word_char(c) -> "word" [] OTHER -> "punct"

\* The end of a run of one class that starts at or ends before pos.
RunEnd(t, big, class, pos) ==
  Min({q \in pos .. Len(t) : q = Len(t) \/ Class(big, t[q + 1]) # class})
RunStart(t, big, class, pos) ==
  Max({q \in 0 .. pos : q = 0 \/ Class(big, t[q]) # class})

word_forward_pos(t, big, pos) ==
  IF pos >= Len(t) THEN Len(t)
  ELSE LET class == Class(big, t[pos + 1])
       IN RunEnd(t, big, "white", RunEnd(t, big, class, pos))

word_backward_pos(t, big, pos) ==
  LET on == Max({q \in 0 .. pos - 1 : q = 0 \/ ~is_whitespace(t[q + 1])})
  IN IF pos = 0 \/ (on = 0 /\ is_whitespace(t[1])) THEN 0
     ELSE RunStart(t, big, Class(big, t[on + 1]), on)

word_end_pos(t, big, pos) ==
  LET on == RunEnd(t, big, "white", pos + 1)
  IN IF pos + 1 >= Len(t) \/ on >= Len(t) THEN Max({0, Len(t) - 1})
     ELSE RunEnd(t, big, Class(big, t[on + 1]), on) - 1

WordKeys == {"w", "W", "b", "B", "e", "E"}
WordMotion(t, k, n, pos) ==
  LET big == k \in {"W", "B", "E"}
      Step(p) == CASE k \in {"w", "W"} -> word_forward_pos(t, big, p)
                   [] k \in {"b", "B"} -> word_backward_pos(t, big, p)
                   [] OTHER            -> word_end_pos(t, big, p)
  IN Times(Step, n, pos)

LineCol(line, col) == buf_line_start(b, line) + Min({col, buf_line_length(b, line)})
LastLine == buf_line_count(b) - 1

move_vertical(delta) ==
  LineCol(Max({0, Min({buf_cursor_line(b) + delta, LastLine})}), buf_cursor_col(b))

FirstNonBlank ==
  LET line == buf_cursor_line(b)
  IN Min({p \in buf_line_start(b, line) .. LineEnd(b, line) :
            p = LineEnd(b, line) \/ Text[p + 1] \notin {Space, Tab}})

\* Where a motion key leads, repeated n times.
MotionKeys == WordKeys \cup {"h", "l", "j", "k", "0", "$", "^", "G", "PGUP", "PGDN"}
Target(k, n) ==
  LET pos == buf_cursor_pos(b)  line == buf_cursor_line(b)
  IN CASE k = "h" -> Max({0, pos - n})
       [] k = "l" -> Min({buf_length(b), pos + n})
       [] k = "j" -> move_vertical(n)
       [] k = "k" -> move_vertical(-n)
       [] k = "0" -> buf_line_start(b, line)
       [] k = "$" -> LineEnd(b, line) - (IF buf_line_length(b, line) > 0 THEN 1 ELSE 0)
       [] k = "^" -> FirstNonBlank
       [] k = "G" -> LineCol(IF n > 1 THEN Min({n - 1, LastLine}) ELSE LastLine, 0)
       [] k = "PGUP" -> move_vertical(-(ScreenRows \div 2) * n)
       [] k = "PGDN" -> move_vertical((ScreenRows \div 2) * n)
       [] OTHER -> WordMotion(Text, k, n, pos)

-----------------------------------------------------------------------------
\* What a command does to the buffer, the view and the yank buffer

\* Mutant: the view does not follow the cursor.
sync_cursor_without_scroll(buffer) ==
  [top_line |-> view.top_line,
   cursor_line |-> buf_cursor_line(buffer), cursor_col |-> buf_cursor_col(buffer)]

view_scroll_to_cursor(line) ==
  LET up == Min({view.top_line, line})
  IN IF line >= up + ScreenRows THEN line - ScreenRows + 1 ELSE up

sync_cursor(buffer) ==
  LET line == buf_cursor_line(buffer)
  IN [top_line |-> view_scroll_to_cursor(line),
      cursor_line |-> line, cursor_col |-> buf_cursor_col(buffer)]

Move(buffer) == b' = buffer /\ view' = sync_cursor(buffer)
Edit(buffer) == Move(buffer) /\ modified' = TRUE
Quiet(buffer) == b' = buffer /\ UNCHANGED <<view, modified>>

yank_range(start, end) ==
  [i \in 1 .. Min({end - start, YANK_SIZE - 1}) |-> buf_char_at(b, start + i - 1)]
Yank(start, end, linewise) ==
  yank' = [text |-> yank_range(start, end), linewise |-> linewise]

Logged == buf_undo_boundary(b)
delete_range(start, end) == DeleteMany(buf_move_to(Logged, start), end - start)

\* An operator on a range: d, y or c.
Apply(op, start, end, linewise) ==
  /\ Yank(start, end, linewise)
  /\ IF op = "y" THEN Quiet(Logged) ELSE Edit(delete_range(start, end))
  /\ mode' = IF op = "c" THEN "INSERT" ELSE "NORMAL"

apply_operator_charwise(op, from, to) ==
  Apply(op, Min({from, to}), Max({from, to}), FALSE)

\* The end of a line with its newline, if it has one.
LineEndIncl(line) == Min({LineEnd(b, line) + 1, buf_length(b)})

apply_operator_linewise(op, from_line, to_line) ==
  Apply(op, buf_line_start(b, from_line), LineEndIncl(to_line), TRUE)

Indentation == <<Space, Space, Space, Space>>
Indent(buffer, line) ==
  InsertAll(buf_move_to(buffer, buf_line_start(buffer, line)), Indentation)
Outdent(buffer, line) ==
  LET start == buf_line_start(buffer, line)
      llen == buf_line_length(buffer, line)
      spaces == Max({n \in 0 .. Min({Len(Indentation), llen}) :
                       \A i \in 0 .. n - 1 : buf_char_at(buffer, start + i) = Space})
  IN DeleteMany(buf_move_to(buffer, start), spaces)
ShiftLines(k, from, to) ==
  LET Shift(buffer, line) == IF k = ">" THEN Indent(buffer, line) ELSE Outdent(buffer, line)
  IN ForEach(Shift, Logged, [i \in 1 .. Max({0, to - from + 1}) |-> from + i - 1])

PasteOnce(buffer) ==
  IF yank.linewise
  THEN InsertAll(buf_move_to(buffer, LineEnd(buffer, buf_cursor_line(buffer))),
                 <<Newline>> \o yank.text)
  ELSE InsertAll(buf_move_right(buffer), yank.text)

CanJoin(buffer) == buf_cursor_line(buffer) + 1 < buf_line_count(buffer)
JoinOnce(buffer) ==
  LET cut == buf_delete_fwd(buf_move_to(buffer, LineEnd(buffer, buf_cursor_line(buffer))))
      blanks == Max({n \in 0 .. Len(cut.right) :
                       \A i \in 1 .. n : cut.right[i] \in {Space, Tab}})
  IN IF CanJoin(buffer) THEN buf_insert(DeleteMany(cut, blanks), Space) ELSE buffer

ToggleAt(buffer, pos) ==
  LET c == buf_char_at(buffer, pos)
  IN IF toggled(c) = c THEN buffer
     ELSE buf_insert(buf_delete_fwd(buf_move_to(buffer, pos)), toggled(c))
ToggleOnce(buffer) ==
  LET pos == buf_cursor_pos(buffer)
  IN IF pos >= buf_length(buffer) THEN buffer ELSE buf_move_to(ToggleAt(buffer, pos), pos + 1)

-----------------------------------------------------------------------------
\* Normal mode

Normal == running /\ mode = "NORMAL"
Count == Max({1, prefix.repeat_count})

\* Digits come first, whatever the editor waits for.
CountKey(d) ==
  /\ Normal /\ (d > 0 \/ prefix.count_active)
  /\ prefix' = [prefix EXCEPT !.repeat_count = Min({@ * 10 + d, MAX_COUNT}), !.count_active = TRUE]
  /\ UNCHANGED <<b, view, mode, modified, yank, sel_anchor, cmd_buf, files>>

ReplaceKey(c) ==
  /\ Normal /\ prefix.awaiting = "r"
  /\ prefix' = NoPrefix
  /\ LET pos == buf_cursor_pos(b)
         Put(buffer, p) == buf_insert(buf_delete_fwd(buf_move_to(buffer, p)), c)
         replaced == ForEach(Put, Logged,
                       [i \in 1 .. Min({Count, buf_length(b) - pos}) |-> pos + i - 1])
     IN IF c \in Typed THEN Edit(buf_move_to(replaced, pos + Count - 1)) ELSE Quiet(b)
  /\ UNCHANGED <<mode, yank, sel_anchor, cmd_buf, files>>

\* gg, or g and another key, which is dropped; an operator stays pending then.
GKey(k) ==
  /\ Normal /\ prefix.awaiting = "g"
  /\ IF k # "g" THEN prefix' = [NoPrefix EXCEPT !.op = prefix.op, !.op_count = prefix.op_count]
                ELSE prefix' = NoPrefix
  /\ CASE k = "g" /\ prefix.op # "" ->
            apply_operator_linewise(prefix.op, 0, buf_cursor_line(b))
       [] k = "g" /\ prefix.op = "" ->
            /\ Move(buf_move_to(b, LineCol(Min({Max({prefix.repeat_count, 1}) - 1, LastLine}), 0)))
            /\ UNCHANGED <<modified, mode, yank>>
       [] OTHER -> UNCHANGED <<b, view, modified, mode, yank>>
  /\ UNCHANGED <<sel_anchor, cmd_buf, files>>

\* >> and <<
ShiftKey(k) ==
  /\ Normal /\ prefix.awaiting \in {">", "<"}
  /\ prefix' = NoPrefix
  /\ LET line == buf_cursor_line(b)
     IN IF k = prefix.awaiting THEN Edit(ShiftLines(k, line, Min({line + Count - 1, LastLine})))
                               ELSE Quiet(b)
  /\ UNCHANGED <<mode, yank, sel_anchor, cmd_buf, files>>

\* A key while an operator is pending; every key but a motion cancels it.
handle_operator_motion(k) ==
  /\ Normal /\ prefix.awaiting = "" /\ prefix.op # "" /\ (k = "0" => ~prefix.count_active)
  /\ LET op == prefix.op
         pos == buf_cursor_pos(b)  line == buf_cursor_line(b)
         n == prefix.op_count * Count
     IN CASE k = op -> apply_operator_linewise(op, line, Min({line + n - 1, LastLine}))
          [] k \in {"e", "E"} ->
               apply_operator_charwise(op, pos, WordMotion(Text, k, n, pos) + 1)
          [] k \in {"w", "W", "b", "B", "h", "l", "0"} -> apply_operator_charwise(op, pos, Target(k, n))
          [] k = "$" -> apply_operator_charwise(op, pos, LineEnd(b, line))
          [] k = "j" -> apply_operator_linewise(op, line, Min({line + n, LastLine}))
          [] k = "k" -> apply_operator_linewise(op, Max({0, line - n}), line)
          [] k = "G" -> apply_operator_linewise(op, line, LastLine)
          [] OTHER -> UNCHANGED <<b, view, modified, mode, yank>>
  /\ prefix' = IF k = "g"
               THEN [NoPrefix EXCEPT !.awaiting = "g", !.op = prefix.op, !.op_count = prefix.op_count]
               ELSE NoPrefix
  /\ UNCHANGED <<sel_anchor, cmd_buf, files>>

Plain == Normal /\ prefix.awaiting = "" /\ prefix.op = ""

MotionKey(k) ==
  /\ Plain /\ k \in MotionKeys /\ (k = "0" => ~prefix.count_active)
  /\ Move(buf_move_to(b, Target(k, Count)))
  /\ prefix' = NoPrefix
  /\ UNCHANGED <<mode, modified, yank, sel_anchor, cmd_buf, files>>

\* The first key of a two-key command; r, > and < store their count again.
FirstKey(k) ==
  /\ Plain
  /\ prefix' = CASE k = "g" -> [NoPrefix EXCEPT !.awaiting = k]
                 [] k \in {"d", "y", "c"} -> [NoPrefix EXCEPT !.op = k, !.op_count = Count]
                 [] OTHER -> [NoPrefix EXCEPT !.awaiting = k, !.repeat_count = Count, !.count_active = TRUE]
  /\ UNCHANGED <<b, view, mode, modified, yank, sel_anchor, cmd_buf, files>>

InsertKey(k) ==
  /\ Plain
  /\ mode' = "INSERT" /\ prefix' = NoPrefix
  /\ LET line == buf_cursor_line(b)
     IN CASE k = "i" -> Quiet(Logged)
          [] k = "a" -> Move(buf_move_right(Logged)) /\ UNCHANGED modified
          [] k = "A" -> Move(buf_move_to(Logged, LineEnd(b, line))) /\ UNCHANGED modified
          [] k = "I" -> Move(buf_move_to(Logged, FirstNonBlank)) /\ UNCHANGED modified
          [] k = "o" -> Edit(buf_insert(buf_move_to(Logged, LineEnd(b, line)), Newline))
          [] k = "O" -> Edit(buf_move_left(
                             buf_insert(buf_move_to(Logged, buf_line_start(b, line)), Newline)))
  /\ UNCHANGED <<yank, sel_anchor, cmd_buf, files>>

\* D, C and S: the rest of the line, or all of it.
LineKey(k) ==
  /\ Plain
  /\ prefix' = NoPrefix
  /\ mode' = IF k = "D" THEN mode ELSE "INSERT"
  /\ LET line == buf_cursor_line(b)
         start == IF k = "S" THEN buf_line_start(b, line) ELSE buf_cursor_pos(b)
     IN IF start < LineEnd(b, line)
        THEN Yank(start, LineEnd(b, line), FALSE) /\ Edit(delete_range(start, LineEnd(b, line)))
        ELSE Quiet(Logged) /\ UNCHANGED yank
  /\ UNCHANGED <<sel_anchor, cmd_buf, files>>

YankLineKey ==
  /\ Plain
  /\ prefix' = NoPrefix
  /\ Yank(buf_line_start(b, buf_cursor_line(b)), LineEnd(b, buf_cursor_line(b)), TRUE)
  /\ UNCHANGED <<b, view, mode, modified, sel_anchor, cmd_buf, files>>

EditKeys == {"x", "p", "J", "~"}
EditKey(k) ==
  /\ Plain
  /\ prefix' = NoPrefix
  /\ CASE k = "x" -> Edit(DeleteMany(Logged, Count))
       [] k = "p" -> IF yank.text = << >> THEN Quiet(b) ELSE Edit(Times(PasteOnce, Count, Logged))
       [] k = "J" -> /\ Move(Times(JoinOnce, Count, Logged))
                     /\ modified' = (modified \/ CanJoin(b))
       [] k = "~" -> /\ Move(Times(ToggleOnce, Count, Logged))
                     /\ modified' = (modified \/ buf_text(b') # Text)
  /\ UNCHANGED <<mode, yank, sel_anchor, cmd_buf, files>>

UndoKey(k) ==
  /\ Plain
  /\ prefix' = NoPrefix
  /\ Edit(IF k = "u" THEN Times(buf_undo, Count, Logged) ELSE Times(buf_redo, Count, b))
  /\ UNCHANGED <<mode, yank, sel_anchor, cmd_buf, files>>

VisualKey(k) ==
  /\ Plain
  /\ prefix' = NoPrefix
  /\ sel_anchor' = buf_cursor_pos(b)
  /\ mode' = IF k = "v" THEN "VISUAL" ELSE "VISUAL_LINE"
  /\ UNCHANGED <<b, view, modified, yank, cmd_buf, files>>

ColonKey ==
  /\ Plain
  /\ prefix' = NoPrefix
  /\ mode' = "COMMAND" /\ cmd_buf' = NoCommand
  /\ UNCHANGED <<b, view, modified, yank, sel_anchor, files>>

-----------------------------------------------------------------------------
\* Insert mode

Insert == running /\ mode = "INSERT"

EscapeInsert ==
  /\ Insert
  /\ mode' = "NORMAL"
  /\ Move(IF buf_cursor_col(b) > 0 THEN buf_move_left(Logged) ELSE Logged)
  /\ UNCHANGED <<modified, prefix, yank, sel_anchor, cmd_buf, files>>

TypeKey(k) ==
  /\ Insert
  /\ CASE k = "BACKSPACE" -> buf_cursor_pos(b) > 0 /\ Edit(buf_delete_back(b))
       [] k = "DELETE" -> Edit(buf_delete_fwd(b))
       [] k = "TAB" -> Edit(InsertAll(b, Indentation))
       [] k \in {"LEFT", "RIGHT", "UP", "DOWN"} ->
            /\ Move(CASE k = "LEFT" -> buf_move_left(b)
                      [] k = "RIGHT" -> buf_move_right(b)
                      [] k = "UP" -> buf_move_to(b, move_vertical(-1))
                      [] k = "DOWN" -> buf_move_to(b, move_vertical(1)))
            /\ UNCHANGED modified
       [] OTHER -> Edit(buf_insert(b, k))
  /\ UNCHANGED <<mode, prefix, yank, sel_anchor, cmd_buf, files>>

-----------------------------------------------------------------------------
\* Visual modes

Visual == running /\ mode \in {"VISUAL", "VISUAL_LINE"}

\* The lines of the first and last selected character, found by one scan over
\* the text: a start behind the text leaves line 0.
LineAt(pos) == Cardinality({i \in NewlinesIn(Text) : i <= pos})
ScanLines(start, end) ==
  [sline |-> IF start < buf_length(b) THEN LineAt(start) ELSE 0,
   eline |-> IF end > 0 THEN LineAt(end - 1) ELSE 0]

\* Mutant: the newline of the last line is not part of a linewise selection.
get_sel_bounds_short ==
  LET pos == buf_cursor_pos(b)
      start == Min({pos, sel_anchor})
      end == Min({Max({pos, sel_anchor}) + 1, buf_length(b)})
      lines == ScanLines(start, end)
  IN IF mode = "VISUAL" THEN [start |-> start, end |-> end]
     ELSE [start |-> buf_line_start(b, lines.sline), end |-> LineEnd(b, lines.eline)]

get_sel_bounds ==
  LET pos == buf_cursor_pos(b)
      start == Min({pos, sel_anchor})
      end == Min({Max({pos, sel_anchor}) + 1, buf_length(b)})
      lines == ScanLines(start, end)
  IN IF mode = "VISUAL" THEN [start |-> start, end |-> end]
     ELSE [start |-> buf_line_start(b, lines.sline), end |-> LineEndIncl(lines.eline)]

VisualGKey(k) ==
  /\ Visual /\ prefix.awaiting = "g"
  /\ prefix' = NoPrefix
  /\ IF k = "g" THEN Move(buf_move_to(b, 0)) ELSE UNCHANGED <<b, view>>
  /\ UNCHANGED <<mode, modified, yank, sel_anchor, cmd_buf, files>>

VisualModeKey(k) ==
  /\ Visual /\ prefix.awaiting = ""
  /\ mode' = CASE k = "v" /\ mode # "VISUAL" -> "VISUAL"
               [] k = "V" /\ mode # "VISUAL_LINE" -> "VISUAL_LINE"
               [] k = "g" -> mode
               [] OTHER -> "NORMAL"
  /\ prefix' = IF k = "g" THEN [prefix EXCEPT !.awaiting = "g"] ELSE prefix
  /\ UNCHANGED <<b, view, modified, yank, sel_anchor, cmd_buf, files>>

VisualMotionKey(k) ==
  /\ Visual /\ prefix.awaiting = "" /\ k \in MotionKeys \ {"^"}
  /\ Move(buf_move_to(b, Target(k, 1)))
  /\ UNCHANGED <<mode, modified, prefix, yank, sel_anchor, cmd_buf, files>>

VisualActionKey(k) ==
  /\ Visual /\ prefix.awaiting = ""
  /\ LET sel == get_sel_bounds
         lines == ScanLines(sel.start, sel.end)
         Range1 == [i \in 1 .. Max({0, sel.end - sel.start}) |-> sel.start + i - 1]
     IN \/ /\ k \in {"y", "d", "c"}
           /\ Yank(sel.start, sel.end, mode = "VISUAL_LINE")
           /\ IF k = "y" THEN Quiet(b) ELSE Edit(delete_range(sel.start, sel.end))
        \/ /\ k \in {">", "<"}
           /\ Edit(ShiftLines(k, lines.sline, lines.eline))
           /\ UNCHANGED yank
        \/ /\ k = "~"
           /\ Edit(ForEach(ToggleAt, Logged, Range1))
           /\ UNCHANGED yank
  /\ mode' = IF k = "c" THEN "INSERT" ELSE "NORMAL"
  /\ UNCHANGED <<prefix, sel_anchor, cmd_buf, files>>

-----------------------------------------------------------------------------
\* Command line

Command == running /\ mode = "COMMAND"

\* Printable keys and backspaces lead to another command.
CommandTypeKey(c) ==
  /\ Command /\ c # cmd_buf
  /\ cmd_buf' = c
  /\ UNCHANGED <<b, view, mode, modified, prefix, yank, sel_anchor, files>>

CommandLeaveKey ==
  /\ Command
  /\ mode' = "NORMAL" /\ cmd_buf' = NoCommand
  /\ UNCHANGED <<b, view, modified, prefix, yank, sel_anchor, files>>

\* diskfs_write_file, by its result: external. A write that fails may have
\* given the old file's clusters away.
Written(name) ==
  /\ disk' = [disk EXCEPT ![name] = Text]
  /\ home' = name /\ filename' = Cut[name] /\ modified' = FALSE
NotWritten(name) ==
  /\ \/ UNCHANGED disk
     \/ name \in Files /\ disk[name] # NoFile /\ disk' = [disk EXCEPT ![name] = Damaged]
  /\ UNCHANGED <<filename, home, modified>>

\* Mutant: the flag is cleared before the result is known.
do_save_always_clears(name, ok) ==
  /\ ok => name # Nobody
  /\ IF ok THEN Written(name)
     ELSE UNCHANGED <<disk, filename, home>> /\ modified' = FALSE

\* do_save: name is empty without a file name; ok is its result.
do_save(name, ok) ==
  /\ ok => name # Nobody
  /\ IF ok THEN Written(name) ELSE NotWritten(name)

cmd_execute(ok) ==
  /\ Command
  /\ cmd_buf' = NoCommand
  /\ LET verb == cmd_buf.verb
         name == IF cmd_buf.arg = NoArg THEN filename ELSE cmd_buf.arg
         quits == (verb = "q" /\ ~modified) \/ verb = "q!" \/ (verb = "wq" /\ ok)
     IN /\ running' = ~quits
        /\ mode' = IF quits THEN mode ELSE "NORMAL"
        /\ IF verb \in {"w", "wq"} THEN do_save(name, ok)
           ELSE ~ok /\ UNCHANGED <<modified, filename, disk, home>>
  /\ UNCHANGED <<b, view, prefix, yank, sel_anchor>>

-----------------------------------------------------------------------------
\* editor_open

Loaded(content) ==
  IF content = NoFile THEN << >> ELSE SubSeq(content, 1, Min({Len(content), BUFFER_SIZE}))

Init ==
  /\ disk \in Disk0
  /\ \E fname \in Files \cup {Nobody} :
       /\ home = fname
       /\ filename = IF fname = Nobody THEN Nobody ELSE Cut[fname]
       /\ b = IF fname = Nobody THEN buf_init ELSE buf_load(Loaded(disk[fname]))
  /\ LET line == buf_cursor_line(b)
     IN view = [top_line |-> Max({0, line - ScreenRows + 1}),
                cursor_line |-> line, cursor_col |-> buf_cursor_col(b)]
  /\ mode = "NORMAL" /\ modified = FALSE /\ running = TRUE
  /\ prefix = NoPrefix /\ cmd_buf = NoCommand
  /\ yank = [text |-> << >>, linewise |-> FALSE]
  /\ sel_anchor = 0
  /\ presses = 0

NormalKey ==
  \/ \E d \in Digits : CountKey(d)
  \/ \E c \in Typed \cup {"ESC"} : ReplaceKey(c)
  \/ \E k \in {"g", "x"} : GKey(k)
  \/ \E k \in {">", "<"} : ShiftKey(k)
  \/ \E k \in MotionKeys \cup {"d", "y", "c", "g", "u"} : handle_operator_motion(k)
  \/ \E k \in MotionKeys : MotionKey(k)
  \/ \E k \in {"g", "r", ">", "<", "d", "y", "c"} : FirstKey(k)
  \/ \E k \in {"i", "a", "A", "I", "o", "O"} : InsertKey(k)
  \/ \E k \in {"D", "C", "S"} : LineKey(k)
  \/ YankLineKey
  \/ \E k \in {"x", "p", "J", "~"} : EditKey(k)
  \/ \E k \in {"v", "V"} : VisualKey(k)
  \/ ColonKey

InsertModeKey ==
  \E k \in Typed \cup {Newline, "TAB", "BACKSPACE", "DELETE", "LEFT", "RIGHT", "UP", "DOWN"} :
    TypeKey(k)

VisualModeKeys ==
  \/ \E k \in {"g", "x"} : VisualGKey(k)
  \/ \E k \in {"ESC", "v", "V", "g"} : VisualModeKey(k)
  \/ \E k \in MotionKeys : VisualMotionKey(k)
  \/ \E k \in {"y", "d", "c", ">", "<", "~"} : VisualActionKey(k)

CommandModeKey ==
  \/ \E c \in Commands : CommandTypeKey(c)
  \/ CommandLeaveKey
  \/ \E ok \in BOOLEAN : cmd_execute(ok)

\* Undo, redo and Escape lead to finitely many states and are not counted.
FreeKey ==
  \/ \E k \in {"u", "CTRL_R"} : UndoKey(k)
  \/ EscapeInsert

Next ==
  \/ FreeKey /\ UNCHANGED presses
  \/ /\ presses < MaxKeys /\ presses' = presses + 1
     /\ NormalKey \/ InsertModeKey \/ VisualModeKeys \/ CommandModeKey

Spec == Init /\ [][Next]_vars

-----------------------------------------------------------------------------
\* Properties

\* Type invariant: the text fits the buffer, the two counts fit the ring, the
\* flags of replaying and of the key prefix are in order between two keys.
EdTypeOK ==
  /\ buf_length(b) <= BUFFER_SIZE
  /\ b.undo_top \in 0 .. UNDO_STACK_SIZE - 1
  /\ b.undo_count + b.redo_count <= UNDO_STACK_SIZE
  /\ ~b.undo_replaying
  /\ mode \in {"NORMAL", "INSERT", "COMMAND", "VISUAL", "VISUAL_LINE"}
  /\ prefix.repeat_count <= MAX_COUNT
  /\ (mode # "NORMAL" => prefix.op = "")
  /\ (mode \notin {"NORMAL", "VISUAL", "VISUAL_LINE"} => prefix = NoPrefix)
  /\ Len(yank.text) < YANK_SIZE
  /\ filename \in Files \cup {Nobody} /\ home \in Files \cup {Nobody}

\* Every entry of the undo ring still fits the text it would be replayed on,
\* backwards and forwards, however the ring has wrapped and whatever was undone
\* or redone in part: undo never deletes another character than the one that
\* was typed, and never runs into a full buffer (buf_undo and buf_redo).
LogMatchesText == WalkBack(b).fits /\ WalkForth(b).fits

\* A text that counts as unmodified is what its file holds, as far as it fits
\* the buffer, so that :q loses nothing. The one exception is a file that a
\* failed save has damaged: do_save then leaves the flag as it was.
UnmodifiedMeansSaved ==
  ~modified =>
    \/ home = Nobody /\ Text = << >>
    \/ home # Nobody /\ (disk[home] = Damaged \/ Text = Loaded(disk[home]))

\* At every render the cursor the view shows is the cursor of the buffer, and
\* its line is on the screen (every handler that moves calls sync_cursor).
CursorShown ==
  /\ view.cursor_line = buf_cursor_line(b)
  /\ view.cursor_col = buf_cursor_col(b)
  /\ view.top_line <= view.cursor_line
  /\ view.cursor_line < view.top_line + ScreenRows

\* Deleting a linewise selection removes exactly the lines from the anchor's to
\* the cursor's, unless the selection starts behind the last character: there
\* get_sel_bounds takes line 0 for the first line.
LinesOutsideSelectionStay ==
  [][ /\ mode = "VISUAL_LINE" /\ VisualActionKey("d")
      /\ Min({sel_anchor, buf_cursor_pos(b)}) < buf_length(b)
      => LET from == buf_line_start(b, LineAt(Min({sel_anchor, buf_cursor_pos(b)})))
             to == LineEndIncl(LineAt(Max({sel_anchor, buf_cursor_pos(b)})))
         IN buf_text(b') = SubSeq(Text, 1, from) \o SubSeq(Text, to + 1, buf_length(b))
    ]_vars

History ==
  INSTANCE TextHistory WITH
    h <- Once(buf_history, b),
    started <- mode = "INSERT" /\ b.undo_count > 0 /\ Newest(b).type # "BOUNDARY",
    full <- b.undo_count = UNDO_STACK_SIZE

\* Undo and redo move along the line of texts the user's commands left: each
\* command is one step, an insertion too, and only a full ring forgets.
RefinesHistory == History!Spec
=============================================================================

------------------------------- MODULE Basic -------------------------------
(***************************************************************************)
(* The BASIC interpreter: the statements (src/apps/basic/exec.c), RUN and  *)
(* the commands of the prompt (basic.c), over the store and the evaluator. *)
(* One action per statement, per turn of the loops in exec_line_at and     *)
(* cmd_run, and per line typed. A line is named by its number: the program *)
(* does not change while one runs. What is printed is left out.            *)
(***************************************************************************)
EXTENDS BasicExpr

CONSTANTS
  GOSUB_DEPTH, FOR_DEPTH,   \* the sizes of the two stacks
  SAVE_MAX,                 \* sizeof(save_buf) - 170
  LOAD_MAX,                 \* sizeof(load_buf)
  LINE_MAX,                 \* the characters LOAD reads into line_buf
  Disk0,                    \* the files at the start: name to numbered texts
  SaveFiles,                \* the names that are saved to
  Source,                   \* lines typed with a number: num, text
  Immediate,                \* lines typed without one
  Expressions,              \* expressions evaluated first: text, value
  Answers,                  \* what is typed at INPUT
  Draws,                    \* what RND and PEEK may find
  CtrlC, OtherKey,
  KEYS_MAX,                 \* bound: keys waiting
  MaxTyped                  \* bound: lines typed

\* A line as it is typed, and as it stands in a file: its number, how many
\* characters the number takes with the spaces behind it, and what follows.
Lines == [num : Nat, head : Nat, text : Seq(Spellings)]

ASSUME BasicAssumption ==
  /\ {GOSUB_DEPTH, FOR_DEPTH, SAVE_MAX, LOAD_MAX, LINE_MAX, KEYS_MAX, MaxTyped} \subseteq Nat
  /\ 0 < LINE_MAX /\ LINE_MAX <= DETOK_MAX
  /\ SAVE_MAX + DETOK_MAX + 7 <= LOAD_MAX        \* what SAVE writes fits into load_buf
  /\ Draws \subseteq Nat /\ CtrlC # OtherKey
  /\ Answers \subseteq Seq(Words)
  /\ \A a \in Answers : Len(a) < STR_MAX_LEN        \* ibuf is shorter than a string
  /\ Source \subseteq Lines /\ \A f \in DOMAIN Disk0 : Disk0[f] \in Seq(Lines)
  /\ Immediate \subseteq Seq(Spellings) /\ \A e \in Expressions : e.text \in Seq(Spellings)
  /\ Expressions # {} => "A" \in Letters            \* A is what they are assigned to
  /\ \A text \in Immediate \cup {s.text : s \in Source} : Spelled(text)

VARIABLES
  prog,      \* prog_buf
  st,        \* basic_state
  err,       \* error_msg and error_line_num; has_error is msg # "none"
  spool,     \* spool_pos
  pc,        \* where the interpreter is
  line,      \* the line exec_line_at works on, NoLine for the one typed
  tokens,    \* its tokens
  back,      \* what a run returns to: the prompt, or the shell
  keys,      \* keys waiting in the keyboard driver
  disk,      \* the files written since the start, external; the others are in Disk0
  kept,      \* history: the program a file was saved from, or nothing
  drifted,   \* history: RETURN has left the line that is executed
  typed

world == <<prog, line, tokens, back, disk, kept, typed>>
data == <<num_vars, str_vars>>
vars == <<world, data, st, err, spool, pc, keys, drifted>>

LineOf(p, num) == prog_find_line(p, num).toks
NoError == [msg |-> "none", line |-> NoLine]

AtRest ==
  [cur |-> NoLine, pos |-> 0, running |-> FALSE, jumped |-> FALSE,
   gosub |-> << >>, for |-> << >>]

\* Mutant: the stacks survive.
exec_init_keeps_stacks(old) ==
  [old EXCEPT !.cur = NoLine, !.pos = 0, !.running = FALSE, !.jumped = FALSE]

\* exec_init: what the state was does not matter.
exec_init(old) == AtRest

-----------------------------------------------------------------------------
\* One statement

Executing == pc \in {"line", "stmt", "input"}
At == skip_spaces(tokens, st.pos)
Tok == peek(tokens, At)

\* The start of exec_statement: one key is taken, and it is not Ctrl-C.
Begin(toks) ==
  /\ pc = "stmt" /\ Tok \in toks
  /\ keys # << >> => Head(keys) # CtrlC
  /\ keys' = IF keys = << >> THEN keys ELSE Tail(keys)
  /\ UNCHANGED world
Statement(toks) == Begin(toks) /\ UNCHANGED drifted

GoOn(state, pool) ==
  /\ st' = state /\ spool' = pool /\ pc' = "line" /\ UNCHANGED err

exec_set_error(state, msg) ==
  /\ st' = [state EXCEPT !.running = FALSE]
  /\ err' = [msg |-> msg, line |-> state.cur]
  /\ pc' = "line"
  /\ UNCHANGED spool

\* What follows an evaluation that ended in x.
Evaluated(x, Good) ==
  \/ x.err = "none" /\ Good
  \/ x.err = "error" /\ exec_set_error(st, "SYNTAX ERROR") /\ UNCHANGED data
  \/ x.err = "trap" /\ pc' = "lost" /\ UNCHANGED <<st, err, spool, data>>

Scan(pos, draw) ==
  [pos |-> pos, pool |-> spool, v |-> NumValue(0), err |-> "none", draw |-> draw]
expr_eval(x) == parse_or(tokens, x)
NumOnly(x) == IF x.err = "none" /\ x.v.type # "num" THEN Failed(x) ELSE x
Expect(x, t) ==
  LET y == Skip(tokens, x)
  IN IF x.err # "none" THEN x ELSE IF peek(tokens, y.pos) = t THEN Past(y) ELSE Failed(y)

parse_var_target(pos) ==
  LET p == skip_spaces(tokens, pos)
      name == peek(tokens, p)
      suffix == peek(tokens, p + 1)
  IN [ok |-> is_letter(name), name |-> name, is_string |-> suffix = "$",
      idx |-> IF is_dig(suffix) THEN DigitOf(suffix) ELSE -1,
      pos |-> IF suffix = "$" \/ is_dig(suffix) THEN p + 2 ELSE p + 1]
Behind(target, draw) ==
  IF target.ok THEN Scan(target.pos, draw) ELSE Failed(Scan(target.pos, draw))

PrintItem(x) ==
  LET y == Skip(tokens, x)  t == peek(tokens, y.pos)
  IN IF x.err # "none" \/ t \in {"nul", ":", "ELSE"} THEN y
     ELSE IF t \in {";", ","} THEN Past(y) ELSE expr_eval(y)
PrintItems(x) == Times(PrintItem, Len(tokens), x)

PrintStatement(draw) ==
  /\ Statement({"PRINT"})
  /\ \E x \in {PrintItems(Scan(At + 1, draw))} :
       Evaluated(x, GoOn([st EXCEPT !.pos = x.pos], x.pool) /\ UNCHANGED data)

\* INPUT up to the target; the prompt has a length byte.
Input ==
  LET p == skip_spaces(tokens, At + 1)
      prompted == Optional(tokens, Scan(p + 2 + tokens[p + 1].n, 0), ";").pos
      q == IF peek(tokens, p) = "STR" THEN prompted ELSE p
  IN /\ Statement({"INPUT"})
     /\ IF parse_var_target(q).ok
        THEN pc' = "input" /\ st' = [st EXCEPT !.pos = q] /\ UNCHANGED <<err, spool>>
        ELSE exec_set_error(st, "SYNTAX ERROR")
     /\ UNCHANGED data

\* read_input_line and the assignment: a Ctrl-C among the keys ends the line empty.
Answer(answer) ==
  LET target == parse_var_target(st.pos)
      cut == {i \in DOMAIN keys : keys[i] = CtrlC}
      typedIn == IF cut = {} THEN answer ELSE << >>
  IN /\ pc = "input"
     /\ keys' = IF cut = {} THEN << >> ELSE SubSeq(keys, Min(cut) + 1, Len(keys))
     /\ IF target.is_string
        THEN str_vars' = [str_vars EXCEPT ![target.name] = typedIn] /\ UNCHANGED num_vars
        ELSE /\ num_vars' = [num_vars EXCEPT ![<<target.name, target.idx>>] = str_to_i32(typedIn)]
             /\ UNCHANGED str_vars
     /\ GoOn([st EXCEPT !.pos = target.pos], spool)
     /\ UNCHANGED <<world, drifted>>

Let(draw) ==
  LET target == parse_var_target(IF Tok = "LET" THEN At + 1 ELSE At)
  IN /\ Statement({"LET"} \cup Letters)
     /\ \E x \in {expr_eval(Expect(Behind(target, draw), "="))} :
        Evaluated(x,
          IF (x.v.type = "str") # target.is_string
          THEN exec_set_error(st, "TYPE MISMATCH") /\ UNCHANGED data
          ELSE /\ GoOn([st EXCEPT !.pos = x.pos], x.pool)
               /\ IF target.is_string
                  THEN /\ str_vars' = [str_vars EXCEPT ![target.name] = Upto(x.v.str, 1, STR_MAX_LEN)]
                       /\ UNCHANGED num_vars
                  ELSE /\ num_vars' = [num_vars EXCEPT ![<<target.name, target.idx>>] = x.v.num]
                       /\ UNCHANGED str_vars)

-----------------------------------------------------------------------------
\* Statements that change the flow

Target(n) == n % 65536

\* pos stays behind the number of the line.
JumpTo(state, n, pool) ==
  IF prog_has_line(prog, Target(n))
  THEN GoOn([state EXCEPT !.cur = Target(n), !.jumped = TRUE], pool)
  ELSE exec_set_error(state, "UNDEFINED LINE")

\* A true IF executes the statement behind THEN, a false one that behind the
\* next byte that is ELSE, which may be one of a number.
If(draw) ==
  /\ Statement({"IF"})
  /\ \E x \in {expr_eval(Scan(At + 1, draw))} :
     LET then == skip_spaces(tokens, Optional(tokens, x, "THEN").pos)
         elses == {p \in then .. Len(tokens) - 1 : tokens[p + 1].t = "ELSE"}
         holds == IF x.v.type = "num" THEN x.v.num # 0 ELSE x.v.str # << >>
         Inner(p) == /\ st' = [st EXCEPT !.pos = p] /\ spool' = x.pool /\ pc' = "stmt"
                     /\ UNCHANGED err
     IN Evaluated(x,
          /\ IF holds
             THEN IF peek(tokens, then) = "NUM"
                  THEN JumpTo([st EXCEPT !.pos = then + 5], tokens[then + 1].n, x.pool)
                  ELSE Inner(then)
             ELSE IF elses # {} THEN Inner(Min(elses) + 1)
                  ELSE GoOn([st EXCEPT !.pos = Len(tokens)], x.pool)
          /\ UNCHANGED data)

Goto(draw) ==
  /\ Statement({"GOTO"})
  /\ \E x \in {NumOnly(expr_eval(Scan(At + 1, draw)))} :
       Evaluated(x, JumpTo([st EXCEPT !.pos = x.pos], x.v.num, x.pool) /\ UNCHANGED data)

\* Mutant: the stack has one place more.
Pushed_beyond(x) ==
  IF Len(st.gosub) > GOSUB_DEPTH THEN exec_set_error(st, "OUT OF MEMORY")
  ELSE JumpTo([st EXCEPT !.pos = x.pos, !.gosub = Append(@, [line |-> st.cur, pos |-> x.pos])],
              x.v.num, x.pool)

\* The place behind GOSUB is on the stack before the line is looked up.
Pushed(x) ==
  IF Len(st.gosub) >= GOSUB_DEPTH THEN exec_set_error(st, "OUT OF MEMORY")
  ELSE JumpTo([st EXCEPT !.pos = x.pos, !.gosub = Append(@, [line |-> st.cur, pos |-> x.pos])],
              x.v.num, x.pool)

Gosub(draw) ==
  /\ Statement({"GOSUB"})
  /\ \E x \in {NumOnly(expr_eval(Scan(At + 1, draw)))} : Evaluated(x, Pushed(x) /\ UNCHANGED data)

\* RETURN sets current_line and pos; exec_line_at goes on with its own tokens.
Return ==
  LET top == Last(st.gosub)
  IN /\ Begin({"RETURN"})
     /\ IF st.gosub = << >>
        THEN exec_set_error(st, "RETURN WITHOUT GOSUB") /\ UNCHANGED drifted
        ELSE /\ GoOn([st EXCEPT !.cur = top.line, !.pos = top.pos, !.gosub = SubSeq(@, 1, Len(@) - 1)], spool)
             /\ drifted' = (drifted \/ top.line # line)
     /\ UNCHANGED data

For(draw) ==
  LET var == parse_var_target(At + 1)
      target == [var EXCEPT !.ok = @ /\ ~var.is_string]
      Number2(x, t) == NumOnly(expr_eval(Expect(x, t)))
      Step(x) == LET y == Skip(tokens, x)
                 IN IF x.err # "none" THEN x
                    ELSE IF peek(tokens, y.pos) = "STEP" THEN NumOnly(expr_eval(Past(y)))
                    ELSE make_num(y, 1)
  IN /\ Statement({"FOR"})
     /\ \E from \in {Number2(Behind(target, draw), "=")} :
        \E to \in {Number2(from, "TO")} :
        \E x \in {Step(to)} :
          Evaluated(x,
            /\ num_vars' = [num_vars EXCEPT ![<<var.name, var.idx>>] = from.v.num]
            /\ IF Len(st.for) >= FOR_DEPTH THEN exec_set_error(st, "OUT OF MEMORY")
               ELSE GoOn([st EXCEPT !.pos = x.pos,
                                    !.for = Append(@, [var |-> <<var.name, var.idx>>, limit |-> to.v.num,
                                                       step |-> x.v.num, line |-> st.cur, pos |-> x.pos])],
                         x.pool)
            /\ UNCHANGED str_vars)

NextStatement ==
  LET p == skip_spaces(tokens, At + 1)
      target == parse_var_target(p)
      q == IF ~target.ok THEN p ELSE IF target.idx >= 0 THEN p + 2 ELSE p + 1
      matching == {i \in DOMAIN st.for : target.ok => st.for[i].var = <<target.name, target.idx>>}
      Looped(i, f, new) ==
        /\ num_vars' = [num_vars EXCEPT ![f.var] = new]
        /\ IF IF f.step > 0 THEN new > f.limit ELSE new < f.limit
           THEN GoOn([st EXCEPT !.pos = q, !.for = SubSeq(@, 1, i - 1)], spool)
           ELSE GoOn([st EXCEPT !.cur = f.line, !.pos = f.pos, !.jumped = TRUE], spool)
  IN /\ Statement({"NEXT"})
     /\ IF matching = {} THEN exec_set_error(st, "NEXT WITHOUT FOR") /\ UNCHANGED num_vars
        ELSE \E i \in {Max(matching)} :
               Looped(i, st.for[i], Wrapped(num_vars[st.for[i].var] + st.for[i].step))
     /\ UNCHANGED str_vars

-----------------------------------------------------------------------------
\* The other statements

Rem == Statement({"REM"}) /\ GoOn([st EXCEPT !.pos = Len(tokens)], spool) /\ UNCHANGED data
Cls == Statement({"CLS"}) /\ GoOn([st EXCEPT !.pos = At + 1], spool) /\ UNCHANGED data
Clr == Statement({"CLR"}) /\ GoOn([st EXCEPT !.pos = At + 1], spool) /\ vars_clear
End ==
  /\ Statement({"END"})
  /\ GoOn([st EXCEPT !.pos = At + 1, !.running = FALSE], spool)
  /\ UNCHANGED data

\* The byte written is not part of this model's state.
Poke(draw) ==
  /\ Statement({"POKE"})
  /\ \E addr \in {NumOnly(expr_eval(Scan(At + 1, draw)))} :
     \E x \in {NumOnly(expr_eval(Optional(tokens, addr, ",")))} :
       Evaluated(x, GoOn([st EXCEPT !.pos = x.pos], x.pool) /\ UNCHANGED data)

Unknown ==
  /\ \E t \in {Tok} :
       /\ t \notin {"nul", "PRINT", "INPUT", "LET", "IF", "GOTO", "GOSUB", "RETURN", "FOR", "NEXT",
                    "REM", "CLS", "CLR", "END", "POKE"} \cup Letters
       /\ Statement({t})
  /\ exec_set_error(st, "SYNTAX ERROR")
  /\ UNCHANGED data

\* THEN or ELSE with nothing behind it.
Nothing ==
  /\ pc = "stmt" /\ Tok = "nul"
  /\ GoOn([st EXCEPT !.pos = At], spool)
  /\ UNCHANGED <<world, data, keys, drifted>>

\* Mutant: Ctrl-C is taken like any other key.
Break_ignored ==
  /\ pc = "stmt" /\ Tok # "nul" /\ keys # << >> /\ Head(keys) = CtrlC
  /\ keys' = Tail(keys)
  /\ UNCHANGED <<world, data, drifted, st, err, spool, pc>>

Break ==
  /\ pc = "stmt" /\ Tok # "nul" /\ keys # << >> /\ Head(keys) = CtrlC
  /\ keys' = Tail(keys)
  /\ GoOn([st EXCEPT !.pos = At, !.running = FALSE], spool)
  /\ UNCHANGED <<world, data, drifted>>

-----------------------------------------------------------------------------
\* The loops around the statements

Separators(pos) ==
  Min({q \in pos .. Len(tokens) : q = Len(tokens) \/ tokens[q + 1].t \notin {Blank, ":"}})
More ==
  /\ st.running /\ err.msg = "none" /\ ~st.jumped
  /\ st.pos < Len(tokens) /\ Separators(st.pos) < Len(tokens)

\* exec_line_at: on to the next statement.
LineGoesOn ==
  /\ pc = "line" /\ More
  /\ st' = [st EXCEPT !.pos = Separators(@)]
  /\ pc' = "stmt"
  /\ UNCHANGED <<world, data, err, spool, keys, drifted>>

\* exec_line_at is called for a line.
exec_line_at(state, num, toks, start) ==
  /\ st' = [state EXCEPT !.pos = start, !.jumped = FALSE]
  /\ line' = num /\ tokens' = toks
  /\ spool' = 0
  /\ pc' = "line"

\* A turn of the loop in cmd_run: after a jump pos is kept, whatever jumped.
LineEnds ==
  /\ pc = "line" /\ ~More /\ line # NoLine
  /\ LET cur == IF st.jumped THEN st.cur ELSE prog_next_line(prog, st.cur)
     IN IF ~st.running \/ err.msg # "none" THEN pc' = back /\ UNCHANGED <<st, line, tokens, spool>>
        ELSE IF cur = NoLine
        THEN pc' = back /\ st' = [st EXCEPT !.cur = NoLine] /\ UNCHANGED <<line, tokens, spool>>
        ELSE exec_line_at([st EXCEPT !.cur = cur], cur, LineOf(prog, cur), IF st.jumped THEN st.pos ELSE 0)
  /\ UNCHANGED <<prog, back, disk, kept, typed, data, err, keys, drifted>>

\* The line typed has been executed; its error is reported and cleared.
ImmediateEnds ==
  /\ pc = "line" /\ ~More /\ line = NoLine
  /\ pc' = "ready" /\ err' = NoError
  /\ UNCHANGED <<world, data, st, spool, keys, drifted>>

\* cmd_run on the program p, which returns to the prompt or to the shell.
cmd_run(p, to) ==
  LET fresh == [exec_init(st) EXCEPT !.cur = prog_first_line(p), !.running = TRUE]
  IN /\ vars_clear /\ err' = NoError /\ drifted' = FALSE
     /\ IF p = << >> THEN pc' = to /\ st' = fresh /\ spool' = 0 /\ UNCHANGED <<line, tokens>>
        ELSE exec_line_at(fresh, prog_first_line(p), p[1].toks, 0)

-----------------------------------------------------------------------------
\* SAVE and LOAD

TextSize(l) == l.head + Width(l.text) + 1      \* with the newline
SizeOf(lines) == Total([i \in 1 .. Len(lines) |-> TextSize(lines[i])])
HeadSize(num) == Figures(num) + 1              \* the number and a space
AsText(p) ==
  [i \in 1 .. Len(p) |-> [num |-> p[i].num, head |-> HeadSize(p[i].num), text |-> detokenize(p[i].toks)]]

\* Lines are written as long as SAVE_MAX has not been reached.
Saved(p) ==
  LET lines == AsText(p)
      n == Min({k \in 0 .. Len(p) : k = Len(p) \/ SizeOf(SubSeq(lines, 1, k)) >= SAVE_MAX})
  IN SubSeq(lines, 1, n)

\* What stands behind a cut, read as a line: its digits are the number. Bound:
\* the letters around a cut spell no keyword, a cut within a string is not in
\* front of further keywords, and the head of a line is no wider than line_buf.
AsLine(text) ==
  LET n == DigitsAhead(text)
      from == Max({k \in n .. Len(text) : \A i \in n + 1 .. k : text[i].t = Blank})
  IN [num |-> ValueOf(CharsUpto(text, n), 0, 65536), head |-> from, text |-> SubSeq(text, from + 1, Len(text))]

\* One line that is read from a file: s holds the lines left, the bytes left of
\* load_buf and the program so far. The rest of a line that does not fit into
\* line_buf is the next line.
LoadStep(s) ==
  LET first == Head(s.lines)
      whole == TextSize(first) - 1 <= Min({LINE_MAX, s.room})
      read == Min({LINE_MAX, s.room}) - first.head
      num == Target(first.num)
      toks == tokenize(IF whole THEN first.text ELSE FrontOf(first.text, read, {}))
      prog1 == IF num = 0 \/ toks = << >> THEN s.prog ELSE prog_insert_line(s.prog, num, toks)
  IN IF whole THEN [lines |-> Tail(s.lines), room |-> s.room - TextSize(first), prog |-> prog1]
     ELSE [lines |-> <<AsLine(BackOf(first.text, read))>> \o Tail(s.lines),
           room |-> s.room - LINE_MAX, prog |-> prog1]

LoadTurn(s) == IF s.lines = << >> \/ s.room <= 0 THEN s ELSE LoadStep(s)
Parsed(s) == Times(LoadTurn, Len(s.lines) + LOAD_MAX \div LINE_MAX + 1, s).prog

Exists(f) == f \in DOMAIN disk \cup DOMAIN Disk0
Content(f) == IF f \in DOMAIN disk THEN disk[f] ELSE Disk0[f]

\* Mutant: the program in store is not cleared.
Loaded_over(f, old) == Parsed([lines |-> Content(f), room |-> LOAD_MAX, prog |-> old])
\* The program after LOAD of a file that exists.
Loaded(f, old) == Parsed([lines |-> Content(f), room |-> LOAD_MAX, prog |-> << >>])

-----------------------------------------------------------------------------
\* The prompt

\* basic_readline takes what is in the keyboard as part of the line.
Typing ==
  /\ pc = "ready" /\ typed < MaxTyped
  /\ typed' = typed + 1
  /\ keys' = << >>
Idle == UNCHANGED <<st, err, spool, pc, line, tokens, back, drifted>>

EnterLine(l) ==
  /\ Typing /\ Target(l.num) # 0
  /\ prog' = IF l.text = << >> THEN prog_delete_line(prog, Target(l.num))
             ELSE prog_insert_line(prog, Target(l.num), tokenize(l.text))
  /\ Idle /\ UNCHANGED <<data, disk, kept>>

exec_immediate(text) ==
  /\ err' = NoError
  /\ drifted' = FALSE
  /\ exec_line_at([exec_init(st) EXCEPT !.running = TRUE], NoLine, tokenize(text), 0)

EnterImmediate(text) ==
  /\ Typing
  /\ exec_immediate(text)
  /\ UNCHANGED <<prog, data, back, disk, kept>>

Probe(e) == <<Lex("A"), Lex("=")>> \o e.text

\* Bound: an expression is evaluated first, and nothing follows.
EnterExpression(e) ==
  /\ pc = "ready" /\ typed = 0
  /\ typed' = MaxTyped /\ keys' = << >>
  /\ exec_immediate(Probe(e))
  /\ UNCHANGED <<prog, data, back, disk, kept>>

Run == Typing /\ cmd_run(prog, back) /\ UNCHANGED <<prog, back, disk, kept>>
New == Typing /\ prog' = << >> /\ vars_clear /\ Idle /\ UNCHANGED <<disk, kept>>

\* diskfs_write_file as a whole: a failure may leave any part of the old or the
\* new text in a file that exists.
Save(f) ==
  LET Write(text) == disk' = [n \in DOMAIN disk \cup {f} |-> IF n = f THEN text ELSE disk[n]]
  IN
  /\ Typing
  /\ \/ /\ Write(Saved(prog))
        /\ kept' = [kept EXCEPT ![f] = <<prog>>]
     \/ /\ IF Exists(f) THEN \E wreck \in {Content(f), Saved(prog), << >>} : Write(wreck)
           ELSE UNCHANGED disk
        /\ kept' = [kept EXCEPT ![f] = << >>]
  /\ Idle /\ UNCHANGED <<prog, data>>

Load(f) ==
  /\ Typing
  /\ prog' = IF Exists(f) THEN Loaded(f, prog) ELSE prog
  /\ Idle /\ UNCHANGED <<data, disk, kept>>

System ==
  /\ Typing /\ pc' = "shell"
  /\ UNCHANGED <<prog, data, st, err, spool, line, tokens, back, disk, kept, drifted>>

-----------------------------------------------------------------------------
\* The program is started from the shell: a new process each time.

Fresh(mode) ==
  /\ pc = "shell" /\ typed < MaxTyped
  /\ keys' = << >> /\ back' = mode
  /\ UNCHANGED <<disk, kept>>

Start ==
  /\ Fresh("ready")
  /\ prog' = << >> /\ vars_clear /\ st' = exec_init(st) /\ err' = NoError
  /\ pc' = "ready" /\ line' = NoLine /\ tokens' = << >> /\ spool' = 0 /\ drifted' = FALSE
  /\ UNCHANGED typed

\* basic_load_and_run; a name that is not on the disk leaves nothing to run.
StartWith(f) ==
  /\ Fresh("shell")
  /\ typed' = typed + 1
  /\ LET p == IF Exists(f) THEN Loaded(f, << >>) ELSE << >>
     IN prog' = p /\ cmd_run(p, "shell")

\* Bound: keys come while a program runs.
Press(k) ==
  /\ Executing /\ line # NoLine /\ Len(keys) < KEYS_MAX
  /\ keys' = Append(keys, k)
  /\ UNCHANGED <<world, data, st, err, spool, pc, drifted>>

Init ==
  /\ prog = << >> /\ st = AtRest /\ err = NoError /\ spool = 0
  /\ num_vars = [v \in NumVars |-> 0] /\ str_vars = [v \in Letters |-> << >>]
  /\ pc = "shell" /\ line = NoLine /\ tokens = << >> /\ back = "ready" /\ keys = << >>
  /\ disk = [f \in {} |-> << >>] /\ kept = [f \in SaveFiles |-> << >>]
  /\ drifted = FALSE /\ typed = 0

Names == DOMAIN Disk0 \cup SaveFiles
Flow == \E d \in Draws : If(d) \/ Goto(d) \/ Gosub(d) \/ For(d)
Plain == \E d \in Draws : PrintStatement(d) \/ Let(d) \/ Poke(d)
Interpreter ==
  \/ Flow \/ Return \/ NextStatement
  \/ Plain \/ Input \/ Rem \/ Cls \/ Clr \/ End \/ Unknown \/ Nothing \/ Break
  \/ LineGoesOn \/ LineEnds \/ ImmediateEnds

Prompt ==
  \/ \E l \in Source : EnterLine(l)
  \/ \E text \in Immediate : EnterImmediate(text)
  \/ \E e \in Expressions : EnterExpression(e)
  \/ Run \/ New \/ System
  \/ \E f \in SaveFiles : Save(f)
  \/ \E f \in Names : Load(f)

Next ==
  \/ Interpreter
  \/ Prompt
  \/ \E a \in Answers : Answer(a)
  \/ Start \/ \E f \in Names : StartWith(f)
  \/ \E k \in {CtrlC, OtherKey} : Press(k)

\* Nothing but INPUT makes the interpreter wait once a line is executed.
Spec == Init /\ [][Next]_vars /\ WF_vars(Interpreter)

-----------------------------------------------------------------------------
\* Properties

\* The variables have their types: numbers fit their words, and the stacks, the
\* strings of the variables and the count of the pool stay within their sizes
\* (exec.c, vars.c). What a concatenation copies may pass the pool's end all the
\* same (expr.c:399-404); the interpreter is lost then.
BasicTypeOK ==
  /\ num_vars \in [NumVars -> Numbers]
  /\ \A v \in Letters : Len(str_vars[v]) <= STR_MAX_LEN
  /\ pc \in {"shell", "ready", "line", "stmt", "input", "lost"}
  /\ back \in {"ready", "shell"}
  /\ st.running \in BOOLEAN /\ st.jumped \in BOOLEAN
  /\ st.cur # NoLine => prog_has_line(prog, st.cur) \/ ~Executing
  /\ Len(st.gosub) <= GOSUB_DEPTH /\ Len(st.for) <= FOR_DEPTH
  /\ spool \in 0 .. STRING_POOL_SIZE
  /\ Len(keys) <= KEYS_MAX /\ typed \in 0 .. MaxTyped

\* However lines are typed, replaced, deleted and loaded, the store is sorted
\* with one line per number, no line is empty, and it fits into prog_buf:
\* prog_find_line, which stops at the first greater number, relies on it.
StoreSorted ==
  /\ \A i \in 1 .. Len(prog) - 1 : prog[i].num < prog[i + 1].num
  /\ \A i \in 1 .. Len(prog) : prog[i].num # NoLine /\ prog[i].toks # << >>
  /\ prog_used(prog) <= PROG_SIZE

\* A numbered line that is typed, also one that does not fit, leaves every line
\* with another number as it was (prog_insert_line, prog_delete_line).
EntryTouchesOneLine ==
  [][ \A l \in Source : EnterLine(l) =>
        LET Others(p) == {p[i] : i \in {j \in DOMAIN p : p[j].num # Target(l.num)}}
        IN Others(prog') = Others(prog) ]_vars

\* A program that was saved and is loaded comes back, if each of its lines, as it
\* is listed, fits into line_buf: each line is one of the program's, and the same
\* one unless a literal in it has overflowed into a negative number. Without such
\* literals the store is the program, or as much of it as SAVE_MAX lets through
\* (cmd_save, detokenize, cmd_load, tokenize); with them the lines get longer, and
\* some may find no room in prog_buf. A longer line comes back cut, and what is
\* behind the cut may come back as a line of its own (basic.c:238).
Plain1(l) == \A i \in DOMAIN l.toks : l.toks[i].n >= 0
Short(l) == HeadSize(l.num) + Width(Unlexed(l.toks)) <= LINE_MAX
Restored(new, old) ==
  /\ \A i \in DOMAIN new : \E j \in DOMAIN old :
       new[i].num = old[j].num /\ (Plain1(old[j]) => new[i] = old[j])
  /\ (\A j \in DOMAIN old : Plain1(old[j])) =>
       IsPrefix(new, old) /\ (SizeOf(AsText(old)) <= SAVE_MAX => new = old)
LoadRestoresSaved ==
  [][ \A f \in DOMAIN kept :
        kept[f] # << >> /\ Load(f) /\ (\A i \in DOMAIN kept[f][1] : Short(kept[f][1][i]))
          => \A new \in {prog'} : Restored(new, kept[f][1]) ]_vars

\* While a program runs, and until RETURN has left the line that is executed,
\* every entry of the two stacks names a line of this program and a place in it
\* behind a GOSUB or a FOR: what a run pushed on another program is gone.
Returnable(e, t) ==
  /\ prog_has_line(prog, e.line)
  /\ e.pos \in 1 .. Len(LineOf(prog, e.line))
  /\ \E p \in 1 .. e.pos : LineOf(prog, e.line)[p].t = t
EntriesReturnable ==
  Executing /\ line # NoLine /\ ~drifted =>
    /\ \A i \in DOMAIN st.gosub : Returnable(st.gosub[i], "GOSUB")
    /\ \A i \in DOMAIN st.for : Returnable(st.for[i], "FOR")

Probes == {[toks |-> tokenize(Probe(e)), value |-> e.value] : e \in Expressions}

\* The evaluator agrees with the values the usual precedence and left
\* association give (parse_or down to parse_primary): an expression that has a
\* value is evaluated without an error, and one that has none is an error, after
\* which nothing is assigned.
ExpressionValue ==
  pc = "ready" /\ IsPrefix(<<Lex("A"), Lex("=")>>, tokens) =>
    \A p \in Probes :
      tokens = p.toks =>
        /\ st.running <=> p.value \in Numbers
        /\ num_vars[<<"A", -1>>] = IF st.running THEN p.value ELSE 0

\* A Ctrl-C typed while statements are executed is heard: the run ends, or an
\* INPUT takes the key for its answer, or the interpreter is lost.
BreakHeard ==
  (pc \in {"line", "stmt"} /\ \E i \in DOMAIN keys : keys[i] = CtrlC)
     ~> (pc \notin {"line", "stmt"})

\* After a jump the run goes on at the start of a line, or behind a FOR: "pos
\* may be mid-line for NEXT" (basic.c, cmd_run).
OnlyNextResumesMidLine ==
  pc = "line" /\ line # NoLine /\ st.running /\ st.jumped =>
    st.pos = 0 \/ \E i \in DOMAIN st.for : st.for[i].line = st.cur /\ st.for[i].pos = st.pos
=============================================================================

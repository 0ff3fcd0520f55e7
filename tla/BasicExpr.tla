----------------------------- MODULE BasicExpr -----------------------------
(***************************************************************************)
(* Variables and the expression evaluator (src/apps/basic/vars.c, expr.c). *)
(* The evaluator walks over the tokens c; its state is x: pos, the offset  *)
(* of the next token, pool, the bytes used of the string pool, v, the      *)
(* value found last, err, the error flag, and draw, what RND and PEEK find *)
(* in the generator and in memory. err is "trap" where nothing can be said *)
(* of what follows: the least number divided by -1, a count of MID$ that   *)
(* overflows, and a concatenation that is copied past the end of the pool. *)
(***************************************************************************)
EXTENDS BasicProgram

CONSTANTS
  STRING_POOL_SIZE,
  STR_MAX_LEN,
  LenMod            \* 2^8, the lengths of a string in its byte

ASSUME ExprAssumption ==
  /\ STRING_POOL_SIZE \in Nat /\ STR_MAX_LEN \in Nat /\ LenMod \in Nat \ {0}
  /\ "nul" \notin Letters   \* the byte behind the tokens, see peek

VARIABLES
  num_vars,   \* the numbers: a letter, and -1 or the digit of A0 .. A9
  str_vars    \* the strings A$ .. Z$

NumVars == Letters \X (-1 .. 9)
is_letter(t) == t \in Letters
vars_clear ==
  /\ num_vars' = [v \in NumVars |-> 0]
  /\ str_vars' = [v \in Letters |-> << >>]

\* "nul" is the byte behind the tokens.
peek(c, pos) == IF pos < Len(c) THEN c[pos + 1].t ELSE "nul"
skip_spaces(c, pos) ==
  LET From(p) == CHOOSE q \in p .. Max({p, Len(c)}) :
                   peek(c, q) # Blank /\ \A i \in p .. q - 1 : peek(c, i) = Blank
  IN Once(From, pos)

Skip(c, x) == [x EXCEPT !.pos = skip_spaces(c, @)]
Past(x) == [x EXCEPT !.pos = @ + 1]
\* Spaces and then t, if it is there.
Optional(c, x, t) ==
  LET y == Skip(c, x) IN IF peek(c, y.pos) = t THEN Past(y) ELSE y

\* The values, and the states of the evaluator.
Numbers == MinInt .. -MinInt - 1
Values == [type : {"num", "str"}, num : Numbers, str : Seq(Words)]
Scans == [pos : Nat, pool : 0 .. STRING_POOL_SIZE, v : Values, err : {"none", "error", "trap"}, draw : Nat]

NumValue(n) == [type |-> "num", num |-> n, str |-> << >>]
Failed(x) == [x EXCEPT !.err = "error", !.v = NumValue(0)]
Trapped(x) == [x EXCEPT !.err = "trap"]
make_num(x, n) == [x EXCEPT !.v = NumValue(Wrapped(n))]
\* string_pool_alloc and the copy into the pool
make_str(x, s) ==
  IF x.pool + Len(s) + 1 > STRING_POOL_SIZE THEN Failed(x)
  ELSE [x EXCEPT !.v = [type |-> "str", num |-> 0, str |-> s], !.pool = @ + Len(s) + 1]
BothNum(a, b) == a.type = "num" /\ b.type = "num"
BothStr(a, b) == a.type = "str" /\ b.type = "str"

-----------------------------------------------------------------------------
\* Operators

Truth(cond) == IF cond THEN -1 ELSE 0
Sign(n) == IF n < 0 THEN -1 ELSE 1
Abs(n) == n * Sign(n)
Quotient(a, b) == Sign(a) * Sign(b) * (Abs(a) \div Abs(b))
Remainder(a, b) == a - b * Quotient(a, b)

strcmp(a, b) ==
  LET diff == {i \in 1 .. Min({Len(a), Len(b)}) : a[i] # b[i]}
      k == Min(diff)
  IN IF diff = {} THEN Len(a) - Len(b) ELSE CodeOf(a[k]) - CodeOf(b[k])

Compared(t, d) ==
  CASE t = "="  -> d = 0 [] t = "<>" -> d # 0 [] t = "<" -> d < 0
    [] t = ">"  -> d > 0 [] t = "<=" -> d <= 0 [] t = ">=" -> d >= 0

\* In AND and OR a string counts by its pointer, which is never 0.
IsTrue(v) == v.type = "str" \/ v.num # 0

Computed(t, a, b) ==
  CASE t = "+" -> a + b
    [] t = "-" -> a - b
    [] t = "*" -> a * b
    [] t = "/" -> Quotient(a, b)
    [] t = "MOD" -> Remainder(a, b)
    [] OTHER -> Truth(Compared(t, a - b))

\* Room is asked for the length that fits into its byte, and both strings are
\* copied in full; what is behind them is cut off.
Joined(l, r, x) ==
  LET both == l \o r
      newlen == Len(both) % LenMod
  IN IF x.pool + newlen < STRING_POOL_SIZE /\ x.pool + Len(both) > STRING_POOL_SIZE THEN Trapped(x)
     ELSE make_str(x, Upto(both, 1, newlen))

\* l t x.v, where x is the state of the evaluator behind the right operand.
Combined(t, l, x) ==
  LET r == x.v
  IN IF x.err # "none" THEN x
     ELSE CASE t = "AND" -> make_num(x, Truth(IsTrue(l) /\ IsTrue(r)))
            [] t = "OR" -> make_num(x, Truth(IsTrue(l) \/ IsTrue(r)))
            [] t = "+" /\ BothStr(l, r) -> Joined(l.str, r.str, x)
            [] t \in {"=", "<>", "<", ">", "<=", ">="} /\ BothStr(l, r) ->
                 make_num(x, Truth(Compared(t, strcmp(l.str, r.str))))
            [] OTHER ->
                 IF ~BothNum(l, r) \/ (t \in {"/", "MOD"} /\ r.num = 0) THEN Failed(x)
                 ELSE IF t \in {"/", "MOD"} /\ l.num = MinInt /\ r.num = -1 THEN Trapped(x)
                 ELSE make_num(x, Computed(t, l.num, r.num))

-----------------------------------------------------------------------------
\* Functions

NumFunctions == {"ABS", "RND", "INT", "CHR$", "STR$", "PEEK"}
StrFunctions == {"LEN", "VAL"}
CutFunctions == {"LEFT$", "RIGHT$", "MID$"}
Functions1 == NumFunctions \cup StrFunctions
\* The byte of POKE lies between those of the functions.
FunctionTokens == Functions1 \cup CutFunctions \cup {"POKE"}

basic_rnd(draw, max) == IF max <= 0 THEN 0 ELSE draw % max

\* A function of one argument, x.v.
Applied(f, x) ==
  LET a == x.v
  IN IF a.type # (IF f \in NumFunctions THEN "num" ELSE "str") THEN Failed(x)
     ELSE CASE f = "ABS" -> make_num(x, Abs(a.num))
            [] f = "RND" -> make_num(x, basic_rnd(x.draw, a.num))
            [] f = "INT" -> x
            [] f = "LEN" -> make_num(x, Len(a.str))
            [] f = "VAL" -> make_num(x, str_to_i32(a.str))
            [] f = "CHR$" -> make_str(x, <<Chars[(a.num % Len(Chars)) + 1]>>)
            [] f = "STR$" -> make_str(x, i32_to_str(a.num))
            [] f = "PEEK" -> make_num(x, x.draw % 256)

Clamped(n, high) == Max({0, Min({n, high})})

LeftOf(s, n) == SubSeq(s, 1, Clamped(n, Len(s)))
RightOf(s, n) == SubSeq(s, Len(s) - Clamped(n, Len(s)) + 1, Len(s))
MidStart(s, p) == Clamped(Wrapped(p - 1), Len(s))

Piece(f, a, b, x) ==
  IF x.err # "none" THEN x
  ELSE IF a.type # "str" \/ b.type # "num" \/ x.v.type # "num" THEN Failed(x)
  ELSE CASE f = "LEFT$" -> make_str(x, LeftOf(a.str, b.num))
         [] f = "RIGHT$" -> make_str(x, RightOf(a.str, b.num))
         [] f = "MID$" ->
              LET from == MidStart(a.str, b.num)  n == Max({0, x.v.num})
              IN IF Wrapped(from + n) < 0 THEN Trapped(x)
                 ELSE make_str(x, Upto(a.str, from + 1, n))

-----------------------------------------------------------------------------
\* The recursive descent, one level per row of the table; a comparison is not
\* repeated, the other operators associate to the left.

Below == [or |-> "and", and |-> "compare", compare |-> "add", add |-> "mul", mul |-> "primary"]
Ops == [or |-> {"OR"}, and |-> {"AND"}, compare |-> {"=", "<>", "<", ">", "<=", ">="},
        add |-> {"+", "-"}, mul |-> {"*", "/", "MOD"}, primary |-> {}]

Levels == {"or", "and", "compare", "add", "mul", "primary"}

\* The evaluator of the tokens c is a function of the calls of the descent; e is
\* the one that may nest a call less.
Calls == [f : {"parse", "rest"}, level : Levels, x : Scans]
parse(e, level, x) == e[[f |-> "parse", level |-> level, x |-> x]]

\* The arguments behind the first, a; a missing comma or bracket is no error.
parse_function(e, f, c, x) ==
  LET open == Skip(c, x)
      Third(a, b, d) == Piece(f, a.v, b.v, Optional(c, d, ")"))
      Second(a, b) ==
        IF f # "MID$" THEN Third(a, b, b)
        ELSE LET Rest(d) == Third(a, b, d) IN Once(Rest, parse(e, "or", Optional(c, b, ",")))
      First(a) ==
        IF a.err # "none" THEN a
        ELSE IF f = "POKE" THEN Failed(a)
        ELSE IF f \in Functions1 THEN Applied(f, Optional(c, a, ")"))
        ELSE LET Rest(b) == Second(a, b) IN Once(Rest, parse(e, "or", Optional(c, a, ",")))
  IN IF peek(c, open.pos) # "(" THEN Failed(x) ELSE Once(First, parse(e, "or", Past(open)))

Negated(t, x) ==
  CASE x.err # "none" -> x
    [] x.err = "none" /\ x.v.type # "num" -> Failed(x)
    [] OTHER -> make_num(x, IF t = "-" THEN -x.v.num ELSE IF x.v.num # 0 THEN 0 ELSE 1)

variable(c, x) ==
  LET name == peek(c, x.pos)  y == Past(x)  suffix == peek(c, y.pos)
  IN CASE suffix = "$" -> make_str(Past(y), str_vars[name])
       [] is_dig(suffix) -> make_num(Past(y), num_vars[<<name, DigitOf(suffix)>>])
       [] OTHER -> make_num(y, num_vars[<<name, -1>>])

\* TOK_STR_LIT, the byte of the length, and the characters
literal(c, x) ==
  LET n == c[x.pos + 1].n
      raw == Upto(c, x.pos + 3, n)
  IN make_str([x EXCEPT !.pos = @ + 2 + n], [i \in 1 .. Len(raw) |-> raw[i].t])

\* x is at the first character of the operand.
Operand(e, c, x) ==
  LET tok == peek(c, x.pos)
      Negate(y) == Negated(tok, y)
      Close(y) == Optional(c, y, ")")
  IN IF x.err # "none" THEN x
     ELSE CASE tok \in {"-", "NOT"} -> Once(Negate, parse(e, "primary", Past(x)))
            [] tok = "(" -> Once(Close, parse(e, "or", Past(x)))
            [] tok = "NUM" -> make_num([x EXCEPT !.pos = @ + 5], c[x.pos + 1].n)
            [] tok = "STR" -> literal(c, x)
            [] tok \in FunctionTokens -> parse_function(e, tok, c, Past(x))
            [] OTHER -> IF is_letter(tok) THEN variable(c, x) ELSE Failed(x)
parse_primary(e, c, x0) == LET At0(x) == Operand(e, c, x) IN Once(At0, Skip(c, x0))

\* Mutant: the operators of a level associate to the right.
parse_rest_right(e, level, c, x) ==
  LET y == Skip(c, x)  op == peek(c, y.pos)
      Join(z) == Combined(op, x.v, z)
  IN IF x.err # "none" \/ op \notin Ops[level] THEN y
     ELSE Once(Join, parse(e, level, Past(y)))

\* x is behind the left operand.
parse_rest(e, level, c, x) ==
  LET y == Skip(c, x)
      op == peek(c, y.pos)
      Join(z) == Combined(op, x.v, z)
      Chain(z) ==
        IF level = "compare" THEN z
        ELSE e[[f |-> "rest", level |-> level, x |-> z]]
      Operated(z) == Once(Chain, Join(z))
  IN IF x.err # "none" \/ op \notin Ops[level] THEN y
     ELSE Once(Operated, parse(e, Below[level], Past(y)))

parse_level(e, level, c, x) ==
  IF level = "primary" THEN parse_primary(e, c, x)
  ELSE LET Rest(y) == parse_rest(e, level, c, y) IN Once(Rest, parse(e, Below[level], x))

\* There are at most seven calls to a token: the levels, and the rest of one.
Evaluator(c) ==
  LET depth == 7 * Len(c) + 8
      e[deep \in 0 .. depth] ==
        [call \in Calls |->
           IF deep = 0 THEN Failed(call.x)
           ELSE IF call.f = "rest" THEN parse_rest(e[deep - 1], call.level, c, call.x)
           ELSE parse_level(e[deep - 1], call.level, c, call.x)]
  IN e[depth]
parse_or(c, x) == parse(Evaluator(c), "or", x)
=============================================================================

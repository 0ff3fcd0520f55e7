------------------------------ MODULE MCBasic ------------------------------
(* Basic with numbers of one byte, small stacks and programs on the disk    *)
(* that loop, call, read and print. The expressions are the trees of two    *)
(* binary operators over three numbers, and their negations, with the value *)
(* of the tree.                                                             *)
EXTENDS Basic

Sp == Lex(" ")
K(t) == <<Lex(t), Sp>>                        \* a keyword and a space
Name(v) == <<Lex(v)>>
N(n) == <<Digits(n)>>
Assign(v, text) == Name(v) \o <<Lex("=")>> \o text
Str(chars) == <<Lex(Quote)>> \o [i \in 1 .. Len(chars) |-> Lex(chars[i])] \o <<Lex(Quote)>>
Colon == <<Lex(":")>>
Ln(num, text) == [num |-> num, head |-> HeadSize(num), text |-> text]
ForTo(v, a, b) == K("FOR") \o Assign(v, N(a)) \o <<Sp>> \o K("TO") \o N(b)

\* A loop in a loop, closed from the outside at the end.
Nested == <<Ln(10, ForTo("A", 1, 2) \o Colon \o ForTo("B", 1, 2)),
            Ln(20, K("NEXT") \o Name("B") \o Colon \o K("NEXT") \o Name("A")),
            Ln(30, <<Lex("END")>>)>>
\* Loops that never end: a step of 0, and a GOTO over a short line.
Endless == <<Ln(10, ForTo("A", 1, 0) \o <<Sp>> \o K("STEP") \o N(0) \o Colon \o <<Lex("NEXT")>>)>>
Around == <<Ln(10, <<Lex("CLS")>>), Ln(20, K("GOTO") \o N(10))>>
\* Stacks that fill up.
Deeper == <<Ln(10, <<Lex("CLR")>>), Ln(20, K("GOSUB") \o N(10))>>
Piling == <<Ln(5, <<Lex("CLS")>>), Ln(10, ForTo("A", 1, 1)), Ln(20, K("GOTO") \o N(5))>>
\* A call that returns into its line, on the target from the call's offset on.
Call == <<Ln(10, K("GOSUB") \o N(20) \o Colon \o Assign("B", N(1))),
          Ln(20, Assign("A", N(2)) \o Colon \o <<Lex("RETURN"), Lex(":"), Lex("RETURN")>>)>>
\* Reading and deciding.
Ask == <<Ln(10, K("INPUT") \o Str(<<"A">>) \o <<Lex(";")>> \o Name("A")),
         Ln(20, K("INPUT") \o Name("B") \o <<Lex("$")>>),
         Ln(30, K("IF") \o Name("A") \o <<Sp>> \o K("THEN") \o N(10))>>
Branch == <<Ln(10, K("IF") \o Name("A") \o <<Sp>> \o K("THEN") \o <<Lex("CLS"), Sp>> \o K("ELSE")
                     \o Assign("A", N(1)) \o Colon \o <<Lex("RETURN")>>)>>

MCDisk0 == [nested |-> Nested, endless |-> Endless, around |-> Around, deeper |-> Deeper,
            piling |-> Piling, call |-> Call, ask |-> Ask, branch |-> Branch]

\* As wide as a line that is typed can be, with numbers that come back as -127:
\* both detokenize and LOAD cut it, and what is behind the cut reads 27:A.
Repeated(n, text) == FoldLeft(LAMBDA all, i : all \o text, << >>, [i \in 1 .. n |-> i])
Wide == Repeated(5, <<Lex("PRINT"), Lex(":")>>) \o Repeated(3, Assign("A", N(129)) \o Colon)
          \o <<Lex("A"), Lex("B")>>

MCSource ==
  {Ln(10, << >>), Ln(20, << >>), Ln(65546, <<Lex("REM"), Sp, Lex("A")>>),
   Ln(20, K("PRINT") \o Name("A") \o <<Lex(";")>> \o Str(<<"A", "B">>)),
   Ln(20, Assign("A", N(129)) \o Colon \o Assign("B", K("RND") \o <<Lex("(")>> \o N(3) \o <<Lex(")")>>)),
   Ln(30, K("NEXT") \o Name("A")), [num |-> 30, head |-> 2, text |-> Wide], Ln(30, K("REM") \o [i \in 1 .. 45 |-> Lex("B")])}

MCChars == <<" ", "-", "0", "1", "2", "3", "4", "5", "6", "7", "8", "9", "A", "B">>
\* token.h, in the order of the codes from 128, 160 and 176 on.
Operations == <<"PRINT", "INPUT", "LET", "IF", "THEN", "GOTO", "GOSUB", "RETURN", "FOR", "TO", "STEP",
                "NEXT", "REM", "END", "DIM", "ELSE", "AND", "OR", "NOT", "MOD", "<=", ">=", "<>">>
Calls160 == <<"ABS", "RND", "LEN", "VAL", "CHR$", "STR$", "LEFT$", "RIGHT$", "MID$", "PEEK", "POKE", "INT">>
Commands == <<"LOAD", "SAVE", "LIST", "RUN", "NEW", "CLR", "CLS">>
Ascii == (32 :> Blank) @@ (34 :> Quote) @@ (36 :> "$") @@ (40 :> "(") @@ (41 :> ")") @@ (42 :> "*")
         @@ (43 :> "+") @@ (44 :> ",") @@ (45 :> "-") @@ (47 :> "/") @@ (58 :> ":") @@ (59 :> ";")
         @@ (60 :> "<") @@ (61 :> "=") @@ (62 :> ">") @@ (65 :> "A") @@ (66 :> "B") @@ (97 :> "A") @@ (98 :> "B")
MCCodes ==
  [b \in 0 .. 255 |->
     IF b - 127 \in DOMAIN Operations THEN Operations[b - 127]
     ELSE IF b - 159 \in DOMAIN Calls160 THEN Calls160[b - 159]
     ELSE IF b - 175 \in DOMAIN Commands THEN Commands[b - 175]
     ELSE IF b \in 48 .. 57 THEN Digit(b - 48)
     ELSE IF b \in DOMAIN Ascii THEN Ascii[b] ELSE "byte"]
\* The letters of a keyword are not told apart.
MCSpell ==
  ("<=" :> <<"<", "=">>) @@ (">=" :> <<">", "=">>) @@ ("<>" :> <<"<", ">">>)
    @@ [w \in {"CHR$", "STR$", "LEFT$", "RIGHT$", "MID$"} |-> Append([i \in 1 .. Len(w) - 1 |-> "A"], "$")]
    @@ [w \in Keywords |-> [i \in 1 .. Len(w) |-> "A"]]
MCAnswers == {<<" ", "1">>, <<"-", "2", "0", "0">>}

Paren(text) == <<Lex("(")>> \o text \o <<Lex(")")>>
AStr == Name("A") \o <<Lex("$")>>
Comma == <<Lex(",")>>
Bracketed(f, text) == <<Lex(f)>> \o Paren(text)
MCImmediate ==
  {K("POKE") \o N(1) \o Comma \o N(2) \o Colon \o K("IF") \o N(1) \o <<Sp>> \o K("THEN"),
   K("GOTO") \o N(10), K("GOSUB") \o N(7),
   K("IF") \o N(1) \o <<Sp>> \o K("THEN") \o <<Lex("CLS"), Sp, Lex("ELSE")>>,
   K("IF") \o N(0) \o <<Sp>> \o K("THEN") \o Assign("A", N(143)),   \* 143 is the code of ELSE
   ForTo("A", 1, 2) \o Colon \o <<Lex("NEXT")>>,
   Assign("A", N(128) \o <<Lex("/"), Lex("-")>> \o N(1)),
   AStr \o <<Lex("=")>> \o Bracketed("MID$", Str(<<"A", "B">>) \o Comma \o N(2) \o Comma \o N(5))
     \o <<Lex("+")>> \o Bracketed("STR$", N(12)),
   K("PRINT") \o Bracketed("LEN", Bracketed("LEFT$", AStr \o Comma \o N(2))) \o <<Lex("+")>>
     \o Bracketed("VAL", Bracketed("RIGHT$", AStr \o Comma \o N(1))),
   \* Eight and ten characters: the length in its byte is 0 and 2.
   K("PRINT") \o Str(<<"A", "B", "A", "B">>) \o <<Lex("+")>> \o Str(<<"A", "B", "A", "B">>),
   K("PRINT") \o Str(<<"A", "B", "A", "B", "A">>) \o <<Lex("+")>> \o Str(<<"A", "B", "A", "B", "A">>),
   AStr \o <<Lex("=")>> \o Bracketed("CHR$", Bracketed("PEEK", N(4))) \o <<Lex("+")>> \o AStr,
   Assign("A", Str(<<"A">>) \o <<Lex("<")>> \o Str(<<"B">>)) \o Colon \o Assign("A", Str(<<"A">>))}

-----------------------------------------------------------------------------
\* Trees: a reference for the evaluator

Rank == [t \in {"OR"} |-> 1] @@ [t \in {"AND"} |-> 2] @@ [t \in {"=", "<"} |-> 3]
        @@ [t \in {"+", "-"} |-> 4] @@ [t \in {"*", "/", "MOD"} |-> 5]
Bad == 1000       \* for an expression without a value: no number of this width
Result(op, a, b) ==
  IF Bad \in {a, b} \/ (op \in {"/", "MOD"} /\ b = 0) THEN Bad
  ELSE Wrapped(CASE op = "OR" -> IF a # 0 \/ b # 0 THEN -1 ELSE 0
                 [] op = "AND" -> IF a # 0 /\ b # 0 THEN -1 ELSE 0
                 [] op = "=" -> IF a = b THEN -1 ELSE 0
                 [] op = "<" -> IF a < b THEN -1 ELSE 0
                 [] op = "+" -> a + b [] op = "-" -> a - b [] op = "*" -> a * b
                 [] op = "/" -> CHOOSE q \in -128 .. 128 : Abs(a - q * b) < Abs(b) /\ (a - q * b) * a >= 0
                 [] op = "MOD" -> CHOOSE r \in -128 .. 128 :
                                    Abs(r) < Abs(b) /\ r * a >= 0 /\ \E q \in -128 .. 128 : a = q * b + r)

Operator(op) == <<Sp, Lex(op), Sp>>
\* (a p b) q c and a p (b q c), in brackets only where the ranks ask for them.
LeftTree(a, p, b, q, c) ==
  LET inner == N(a) \o Operator(p) \o N(b)
      open == Rank[p] < Rank[q] \/ (Rank[p] = 3 /\ Rank[q] = 3)
  IN [text |-> (IF open THEN Paren(inner) ELSE inner) \o Operator(q) \o N(c),
      value |-> Result(q, Result(p, a, b), c)]
RightTree(a, p, b, q, c) ==
  LET inner == N(b) \o Operator(q) \o N(c)
  IN [text |-> N(a) \o Operator(p) \o (IF Rank[q] <= Rank[p] THEN Paren(inner) ELSE inner),
      value |-> Result(p, a, Result(q, b, c))]
Signed(sign, tree) ==
  [text |-> <<Lex(sign), Sp>> \o Paren(tree.text),
   value |-> IF tree.value = Bad THEN Bad
             ELSE IF sign = "-" THEN Wrapped(-tree.value) ELSE IF tree.value = 0 THEN 1 ELSE 0]
MCExpressions ==
  LET Both(p, q) == {LeftTree(70, p, 3, q, 2), RightTree(70, p, 3, q, 2)}
      Flat == UNION {Both(p, q) : p \in DOMAIN Rank, q \in DOMAIN Rank}
  IN Flat \cup {Signed(s, t) : s \in {"-", "NOT"}, t \in {LeftTree(7, "-", 3, "-", 2), LeftTree(7, "<", 3, "+", 2)}}
=============================================================================

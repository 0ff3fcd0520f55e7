----------------------------- MODULE BasicProofs -----------------------------
(***************************************************************************)
(* For every program, every text that is typed and every file: the store   *)
(* stays sorted and within its buffer, a line that is typed touches no     *)
(* other, every value of the interpreter fits its word and its variable,   *)
(* the stacks and the count of the pool stay within their sizes, RETURN    *)
(* and NEXT go back behind a GOSUB or a FOR, and a program that was saved  *)
(* comes back if no line of it is longer than LOAD reads.                  *)
(***************************************************************************)
EXTENDS Basic, NatLemmas, SequenceTheorems

-----------------------------------------------------------------------------
(* Least and greatest elements, and sequences cut in pieces.               *)

LEMMA LeastOfTwo ==
  ASSUME NEW x \in Int, NEW y \in Int
  PROVE  Min({x, y}) = IF x <= y THEN x ELSE y
BY DEF Min

LEMMA GreatestOfTwo ==
  ASSUME NEW x \in Int, NEW y \in Int
  PROVE  Max({x, y}) = IF x >= y THEN x ELSE y
BY DEF Max

LEMMA LeastIn ==
  ASSUME NEW S, S \subseteq Nat, S # {}
  PROVE  Min(S) \in S /\ \A y \in S : Min(S) <= y
BY HasLeast DEF Min

LEMMA GreatestIn ==
  ASSUME NEW N \in Nat, NEW S, S \subseteq 0 .. N, S # {}
  PROVE  Max(S) \in S /\ \A y \in S : Max(S) >= y
<1> DEFINE D == {N - y : y \in S}
<1>1. D \subseteq Nat /\ D # {}
  <2>1. ASSUME NEW y \in S PROVE N - y \in Nat
    OBVIOUS
  <2> QED BY <2>1
<1> HIDE DEF D
<1>2. PICK d \in D : \A e \in D : d <= e
  BY <1>1, HasLeast
<1>3. PICK m \in S : d = N - m
  BY DEF D
<1>4. ASSUME NEW y \in S PROVE m >= y
  <2>1. N - y \in D
    BY DEF D
  <2> QED BY <1>2, <1>3, <2>1
<1> QED BY <1>4 DEF Max

\* A piece that lies within a sequence, and one that is cut off at its end.
LEMMA PieceOf ==
  ASSUME NEW S, NEW s \in Seq(S), NEW m \in Nat \ {0}, NEW n \in Int, n <= Len(s)
  PROVE  /\ SubSeq(s, m, n) \in Seq(S)
         /\ Len(SubSeq(s, m, n)) = IF m <= n THEN n - m + 1 ELSE 0
         /\ \A i \in 1 .. n - m + 1 : SubSeq(s, m, n)[i] = s[m + i - 1]
<1>1. \A i \in m .. n : s[i] \in S
  BY ElementOfSeq
<1> QED BY <1>1, SubSeqProperties

LEMMA UptoIn ==
  ASSUME NEW S, NEW s \in Seq(S), NEW i \in Nat \ {0}, NEW n \in Int
  PROVE  /\ Upto(s, i, n) \in Seq(S)
         /\ Len(Upto(s, i, n)) <= Len(s)
         /\ n >= 0 => Len(Upto(s, i, n)) <= n
<1>1. Len(s) \in Nat
  BY LenProperties
<1>2. Min({Len(s), i + n - 1}) = IF Len(s) <= i + n - 1 THEN Len(s) ELSE i + n - 1
  BY <1>1, LeastOfTwo
<1>3. PICK m \in Int : m = Min({Len(s), i + n - 1})
  BY <1>1, <1>2
<1>4. m <= Len(s) /\ m <= i + n - 1
  BY <1>1, <1>2, <1>3
<1>5. SubSeq(s, i, m) \in Seq(S) /\ Len(SubSeq(s, i, m)) = IF i <= m THEN m - i + 1 ELSE 0
  BY <1>4, PieceOf
<1>6. Upto(s, i, n) = SubSeq(s, i, m)
  BY <1>3 DEF Upto
<1> QED BY <1>1, <1>4, <1>5, <1>6

-----------------------------------------------------------------------------
(* Loops. Each has a course of values in any set that its turn does not    *)
(* leave; see LoopStays.                                                   *)

LEMMA LexLoop ==
  ASSUME NEW T, NEW text, Len(text) \in Nat, [text |-> text, out |-> << >>] \in T, \A y \in T : LexTurn(y) \in T
  PROVE  \E it : /\ it[0] = [text |-> text, out |-> << >>] /\ tokenize(text) = it[Len(text)].out
                 /\ \A k \in 1 .. Len(text) : it[k] = LexTurn(it[k - 1])
<1> DEFINE n == Len(text)
           x == [text |-> text, out |-> << >>]
           once(y) == CHOOSE r \in {LexTurn(z) : z \in {y}} : TRUE
           loop == CHOOSE it : it = [i \in 0 .. n |-> IF i = 0 THEN x ELSE once(it[i - 1])]
           step == [p \in Nat \X T |-> once(p[2])]
<1>1. \A y : once(y) = LexTurn(y)
  OBVIOUS
<1>2. tokenize(text) = loop[n].out
  BY Zenon DEF tokenize, Times, Once
<1>0. n \in Nat /\ x \in T
  OBVIOUS
<1> HIDE DEF once, n, x
<1>3. \A k \in Nat : \A y \in T : step[<<k, y>>] = once(y)
  OBVIOUS
<1> HIDE DEF step
<1>4. \A y \in T : once(y) \in T
  BY <1>1
<1>5. PICK f : IsCourse(f, T, x, step, n)
  <2>1. IsUpdate(step, T)
    BY <1>3, <1>4 DEF IsUpdate
  <2> QED BY <1>0, <2>1, Recursion
<1>6. f \in [0 .. n -> T] /\ f[0] = x /\ \A k \in 1 .. n : f[k] = once(f[k - 1])
  <2>1. ASSUME NEW k \in 1 .. n PROVE f[k] = once(f[k - 1])
    <3>1. k \in Nat /\ f[k - 1] \in T /\ f[k] = step[<<k, f[k - 1]>>]
      BY <1>0, <1>5 DEF IsCourse
    <3> QED BY <1>3, <3>1
  <2> QED BY <1>5, <2>1 DEF IsCourse
<1>7. loop = [i \in 0 .. n |-> IF i = 0 THEN x ELSE once(loop[i - 1])]
  <2>1. f = [i \in 0 .. n |-> IF i = 0 THEN x ELSE once(f[i - 1])]
    BY <1>0, <1>6
  <2> QED BY <2>1, Zenon
<1> HIDE DEF loop
<1>8. loop[0] = x /\ \A k \in 1 .. n : loop[k] = once(loop[k - 1])
  BY <1>0, <1>7
<1> QED BY <1>1, <1>2, <1>8, Zenon DEF n, x

LEMMA UnlexLoop ==
  ASSUME NEW T, NEW toks, Len(toks) \in Nat, [toks |-> toks, out |-> << >>] \in T, \A y \in T : UnlexTurn(y) \in T
  PROVE  \E it : /\ it[0] = [toks |-> toks, out |-> << >>] /\ Unlexed(toks) = it[Len(toks)].out
                 /\ \A k \in 1 .. Len(toks) : it[k] = UnlexTurn(it[k - 1])
<1> DEFINE n == Len(toks)
           x == [toks |-> toks, out |-> << >>]
           once(y) == CHOOSE r \in {UnlexTurn(z) : z \in {y}} : TRUE
           loop == CHOOSE it : it = [i \in 0 .. n |-> IF i = 0 THEN x ELSE once(it[i - 1])]
           step == [p \in Nat \X T |-> once(p[2])]
<1>1. \A y : once(y) = UnlexTurn(y)
  OBVIOUS
<1>2. Unlexed(toks) = loop[n].out
  BY Zenon DEF Unlexed, Times, Once
<1>0. n \in Nat /\ x \in T
  OBVIOUS
<1> HIDE DEF once, n, x
<1>3. \A k \in Nat : \A y \in T : step[<<k, y>>] = once(y)
  OBVIOUS
<1> HIDE DEF step
<1>4. \A y \in T : once(y) \in T
  BY <1>1
<1>5. PICK f : IsCourse(f, T, x, step, n)
  <2>1. IsUpdate(step, T)
    BY <1>3, <1>4 DEF IsUpdate
  <2> QED BY <1>0, <2>1, Recursion
<1>6. f \in [0 .. n -> T] /\ f[0] = x /\ \A k \in 1 .. n : f[k] = once(f[k - 1])
  <2>1. ASSUME NEW k \in 1 .. n PROVE f[k] = once(f[k - 1])
    <3>1. k \in Nat /\ f[k - 1] \in T /\ f[k] = step[<<k, f[k - 1]>>]
      BY <1>0, <1>5 DEF IsCourse
    <3> QED BY <1>3, <3>1
  <2> QED BY <1>5, <2>1 DEF IsCourse
<1>7. loop = [i \in 0 .. n |-> IF i = 0 THEN x ELSE once(loop[i - 1])]
  <2>1. f = [i \in 0 .. n |-> IF i = 0 THEN x ELSE once(f[i - 1])]
    BY <1>0, <1>6
  <2> QED BY <2>1, Zenon
<1> HIDE DEF loop
<1>8. loop[0] = x /\ \A k \in 1 .. n : loop[k] = once(loop[k - 1])
  BY <1>0, <1>7
<1> QED BY <1>1, <1>2, <1>8, Zenon DEF n, x

LoadTurns(lines) == Len(lines) + LOAD_MAX \div LINE_MAX + 1

LEMMA LoadTurnsIn ==
  ASSUME NEW lines, Len(lines) \in Nat
  PROVE  LoadTurns(lines) \in Nat /\ Len(lines) <= LoadTurns(lines)
<1>1. LOAD_MAX \in Nat /\ LINE_MAX \in Nat /\ 0 < LINE_MAX
  BY BasicAssumption, Zenon
<1>2. PICK a \in Nat, b \in Nat \ {0} : a = LOAD_MAX /\ b = LINE_MAX
  BY <1>1
<1>3. a \div b \in Nat
  OBVIOUS
<1>4. PICK q \in Nat : q = a \div b
  BY <1>3
<1>5. LoadTurns(lines) = Len(lines) + q + 1
  BY <1>2, <1>4 DEF LoadTurns
<1> QED BY <1>5

LEMMA LoadLoop ==
  ASSUME NEW T, NEW s, Len(s.lines) \in Nat, s \in T, \A y \in T : LoadTurn(y) \in T
  PROVE  \E it : /\ it[0] = s /\ Parsed(s) = it[LoadTurns(s.lines)].prog
                 /\ \A k \in 1 .. LoadTurns(s.lines) : it[k] = LoadTurn(it[k - 1])
<1> DEFINE n == LoadTurns(s.lines)
           x == s
           once(y) == CHOOSE r \in {LoadTurn(z) : z \in {y}} : TRUE
           loop == CHOOSE it : it = [i \in 0 .. n |-> IF i = 0 THEN x ELSE once(it[i - 1])]
           step == [p \in Nat \X T |-> once(p[2])]
<1>1. \A y : once(y) = LoadTurn(y)
  OBVIOUS
<1>2. Parsed(s) = loop[n].prog
  BY Zenon DEF Parsed, Times, Once, LoadTurns
<1>0. n \in Nat /\ x \in T
  BY LoadTurnsIn
<1> HIDE DEF once, n, x
<1>3. \A k \in Nat : \A y \in T : step[<<k, y>>] = once(y)
  OBVIOUS
<1> HIDE DEF step
<1>4. \A y \in T : once(y) \in T
  BY <1>1
<1>5. PICK f : IsCourse(f, T, x, step, n)
  <2>1. IsUpdate(step, T)
    BY <1>3, <1>4 DEF IsUpdate
  <2> QED BY <1>0, <2>1, Recursion
<1>6. f \in [0 .. n -> T] /\ f[0] = x /\ \A k \in 1 .. n : f[k] = once(f[k - 1])
  <2>1. ASSUME NEW k \in 1 .. n PROVE f[k] = once(f[k - 1])
    <3>1. k \in Nat /\ f[k - 1] \in T /\ f[k] = step[<<k, f[k - 1]>>]
      BY <1>0, <1>5 DEF IsCourse
    <3> QED BY <1>3, <3>1
  <2> QED BY <1>5, <2>1 DEF IsCourse
<1>7. loop = [i \in 0 .. n |-> IF i = 0 THEN x ELSE once(loop[i - 1])]
  <2>1. f = [i \in 0 .. n |-> IF i = 0 THEN x ELSE once(f[i - 1])]
    BY <1>0, <1>6
  <2> QED BY <2>1, Zenon
<1> HIDE DEF loop
<1>8. loop[0] = x /\ \A k \in 1 .. n : loop[k] = once(loop[k - 1])
  BY <1>0, <1>7
<1> QED BY <1>1, <1>2, <1>8, Zenon DEF n, x

LEMMA PrintLoop ==
  ASSUME NEW T, NEW x0, Len(tokens) \in Nat, x0 \in T, \A y \in T : PrintItem(y) \in T
  PROVE  \E it : /\ it[0] = x0 /\ PrintItems(x0) = it[Len(tokens)]
                 /\ \A k \in 1 .. Len(tokens) : it[k] = PrintItem(it[k - 1])
<1> DEFINE n == Len(tokens)
           x == x0
           once(y) == CHOOSE r \in {PrintItem(z) : z \in {y}} : TRUE
           loop == CHOOSE it : it = [i \in 0 .. n |-> IF i = 0 THEN x ELSE once(it[i - 1])]
           step == [p \in Nat \X T |-> once(p[2])]
<1>1. \A y : once(y) = PrintItem(y)
  OBVIOUS
<1>2. PrintItems(x0) = loop[n]
  BY Zenon DEF PrintItems, Times, Once
<1>0. n \in Nat /\ x \in T
  OBVIOUS
<1> HIDE DEF once, n, x
<1>3. \A k \in Nat : \A y \in T : step[<<k, y>>] = once(y)
  OBVIOUS
<1> HIDE DEF step
<1>4. \A y \in T : once(y) \in T
  BY <1>1
<1>5. PICK f : IsCourse(f, T, x, step, n)
  <2>1. IsUpdate(step, T)
    BY <1>3, <1>4 DEF IsUpdate
  <2> QED BY <1>0, <2>1, Recursion
<1>6. f \in [0 .. n -> T] /\ f[0] = x /\ \A k \in 1 .. n : f[k] = once(f[k - 1])
  <2>1. ASSUME NEW k \in 1 .. n PROVE f[k] = once(f[k - 1])
    <3>1. k \in Nat /\ f[k - 1] \in T /\ f[k] = step[<<k, f[k - 1]>>]
      BY <1>0, <1>5 DEF IsCourse
    <3> QED BY <1>3, <3>1
  <2> QED BY <1>5, <2>1 DEF IsCourse
<1>7. loop = [i \in 0 .. n |-> IF i = 0 THEN x ELSE once(loop[i - 1])]
  <2>1. f = [i \in 0 .. n |-> IF i = 0 THEN x ELSE once(f[i - 1])]
    BY <1>0, <1>6
  <2> QED BY <2>1, Zenon
<1> HIDE DEF loop
<1>8. loop[0] = x /\ \A k \in 1 .. n : loop[k] = once(loop[k - 1])
  BY <1>0, <1>7
<1> QED BY <1>1, <1>2, <1>8, Zenon DEF n, x

-----------------------------------------------------------------------------
(* Texts and tokens                                                        *)

\* The parts of the assumption that the arithmetic needs.
LEMMA TextFacts ==
  IntHalf \in Nat /\ IntHalf > 0 /\ TOK_MAX \in Nat /\ TOK_MAX > 5
<1>1. IntHalf \in Nat \ {0} /\ TOK_MAX \in Nat /\ TOK_MAX > 5
  BY TextAssumption, Zenon
<1> QED BY <1>1

(* A line of tokens consists of items: a number with its four bytes, a      *)
(* string with its length and its characters, REM with the rest of the      *)
(* line, or a byte that is one character of a text.                        *)

\* No number and no string of c reaches over its end.
Fits(c) ==
  \A q \in 1 .. Len(c) : /\ c[q].t = "NUM" => q + 4 <= Len(c)
                         /\ c[q].t = "STR" => q + 1 + c[q].n <= Len(c)

\* An item of c starts at each place in S.
ItemAt(c, S, q) ==
  \/ c[q].t = "REM" /\ \A j \in q .. Len(c) : c[j] \in Spellings
  \/ c[q].t # "REM" /\ c[q] \in Spellings /\ q + 1 \in S
  \/ c[q].t = "NUM" /\ q + 5 \in S
  \/ c[q].t = "STR" /\ q + 2 + c[q].n \in S /\ \A j \in q + 2 .. q + 1 + c[q].n : c[j] \in Spellings
Cut(c, S) ==
  /\ S \subseteq 1 .. Len(c) + 1 /\ 1 \in S
  /\ \A q \in S : q <= Len(c) => ItemAt(c, S, q)

Toks == {c \in Seq(Lexemes) : Fits(c) /\ \E S : Cut(c, S)}
\* Another item may follow these.
Ends(c, S) == Len(c) + 1 \in S /\ \A q \in S : q <= Len(c) => c[q].t # "REM"
OpenToks == {c \in Seq(Lexemes) : Fits(c) /\ \E S : Cut(c, S) /\ Ends(c, S)}

LexStates == {s \in [text : Seq(Spellings), out : Toks] : s.text # << >> => s.out \in OpenToks}

LEMMA SpellingsIn ==
  /\ Seq(Spellings) \subseteq Seq(Lexemes)
  /\ \A l \in Spellings : l \in Lexemes /\ l.t # "NUM" /\ l.t # "STR" /\ l.t # "byte"
<1>1. Spellings \subseteq Lexemes
  BY DEF Spellings
<1>2. ASSUME NEW s \in Seq(Spellings) PROVE s \in Seq(Lexemes)
  <2>1. Len(s) \in Nat /\ s = [i \in 1 .. Len(s) |-> s[i]] /\ \A i \in 1 .. Len(s) : s[i] \in Lexemes
    BY <1>1
  <2> QED BY <2>1
<1> QED BY <1>2 DEF Spellings

LEMMA ToksIn == Toks \subseteq Seq(Lexemes) /\ OpenToks \subseteq Toks
BY DEF Toks, OpenToks

LEMMA ElementsOf ==
  ASSUME NEW c \in Seq(Lexemes), NEW d \in Seq(Lexemes)
  PROVE  /\ c \o d \in Seq(Lexemes) /\ Len(c \o d) = Len(c) + Len(d) /\ Len(c) \in Nat /\ Len(d) \in Nat
         /\ \A q \in 1 .. Len(c) : (c \o d)[q] = c[q] /\ c[q] \in Lexemes
         /\ \A q \in 1 .. Len(d) : (c \o d)[Len(c) + q] = d[q] /\ d[q] \in Lexemes
         /\ \A q \in 1 .. Len(c) + Len(d) : q <= Len(c) \/ q - Len(c) \in 1 .. Len(d)
OBVIOUS

LEMMA LengthIn == \A l \in Lexemes : l.n \in Int /\ (l.t = "STR" => l.n \in Nat)
BY DEF Lexemes

\* Items in front of items.
LEMMA ItemsJoined ==
  ASSUME NEW c \in OpenToks, NEW d \in Toks
  PROVE  c \o d \in Toks /\ (d \in OpenToks => c \o d \in OpenToks)
<1> DEFINE e == c \o d
           m == Len(c)
           n == Len(d)
<1>1. c \in Seq(Lexemes) /\ d \in Seq(Lexemes) /\ Fits(c) /\ Fits(d)
  BY DEF Toks, OpenToks
<1>2. PICK S : Cut(c, S) /\ Ends(c, S)
  BY DEF OpenToks
<1>3. PICK T : Cut(d, T) /\ (d \in OpenToks => Ends(d, T))
  <2>1. CASE d \in OpenToks
    BY <2>1 DEF OpenToks
  <2>2. CASE d \notin OpenToks
    BY <2>2 DEF Toks
  <2> QED BY <2>1, <2>2
<1> DEFINE U == S \cup {m + t : t \in T}
<1>4. /\ e \in Seq(Lexemes) /\ Len(e) = m + n /\ m \in Nat /\ n \in Nat
      /\ \A q \in 1 .. m : e[q] = c[q] /\ c[q] \in Lexemes
      /\ \A q \in 1 .. n : e[m + q] = d[q] /\ d[q] \in Lexemes
      /\ \A q \in 1 .. m + n : q <= m \/ q - m \in 1 .. n
  BY <1>1, ElementsOf
<1> HIDE DEF e, m, n
<1>5. Fits(e)
  <2> SUFFICES ASSUME NEW q \in 1 .. Len(e)
               PROVE  /\ e[q].t = "NUM" => q + 4 <= Len(e)
                      /\ e[q].t = "STR" => q + 1 + e[q].n <= Len(e)
    BY DEF Fits
  <2>1. CASE q <= m
    <3>1. q \in 1 .. m /\ e[q] = c[q] /\ c[q].n \in Int
      BY <1>4, <2>1, LengthIn
    <3>2. (c[q].t = "NUM" => q + 4 <= m) /\ (c[q].t = "STR" => q + 1 + c[q].n <= m)
      BY <1>1, <3>1 DEF Fits, m
    <3> QED BY <1>4, <3>1, <3>2
  <2>2. CASE q > m
    <3>1. PICK r \in 1 .. n : r = q - m
      BY <1>4, <2>2
    <3>2. e[q] = d[r] /\ d[r].n \in Int
      <4>1. m + r = q
        BY <1>4, <3>1
      <4> QED BY <1>4, <4>1, LengthIn
    <3>3. (d[r].t = "NUM" => r + 4 <= n) /\ (d[r].t = "STR" => r + 1 + d[r].n <= n)
      BY <1>1 DEF Fits, n
    <3> QED BY <1>4, <3>1, <3>2, <3>3
  <2> QED BY <1>4, <2>1, <2>2
<1>6. /\ S \subseteq 1 .. m + 1 /\ 1 \in S /\ \A q \in S : q <= m => ItemAt(c, S, q)
      /\ T \subseteq 1 .. n + 1 /\ 1 \in T /\ \A q \in T : q <= n => ItemAt(d, T, q)
  BY <1>2, <1>3 DEF Cut, m, n
<1>7. U \subseteq 1 .. Len(e) + 1 /\ 1 \in U
  <2>1. ASSUME NEW t \in T PROVE m + t \in 1 .. m + n + 1
    BY <1>4, <1>6
  <2>2. ASSUME NEW q \in S PROVE q \in 1 .. m + n + 1
    BY <1>4, <1>6
  <2> QED BY <1>4, <1>6, <2>1, <2>2
<1>8. ASSUME NEW t \in T, t <= n PROVE ItemAt(e, U, m + t)
  <2>1. t \in 1 .. n /\ e[m + t] = d[t] /\ d[t].n \in Int /\ ItemAt(d, T, t)
    BY <1>4, <1>6, <1>8, LengthIn
  <2>2. \A k \in T : m + k \in U
    OBVIOUS
  <2> HIDE DEF U
  <2>3. CASE d[t].t = "REM" /\ \A j \in t .. n : d[j] \in Spellings
    <3>1. ASSUME NEW j \in m + t .. Len(e) PROVE e[j] \in Spellings
      <4>1. PICK i \in t .. n : j = m + i
        <5>1. j - m \in t .. n /\ j = m + (j - m)
          BY <1>4, <2>1
        <5> QED BY <5>1
      <4>2. i \in 1 .. n /\ e[m + i] = d[i]
        BY <1>4, <2>1
      <4> QED BY <2>3, <4>1, <4>2
    <3> QED BY <2>1, <2>3, <3>1 DEF ItemAt
  <2>4. CASE d[t].t # "REM" /\ d[t] \in Spellings /\ t + 1 \in T
    <3>1. m + (t + 1) = (m + t) + 1
      BY <1>4, <2>1
    <3> QED BY <2>1, <2>2, <2>4, <3>1 DEF ItemAt
  <2>5. CASE d[t].t = "NUM" /\ t + 5 \in T
    <3>1. m + (t + 5) = (m + t) + 5
      BY <1>4, <2>1
    <3> QED BY <2>1, <2>2, <2>5, <3>1 DEF ItemAt
  <2>6. CASE /\ d[t].t = "STR" /\ t + 2 + d[t].n \in T
             /\ \A j \in t + 2 .. t + 1 + d[t].n : d[j] \in Spellings
    <3>0. PICK w \in Int : w = d[t].n
      BY <2>1
    <3>1. m + (t + 2 + w) = (m + t) + 2 + w /\ t + 1 + w <= n
      <4>1. t + 2 + w \in 1 .. n + 1
        BY <1>6, <2>6, <3>0
      <4> QED BY <1>4, <2>1, <4>1
    <3>2. ASSUME NEW j \in (m + t) + 2 .. (m + t) + 1 + d[t].n PROVE e[j] \in Spellings
      <4>1. PICK i \in t + 2 .. t + 1 + w : j = m + i
        <5>1. j - m \in t + 2 .. t + 1 + w /\ j = m + (j - m)
          BY <1>4, <2>1, <3>0
        <5> QED BY <5>1
      <4>2a. i \in 1 .. n
        <5>1. t \in 1 .. n /\ n \in Nat
          BY <1>4, <2>1
        <5> QED BY <3>1, <5>1
      <4>2. i \in 1 .. n /\ e[m + i] = d[i] /\ d[i] \in Spellings
        BY <1>4, <2>6, <3>0, <4>2a
      <4> QED BY <2>6, <4>1, <4>2
    <3>3. (m + t) + 2 + d[t].n \in U
      BY <2>2, <2>6, <3>0, <3>1
    <3> QED BY <2>1, <2>6, <3>2, <3>3 DEF ItemAt
  <2> QED BY <2>1, <2>3, <2>4, <2>5, <2>6 DEF ItemAt, n
<1>9. ASSUME NEW q \in S, q <= m PROVE ItemAt(e, U, q)
  <2>1. q \in 1 .. m /\ e[q] = c[q] /\ c[q].n \in Int /\ ItemAt(c, S, q)
    BY <1>4, <1>6, <1>9, LengthIn
  <2>2. S \subseteq U
    OBVIOUS
  <2> HIDE DEF U
  <2>3. c[q].t # "REM"
    BY <1>2, <2>1 DEF Ends, m
  <2>4. CASE c[q] \in Spellings /\ q + 1 \in S
    BY <2>1, <2>2, <2>3, <2>4 DEF ItemAt
  <2>5. CASE c[q].t = "NUM" /\ q + 5 \in S
    BY <2>1, <2>2, <2>5 DEF ItemAt
  <2>6. CASE /\ c[q].t = "STR" /\ q + 2 + c[q].n \in S
             /\ \A j \in q + 2 .. q + 1 + c[q].n : c[j] \in Spellings
    <3>1. q + 1 + c[q].n <= m
      BY <1>4, <1>6, <2>1, <2>6
    <3>2. ASSUME NEW j \in q + 2 .. q + 1 + c[q].n PROVE e[j] \in Spellings
      <4>1. j \in 1 .. m
        BY <1>4, <2>1, <3>1
      <4> QED BY <1>4, <2>6, <4>1
    <3> QED BY <2>1, <2>2, <2>6, <3>2 DEF ItemAt
  <2> QED BY <2>1, <2>3, <2>4, <2>5, <2>6 DEF ItemAt
<1>10. Cut(e, U)
  <2>1. ASSUME NEW q \in U, q <= Len(e) PROVE ItemAt(e, U, q)
    <3>1. CASE q \in S /\ q <= m
      BY <1>9, <3>1
    <3>2. ASSUME NEW t \in T, q = m + t PROVE ItemAt(e, U, q)
      <4>1. t <= n
        BY <1>4, <1>6, <2>1, <3>2
      <4> QED BY <1>8, <3>2, <4>1
    <3>3. CASE q \in S /\ q > m
      <4>1. q = m + 1 /\ 1 \in T
        BY <1>4, <1>6, <3>3
      <4> QED BY <3>2, <4>1
    <3> QED BY <1>4, <1>6, <3>1, <3>2, <3>3
  <2> HIDE DEF U
  <2> QED BY <1>7, <2>1 DEF Cut
<1>11. d \in OpenToks => Ends(e, U)
  <2> SUFFICES ASSUME d \in OpenToks PROVE Ends(e, U)
    OBVIOUS
  <2>1. n + 1 \in T /\ \A t \in T : t <= n => d[t].t # "REM"
    BY <1>3 DEF Ends, n
  <2>2. m + (n + 1) \in U /\ m + (n + 1) = Len(e) + 1
    BY <1>4, <2>1
  <2>3. ASSUME NEW t \in T, m + t <= Len(e) PROVE e[m + t].t # "REM"
    <3>1. t \in 1 .. n
      BY <1>4, <1>6, <2>3
    <3> QED BY <1>4, <2>1, <3>1
  <2>4. ASSUME NEW q \in S, q <= Len(e) PROVE e[q].t # "REM"
    <3>1. CASE q <= m
      <4>1. q \in 1 .. m
        BY <1>6, <3>1
      <4>2. e[q] = c[q]
        BY <1>4, <4>1
      <4> QED BY <1>2, <3>1, <4>2 DEF Ends, m
    <3>2. CASE q > m
      <4>1. q = m + 1 /\ 1 \in T
        BY <1>4, <1>6, <3>2
      <4> QED BY <2>3, <2>4, <4>1
    <3> QED BY <1>4, <1>6, <3>1, <3>2
  <2>5. \A q \in U : q <= Len(e) => e[q].t # "REM"
    BY <2>3, <2>4
  <2> HIDE DEF U
  <2> QED BY <2>2, <2>5 DEF Ends
<1> HIDE DEF U
<1>12. e \in Toks /\ (d \in OpenToks => e \in OpenToks)
  BY <1>4, <1>5, <1>10, <1>11 DEF Toks, OpenToks
<1> QED BY <1>12 DEF e

\* The rest of a line of tokens from an item on.
LEMMA ItemsBehind ==
  ASSUME NEW c \in Toks, NEW S, Cut(c, S), NEW k \in S
  PROVE  SubSeq(c, k, Len(c)) \in Toks
<1> DEFINE n == Len(c)
           d == SubSeq(c, k, n)
           T == {q - (k - 1) : q \in {p \in S : p >= k}}
<1>1. c \in Seq(Lexemes) /\ Fits(c) /\ n \in Nat
  BY LenProperties DEF Toks
<1>2. S \subseteq 1 .. n + 1 /\ 1 \in S /\ k \in 1 .. n + 1 /\ \A q \in S : q <= n => ItemAt(c, S, q)
  BY DEF Cut
<1> HIDE DEF n
<1>3. PICK m \in Nat : m = k - 1
  BY <1>2
<1>4. /\ d \in Seq(Lexemes) /\ Len(d) = n - m
      /\ \A i \in 1 .. n - m : d[i] = c[m + i] /\ m + i \in 1 .. n /\ c[m + i] \in Lexemes
  <2>1. d \in Seq(Lexemes) /\ Len(d) = IF k <= n THEN n - k + 1 ELSE 0
    BY <1>1, <1>2, PieceOf DEF n
  <2>2. \A i \in 1 .. n - k + 1 : d[i] = c[k + i - 1]
    BY <1>1, <1>2, PieceOf DEF n
  <2>3. ASSUME NEW i \in 1 .. n - m PROVE d[i] = c[m + i] /\ m + i \in 1 .. n /\ c[m + i] \in Lexemes
    <3>1. i \in 1 .. n - k + 1 /\ k + i - 1 = m + i /\ m + i \in 1 .. n
      BY <1>1, <1>2, <1>3
    <3>2. c[m + i] \in Lexemes
      BY <1>1, <3>1, ElementOfSeq DEF n
    <3> QED BY <2>2, <3>1, <3>2
  <2> QED BY <1>1, <1>2, <1>3, <2>1, <2>3
<1> HIDE DEF d
<1>5. Fits(d)
  <2> SUFFICES ASSUME NEW i \in 1 .. n - m
               PROVE  /\ d[i].t = "NUM" => i + 4 <= n - m
                      /\ d[i].t = "STR" => i + 1 + d[i].n <= n - m
    BY <1>4 DEF Fits
  <2>1. PICK q \in 1 .. n : q = m + i /\ d[i] = c[q] /\ c[q].n \in Int
    BY <1>4, LengthIn
  <2>2. PICK w \in Int : w = c[q].n /\ w = d[i].n
    BY <2>1
  <2>3. (d[i].t = "NUM" => q + 4 <= n) /\ (d[i].t = "STR" => q + 1 + w <= n)
    BY <1>1, <2>1, <2>2 DEF Fits, n
  <2>4. (q + 4 <= n => i + 4 <= n - m) /\ (q + 1 + w <= n => i + 1 + w <= n - m)
    <3>1. q = m + i /\ n \in Nat /\ i \in Int /\ q \in Int
      BY <1>1, <2>1
    <3> QED BY <3>1
  <2> QED BY <2>2, <2>3, <2>4
<1>6. ASSUME NEW q \in S, q >= k PROVE q - m \in T
  <2>1. q - (k - 1) \in T
    BY <1>6
  <2> QED BY <1>3, <2>1
<1>7. ASSUME NEW i \in T PROVE m + i \in S /\ i >= 1 /\ i \in Int
  <2>1. PICK q \in S : q >= k /\ i = q - (k - 1)
    OBVIOUS
  <2> QED BY <1>2, <1>3, <2>1
<1> HIDE DEF T
<1>8. T \subseteq 1 .. (n - m) + 1 /\ 1 \in T
  <2>1. ASSUME NEW i \in T PROVE i \in 1 .. (n - m) + 1
    BY <1>1, <1>2, <1>3, <1>7
  <2>2. k - m = 1 /\ k \in S /\ k >= k
    BY <1>2, <1>3
  <2> QED BY <1>6, <2>1, <2>2
<1>9. ASSUME NEW i \in T, i <= n - m PROVE ItemAt(d, T, i)
  <2>1. PICK q \in 1 .. n : q = m + i /\ d[i] = c[q] /\ c[q].n \in Int /\ (c[q].t = "STR" => c[q].n \in Nat)
    <3>1. i \in 1 .. n - m
      BY <1>7, <1>9, <1>1, <1>3
    <3> QED BY <1>4, <3>1, LengthIn
  <2>2. q \in S /\ ItemAt(c, S, q)
    BY <1>2, <1>7, <2>1
  <2>3. ASSUME NEW x \in Nat, q + x \in S PROVE i + x \in T
    <3>1. q + x >= k /\ (q + x) - m = i + x
      BY <1>2, <1>3, <1>7, <2>1
    <3> QED BY <1>6, <2>3, <3>1
  <2>4. ASSUME NEW j \in Int, j >= i, m + j <= n, c[m + j] \in Spellings PROVE d[j] \in Spellings
    <3>1. j \in 1 .. n - m
      BY <1>1, <1>3, <1>7, <2>4
    <3> QED BY <1>4, <2>4, <3>1
  <2>5. CASE c[q].t = "REM" /\ \A j \in q .. n : c[j] \in Spellings
    <3>1. ASSUME NEW j \in i .. Len(d) PROVE d[j] \in Spellings
      <4>1. m + j \in q .. n /\ m + j <= n /\ j >= i
        BY <1>1, <1>3, <1>4, <1>7, <2>1
      <4> QED BY <2>4, <2>5, <4>1
    <3> QED BY <2>1, <2>5, <3>1 DEF ItemAt
  <2>6. CASE c[q].t # "REM" /\ c[q] \in Spellings /\ q + 1 \in S
    BY <2>1, <2>3, <2>6 DEF ItemAt
  <2>7. CASE c[q].t = "NUM" /\ q + 5 \in S
    BY <2>1, <2>3, <2>7 DEF ItemAt
  <2>8. CASE /\ c[q].t = "STR" /\ q + 2 + c[q].n \in S
             /\ \A j \in q + 2 .. q + 1 + c[q].n : c[j] \in Spellings
    <3>0. PICK w \in Nat : w = c[q].n
      BY <2>1, <2>8
    <3>1. q + 1 + w <= n
      BY <1>1, <1>2, <2>1, <2>8, <3>0
    <3>2. ASSUME NEW j \in i + 2 .. i + 1 + c[q].n PROVE d[j] \in Spellings
      <4>0. j \in i + 2 .. i + 1 + w /\ q = m + i /\ n \in Nat /\ i \in Int
        BY <1>1, <1>7, <2>1, <3>0
      <4>1. m + j \in q + 2 .. q + 1 + w /\ m + j <= n /\ j >= i
        BY <3>1, <4>0
      <4> QED BY <2>4, <2>8, <3>0, <4>1
    <3>3. i + 2 + c[q].n \in T
      <4>1. PICK x \in Nat : x = 2 + c[q].n /\ q + x = q + 2 + c[q].n /\ i + x = i + 2 + c[q].n
        BY <1>7, <2>1, <2>8
      <4> QED BY <2>3, <2>8, <4>1
    <3> QED BY <2>1, <2>8, <3>2, <3>3 DEF ItemAt
  <2> QED BY <2>2, <2>5, <2>6, <2>7, <2>8 DEF ItemAt, n
<1>10. Cut(d, T)
  BY <1>4, <1>8, <1>9 DEF Cut
<1>11. d \in Toks
  BY <1>4, <1>5, <1>10 DEF Toks
<1> QED BY <1>11 DEF d, n

LEMMA NumeralIn ==
  ASSUME NEW n \in Int PROVE Wrapped(n) \in Numbers /\ Wrapped(n) \in Int
<1>1. IntHalf \in Nat /\ IntHalf > 0
  BY TextFacts
<1>2. 2 * IntHalf \in Nat /\ 2 * IntHalf > 0 /\ n + IntHalf \in Int
  BY <1>1
<1>3. PICK m \in Nat : m = 2 * IntHalf
  BY <1>2
<1>4. (n + IntHalf) % m \in 0 .. m - 1
  BY <1>2, <1>3
<1> QED BY <1>1, <1>3, <1>4 DEF Wrapped, Numbers, MinInt

LEMMA LexemesIn ==
  /\ \A t \in Words : t \notin {"NUM", "STR", "byte"} => Lex(t) \in Spellings
  /\ \A n \in Int : /\ Number(n) \in Lexemes /\ Digits(n) \in Spellings
                     /\ Byte(n) \in Lexemes /\ Number(n).t = "NUM"
                     /\ Byte(n).t # "NUM" /\ Byte(n).t # "STR"
  /\ \A n \in Nat : [t |-> "STR", n |-> n] \in Lexemes
<1>0. "NUM" \in Words /\ "STR" \in Words /\ "byte" \in Words /\ "digits" \in Words
  BY DEF Words
<1> HIDE DEF Words
<1>1. \A t \in Words : t \notin {"NUM", "STR", "byte"} => Lex(t) \in Spellings
  BY DEF Lex, Lexemes, Spellings
<1>2. \A n \in Int : Number(n) \in Lexemes /\ Digits(n) \in Spellings /\ Number(n).t = "NUM"
  BY <1>0 DEF Number, Digits, Lexemes, Spellings
<1>3. \A n \in Nat : [t |-> "STR", n |-> n] \in Lexemes
  BY <1>0 DEF Lexemes
<1>4. ASSUME NEW n \in Int PROVE Byte(n) \in Lexemes /\ Byte(n).t # "NUM" /\ Byte(n).t # "STR"
  <2>1. n % 256 \in 0 .. 255
    OBVIOUS
  <2>2. PICK k \in 0 .. 255 : k = n % 256
    BY <2>1
  <2>3. Codes[k] \in Words \ {"NUM", "STR"}
    BY CodesAssumption, Zenon
  <2>4. Byte(n) = [t |-> Codes[k], n |-> n]
    BY <2>2 DEF Byte
  <2> QED BY <2>3, <2>4 DEF Lexemes
<1> QED BY <1>1, <1>2, <1>3, <1>4

-----------------------------------------------------------------------------
(* Numbers as characters                                                   *)

LEMMA DigitsIn ==
  /\ \A d \in 0 .. 9 : Digit(d) \in Words
  /\ "-" \in Words
<1>1. ToSet(Chars) \subseteq Words
  BY Zenon DEF Words
<1>2. {"-", Blank, "0", "1", "2", "3", "4", "5", "6", "7", "8", "9"} \subseteq ToSet(Chars)
  BY TextAssumption, Zenon
<1> DEFINE D == {"0", "1", "2", "3", "4", "5", "6", "7", "8", "9"}
<1>3. D \subseteq Words
  BY <1>1, <1>2, Zenon
<1>4. ASSUME NEW d \in 0 .. 9 PROVE Digit(d) \in D
  BY DEF Digit, DigitChars
<1> HIDE DEF D
<1>5. "-" \in Words
  BY DEF Words, Marks
<1> QED BY <1>3, <1>4, <1>5

LEMMA DigitOfIn == ASSUME NEW t, is_dig(t) PROVE DigitOf(t) \in 0 .. 9
BY DEF is_dig, DigitOf

LEMMA TensIn == \A k \in 1 .. 10 : Tens[k] \in Nat \ {0}
BY DEF Tens

LEMMA FiguresIn == ASSUME NEW n \in Int PROVE Figures(n) \in 1 .. 10
<1> DEFINE S == {w \in 1 .. 10 : w = 10 \/ n < Tens[w + 1]}
<1>1. S \subseteq Nat /\ 10 \in S
  OBVIOUS
<1>2. Figures(n) = Min(S)
  BY Zenon DEF Figures
<1>3. S \subseteq 1 .. 10
  OBVIOUS
<1> HIDE DEF S
<1>4. Min(S) \in S
  BY <1>1, LeastIn
<1> QED BY <1>2, <1>3, <1>4

LEMMA DecimalIn ==
  ASSUME NEW n \in Int
  PROVE  /\ Len(Decimal(n)) = Figures(n) /\ Decimal(n) \in Seq(Words)
         /\ \A i \in 1 .. Figures(n) : \E d \in 0 .. 9 : Decimal(n)[i] = Digit(d)
<1>1. PICK w \in 1 .. 10 : w = Figures(n)
  BY FiguresIn
<1>2. ASSUME NEW i \in 1 .. w PROVE (n \div Tens[w - i + 1]) % 10 \in 0 .. 9
  <2>1. w - i + 1 \in 1 .. 10
    BY <1>1
  <2>2. PICK t \in Nat \ {0} : t = Tens[w - i + 1]
    BY <2>1, TensIn
  <2>3. n \div t \in Int
    OBVIOUS
  <2>4. PICK q \in Int : q = n \div t
    BY <2>3
  <2>5. q % 10 \in 0 .. 9
    OBVIOUS
  <2> QED BY <2>2, <2>4, <2>5
<1>3. Decimal(n) = [i \in 1 .. w |-> Digit((n \div Tens[w - i + 1]) % 10)]
  BY <1>1, Zenon DEF Decimal
<1>4. PICK D : D = Decimal(n)
  OBVIOUS
<1>5. ASSUME NEW i \in 1 .. w PROVE D[i] \in Words /\ \E d \in 0 .. 9 : D[i] = Digit(d)
  <2>1. D[i] = Digit((n \div Tens[w - i + 1]) % 10)
    BY <1>3, <1>4
  <2>2. PICK d \in 0 .. 9 : d = (n \div Tens[w - i + 1]) % 10
    BY <1>2
  <2> QED BY <2>1, <2>2, DigitsIn
<1>6. D \in Seq(Words) /\ Len(D) = w
  <2>1. w \in Nat
    BY <1>1
  <2>2. D = [i \in 1 .. w |-> D[i]]
    BY <1>3, <1>4
  <2> QED BY <1>5, <2>1, <2>2
<1> QED BY <1>1, <1>4, <1>5, <1>6

LEMMA NumberAsText == ASSUME NEW v \in Int PROVE i32_to_str(v) \in Seq(Words)
<1>1. <<"-">> \in Seq(Words)
  <2>1. "-" \in Words
    BY DigitsIn
  <2> QED BY <2>1
<1>2. -v \in Int
  OBVIOUS
<1>3. Decimal(v) \in Seq(Words) /\ Decimal(-v) \in Seq(Words)
  BY <1>2, DecimalIn
<1>4. <<"-">> \o Decimal(-v) \in Seq(Words)
  BY <1>1, <1>3, ConcatProperties
<1> QED BY <1>1, <1>3, <1>4, Zenon DEF i32_to_str

\* The value of digits lies within the words it is counted in.
LEMMA ValueOfIn ==
  ASSUME NEW digits, NEW n \in Nat, Len(digits) = n, \A i \in 1 .. n : is_dig(digits[i]),
         NEW low \in Int, NEW size \in Nat \ {0}, low <= 0, 0 < low + size
  PROVE  ValueOf(digits, low, size) \in low .. low + size - 1
<1> DEFINE T == low .. low + size - 1
           turn(v, i) == ((v * 10 + DigitOf(digits[i]) - low) % size) + low
           val == CHOOSE val : val = [i \in 0 .. n |-> IF i = 0 THEN 0 ELSE turn(val[i - 1], i)]
           step == [p \in Nat \X T |-> IF p[1] \in 1 .. n THEN turn(p[2], p[1]) ELSE 0]
<1>1. ValueOf(digits, low, size) = val[n]
  BY Zenon DEF ValueOf
<1>2. 0 \in T
  OBVIOUS
<1>3. ASSUME NEW v \in T, NEW i \in 1 .. n PROVE turn(v, i) \in T
  <2>1. DigitOf(digits[i]) \in 0 .. 9
    BY DigitOfIn
  <2>2. PICK a \in Int : a = v * 10 + DigitOf(digits[i]) - low
    BY <2>1
  <2>3. a % size \in 0 .. size - 1
    OBVIOUS
  <2> QED BY <2>2, <2>3
<1> HIDE DEF turn
<1>4. \A k \in Nat : \A v \in T : step[<<k, v>>] = IF k \in 1 .. n THEN turn(v, k) ELSE 0
  OBVIOUS
<1> HIDE DEF step, T
<1>5. IsUpdate(step, T)
  BY <1>2, <1>3, <1>4 DEF IsUpdate
<1>6. PICK f : IsCourse(f, T, 0, step, n)
  BY <1>2, <1>5, Recursion
<1>7. f \in [0 .. n -> T] /\ f[0] = 0
  BY <1>6 DEF IsCourse
<1>8. ASSUME NEW i \in 1 .. n PROVE f[i] = turn(f[i - 1], i)
  <2>1. i \in Nat /\ i - 1 \in 0 .. n /\ f[i - 1] \in T
    BY <1>7
  <2>2. f[i] = step[<<i, f[i - 1]>>]
    BY <1>6 DEF IsCourse
  <2> QED BY <1>4, <2>1, <2>2
<1>9. f = [i \in 0 .. n |-> IF i = 0 THEN 0 ELSE turn(f[i - 1], i)]
  BY <1>7, <1>8
<1>10. val = [i \in 0 .. n |-> IF i = 0 THEN 0 ELSE turn(val[i - 1], i)]
  BY <1>9, Zenon
<1> HIDE DEF val
<1>11. StaysIn(val, T, n)
  <2>1. val[0] \in T
    BY <1>2, <1>10
  <2>2. ASSUME NEW k \in 1 .. n, val[k - 1] \in T PROVE val[k] \in T
    <3>1. k \in 0 .. n /\ ~(k = 0)
      OBVIOUS
    <3>2. val[k] = IF k = 0 THEN 0 ELSE turn(val[k - 1], k)
      BY <1>10, <3>1, Zenon
    <3> QED BY <1>3, <2>2, <3>1, <3>2
  <2> QED BY <2>1, <2>2 DEF StaysIn
<1>12. val[n] \in T
  BY <1>11, LoopStays
<1> QED BY <1>1, <1>12 DEF T

LEMMA IntOfIn ==
  ASSUME NEW digits, NEW n \in Nat, Len(digits) = n, \A i \in 1 .. n : is_dig(digits[i])
  PROVE  IntOf(digits) \in Numbers /\ IntOf(digits) \in Int
<1>1. MinInt \in Int /\ 2 * IntHalf \in Nat \ {0} /\ MinInt <= 0 /\ 0 < MinInt + 2 * IntHalf
      /\ MinInt + 2 * IntHalf - 1 = -MinInt - 1
  BY TextFacts DEF MinInt
<1>2. PICK low \in Int, size \in Nat \ {0} : low = MinInt /\ size = 2 * IntHalf
  BY <1>1
<1>3. ValueOf(digits, low, size) \in low .. low + size - 1
  BY <1>1, <1>2, ValueOfIn
<1> QED BY <1>1, <1>2, <1>3 DEF IntOf, Numbers

LEMMA DigitsAheadIn ==
  ASSUME NEW S, NEW text \in Seq(S)
  PROVE  /\ DigitsAhead(text) \in 0 .. Len(text)
         /\ \A i \in 1 .. DigitsAhead(text) : is_dig(text[i].t)
<1> DEFINE D == {k \in 0 .. Len(text) : \A i \in 1 .. k : is_dig(text[i].t)}
<1>1. PICK len \in Nat : len = Len(text)
  BY LenProperties
<1>2. D \subseteq 0 .. len /\ 0 \in D
  BY <1>1
<1>3. DigitsAhead(text) = Max(D)
  BY Zenon DEF DigitsAhead
<1> HIDE DEF D
<1>4. Max(D) \in D
  BY <1>1, <1>2, GreatestIn
<1> QED BY <1>3, <1>4 DEF D

LEMMA CharsUptoIn ==
  ASSUME NEW S, NEW text \in Seq(S), NEW n \in 0 .. Len(text), \A i \in 1 .. n : is_dig(text[i].t)
  PROVE  Len(CharsUpto(text, n)) = n /\ n \in Nat /\ \A i \in 1 .. n : is_dig(CharsUpto(text, n)[i])
<1>1. n \in Nat
  BY LenProperties
<1>2. CharsUpto(text, n) = [i \in 1 .. n |-> text[i].t]
  BY DEF CharsUpto
<1> QED BY <1>1, <1>2

LEMMA TextAsNumber == ASSUME NEW s \in Seq(Words) PROVE str_to_i32(s) \in Numbers
<1>1. PICK len \in Nat : len = Len(s)
  BY LenProperties
<1> DEFINE Skipped(i) == \A j \in 1 .. i - 1 : s[j] = Blank
           F == {i \in 1 .. Len(s) + 1 : Skipped(i)}
           first == Max(F)
           neg == first <= Len(s) /\ s[first] = "-"
           from == IF neg THEN first + 1 ELSE first
           E == {i \in from - 1 .. Len(s) : \A j \in from .. i : is_dig(s[j])}
           to == Max(E)
           n == IntOf(SubSeq(s, from, to))
<1>2. str_to_i32(s) = IF neg THEN Wrapped(-n) ELSE n
  BY Zenon DEF str_to_i32
<1>3. first \in 1 .. len + 1
  <2>0. PICK top \in Nat : top = len + 1
    OBVIOUS
  <2>1. 1 \in F /\ F \subseteq 0 .. top
    BY <1>1, <2>0
  <2> HIDE DEF F
  <2>2. first \in F
    BY <2>1, GreatestIn
  <2> QED BY <1>1, <2>2 DEF F
<1> HIDE DEF first
<1>5. from \in Nat \ {0} /\ from <= len + 1
  BY <1>1, <1>3
<1> HIDE DEF from, neg
<1>6. to \in from - 1 .. len /\ \A j \in from .. to : is_dig(s[j])
  <2>1. from - 1 \in E /\ E \subseteq 0 .. len
    BY <1>1, <1>5
  <2> HIDE DEF E
  <2>2. to \in E
    BY <2>1, GreatestIn
  <2> QED BY <1>1, <2>2 DEF E
<1> HIDE DEF to
<1>7. PICK d : d = SubSeq(s, from, to)
  OBVIOUS
<1>8. PICK k \in Nat : k = to - from + 1
  BY <1>5, <1>6
<1>9. Len(d) = k /\ \A i \in 1 .. k : d[i] = s[from + i - 1]
  BY <1>1, <1>5, <1>6, <1>7, <1>8, PieceOf
<1>10. \A i \in 1 .. k : is_dig(d[i])
  <2> SUFFICES ASSUME NEW i \in 1 .. k PROVE is_dig(d[i])
    OBVIOUS
  <2>1. from + i - 1 \in from .. to
    BY <1>5, <1>6, <1>8
  <2> QED BY <1>6, <1>9, <2>1
<1>11. n \in Numbers /\ n \in Int
  BY <1>7, <1>9, <1>10, IntOfIn
<1> HIDE DEF n
<1>12. Wrapped(-n) \in Numbers
  <2>1. -n \in Int
    BY <1>11
  <2> QED BY <2>1, NumeralIn
<1> QED BY <1>2, <1>11, <1>12

-----------------------------------------------------------------------------
(* Items                                                                   *)

LEMMA NoItems == << >> \in OpenToks
<1>1. << >> \in Seq(Lexemes) /\ Len(<< >>) = 0
  OBVIOUS
<1>2. Fits(<< >>) /\ Cut(<< >>, {1}) /\ Ends(<< >>, {1})
  BY <1>1 DEF Fits, Cut, Ends
<1> QED BY <1>1, <1>2 DEF OpenToks

LEMMA OneItem ==
  ASSUME NEW l \in Spellings, l.t # "REM"
  PROVE  <<l>> \in OpenToks /\ <<l>> # << >>
<1> DEFINE c == <<l>>
           S == {1, 2}
<1>1. c \in Seq(Lexemes) /\ Len(c) = 1 /\ c[1] = l /\ l.t # "NUM" /\ l.t # "STR"
  BY SpellingsIn
<1> HIDE DEF c
<1>2. Fits(c)
  BY <1>1 DEF Fits
<1>3. ItemAt(c, S, 1)
  BY <1>1 DEF ItemAt
<1>4. Cut(c, S) /\ Ends(c, S)
  BY <1>1, <1>3 DEF Cut, Ends
<1>5. c # << >>
  BY <1>1
<1> QED BY <1>1, <1>2, <1>4, <1>5 DEF OpenToks, c

LEMMA NumBytesIn ==
  ASSUME NEW n \in Int PROVE NumBytes(n) \in OpenToks /\ NumBytes(n) # << >>
<1> DEFINE c == NumBytes(n)
           S == {1, 6}
           NoItem(l) == l.t # "NUM" /\ l.t # "STR"
<1>1. \A u \in Nat \ {0} : ByteOf(n, u) \in Lexemes /\ NoItem(ByteOf(n, u))
  <2> SUFFICES ASSUME NEW u \in Nat \ {0} PROVE ByteOf(n, u) \in Lexemes /\ NoItem(ByteOf(n, u))
    OBVIOUS
  <2>1. n \div u \in Int
    OBVIOUS
  <2>2. PICK k \in Int : k = n \div u
    BY <2>1
  <2>3. k % 256 \in Int
    OBVIOUS
  <2> QED BY <2>2, <2>3, LexemesIn DEF ByteOf
<1>2. PICK a \in Lexemes, b \in Lexemes, d \in Lexemes, g \in Lexemes :
        c = <<Number(n), a, b, d, g>> /\ NoItem(a) /\ NoItem(b) /\ NoItem(d) /\ NoItem(g)
  BY <1>1 DEF NumBytes
<1>3. Number(n) \in Lexemes /\ Number(n).t = "NUM"
  BY LexemesIn
<1> HIDE DEF c
<1>4. c \in Seq(Lexemes) /\ Len(c) = 5 /\ c[1].t = "NUM" /\ \A q \in 2 .. 5 : NoItem(c[q])
  <2>1. c \in Seq(Lexemes) /\ Len(c) = 5 /\ c[1] = Number(n) /\ c[2] = a /\ c[3] = b /\ c[4] = d /\ c[5] = g
    BY <1>2, <1>3
  <2>2. \A q \in 2 .. 5 : q = 2 \/ q = 3 \/ q = 4 \/ q = 5
    OBVIOUS
  <2> QED BY <1>2, <1>3, <2>1, <2>2
<1>5. Fits(c)
  <2> SUFFICES ASSUME NEW q \in 1 .. 5
               PROVE  (c[q].t = "NUM" => q + 4 <= 5) /\ (c[q].t = "STR" => q + 1 + c[q].n <= 5)
    BY <1>4 DEF Fits
  <2>1. q = 1 \/ q \in 2 .. 5
    OBVIOUS
  <2> QED BY <1>4, <2>1
<1>6. ItemAt(c, S, 1)
  BY <1>4 DEF ItemAt
<1>7. Cut(c, S) /\ Ends(c, S)
  BY <1>4, <1>6 DEF Cut, Ends
<1>8. c # << >>
  <2>1. Len(<< >>) = 0
    BY EmptySeq
  <2>2. Len(<< >>) # 5
    BY <2>1
  <2> QED BY <1>4, <2>2, Zenon
<1> QED BY <1>4, <1>5, <1>7, <1>8 DEF OpenToks, c

LEMMA StrBytesIn ==
  ASSUME NEW raw \in Seq(Spellings)
  PROVE  StrBytes(Len(raw)) \in Seq(Lexemes) /\ StrBytes(Len(raw)) \o raw \in OpenToks
         /\ StrBytes(Len(raw)) \o raw # << >>
<1> DEFINE n == Len(raw)
           b == StrBytes(n)
           c == b \o raw
           S == {1, n + 3}
<1>1. n \in Nat /\ raw \in Seq(Lexemes)
  BY LenProperties, SpellingsIn
<1> HIDE DEF n
<1>2. b \in Seq(Lexemes) /\ Len(b) = 2 /\ b[1].t = "STR" /\ b[1].n = n /\ b[2].t # "NUM" /\ b[2].t # "STR"
  <2>1. [t |-> "STR", n |-> n] \in Lexemes /\ Byte(n) \in Lexemes /\ Byte(n).t # "NUM" /\ Byte(n).t # "STR"
    BY <1>1, LexemesIn
  <2> QED BY <2>1 DEF StrBytes
<1> HIDE DEF b
<1>3. /\ c \in Seq(Lexemes) /\ Len(c) = n + 2 /\ c[1].t = "STR" /\ c[1].n = n /\ c[2].t # "NUM" /\ c[2].t # "STR"
      /\ \A q \in 1 .. n : c[2 + q] = raw[q]
  <2>1. /\ c \in Seq(Lexemes) /\ Len(c) = Len(b) + Len(raw)
        /\ \A q \in 1 .. Len(b) : c[q] = b[q]
        /\ \A q \in 1 .. Len(raw) : c[Len(b) + q] = raw[q]
    BY <1>1, <1>2, ElementsOf
  <2>2. c[1] = b[1] /\ c[2] = b[2]
    BY <1>2, <2>1
  <2> QED BY <1>1, <1>2, <2>1, <2>2 DEF n
<1> HIDE DEF c
<1>4. ASSUME NEW q \in 3 .. n + 2 PROVE c[q] \in Spellings
  <2>1. PICK i \in 1 .. n : q = 2 + i
    <3>1. q - 2 \in 1 .. n /\ q = 2 + (q - 2)
      BY <1>1
    <3> QED BY <3>1
  <2>2. raw[i] \in Spellings
    BY ElementOfSeq DEF n
  <2> QED BY <1>3, <2>1, <2>2
<1>5. Fits(c)
  <2> SUFFICES ASSUME NEW q \in 1 .. n + 2
               PROVE  (c[q].t = "NUM" => q + 4 <= n + 2) /\ (c[q].t = "STR" => q + 1 + c[q].n <= n + 2)
    BY <1>3 DEF Fits
  <2>1. q = 1 \/ q = 2 \/ q \in 3 .. n + 2
    BY <1>1
  <2>2. CASE q \in 3 .. n + 2
    BY <1>4, <2>2, SpellingsIn
  <2>3. CASE q = 1
    BY <1>1, <1>3, <2>3
  <2>4. CASE q = 2
    BY <1>1, <1>3, <2>4
  <2> QED BY <2>1, <2>2, <2>3, <2>4
<1>6. ItemAt(c, S, 1)
  <2>1. 1 + 2 + c[1].n = n + 3 /\ 1 + 1 + c[1].n = n + 2 /\ 1 + 2 = 3
    BY <1>1, <1>3
  <2>2. c[1].t = "STR" /\ 1 + 2 + c[1].n \in S /\ \A j \in 1 + 2 .. 1 + 1 + c[1].n : c[j] \in Spellings
    BY <1>3, <1>4, <2>1
  <2> QED BY <2>2 DEF ItemAt
<1>7. Cut(c, S) /\ Ends(c, S)
  <2>1. S \subseteq 1 .. Len(c) + 1 /\ 1 \in S /\ Len(c) + 1 \in S
    BY <1>1, <1>3
  <2>2. \A q \in S : q <= Len(c) => q = 1
    BY <1>1, <1>3
  <2> QED BY <1>3, <1>6, <2>1, <2>2 DEF Cut, Ends
<1>8. c # << >>
  BY <1>1, <1>3
<1> QED BY <1>2, <1>3, <1>5, <1>7, <1>8 DEF OpenToks, b, c, n

LEMMA RemIn ==
  ASSUME NEW l \in Spellings, l.t = "REM", NEW raw \in Seq(Spellings)
  PROVE  <<l>> \o raw \in Toks /\ <<l>> \o raw # << >>
<1> DEFINE c == <<l>> \o raw
           S == {1}
<1>1. c \in Seq(Spellings) /\ Len(c) >= 1 /\ c[1] = l /\ Len(c) \in Nat
  OBVIOUS
<1> HIDE DEF c
<1>2. \A j \in 1 .. Len(c) : c[j] \in Spellings
  BY <1>1, ElementOfSeq
<1>3. c \in Seq(Lexemes)
  BY <1>1, SpellingsIn
<1>4. Fits(c)
  BY <1>2, SpellingsIn DEF Fits
<1>5. Cut(c, S)
  BY <1>1, <1>2 DEF Cut, ItemAt
<1>6. c # << >>
  BY <1>1
<1> QED BY <1>3, <1>4, <1>5, <1>6 DEF Toks, c

LEMMA JoinedIn ==
  ASSUME NEW S, NEW s \in Seq(S), NEW t \in Seq(S)
  PROVE  /\ s \o t \in Seq(S)
         /\ t # << >> \/ s # << >> => s \o t # << >>
BY ConcatProperties, ConcatEqualIffEmpty

LEMMA Regrouped ==
  ASSUME NEW a \in Seq(Lexemes), NEW b \in Seq(Lexemes), NEW c \in Seq(Lexemes)
  PROVE  (a \o b) \o c = a \o (b \o c)
BY ConcatAssociative

LEMMA LexStateIn ==
  ASSUME NEW text \in Seq(Spellings), NEW out \in OpenToks
  PROVE  [text |-> text, out |-> out] \in LexStates /\ [text |-> text, out |-> out].out = out
BY ToksIn DEF LexStates

\* Each turn of tokenize puts something out.
LEMMA NoDigits == \A t \in {"REM", "digits", Quote, "NUM", "STR", "byte"} : ~is_dig(t)
<1> DEFINE D == {"0", "1", "2", "3", "4", "5", "6", "7", "8", "9"}
<1>1. ASSUME NEW d \in 0 .. 9 PROVE Digit(d) \in D
  BY DEF Digit, DigitChars
<1>2. D \cap {"REM", "digits", Quote, "NUM", "STR", "byte"} = {}
  BY DEF Quote
<1> HIDE DEF D
<1> QED BY <1>1, <1>2 DEF is_dig

LEMMA LexTurnIn ==
  ASSUME NEW s \in LexStates
  PROVE  /\ LexTurn(s) \in LexStates
         /\ s.out # << >> => LexTurn(s).out # << >>
         /\ s.text # << >> /\ Len(s.out) < TOK_MAX - 5 => LexTurn(s).out # << >>
<1>0. s.out \in Seq(Lexemes) /\ s.out \in Toks /\ s.text \in Seq(Spellings)
  BY ToksIn DEF LexStates
<1>1. CASE s.text = << >> \/ Len(s.out) >= TOK_MAX - 5
  <2>1. Len(s.out) \in Int /\ TOK_MAX \in Int
    BY <1>0, TextFacts, LenProperties
  <2> QED BY <1>1, <2>1 DEF LexTurn
<1>2. CASE ~(s.text = << >> \/ Len(s.out) >= TOK_MAX - 5)
  <2> DEFINE first == Head(s.text)
             rest == Tail(s.text)
             room == TOK_MAX - 1 - Len(s.out)
             quotes == {i \in DOMAIN rest : rest[i].t = Quote}
             end == IF quotes = {} THEN Len(rest) + 1 ELSE Min(quotes)
             raw == Upto(rest, 1, Min({end - 1, room - 2}))
             past == IF Len(raw) = end - 1 THEN end + 1 ELSE Len(raw) + 1
             ahead == DigitsAhead(s.text)
  <2>1. s.text \in Seq(Spellings) /\ s.out \in OpenToks /\ s.out \in Seq(Lexemes) /\ s.text # << >>
    BY <1>0, <1>2 DEF LexStates
  <2>2. first \in Spellings /\ rest \in Seq(Spellings)
    BY <2>1, HeadTailProperties
  <2>3. first.t \in Words /\ first.n \in Int /\ first \in Lexemes
    BY <2>2, SpellingsIn DEF Lexemes
  <2>4. room \in Int /\ Len(rest) \in Nat /\ DOMAIN rest = 1 .. Len(rest)
    BY <2>1, <2>2, LenProperties, TextFacts
  <2>5. end \in Nat \ {0}
    <3>1. quotes \subseteq 1 .. Len(rest) /\ quotes \subseteq Nat
      BY <2>4
    <3> HIDE DEF quotes
    <3>2. quotes # {} => Min(quotes) \in quotes
      BY <3>1, LeastIn
    <3>3. quotes # {} => Min(quotes) \in 1 .. Len(rest)
      BY <3>1, <3>2
    <3> QED BY <2>4, <3>3
  <2> HIDE DEF first, rest, room, end, ahead
  <2>6. raw \in Seq(Spellings) /\ Len(raw) \in Nat
    <3>1. Min({end - 1, room - 2}) \in Int
      BY <2>4, <2>5, LeastOfTwo
    <3>2. raw \in Seq(Spellings)
      BY <2>2, <3>1, UptoIn
    <3> QED BY <3>2, LenProperties
  <2> HIDE DEF raw
  <2>7. LexTurn(s) = LexStep(s)
    BY <1>2 DEF LexTurn
  <2>8. LexStep(s) =
          CASE first.t = "REM" -> [text |-> << >>, out |-> Append(s.out, first) \o Upto(rest, 1, room - 1)]
            [] first.t = "digits" -> [text |-> rest, out |-> s.out \o NumBytes(Wrapped(first.n))]
            [] is_dig(first.t) ->
                 [text |-> SubSeq(s.text, ahead + 1, Len(s.text)),
                  out |-> s.out \o NumBytes(IntOf(CharsUpto(s.text, ahead)))]
            [] first.t = Quote -> [text |-> SubSeq(rest, past, Len(rest)),
                                   out |-> s.out \o StrBytes(Len(raw)) \o raw]
            [] OTHER -> [text |-> rest, out |-> Append(s.out, first)]
    BY Zenon DEF LexStep, first, rest, room, quotes, end, raw, past, ahead
  <2>9. ASSUME NEW d, d # << >>, d \in Toks
        PROVE  /\ s.out \o d \in Toks /\ s.out \o d # << >>
               /\ d \in OpenToks => s.out \o d \in OpenToks
    BY <2>1, <2>9, ItemsJoined, JoinedIn, ToksIn
  <2>10. << >> \in Seq(Spellings) /\ <<first>> \in Seq(Lexemes)
    BY <2>3
  <2>11. CASE first.t = "REM"
    <3>1. Upto(rest, 1, room - 1) \in Seq(Spellings)
      BY <2>2, <2>4, UptoIn
    <3>2. Append(s.out, first) \o Upto(rest, 1, room - 1) = s.out \o (<<first>> \o Upto(rest, 1, room - 1))
      <4>1. Append(s.out, first) = s.out \o <<first>>
        BY <2>1, <2>3, AppendIsConcat
      <4>2. PICK u \in Seq(Lexemes) : u = Upto(rest, 1, room - 1)
        BY <3>1, SpellingsIn
      <4>3. (s.out \o <<first>>) \o u = s.out \o (<<first>> \o u)
        BY <2>1, <2>10, Regrouped
      <4> QED BY <4>1, <4>2, <4>3, Zenon
    <3>3. PICK out \in Toks : out = Append(s.out, first) \o Upto(rest, 1, room - 1) /\ out # << >>
      BY <2>2, <2>9, <2>11, <3>1, <3>2, RemIn
    <3>4. LexStep(s) = [text |-> << >>, out |-> out]
      BY <2>8, <2>11, <3>3, NoDigits, Zenon DEF Quote
    <3> QED BY <2>7, <2>10, <3>3, <3>4 DEF LexStates
  <2>12. CASE first.t = "digits"
    <3>1. NumBytes(Wrapped(first.n)) \in OpenToks /\ NumBytes(Wrapped(first.n)) # << >>
      BY <2>3, NumeralIn, NumBytesIn
    <3>2. PICK out \in OpenToks : out = s.out \o NumBytes(Wrapped(first.n)) /\ out # << >>
      BY <2>9, <3>1, ToksIn
    <3>3. LexStep(s) = [text |-> rest, out |-> out]
      BY <2>8, <2>12, <3>2, NoDigits, Zenon DEF Quote
    <3>4. LexStep(s) \in LexStates /\ LexStep(s).out = out
      BY <2>2, <3>2, <3>3, LexStateIn, Zenon
    <3> QED BY <2>7, <3>2, <3>4
  <2>13. CASE first.t = Quote
    <3>1. /\ StrBytes(Len(raw)) \in Seq(Lexemes) /\ StrBytes(Len(raw)) \o raw \in OpenToks
          /\ StrBytes(Len(raw)) \o raw # << >>
      BY <2>6, StrBytesIn
    <3>2. s.out \o StrBytes(Len(raw)) \o raw = s.out \o (StrBytes(Len(raw)) \o raw)
      <4>1. raw \in Seq(Lexemes)
        BY <2>6, SpellingsIn
      <4> QED BY <2>1, <3>1, <4>1, Regrouped, Zenon
    <3>3. PICK out \in OpenToks : out = s.out \o StrBytes(Len(raw)) \o raw /\ out # << >>
      BY <2>9, <3>1, <3>2, ToksIn
    <3>4. past \in Nat \ {0}
      BY <2>5, <2>6
    <3>5. SubSeq(rest, past, Len(rest)) \in Seq(Spellings)
      BY <2>2, <2>4, <3>4, PieceOf
    <3>6. LexStep(s) = [text |-> SubSeq(rest, past, Len(rest)), out |-> out]
      <4>1. ~is_dig(first.t) /\ first.t # "REM" /\ first.t # "digits"
        BY <2>13, NoDigits DEF Quote
      <4> QED BY <2>8, <2>13, <3>3, <4>1, Zenon
    <3>7. LexStep(s) \in LexStates /\ LexStep(s).out = out
      BY <3>3, <3>5, <3>6, LexStateIn, Zenon
    <3> QED BY <2>7, <3>3, <3>7
  <2>14. CASE first.t \notin {"REM", "digits", Quote} /\ ~is_dig(first.t)
    <3>1. LexStep(s) = [text |-> rest, out |-> Append(s.out, first)]
      BY <2>8, <2>14
    <3>2. Append(s.out, first) = s.out \o <<first>>
      BY <2>1, <2>3, AppendIsConcat
    <3>3. PICK out \in OpenToks : out = Append(s.out, first) /\ out # << >>
      BY <2>2, <2>9, <2>14, <3>2, OneItem, ToksIn
    <3>4. LexStep(s) \in LexStates /\ LexStep(s).out = out
      BY <2>2, <3>1, <3>3, LexStateIn, Zenon
    <3> QED BY <2>7, <3>3, <3>4
  <2>15. CASE is_dig(first.t)
    <3>0. ~(first.t = "REM") /\ ~(first.t = "digits") /\ ~(first.t = Quote)
      BY <2>15, NoDigits
    <3>1. PICK k \in 0 .. Len(s.text) : k = ahead /\ \A i \in 1 .. k : is_dig(s.text[i].t)
      BY <2>1, DigitsAheadIn DEF ahead
    <3>2. IntOf(CharsUpto(s.text, k)) \in Int
      BY <2>1, <3>1, CharsUptoIn, IntOfIn
    <3>3. NumBytes(IntOf(CharsUpto(s.text, k))) \in OpenToks /\ NumBytes(IntOf(CharsUpto(s.text, k))) # << >>
      BY <3>2, NumBytesIn
    <3>4. PICK out \in OpenToks : out = s.out \o NumBytes(IntOf(CharsUpto(s.text, k))) /\ out # << >>
      BY <2>9, <3>3, ToksIn
    <3>5. PICK left \in Seq(Spellings) : left = SubSeq(s.text, k + 1, Len(s.text))
      <4>1. PICK m \in Nat \ {0} : m = k + 1
        BY <3>1
      <4>2. PICK e \in Nat : e = Len(s.text)
        BY <2>1, LenProperties
      <4>3. e <= Len(s.text)
        BY <4>2
      <4>4. SubSeq(s.text, m, e) \in Seq(Spellings)
        BY <2>1, <4>3, PieceOf
      <4> QED BY <4>1, <4>2, <4>4
    <3>6. LexStep(s) = [text |-> left, out |-> out]
      BY <2>8, <2>15, <3>0, <3>1, <3>4, <3>5, Zenon
    <3>7. LexStep(s) \in LexStates /\ LexStep(s).out = out
      BY <3>4, <3>6, LexStateIn, Zenon
    <3> QED BY <2>7, <3>4, <3>7
  <2> QED BY <2>11, <2>12, <2>13, <2>14, <2>15
<1> QED BY <1>1, <1>2

LEMMA TokenizeIn ==
  ASSUME NEW text \in Seq(Spellings)
  PROVE  /\ tokenize(text) \in Toks /\ tokenize(text) \in Seq(Lexemes)
         /\ text # << >> => tokenize(text) # << >>
<1> DEFINE x == [text |-> text, out |-> << >>]
           n == Len(text)
           T == {y \in LexStates : y.out # << >>}
<1>1. x \in LexStates /\ n \in Nat
  BY NoItems, ToksIn, LenProperties DEF LexStates
<1>2. \A y \in LexStates : LexTurn(y) \in LexStates
  BY LexTurnIn
<1>3. PICK it : /\ it[0] = x /\ tokenize(text) = it[n].out
                /\ \A k \in 1 .. n : it[k] = LexTurn(it[k - 1])
  BY <1>1, <1>2, LexLoop
<1>4. x.text = text /\ x.out = << >> /\ Len(x.out) = 0
  OBVIOUS
<1>5. text # << >> => n >= 1
  BY <1>1, EmptySeq
<1> HIDE DEF x, n
<1>6. it[n] \in LexStates
  <2>1. StaysIn(it, LexStates, n)
    BY <1>1, <1>2, <1>3 DEF StaysIn
  <2> QED BY <1>1, <2>1, LoopStays
<1>7. ASSUME text # << >> PROVE it[n] \in T
  <2>1. it[1] = LexTurn(x)
    BY <1>1, <1>3, <1>5, <1>7
  <2>2. Len(x.out) < TOK_MAX - 5
    BY <1>4, TextFacts
  <2>3. it[1] \in T
    BY <1>1, <1>4, <1>7, <2>1, <2>2, LexTurnIn
  <2> DEFINE jt == [k \in 0 .. n - 1 |-> it[k + 1]]
  <2>4. StaysIn(jt, T, n - 1)
    <3>1. jt[0] \in T
      BY <1>1, <1>5, <1>7, <2>3
    <3>2. ASSUME NEW k \in 1 .. n - 1, jt[k - 1] \in T PROVE jt[k] \in T
      <4>1. jt[k] = it[k + 1] /\ jt[k - 1] = it[k] /\ k + 1 \in 1 .. n /\ (k + 1) - 1 = k
        BY <1>1
      <4>2. it[k + 1] = LexTurn(it[k])
        BY <1>3, <4>1
      <4> QED BY <3>2, <4>1, <4>2, LexTurnIn
    <3> QED BY <3>1, <3>2 DEF StaysIn
  <2>5. jt[n - 1] = it[n] /\ n - 1 \in Nat
    BY <1>1, <1>5, <1>7
  <2> HIDE DEF jt, T
  <2> QED BY <2>4, <2>5, LoopStays
<1> QED BY <1>3, <1>6, <1>7, ToksIn DEF LexStates

-----------------------------------------------------------------------------
(* Sums of sizes                                                           *)

IsSum(sum, s) ==
  /\ sum \in [0 .. Len(s) -> Nat] /\ sum[0] = 0
  /\ \A i \in 1 .. Len(s) : sum[i] = sum[i - 1] + s[i]

LEMMA TotalSum ==
  ASSUME NEW s \in Seq(Nat)
  PROVE  \E sum : IsSum(sum, s) /\ Total(s) = sum[Len(s)]
<1> DEFINE n == Len(s)
           loop == CHOOSE sum : sum = [i \in 0 .. n |-> IF i = 0 THEN 0 ELSE sum[i - 1] + s[i]]
           step == [p \in Nat \X Nat |-> p[2] + (IF p[1] \in 1 .. n THEN s[p[1]] ELSE 0)]
<1>1. n \in Nat /\ \A i \in 1 .. n : s[i] \in Nat
  BY LenProperties, ElementOfSeq
<1>2. Total(s) = loop[n]
  BY DEF Total
<1> HIDE DEF n
<1>3. PICK f : IsCourse(f, Nat, 0, step, n)
  <2>1. IsUpdate(step, Nat)
    BY <1>1 DEF IsUpdate
  <2> HIDE DEF step
  <2> QED BY <1>1, <2>1, Recursion
<1>4. f \in [0 .. n -> Nat] /\ f[0] = 0 /\ \A i \in 1 .. n : f[i] = f[i - 1] + s[i]
  <2>1. ASSUME NEW i \in 1 .. n PROVE f[i] = f[i - 1] + s[i]
    <3>1. i \in Nat /\ i - 1 \in 0 .. n /\ f[i - 1] \in Nat
      BY <1>1, <1>3 DEF IsCourse
    <3>2. f[i] = step[<<i, f[i - 1]>>]
      BY <1>3 DEF IsCourse
    <3> QED BY <3>1, <3>2
  <2> HIDE DEF step
  <2> QED BY <1>3, <2>1 DEF IsCourse
<1>5. loop = [i \in 0 .. n |-> IF i = 0 THEN 0 ELSE loop[i - 1] + s[i]]
  <2>1. f = [i \in 0 .. n |-> IF i = 0 THEN 0 ELSE f[i - 1] + s[i]]
    BY <1>1, <1>4
  <2> QED BY <2>1, Zenon
<1> HIDE DEF loop
<1>6. \A i \in 0 .. n : loop[i] = f[i]
  <2> DEFINE S == {i \in Nat : i <= n => loop[i] = f[i]}
  <2>1. 0 \in S
    BY <1>1, <1>4, <1>5
  <2>2. ASSUME NEW i \in Nat, i \in S PROVE i + 1 \in S
    <3>1. ASSUME i + 1 <= n PROVE loop[i + 1] = f[i + 1]
      <4>1. i + 1 \in 1 .. n /\ (i + 1) - 1 = i /\ loop[i] = f[i]
        BY <1>1, <2>2, <3>1
      <4>2. loop[i + 1] = loop[i] + s[i + 1]
        BY <1>1, <1>5, <4>1
      <4> QED BY <1>4, <4>1, <4>2
    <3> QED BY <3>1
  <2> HIDE DEF S
  <2>3. Nat \subseteq S
    BY <2>1, <2>2, InductionOnSets
  <2> QED BY <1>1, <2>3 DEF S
<1>7. IsSum(f, s)
  BY <1>4 DEF IsSum, n
<1> QED BY <1>1, <1>2, <1>6, <1>7 DEF n

\* t is s with one more number, at i.
Inserted(s, t, i) ==
  /\ Len(t) = Len(s) + 1
  /\ \A j \in 1 .. i - 1 : t[j] = s[j]
  /\ \A j \in i .. Len(s) : t[j + 1] = s[j]

LEMMA TotalInserted ==
  ASSUME NEW s \in Seq(Nat), NEW t \in Seq(Nat), NEW i \in 1 .. Len(s) + 1, Inserted(s, t, i)
  PROVE  Total(t) = Total(s) + t[i] /\ Total(s) \in Nat /\ t[i] \in Nat
<1>1. PICK n \in Nat : n = Len(s) /\ Len(t) = n + 1
  BY LenProperties DEF Inserted
<1>2. PICK a : IsSum(a, s) /\ Total(s) = a[n]
  BY <1>1, TotalSum
<1>3. PICK b : IsSum(b, t) /\ Total(t) = b[n + 1]
  BY <1>1, TotalSum
<1>4. t[i] \in Nat /\ i \in 1 .. n + 1
  BY <1>1, ElementOfSeq
<1>a. a \in [0 .. n -> Nat] /\ a[0] = 0 /\ \A k \in 1 .. n : a[k] = a[k - 1] + s[k]
  BY <1>1, <1>2 DEF IsSum
<1>b. b \in [0 .. n + 1 -> Nat] /\ b[0] = 0 /\ \A k \in 1 .. n + 1 : b[k] = b[k - 1] + t[k]
  BY <1>1, <1>3 DEF IsSum
<1>c. (\A k \in 1 .. i - 1 : t[k] = s[k]) /\ \A k \in i .. n : t[k + 1] = s[k]
  BY <1>1 DEF Inserted
<1>d. \A k \in 1 .. n : s[k] \in Nat
  BY <1>1, ElementOfSeq
<1> DEFINE S == {k \in Nat : /\ k <= i - 1 => b[k] = a[k]
                             /\ i <= k + 1 /\ k <= n => b[k + 1] = a[k] + t[i]}
<1>5. 0 \in S
  BY <1>1, <1>4, <1>a, <1>b
<1>6. ASSUME NEW k \in Nat, k \in S PROVE k + 1 \in S
  <2>1. ASSUME k + 1 <= i - 1 PROVE b[k + 1] = a[k + 1]
    <3>1. k + 1 \in 1 .. n /\ k + 1 \in 1 .. i - 1 /\ k + 1 \in 1 .. n + 1 /\ (k + 1) - 1 = k
      BY <1>1, <1>4, <2>1
    <3>2. a[k + 1] = a[k] + s[k + 1] /\ b[k + 1] = b[k] + t[k + 1] /\ t[k + 1] = s[k + 1]
      BY <1>a, <1>b, <1>c, <3>1
    <3>3. b[k] = a[k]
      BY <1>6, <2>1, <1>4
    <3> QED BY <3>2, <3>3
  <2>2. ASSUME i <= k + 2, k + 1 <= n PROVE b[k + 2] = a[k + 1] + t[i]
    <3>1. k + 1 \in 1 .. n /\ k + 2 \in 1 .. n + 1 /\ (k + 1) - 1 = k /\ (k + 2) - 1 = k + 1 /\ k \in 0 .. n
      BY <1>1, <2>2
    <3>2. a[k + 1] = a[k] + s[k + 1] /\ b[k + 2] = b[k + 1] + t[k + 2] /\ b[k + 1] = b[k] + t[k + 1]
      <4>1. k + 1 \in 1 .. n + 1
        BY <3>1
      <4> QED BY <1>a, <1>b, <3>1, <4>1
    <3>3. a[k] \in Nat /\ s[k + 1] \in Nat /\ b[k] \in Nat
      BY <1>a, <1>b, <1>d, <3>1
    <3>4. CASE i = k + 2
      <4>1. k + 1 \in 1 .. i - 1
        BY <3>4
      <4>2. t[k + 1] = s[k + 1]
        BY <1>c, <4>1
      <4>3. b[k] = a[k]
        BY <1>6, <3>4
      <4> QED BY <1>4, <3>2, <3>3, <3>4, <4>2, <4>3
    <3>5. CASE i # k + 2
      <4>1. i <= k + 1 /\ k + 1 \in i .. n
        BY <1>4, <2>2, <3>5
      <4>2. t[k + 2] = s[k + 1]
        <5>1. t[(k + 1) + 1] = s[k + 1] /\ (k + 1) + 1 = k + 2
          BY <1>c, <4>1
        <5> QED BY <5>1
      <4>3. b[k + 1] = a[k] + t[i]
        BY <1>6, <2>2, <4>1
      <4>4. PICK u \in Nat, v \in Nat, w \in Nat : u = a[k] /\ v = s[k + 1] /\ w = t[i]
        BY <1>4, <3>3
      <4>5. a[k + 1] = u + v /\ b[k + 2] = (u + w) + v
        BY <3>2, <4>2, <4>3, <4>4
      <4>6. b[k + 2] = a[k + 1] + w
        <5>1. a[k + 1] \in Nat /\ b[k + 2] \in Nat
          BY <1>a, <1>b, <3>1
        <5> QED BY <4>5, <5>1
      <4> QED BY <4>4, <4>6, Zenon
    <3> QED BY <3>4, <3>5
  <2>3. (k + 1) + 1 = k + 2
    OBVIOUS
  <2> QED BY <2>1, <2>2, <2>3
<1> HIDE DEF S
<1>7. Nat \subseteq S
  BY <1>5, <1>6, InductionOnSets
<1>8. b[n + 1] = a[n] + t[i]
  <2>1. n \in S
    BY <1>7
  <2> QED BY <1>1, <1>4, <2>1 DEF S
<1>9. a[n] \in Nat
  BY <1>1, <1>a
<1> QED BY <1>2, <1>3, <1>4, <1>8, <1>9

-----------------------------------------------------------------------------
(* The program store                                                       *)

ProgLines == [num : Nat \ {0}, toks : Toks \ {<< >>}]
Ordered(p) == \A i, j \in 1 .. Len(p) : i < j => p[i].num < p[j].num
Programs == {p \in Seq(ProgLines) : Ordered(p)}
Stores == {p \in Programs : prog_used(p) <= PROG_SIZE}

LEMMA LineIn ==
  ASSUME NEW p \in Seq(ProgLines), NEW i \in 1 .. Len(p)
  PROVE  /\ p[i] \in ProgLines /\ p[i].num \in Nat \ {0}
         /\ p[i].toks \in Toks /\ p[i].toks \in Seq(Lexemes) /\ p[i].toks # << >>
         /\ LineSize(p[i]) \in Nat
<1>1. p[i] \in ProgLines
  BY ElementOfSeq
<1>2. p[i].num \in Nat \ {0} /\ p[i].toks \in Toks /\ p[i].toks \in Seq(Lexemes) /\ p[i].toks # << >>
  BY <1>1, ToksIn DEF ProgLines
<1>3. Len(p[i].toks) \in Nat
  BY <1>2, LenProperties
<1> QED BY <1>1, <1>2, <1>3 DEF LineSize

LEMMA PlaceOf ==
  ASSUME NEW p \in Programs, NEW num \in Nat
  PROVE  /\ find_insert_pos(p, num) \in 1 .. Len(p) + 1
         /\ \A j \in 1 .. Len(p) : j < find_insert_pos(p, num) <=> p[j].num < num
<1> DEFINE hits == {i \in 1 .. Len(p) : p[i].num >= num}
           S == hits \cup {Len(p) + 1}
<1>1. Len(p) \in Nat /\ \A i \in 1 .. Len(p) : p[i].num \in Nat
  BY LenProperties, LineIn DEF Programs
<1>2. S \subseteq Nat /\ S # {}
  BY <1>1
<1>3. PICK m : m = Min(S) /\ m \in S /\ \A y \in S : m <= y
  <2> HIDE DEF S
  <2> QED BY <1>2, LeastIn
<1>4. find_insert_pos(p, num) = m
  BY <1>3 DEF find_insert_pos
<1>5. m \in 1 .. Len(p) + 1
  BY <1>1, <1>3
<1>6. ASSUME NEW j \in 1 .. Len(p) PROVE j < m <=> p[j].num < num
  <2>1. ASSUME j < m PROVE p[j].num < num
    <3>1. j \notin hits
      BY <1>1, <1>3, <1>5, <2>1
    <3> QED BY <1>1, <3>1
  <2>2. ASSUME ~(j < m) PROVE ~(p[j].num < num)
    <3>1. m \in hits
      BY <1>1, <1>3, <1>5, <2>2
    <3>2. m = j \/ p[m].num < p[j].num
      BY <1>1, <1>5, <2>2, <3>1 DEF Programs, Ordered
    <3> QED BY <1>1, <3>1, <3>2
  <2> QED BY <2>1, <2>2
<1> QED BY <1>4, <1>5, <1>6

\* A line is where find_insert_pos says, or nowhere.
LEMMA LinePlace ==
  ASSUME NEW p \in Programs, NEW num \in Nat
  PROVE  /\ \A j \in 1 .. Len(p) : p[j].num = num => j = find_insert_pos(p, num)
         /\ prog_has_line(p, num) <=>
              find_insert_pos(p, num) <= Len(p) /\ p[find_insert_pos(p, num)].num = num
         /\ prog_has_line(p, num) <=> \E j \in 1 .. Len(p) : p[j].num = num
<1>1. PICK m : m = find_insert_pos(p, num)
  OBVIOUS
<1>2. m \in 1 .. Len(p) + 1 /\ \A j \in 1 .. Len(p) : j < m <=> p[j].num < num
  BY <1>1, PlaceOf
<1>3. Len(p) \in Nat /\ \A i \in 1 .. Len(p) : p[i].num \in Nat
  BY LenProperties, LineIn DEF Programs
<1>4. ASSUME NEW j \in 1 .. Len(p), p[j].num = num PROVE j = m
  <2>1. ~(j < m)
    BY <1>2, <1>3, <1>4
  <2>2. m \in 1 .. Len(p) /\ ~(m < m)
    BY <1>2, <1>3, <2>1
  <2>3. ~(p[m].num < num)
    BY <1>2, <2>2
  <2>4. m = j \/ p[m].num < p[j].num
    BY <1>2, <1>3, <2>1, <2>2 DEF Programs, Ordered
  <2> QED BY <1>4, <2>3, <2>4
<1>5. prog_has_line(p, num) <=> m <= Len(p) /\ p[m].num = num
  BY <1>1 DEF prog_has_line
<1> QED BY <1>1, <1>2, <1>3, <1>4, <1>5

\* The sizes of the lines.
Sizes(p) == [i \in 1 .. Len(p) |-> LineSize(p[i])]

LEMMA SizesIn ==
  ASSUME NEW p \in Seq(ProgLines)
  PROVE  /\ Sizes(p) \in Seq(Nat) /\ Len(Sizes(p)) = Len(p) /\ prog_used(p) = Total(Sizes(p))
         /\ \A i \in 1 .. Len(p) : Sizes(p)[i] = LineSize(p[i])
<1>1. Len(p) \in Nat /\ \A i \in 1 .. Len(p) : LineSize(p[i]) \in Nat
  BY LenProperties, LineIn
<1>2. Sizes(p) \in Seq(Nat) /\ Len(Sizes(p)) = Len(p)
  BY <1>1 DEF Sizes
<1> QED BY <1>1, <1>2 DEF Sizes, prog_used

\* Two programs that differ by one line.
LEMMA UsedInserted ==
  ASSUME NEW p \in Seq(ProgLines), NEW q \in Seq(ProgLines),
         NEW i \in 1 .. Len(p) + 1, Inserted(p, q, i)
  PROVE  /\ prog_used(p) \in Nat /\ LineSize(q[i]) \in Nat
         /\ prog_used(q) = prog_used(p) + LineSize(q[i])
<1>1. Len(p) \in Nat /\ Len(q) = Len(p) + 1
  BY LenProperties DEF Inserted
<1>2. Inserted(Sizes(p), Sizes(q), i)
  <2>1. Len(Sizes(p)) = Len(p) /\ Len(Sizes(q)) = Len(q)
    BY SizesIn
  <2>2. ASSUME NEW j \in 1 .. i - 1 PROVE Sizes(q)[j] = Sizes(p)[j]
    <3>1. j \in 1 .. Len(p) /\ j \in 1 .. Len(q) /\ q[j] = p[j]
      BY <1>1 DEF Inserted
    <3> QED BY <3>1, SizesIn
  <2>3. ASSUME NEW j \in i .. Len(p) PROVE Sizes(q)[j + 1] = Sizes(p)[j]
    <3>1. j \in 1 .. Len(p) /\ j + 1 \in 1 .. Len(q) /\ q[j + 1] = p[j]
      BY <1>1 DEF Inserted
    <3> QED BY <3>1, SizesIn
  <2> QED BY <1>1, <2>1, <2>2, <2>3 DEF Inserted
<1>3. /\ Sizes(p) \in Seq(Nat) /\ Sizes(q) \in Seq(Nat) /\ i \in 1 .. Len(Sizes(p)) + 1
      /\ prog_used(p) = Total(Sizes(p)) /\ prog_used(q) = Total(Sizes(q))
  BY SizesIn
<1>4. Sizes(q)[i] = LineSize(q[i])
  <2>1. i \in 1 .. Len(q)
    BY <1>1
  <2> QED BY <2>1, SizesIn
<1> QED BY <1>2, <1>3, <1>4, TotalInserted

LEMMA RemovedLine ==
  ASSUME NEW S, NEW p \in Seq(S), NEW i \in 1 .. Len(p)
  PROVE  /\ RemoveAt(p, i) \in Seq(S)
         /\ i \in 1 .. Len(RemoveAt(p, i)) + 1 /\ Inserted(RemoveAt(p, i), p, i)
<1>1. PICK n \in Nat : n = Len(p)
  BY LenProperties
<1> DEFINE a == SubSeq(p, 1, i - 1)
           b == SubSeq(p, i + 1, n)
<1>2. i \in Nat /\ i \in 1 .. n
  BY <1>1
<1>3. a \in Seq(S) /\ Len(a) = i - 1 /\ \A j \in 1 .. i - 1 : a[j] = p[j]
  BY <1>1, <1>2, PieceOf
<1>4. b \in Seq(S) /\ Len(b) = n - i /\ \A j \in 1 .. n - i : b[j] = p[j + i]
  BY <1>1, <1>2, PieceOf
<1>5. RemoveAt(p, i) = a \o b
  BY <1>1 DEF RemoveAt
<1> HIDE DEF a, b
<1>6. /\ a \o b \in Seq(S) /\ Len(a \o b) = n - 1
      /\ \A j \in 1 .. n - 1 : (a \o b)[j] = IF j <= i - 1 THEN a[j] ELSE b[j - (i - 1)]
  <2>1. /\ a \o b \in Seq(S) /\ Len(a \o b) = Len(a) + Len(b)
        /\ \A j \in 1 .. Len(a) + Len(b) : (a \o b)[j] = IF j <= Len(a) THEN a[j] ELSE b[j - Len(a)]
    BY <1>3, <1>4, ConcatProperties
  <2>2. Len(a) + Len(b) = n - 1
    BY <1>2, <1>3, <1>4
  <2> QED BY <1>3, <2>1, <2>2
<1>7. ASSUME NEW j \in 1 .. i - 1 PROVE p[j] = (a \o b)[j]
  BY <1>2, <1>3, <1>6
<1>8. ASSUME NEW j \in i .. n - 1 PROVE p[j + 1] = (a \o b)[j]
  <2>1. j - (i - 1) \in 1 .. n - i /\ (j - (i - 1)) + i = j + 1
    BY <1>2
  <2>2. b[j - (i - 1)] = p[j + 1]
    BY <1>4, <2>1
  <2>3. (a \o b)[j] = b[j - (i - 1)]
    BY <1>2, <1>6
  <2> QED BY <2>2, <2>3
<1>9. Len(p) = Len(a \o b) + 1 /\ i \in 1 .. Len(a \o b) + 1
  BY <1>1, <1>2, <1>6
<1>10. Inserted(a \o b, p, i)
  BY <1>6, <1>7, <1>8, <1>9 DEF Inserted
<1> QED BY <1>5, <1>6, <1>9, <1>10

LEMMA InsertedLine ==
  ASSUME NEW S, NEW p \in Seq(S), NEW i \in 1 .. Len(p) + 1, NEW l \in S
  PROVE  InsertAt(p, i, l) \in Seq(S) /\ Inserted(p, InsertAt(p, i, l), i) /\ InsertAt(p, i, l)[i] = l
<1>1. PICK n \in Nat : n = Len(p)
  BY LenProperties
<1> DEFINE a == SubSeq(p, 1, i - 1)
           b == SubSeq(p, i, n)
           c == a \o <<l>>
<1>2. i \in Nat \ {0} /\ i \in 1 .. n + 1
  BY <1>1
<1>3. a \in Seq(S) /\ Len(a) = i - 1 /\ \A j \in 1 .. i - 1 : a[j] = p[j]
  BY <1>1, <1>2, PieceOf
<1>4. b \in Seq(S) /\ Len(b) = n - i + 1 /\ \A j \in 1 .. n - i + 1 : b[j] = p[i + j - 1]
  BY <1>1, <1>2, PieceOf
<1>5. InsertAt(p, i, l) = c \o b
  BY <1>1 DEF InsertAt
<1> HIDE DEF a, b
<1>6. <<l>> \in Seq(S) /\ Len(<<l>>) = 1 /\ <<l>>[1] = l
  OBVIOUS
<1>7. c \in Seq(S) /\ Len(c) = i /\ \A j \in 1 .. i : c[j] = IF j <= i - 1 THEN a[j] ELSE <<l>>[j - (i - 1)]
  BY <1>2, <1>3, <1>6, ConcatProperties
<1>8. c[i] = l /\ \A j \in 1 .. i - 1 : c[j] = p[j]
  BY <1>2, <1>3, <1>6, <1>7
<1> HIDE DEF c
<1>9. /\ c \o b \in Seq(S) /\ Len(c \o b) = n + 1
      /\ \A j \in 1 .. n + 1 : (c \o b)[j] = IF j <= i THEN c[j] ELSE b[j - i]
  BY <1>1, <1>2, <1>4, <1>7, ConcatProperties
<1>10. ASSUME NEW j \in 1 .. i - 1 PROVE (c \o b)[j] = p[j]
  <2>1. j \in 1 .. n + 1 /\ j <= i
    BY <1>2
  <2>2. (c \o b)[j] = c[j]
    BY <1>9, <2>1
  <2>3. c[j] = p[j]
    BY <1>8
  <2> QED BY <2>2, <2>3
<1>11. ASSUME NEW j \in i .. n PROVE (c \o b)[j + 1] = p[j]
  <2>1. (j + 1) - i \in 1 .. n - i + 1 /\ i + ((j + 1) - i) - 1 = j
    BY <1>2
  <2>2. b[(j + 1) - i] = p[j]
    BY <1>4, <2>1
  <2>3. (c \o b)[j + 1] = b[(j + 1) - i]
    BY <1>2, <1>9
  <2> QED BY <2>2, <2>3
<1>12. (c \o b)[i] = l
  BY <1>2, <1>8, <1>9
<1> QED BY <1>1, <1>5, <1>9, <1>10, <1>11, <1>12 DEF Inserted

\* The order of the lines survives when one is taken out, ...
LEMMA OrderedShrunk ==
  ASSUME NEW p \in Seq(ProgLines), NEW q \in Seq(ProgLines), NEW i \in 1 .. Len(p) + 1,
         Inserted(p, q, i), Ordered(q)
  PROVE  Ordered(p) /\ \A j \in 1 .. Len(p) : p[j].num # q[i].num
<1>1. PICK n \in Nat : n = Len(p) /\ Len(q) = n + 1
  BY LenProperties DEF Inserted
<1> DEFINE at(j) == IF j < i THEN j ELSE j + 1
<1>2. ASSUME NEW j \in 1 .. n PROVE at(j) \in 1 .. n + 1 /\ q[at(j)] = p[j]
  <2>1. CASE j < i
    <3>1. j \in 1 .. i - 1
      BY <2>1, <1>1
    <3> QED BY <3>1, <2>1 DEF Inserted
  <2>2. CASE ~(j < i)
    <3>1. j \in i .. Len(p)
      BY <2>2, <1>1
    <3> QED BY <3>1, <2>2 DEF Inserted
  <2> QED BY <2>1, <2>2
<1>3. ASSUME NEW j \in 1 .. n, NEW k \in 1 .. n, j < k PROVE p[j].num < p[k].num
  <2>1. at(j) < at(k)
    BY <1>1, <1>3
  <2>2. q[at(j)].num < q[at(k)].num
    <3>1. at(j) \in 1 .. Len(q) /\ at(k) \in 1 .. Len(q)
      BY <1>1, <1>2
    <3> HIDE DEF at
    <3> QED BY <2>1, <3>1 DEF Ordered
  <2> HIDE DEF at
  <2> QED BY <1>2, <2>2
<1>4. ASSUME NEW j \in 1 .. n PROVE p[j].num # q[i].num
  <2>1. /\ at(j) < i \/ i < at(j)
        /\ at(j) \in 1 .. n + 1 /\ i \in 1 .. n + 1
    BY <1>1, <1>2
  <2> HIDE DEF at
  <2>2. q[at(j)].num \in Nat /\ q[i].num \in Nat
    BY <1>1, <2>1, LineIn
  <2>3. q[at(j)].num < q[i].num \/ q[i].num < q[at(j)].num
    BY <1>1, <2>1 DEF Ordered
  <2> QED BY <1>2, <2>2, <2>3
<1> QED BY <1>1, <1>3, <1>4 DEF Ordered

\* ... and when one is put where it belongs.
LEMMA OrderedGrown ==
  ASSUME NEW p \in Seq(ProgLines), NEW q \in Seq(ProgLines), NEW i \in 1 .. Len(p) + 1,
         Inserted(p, q, i), Ordered(p),
         \A j \in 1 .. Len(p) : IF j < i THEN p[j].num < q[i].num ELSE q[i].num < p[j].num
  PROVE  Ordered(q)
<1>1. PICK n \in Nat : n = Len(p) /\ Len(q) = n + 1
  BY LenProperties DEF Inserted
<1> DEFINE from(j) == IF j < i THEN j ELSE j - 1
<1>2. ASSUME NEW j \in 1 .. n + 1, j # i PROVE from(j) \in 1 .. n /\ q[j] = p[from(j)]
  <2>1. CASE j < i
    <3>1. j \in 1 .. i - 1 /\ j \in 1 .. n
      BY <2>1, <1>1
    <3> QED BY <3>1, <2>1 DEF Inserted
  <2>2. CASE ~(j < i)
    <3>1. j - 1 \in i .. Len(p) /\ (j - 1) + 1 = j /\ j - 1 \in 1 .. n
      BY <2>2, <1>1, <1>2
    <3>2. q[(j - 1) + 1] = p[j - 1]
      BY <3>1 DEF Inserted
    <3> QED BY <3>1, <3>2, <2>2
  <2> QED BY <2>1, <2>2
<1>3. ASSUME NEW j \in 1 .. n + 1, NEW k \in 1 .. n + 1, j < k PROVE q[j].num < q[k].num
  <2>1. CASE j = i
    <3>1. k # i /\ ~(from(k) < i) /\ from(k) \in 1 .. n
      BY <1>1, <1>2, <1>3, <2>1
    <3>2. q[i].num < p[from(k)].num
      <4> HIDE DEF from
      <4> QED BY <1>1, <3>1
    <3> QED BY <1>2, <2>1, <3>1, <3>2
  <2>2. CASE k = i
    <3>1. j # i /\ from(j) < i /\ from(j) \in 1 .. n
      BY <1>1, <1>2, <1>3, <2>2
    <3>2. p[from(j)].num < q[i].num
      <4> HIDE DEF from
      <4> QED BY <1>1, <3>1
    <3> QED BY <1>2, <2>2, <3>1, <3>2
  <2>3. CASE j # i /\ k # i
    <3>1. from(j) < from(k) /\ from(j) \in 1 .. n /\ from(k) \in 1 .. n
      BY <1>1, <1>2, <1>3, <2>3
    <3>2. p[from(j)].num < p[from(k)].num
      <4> HIDE DEF from
      <4> QED BY <1>1, <3>1 DEF Ordered
    <3> HIDE DEF from
    <3> QED BY <1>2, <2>3, <3>2
  <2> QED BY <2>1, <2>2, <2>3
<1> QED BY <1>1, <1>3 DEF Ordered

\* The lines with another number.
OthersOf(p, num) == {p[i] : i \in {j \in DOMAIN p : p[j].num # num}}

LEMMA OthersInserted ==
  ASSUME NEW p \in Seq(ProgLines), NEW q \in Seq(ProgLines), NEW i \in 1 .. Len(p) + 1,
         Inserted(p, q, i)
  PROVE  OthersOf(p, q[i].num) = OthersOf(q, q[i].num)
<1>1. PICK n \in Nat : n = Len(p) /\ Len(q) = n + 1 /\ DOMAIN p = 1 .. n /\ DOMAIN q = 1 .. n + 1
  BY LenProperties DEF Inserted
<1>2. ASSUME NEW j \in 1 .. n PROVE \E k \in 1 .. n + 1 : q[k] = p[j]
  <2>1. CASE j < i
    <3>1. j \in 1 .. i - 1 /\ j \in 1 .. n + 1
      BY <2>1, <1>1
    <3> QED BY <3>1 DEF Inserted
  <2>2. CASE ~(j < i)
    <3>1. j \in i .. Len(p) /\ j + 1 \in 1 .. n + 1
      BY <2>2, <1>1
    <3> QED BY <3>1 DEF Inserted
  <2> QED BY <2>1, <2>2
<1>3. ASSUME NEW j \in 1 .. n + 1, j # i PROVE \E k \in 1 .. n : q[j] = p[k]
  <2>1. CASE j < i
    <3>1. j \in 1 .. i - 1 /\ j \in 1 .. n
      BY <2>1, <1>1
    <3> QED BY <3>1 DEF Inserted
  <2>2. CASE ~(j < i)
    <3>1. j - 1 \in i .. Len(p) /\ (j - 1) + 1 = j /\ j - 1 \in 1 .. n
      BY <2>2, <1>1, <1>3
    <3>2. q[(j - 1) + 1] = p[j - 1]
      BY <3>1 DEF Inserted
    <3> QED BY <3>1, <3>2
  <2> QED BY <2>1, <2>2
<1>4. PICK num : num = q[i].num
  OBVIOUS
<1>5. OthersOf(p, num) = {p[j] : j \in {k \in 1 .. n : p[k].num # num}}
  BY <1>1 DEF OthersOf
<1>6. OthersOf(q, num) = {q[j] : j \in {k \in 1 .. n + 1 : q[k].num # num}}
  BY <1>1 DEF OthersOf
<1>7. ASSUME NEW l \in OthersOf(p, num) PROVE l \in OthersOf(q, num)
  BY <1>2, <1>5, <1>6, <1>7
<1>8. ASSUME NEW l \in OthersOf(q, num) PROVE l \in OthersOf(p, num)
  BY <1>3, <1>4, <1>5, <1>6, <1>8
<1> QED BY <1>4, <1>7, <1>8

LEMMA LineDeleted ==
  ASSUME NEW p \in Programs, NEW num \in Nat
  PROVE  /\ prog_delete_line(p, num) \in Programs
         /\ prog_used(p) \in Nat => prog_used(prog_delete_line(p, num)) <= prog_used(p)
         /\ \A j \in 1 .. Len(prog_delete_line(p, num)) : prog_delete_line(p, num)[j].num # num
         /\ OthersOf(prog_delete_line(p, num), num) = OthersOf(p, num)
<1>0. p \in Seq(ProgLines) /\ Ordered(p)
  BY DEF Programs
<1>1. CASE ~prog_has_line(p, num)
  <2>1. \A j \in 1 .. Len(p) : p[j].num # num
    BY <1>1, LinePlace
  <2>2. prog_delete_line(p, num) = p
    BY <1>1 DEF prog_delete_line
  <2> QED BY <2>1, <2>2
<1>2. CASE prog_has_line(p, num)
  <2>1. PICK i : i = find_insert_pos(p, num)
    OBVIOUS
  <2>2. i \in 1 .. Len(p) /\ p[i].num = num
    <3>1. Len(p) \in Nat /\ i \in 1 .. Len(p) + 1
      BY <1>0, <2>1, LenProperties, PlaceOf
    <3> QED BY <1>2, <2>1, <3>1, LinePlace
  <2>3. PICK d : d = RemoveAt(p, i)
    OBVIOUS
  <2>4. prog_delete_line(p, num) = d
    BY <1>2, <2>1, <2>3 DEF prog_delete_line
  <2>5. d \in Seq(ProgLines) /\ i \in 1 .. Len(d) + 1 /\ Inserted(d, p, i)
    BY <1>0, <2>2, <2>3, RemovedLine
  <2>6. Ordered(d) /\ \A j \in 1 .. Len(d) : d[j].num # num
    BY <1>0, <2>2, <2>5, OrderedShrunk
  <2>7. prog_used(d) \in Nat /\ LineSize(p[i]) \in Nat /\ prog_used(p) = prog_used(d) + LineSize(p[i])
    BY <1>0, <2>5, UsedInserted
  <2>8. prog_used(d) <= prog_used(p)
    BY <2>7
  <2>9. OthersOf(d, num) = OthersOf(p, num)
    BY <1>0, <2>2, <2>5, OthersInserted
  <2> QED BY <2>4, <2>5, <2>6, <2>8, <2>9 DEF Programs
<1> QED BY <1>1, <1>2

LEMMA UsedIn == ASSUME NEW p \in Seq(ProgLines) PROVE prog_used(p) \in Nat
<1>1. Sizes(p) \in Seq(Nat) /\ prog_used(p) = Total(Sizes(p))
  BY SizesIn
<1>2. PICK sum : IsSum(sum, Sizes(p)) /\ Total(Sizes(p)) = sum[Len(Sizes(p))]
  BY <1>1, TotalSum
<1>3. Len(Sizes(p)) \in Nat
  BY <1>1, LenProperties
<1> QED BY <1>1, <1>2, <1>3 DEF IsSum

LEMMA DeletedIn ==
  ASSUME NEW p \in Stores, NEW num \in Nat
  PROVE  prog_delete_line(p, num) \in Stores
<1>1. p \in Programs /\ p \in Seq(ProgLines) /\ prog_used(p) <= PROG_SIZE
  BY DEF Stores, Programs
<1>2. prog_used(p) \in Nat /\ PROG_SIZE \in Nat
  BY <1>1, UsedIn, ProgramAssumption
<1>3. prog_delete_line(p, num) \in Programs /\ prog_used(prog_delete_line(p, num)) <= prog_used(p)
  BY <1>1, <1>2, LineDeleted
<1>4. prog_used(prog_delete_line(p, num)) \in Nat
  BY <1>3, UsedIn DEF Programs
<1> QED BY <1>1, <1>2, <1>3, <1>4 DEF Stores

LEMMA LineInserted ==
  ASSUME NEW p \in Stores, NEW num \in Nat \ {0}, NEW toks \in Toks, toks # << >>
  PROVE  /\ prog_insert_line(p, num, toks) \in Stores
         /\ OthersOf(prog_insert_line(p, num, toks), num) = OthersOf(p, num)
<1> DEFINE l == [num |-> num, toks |-> toks]
<1>1. PICK d : d = prog_delete_line(p, num)
  OBVIOUS
<1>2. /\ d \in Stores /\ d \in Programs /\ d \in Seq(ProgLines) /\ Ordered(d)
      /\ \A j \in 1 .. Len(d) : d[j].num # num
      /\ OthersOf(d, num) = OthersOf(p, num)
  BY <1>1, DeletedIn, LineDeleted DEF Stores, Programs
<1>3. l \in ProgLines /\ l.num = num
  BY DEF ProgLines
<1> HIDE DEF l
<1>4. CASE prog_used(d) + LineSize(l) > PROG_SIZE
  <2>1. prog_insert_line(p, num, toks) = d
    BY <1>1, <1>4 DEF prog_insert_line, l
  <2> QED BY <1>2, <2>1
<1>5. CASE ~(prog_used(d) + LineSize(l) > PROG_SIZE)
  <2>1. PICK i : i = find_insert_pos(d, num)
    OBVIOUS
  <2>2. i \in 1 .. Len(d) + 1 /\ \A j \in 1 .. Len(d) : j < i <=> d[j].num < num
    BY <1>2, <2>1, PlaceOf
  <2>3. PICK q : q = InsertAt(d, i, l)
    OBVIOUS
  <2>4. prog_insert_line(p, num, toks) = q
    BY <1>1, <1>5, <2>1, <2>3 DEF prog_insert_line, l
  <2>5. q \in Seq(ProgLines) /\ Inserted(d, q, i) /\ q[i] = l
    BY <1>2, <1>3, <2>2, <2>3, InsertedLine
  <2>6. Ordered(q)
    <3>1. ASSUME NEW j \in 1 .. Len(d)
          PROVE  IF j < i THEN d[j].num < q[i].num ELSE q[i].num < d[j].num
      <4>1. d[j].num \in Nat /\ q[i].num = num /\ d[j].num # num
        BY <1>2, <1>3, <2>5, LineIn
      <4> QED BY <2>2, <4>1
    <3> QED BY <1>2, <2>2, <2>5, <3>1, OrderedGrown
  <2>7. prog_used(q) <= PROG_SIZE
    <3>1. /\ prog_used(d) \in Nat /\ LineSize(l) \in Nat
          /\ prog_used(q) = prog_used(d) + LineSize(l)
      BY <1>2, <2>2, <2>5, UsedInserted
    <3> QED BY <1>5, <3>1, ProgramAssumption
  <2>8. OthersOf(q, num) = OthersOf(d, num)
    BY <1>2, <1>3, <2>2, <2>5, OthersInserted
  <2> QED BY <1>2, <2>4, <2>5, <2>6, <2>7, <2>8 DEF Stores, Programs
<1> QED BY <1>4, <1>5

\* Nothing in store.
LEMMA EmptyStore == << >> \in Stores
<1>1. << >> \in Seq(ProgLines) /\ Len(<< >>) = 0
  BY EmptySeq
<1>2. Sizes(<< >>) \in Seq(Nat) /\ Len(Sizes(<< >>)) = 0 /\ prog_used(<< >>) = Total(Sizes(<< >>))
  BY <1>1, SizesIn
<1>3. PICK sum : IsSum(sum, Sizes(<< >>)) /\ Total(Sizes(<< >>)) = sum[0]
  BY <1>2, TotalSum
<1>4. prog_used(<< >>) = 0
  BY <1>2, <1>3 DEF IsSum
<1>5. Ordered(<< >>)
  BY <1>1 DEF Ordered
<1>6. prog_used(<< >>) <= PROG_SIZE
  BY <1>4, ProgramAssumption
<1> QED BY <1>1, <1>5, <1>6 DEF Stores, Programs

-----------------------------------------------------------------------------
(* Texts as characters                                                     *)

LEMMA TotalIn == ASSUME NEW s \in Seq(Nat) PROVE Total(s) \in Nat
<1>1. PICK sum : IsSum(sum, s) /\ Total(s) = sum[Len(s)]
  BY TotalSum
<1>2. Len(s) \in 0 .. Len(s)
  BY LenProperties
<1> QED BY <1>1, <1>2 DEF IsSum

LEMMA SpellIn ==
  ASSUME NEW l \in Spellings, l.t \in Keywords \cup Pairs
  PROVE  Spell[l.t] \in Seq(Words \ {"NUM", "STR", "byte"}) /\ Len(Spell[l.t]) \in Nat
<1>1. Spell[l.t] \in Seq(Words \ {"NUM", "STR", "byte"})
  BY SpellAssumption, Zenon
<1> QED BY <1>1, LenProperties

LEMMA SizeIn == ASSUME NEW l \in Spellings PROVE Size(l) \in Nat
<1>1. l.n \in Int
  BY SpellingsIn DEF Lexemes
<1>2. Figures(l.n) \in Nat /\ 1 \in Nat
  BY <1>1, FiguresIn
<1>3. l.t \in Keywords \cup Pairs => Len(Spell[l.t]) \in Nat
  BY SpellIn
<1> QED BY <1>2, <1>3, Zenon DEF Size

LEMMA SpreadIn == ASSUME NEW l \in Spellings PROVE Spread(l) \in Seq(Spellings)
<1>1. l.n \in Int
  BY SpellingsIn DEF Lexemes
<1>2. ASSUME NEW n \in Nat, NEW f, \A i \in 1 .. n : f[i] \in Words \ {"NUM", "STR", "byte"}
      PROVE  [i \in 1 .. n |-> Lex(f[i])] \in Seq(Spellings)
  <2>1. \A i \in 1 .. n : Lex(f[i]) \in Spellings
    BY <1>2, LexemesIn
  <2> QED BY <2>1
<1>3. [i \in 1 .. Figures(l.n) |-> Lex(Decimal(l.n)[i])] \in Seq(Spellings)
  <2>1. PICK w \in Nat : w = Figures(l.n)
    BY <1>1, FiguresIn
  <2>2. PICK D : D = Decimal(l.n)
    OBVIOUS
  <2>3. ASSUME NEW i \in 1 .. w PROVE D[i] \in Words \ {"NUM", "STR", "byte"}
    <3>1. PICK d \in 0 .. 9 : D[i] = Digit(d)
      BY <1>1, <2>1, <2>2, DecimalIn
    <3>2. D[i] \in Words /\ is_dig(D[i])
      BY <3>1, DigitsIn DEF is_dig
    <3> QED BY <3>2, NoDigits
  <2> QED BY <1>2, <2>1, <2>2, <2>3
<1>4. ASSUME l.t \in Keywords \cup Pairs
      PROVE  [i \in 1 .. Len(Spell[l.t]) |-> Lex(Spell[l.t][i])] \in Seq(Spellings)
  <2>1. PICK f \in Seq(Words \ {"NUM", "STR", "byte"}) : f = Spell[l.t]
    BY <1>4, SpellIn
  <2>2. PICK n \in Nat : n = Len(f)
    BY LenProperties
  <2>3. \A i \in 1 .. n : f[i] \in Words \ {"NUM", "STR", "byte"}
    BY <2>2, ElementOfSeq
  <2> QED BY <1>2, <2>1, <2>2, <2>3
<1>5. <<l>> \in Seq(Spellings)
  OBVIOUS
<1> QED BY <1>3, <1>4, <1>5, Zenon DEF Spread

LEMMA WidthIn == ASSUME NEW text \in Seq(Spellings) PROVE Width(text) \in Nat
<1>1. PICK n \in Nat : n = Len(text)
  BY LenProperties
<1>2. \A i \in 1 .. n : Size(text[i]) \in Nat
  BY <1>1, ElementOfSeq, SizeIn
<1>3. PICK sizes : sizes = [i \in 1 .. n |-> Size(text[i])]
  OBVIOUS
<1>4. sizes \in Seq(Nat)
  BY <1>2, <1>3
<1> QED BY <1>1, <1>3, <1>4, TotalIn DEF Width

LEMMA WholeIn ==
  ASSUME NEW text \in Seq(Spellings), NEW m \in Int
  PROVE  /\ Whole(text, m) \in 0 .. Len(text)
         /\ \A k \in 0 .. Len(text) : Width(SubSeq(text, 1, k)) <= m => k <= Whole(text, m)
<1> DEFINE S == {k \in 0 .. Len(text) : k = 0 \/ Width(SubSeq(text, 1, k)) <= m}
<1>1. PICK n \in Nat : n = Len(text)
  BY LenProperties
<1>2. S \subseteq 0 .. n /\ 0 \in S
  BY <1>1
<1>3. Whole(text, m) = Max(S)
  BY Zenon DEF Whole
<1>4. \A k \in 0 .. Len(text) : Width(SubSeq(text, 1, k)) <= m => k \in S
  OBVIOUS
<1> HIDE DEF S
<1>5. Max(S) \in S /\ \A y \in S : Max(S) >= y
  BY <1>1, <1>2, GreatestIn
<1>6. Max(S) \in 0 .. n
  BY <1>2, <1>5
<1>7. ASSUME NEW k \in 0 .. Len(text), Width(SubSeq(text, 1, k)) <= m PROVE k <= Max(S)
  <2>1. Max(S) >= k
    BY <1>4, <1>5, <1>7
  <2> QED BY <1>1, <1>6, <2>1
<1> QED BY <1>1, <1>3, <1>6, <1>7

LEMMA FrontIn ==
  ASSUME NEW text \in Seq(Spellings), NEW n \in Nat, n = Len(text), NEW k \in 0 .. n
  PROVE  SubSeq(text, 1, k) \in Seq(Spellings)
BY PieceOf

LEMMA RoomLeftIn ==
  ASSUME NEW text \in Seq(Spellings), NEW m \in Int
  PROVE  RoomLeft(text, m) \in Nat
<1>1. PICK n \in Nat : n = Len(text)
  BY LenProperties
<1>2. PICK k \in 0 .. n : k = Whole(text, m)
  BY <1>1, WholeIn
<1>3. Width(SubSeq(text, 1, k)) \in Nat
  BY <1>1, FrontIn, WidthIn
<1>4. PICK d \in Int : d = m - Width(SubSeq(text, 1, k))
  BY <1>3
<1>5. Max({0, d}) \in Nat
  BY GreatestOfTwo
<1> QED BY <1>2, <1>4, <1>5 DEF RoomLeft

LEMMA FrontOfIn ==
  ASSUME NEW text \in Seq(Spellings), NEW m \in Int, NEW whole
  PROVE  FrontOf(text, m, whole) \in Seq(Spellings)
<1> DEFINE k == Whole(text, m)
           parts == {i \in k + 1 .. Len(text) : text[i].t \notin whole}
           end == Upto(Spread(text[Min(parts)]), 1, RoomLeft(text, m))
<1>1. PICK n \in Nat : n = Len(text)
  BY LenProperties
<1>2. k \in 0 .. n
  BY <1>1, WholeIn
<1>3. SubSeq(text, 1, k) \in Seq(Spellings)
  BY <1>1, <1>2, FrontIn
<1>4. FrontOf(text, m, whole) = SubSeq(text, 1, k) \o IF parts = {} THEN << >> ELSE end
  BY Zenon DEF FrontOf
<1> HIDE DEF k
<1>5. ASSUME parts # {} PROVE end \in Seq(Spellings)
  <2>1. parts \subseteq 1 .. n /\ parts \subseteq Nat
    BY <1>1, <1>2
  <2>2. PICK i \in 1 .. n : i = Min(parts)
    <3> HIDE DEF parts
    <3> QED BY <1>5, <2>1, LeastIn
  <2>3. Spread(text[i]) \in Seq(Spellings)
    BY <1>1, ElementOfSeq, SpreadIn
  <2>4. PICK r \in Nat : r = RoomLeft(text, m)
    BY RoomLeftIn
  <2> HIDE DEF parts
  <2> QED BY <2>2, <2>3, <2>4, UptoIn
<1> HIDE DEF parts, end
<1>6. << >> \in Seq(Spellings)
  OBVIOUS
<1>7. (IF parts = {} THEN << >> ELSE end) \in Seq(Spellings)
  BY <1>5, <1>6
<1> QED BY <1>3, <1>4, <1>7, ConcatProperties

LEMMA BackOfIn ==
  ASSUME NEW text \in Seq(Spellings), NEW m \in Int
  PROVE  BackOf(text, m) \in Seq(Spellings)
<1> DEFINE k == Whole(text, m)
           next == Spread(text[k + 1])
           a == SubSeq(next, RoomLeft(text, m) + 1, Len(next))
           b == SubSeq(text, k + 2, Len(text))
<1>1. PICK n \in Nat : n = Len(text)
  BY LenProperties
<1>2. k \in 0 .. n
  BY <1>1, WholeIn
<1>3. BackOf(text, m) = IF k = Len(text) THEN << >> ELSE a \o b
  BY Zenon DEF BackOf
<1> HIDE DEF k
<1>4. ASSUME k # n PROVE a \o b \in Seq(Spellings)
  <2>1. k + 1 \in 1 .. n /\ k + 2 \in Nat \ {0} /\ n <= Len(text)
    BY <1>1, <1>2, <1>4
  <2>2. next \in Seq(Spellings)
    BY <1>1, <2>1, ElementOfSeq, SpreadIn
  <2> HIDE DEF next
  <2>3. PICK e \in Nat : e = Len(next) /\ e <= Len(next)
    BY <2>2, LenProperties
  <2>4. PICK r \in Nat \ {0} : r = RoomLeft(text, m) + 1
    BY RoomLeftIn
  <2>5. a \in Seq(Spellings)
    BY <2>2, <2>3, <2>4, PieceOf
  <2>6. b \in Seq(Spellings)
    BY <1>1, <2>1, PieceOf
  <2> HIDE DEF a, b
  <2> QED BY <2>5, <2>6, ConcatProperties
<1> HIDE DEF next, a, b
<1>5. << >> \in Seq(Spellings)
  OBVIOUS
<1> QED BY <1>1, <1>3, <1>4, <1>5

-----------------------------------------------------------------------------
(* Files                                                                   *)

LoadStates == [lines : Seq(Lines), room : Int, prog : Stores]

LEMMA TargetIn == ASSUME NEW n \in Int PROVE Target(n) \in Nat
<1> DEFINE m == 65536
<1>1. m \in Nat \ {0}
  OBVIOUS
<1>2. Target(n) = n % m
  BY DEF Target
<1> HIDE DEF m
<1>3. n % m \in 0 .. m - 1
  BY <1>1
<1>4. n % m \in Nat
  BY <1>3
<1> QED BY <1>2, <1>4, Zenon

LEMMA TextSizeIn == ASSUME NEW l \in Lines PROVE TextSize(l) \in Nat /\ TextSize(l) = l.head + Width(l.text) + 1
<1>1. l.head \in Nat /\ l.text \in Seq(Spellings)
  BY DEF Lines
<1>2. Width(l.text) \in Nat
  BY <1>1, WidthIn
<1> QED BY <1>1, <1>2 DEF TextSize

LEMMA AsLineIn == ASSUME NEW text \in Seq(Spellings) PROVE AsLine(text) \in Lines
<1> DEFINE n == DigitsAhead(text)
           S == {k \in n .. Len(text) : \A i \in n + 1 .. k : text[i].t = Blank}
           from == Max(S)
           val == ValueOf(CharsUpto(text, n), 0, 65536)
<1>1. PICK len \in Nat : len = Len(text)
  BY LenProperties
<1>2. n \in 0 .. len /\ \A i \in 1 .. n : is_dig(text[i].t)
  BY <1>1, DigitsAheadIn
<1>3. AsLine(text) = [num |-> val, head |-> from, text |-> SubSeq(text, from + 1, Len(text))]
  BY DEF AsLine
<1> HIDE DEF n
<1>4. val \in Nat
  <2>1. PICK digits : digits = CharsUpto(text, n)
    OBVIOUS
  <2>2. n \in Nat /\ Len(digits) = n /\ \A i \in 1 .. n : is_dig(digits[i])
    BY <1>1, <1>2, <2>1, CharsUptoIn
  <2>3. PICK size \in Nat \ {0} : size = 65536
    OBVIOUS
  <2>4. 0 \in Int /\ 0 <= 0 /\ 0 < 0 + size
    OBVIOUS
  <2>5. ValueOf(digits, 0, size) \in 0 .. 0 + size - 1
    BY <2>2, <2>4, ValueOfIn
  <2>6. val = ValueOf(digits, 0, size)
    BY <2>1, <2>3
  <2> HIDE DEF val
  <2>7. \A v \in 0 .. 0 + size - 1 : v \in Nat
    OBVIOUS
  <2> QED BY <2>5, <2>6, <2>7, Zenon
<1> HIDE DEF val
<1>5. from \in 0 .. len
  <2>1. S \subseteq 0 .. len /\ n \in S
    BY <1>1, <1>2
  <2> HIDE DEF S
  <2>2. Max(S) \in S
    BY <1>1, <2>1, GreatestIn
  <2> QED BY <2>1, <2>2
<1> HIDE DEF from
<1>6. SubSeq(text, from + 1, Len(text)) \in Seq(Spellings)
  <2>1. from + 1 \in Nat \ {0} /\ len <= Len(text)
    BY <1>1, <1>5
  <2> QED BY <1>1, <2>1, PieceOf
<1>7. from \in Nat
  BY <1>5
<1> QED BY <1>3, <1>4, <1>6, <1>7 DEF Lines

LEMMA LoadTurnIn == ASSUME NEW s \in LoadStates PROVE LoadTurn(s) \in LoadStates
<1>1. CASE s.lines = << >> \/ s.room <= 0
  BY <1>1 DEF LoadTurn
<1>2. CASE ~(s.lines = << >> \/ s.room <= 0)
  <2> DEFINE first == Head(s.lines)
             top == Min({LINE_MAX, s.room})
             whole == TextSize(first) - 1 <= top
             read == top - first.head
             num == Target(first.num)
             toks == tokenize(IF whole THEN first.text ELSE FrontOf(first.text, read, {}))
             prog1 == IF num = 0 \/ toks = << >> THEN s.prog ELSE prog_insert_line(s.prog, num, toks)
             behind == AsLine(BackOf(first.text, read))
  <2>1. s.lines \in Seq(Lines) /\ s.room \in Int /\ s.prog \in Stores /\ s.lines # << >>
    BY <1>2 DEF LoadStates
  <2>2. first \in Lines /\ Tail(s.lines) \in Seq(Lines)
    BY <2>1, HeadTailProperties
  <2>3. first.num \in Nat /\ first.head \in Nat /\ first.text \in Seq(Spellings)
    BY <2>2 DEF Lines
  <2>4. num \in Nat
    <3> HIDE DEF first
    <3>1. first.num \in Int
      BY <2>3
    <3> QED BY <3>1, TargetIn
  <2>5. TextSize(first) \in Nat
    BY <2>2, TextSizeIn
  <2>6. LINE_MAX \in Nat
    BY BasicAssumption, Zenon
  <2>7. top \in Int
    BY <2>1, <2>6, LeastOfTwo
  <2>8. LoadTurn(s) =
          IF whole THEN [lines |-> Tail(s.lines), room |-> s.room - TextSize(first), prog |-> prog1]
          ELSE [lines |-> <<behind>> \o Tail(s.lines), room |-> s.room - LINE_MAX, prog |-> prog1]
    BY <1>2, Zenon DEF LoadTurn, LoadStep, first, top, whole, read, num, toks, prog1, behind
  <2> HIDE DEF first, top, num, whole
  <2>9. read \in Int
    BY <2>3, <2>7
  <2> HIDE DEF read
  <2>10. toks \in Toks
    <3>1. PICK text \in Seq(Spellings) : text = IF whole THEN first.text ELSE FrontOf(first.text, read, {})
      BY <2>3, <2>9, FrontOfIn
    <3> QED BY <3>1, TokenizeIn
  <2> HIDE DEF toks
  <2>11. prog1 \in Stores
    BY <2>1, <2>4, <2>10, LineInserted
  <2>12. behind \in Lines
    BY <2>3, <2>9, BackOfIn, AsLineIn
  <2> HIDE DEF behind, prog1
  <2>13. <<behind>> \o Tail(s.lines) \in Seq(Lines)
    <3>1. <<behind>> \in Seq(Lines)
      BY <2>12
    <3> QED BY <2>2, <3>1, ConcatProperties
  <2>14. s.room - TextSize(first) \in Int /\ s.room - LINE_MAX \in Int
    BY <2>1, <2>5, <2>6
  <2>15. \A lines \in Seq(Lines) : \A room \in Int : [lines |-> lines, room |-> room, prog |-> prog1] \in LoadStates
    BY <2>11 DEF LoadStates
  <2> QED BY <2>2, <2>8, <2>13, <2>14, <2>15, Zenon
<1> QED BY <1>1, <1>2

LEMMA ParsedIn ==
  ASSUME NEW s \in LoadStates
  PROVE  Parsed(s) \in Stores
<1>1. s.lines \in Seq(Lines)
  BY DEF LoadStates
<1>2. Len(s.lines) \in Nat
  BY <1>1, LenProperties
<1>3. PICK n \in Nat : n = LoadTurns(s.lines)
  BY <1>2, LoadTurnsIn
<1>4. \A y \in LoadStates : LoadTurn(y) \in LoadStates
  BY LoadTurnIn
<1>5. PICK it : /\ it[0] = s /\ Parsed(s) = it[n].prog
                /\ \A k \in 1 .. n : it[k] = LoadTurn(it[k - 1])
  BY <1>2, <1>3, <1>4, LoadLoop
<1>6. StaysIn(it, LoadStates, n)
  BY <1>4, <1>5 DEF StaysIn
<1>7. it[n] \in LoadStates
  BY <1>3, <1>6, LoopStays
<1> QED BY <1>5, <1>7 DEF LoadStates

\* What a program looks like in a file.
UnlexStates == [toks : Toks, out : Seq(Spellings)]

LEMMA MarksIn == Lex("-") \in Spellings /\ Lex(Quote) \in Spellings
<1>1. "-" \in Words /\ Quote \in Words
  BY DEF Words, Marks
<1>2. Quote \notin {"NUM", "STR", "byte"} /\ "-" \notin {"NUM", "STR", "byte"}
  BY DEF Quote
<1> HIDE DEF Quote
<1> QED BY <1>1, <1>2, LexemesIn

LEMMA NumberTextIn == ASSUME NEW n \in Int PROVE NumberText(n) \in Seq(Spellings)
<1>1. PICK a \in Spellings, b \in Spellings, m \in Spellings :
        a = Digits(n) /\ b = Digits(-n) /\ m = Lex("-")
  BY LexemesIn, MarksIn
<1>2. <<m>> \in Seq(Spellings) /\ <<m, b>> \in Seq(Spellings) /\ <<a>> \in Seq(Spellings)
  OBVIOUS
<1> QED BY <1>1, <1>2, Zenon DEF NumberText

\* The first item of a line.
LEMMA FirstItem ==
  ASSUME NEW c \in Toks, c # << >>
  PROVE  LET l == Head(c)
             Behind0(n) == SubSeq(c, n, Len(c))
         IN /\ l \in Lexemes
            /\ l.t = "NUM" => Behind0(6) \in Toks
            /\ l.t = "STR" => /\ Behind0(l.n + 3) \in Toks
                              /\ Upto(c, 3, l.n) \in Seq(Spellings)
            /\ l.t = "REM" => c \in Seq(Spellings)
            /\ l.t \notin {"NUM", "STR", "REM"} => l \in Spellings /\ Behind0(2) \in Toks
<1>1. c \in Seq(Lexemes) /\ Fits(c)
  BY DEF Toks
<1>2. PICK S : Cut(c, S)
  BY DEF Toks
<1>3. Len(c) \in Nat /\ Len(c) >= 1 /\ Head(c) = c[1] /\ c[1] \in Lexemes
  BY <1>1
<1>4. PICK l \in Lexemes : l = c[1] /\ l = Head(c)
  BY <1>3
<1>5. ItemAt(c, S, 1)
  BY <1>2, <1>3 DEF Cut
<1>6. l.n \in Int /\ (l.t = "STR" => l.n \in Nat)
  BY LengthIn
<1>7. CASE l.t = "NUM"
  <2>1. 6 \in S
    BY <1>4, <1>5, <1>7, SpellingsIn DEF ItemAt
  <2> QED BY <1>2, <1>4, <1>7, <2>1, ItemsBehind
<1>8. CASE l.t = "STR"
  <2>1. PICK n \in Nat : n = l.n
    BY <1>6, <1>8
  <2>2. 1 + 2 + n \in S /\ \A j \in 1 + 2 .. 1 + 1 + n : c[j] \in Spellings
    BY <1>4, <1>5, <1>8, <2>1, SpellingsIn DEF ItemAt
  <2>3. n + 3 \in S /\ n + 2 <= Len(c) /\ \A j \in 3 .. n + 2 : c[j] \in Spellings
    <3>1. 1 + 1 + c[1].n <= Len(c)
      BY <1>1, <1>3, <1>4, <1>8 DEF Fits
    <3>2. 1 + 1 + n = n + 2 /\ 1 + 2 + n = n + 3 /\ 1 + 2 = 3
      OBVIOUS
    <3> QED BY <1>4, <2>1, <2>2, <3>1, <3>2
  <2>4. SubSeq(c, n + 3, Len(c)) \in Toks
    BY <1>2, <2>3, ItemsBehind
  <2>5. Upto(c, 3, n) = SubSeq(c, 3, n + 2)
    <3>1. Min({Len(c), 3 + n - 1}) = n + 2
      BY <1>3, <2>3, LeastOfTwo
    <3> QED BY <3>1 DEF Upto
  <2>6. SubSeq(c, 3, n + 2) \in Seq(Spellings)
    <3>1. \A j \in 3 .. n + 2 : c[j] \in Spellings
      BY <2>3
    <3> QED BY <3>1, SubSeqProperties
  <2> QED BY <1>4, <1>8, <2>1, <2>4, <2>5, <2>6
<1>9. CASE l.t = "REM"
  <2>1. \A j \in 1 .. Len(c) : c[j] \in Spellings
    BY <1>4, <1>5, <1>9 DEF ItemAt
  <2>2. c = [j \in 1 .. Len(c) |-> c[j]]
    BY <1>1
  <2>3. c \in Seq(Spellings)
    BY <1>3, <2>1, <2>2
  <2> QED BY <1>4, <1>9, <2>3
<1>10. CASE l.t \notin {"NUM", "STR", "REM"}
  <2>1. l \in Spellings /\ 2 \in S
    BY <1>4, <1>5, <1>10 DEF ItemAt
  <2> QED BY <1>2, <1>4, <1>10, <2>1, ItemsBehind
<1> QED BY <1>7, <1>8, <1>9, <1>10

LEMMA UnlexTurnIn == ASSUME NEW s \in UnlexStates PROVE UnlexTurn(s) \in UnlexStates
<1>1. CASE s.toks = << >>
  BY <1>1 DEF UnlexTurn
<1>2. CASE s.toks # << >>
  <2> DEFINE first == Head(s.toks)
             Behind0(n) == SubSeq(s.toks, n, Len(s.toks))
  <2>1. s.toks \in Toks /\ s.out \in Seq(Spellings)
    BY DEF UnlexStates
  <2>2. /\ first \in Lexemes
        /\ first.t = "NUM" => Behind0(6) \in Toks
        /\ first.t = "STR" => /\ Behind0(first.n + 3) \in Toks
                              /\ Upto(s.toks, 3, first.n) \in Seq(Spellings)
        /\ first.t = "REM" => s.toks \in Seq(Spellings)
        /\ first.t \notin {"NUM", "STR", "REM"} => first \in Spellings /\ Behind0(2) \in Toks
    BY <1>2, <2>1, FirstItem
  <2>3. UnlexTurn(s) =
          CASE first.t = "NUM" -> [toks |-> Behind0(6), out |-> s.out \o NumberText(first.n)]
            [] first.t = "STR" -> [toks |-> Behind0(first.n + 3),
                                   out |-> s.out \o <<Lex(Quote)>> \o Upto(s.toks, 3, first.n) \o <<Lex(Quote)>>]
            [] first.t = "REM" -> [toks |-> << >>, out |-> s.out \o s.toks]
            [] OTHER -> [toks |-> Behind0(2), out |-> Append(s.out, first)]
    BY <1>2, Zenon DEF UnlexTurn, UnlexStep, first, Behind0
  <2> HIDE DEF first, Behind0
  <2>4. ASSUME NEW toks \in Toks, NEW out \in Seq(Spellings), UnlexTurn(s) = [toks |-> toks, out |-> out]
        PROVE  UnlexTurn(s) \in UnlexStates
    BY <2>4 DEF UnlexStates
  <2>5. CASE first.t = "NUM"
    <3>1. first.n \in Int
      BY <2>2, LengthIn
    <3>4. PICK out \in Seq(Spellings) : out = s.out \o NumberText(first.n)
      BY <2>1, <3>1, NumberTextIn, JoinedIn
    <3>5. UnlexTurn(s) = [toks |-> Behind0(6), out |-> out]
      BY <2>3, <2>5, <3>4, Zenon
    <3> QED BY <2>2, <2>4, <2>5, <3>5
  <2>6. CASE first.t = "STR"
    <3>2. <<Lex(Quote)>> \in Seq(Spellings)
      <4>1. PICK q \in Spellings : q = Lex(Quote)
        BY MarksIn
      <4> QED BY <4>1
    <3>4. s.out \o <<Lex(Quote)>> \in Seq(Spellings)
      BY <2>1, <3>2, JoinedIn
    <3>5. s.out \o <<Lex(Quote)>> \o Upto(s.toks, 3, first.n) \in Seq(Spellings)
      BY <2>2, <2>6, <3>4, JoinedIn
    <3>6. PICK out \in Seq(Spellings) : out = s.out \o <<Lex(Quote)>> \o Upto(s.toks, 3, first.n) \o <<Lex(Quote)>>
      BY <3>2, <3>5, JoinedIn
    <3>7. UnlexTurn(s) = [toks |-> Behind0(first.n + 3), out |-> out]
      BY <2>3, <2>6, <3>6, Zenon
    <3> QED BY <2>2, <2>4, <2>6, <3>7
  <2>7. CASE first.t = "REM"
    <3>1. PICK out \in Seq(Spellings) : out = s.out \o s.toks
      BY <2>1, <2>2, <2>7, JoinedIn
    <3>2. UnlexTurn(s) = [toks |-> << >>, out |-> out]
      BY <2>3, <2>7, <3>1, Zenon
    <3>3. << >> \in Toks
      BY NoItems, ToksIn
    <3> QED BY <2>4, <3>2, <3>3
  <2>8. CASE first.t \notin {"NUM", "STR", "REM"}
    <3>1. UnlexTurn(s) = [toks |-> Behind0(2), out |-> Append(s.out, first)]
      BY <2>3, <2>8
    <3>2. Append(s.out, first) \in Seq(Spellings)
      BY <2>1, <2>2, <2>8, AppendProperties
    <3> QED BY <2>2, <2>4, <2>8, <3>1, <3>2
  <2> QED BY <2>5, <2>6, <2>7, <2>8
<1> QED BY <1>1, <1>2

LEMMA UnlexedIn ==
  ASSUME NEW toks \in Toks
  PROVE  Unlexed(toks) \in Seq(Spellings)
<1>1. PICK n \in Nat : n = Len(toks)
  BY ToksIn, LenProperties
<1>2. [toks |-> toks, out |-> << >>] \in UnlexStates
  BY DEF UnlexStates
<1>3. \A y \in UnlexStates : UnlexTurn(y) \in UnlexStates
  BY UnlexTurnIn
<1>4. PICK it : /\ it[0] = [toks |-> toks, out |-> << >>] /\ Unlexed(toks) = it[n].out
                /\ \A k \in 1 .. n : it[k] = UnlexTurn(it[k - 1])
  BY <1>1, <1>2, <1>3, UnlexLoop
<1>5. StaysIn(it, UnlexStates, n)
  BY <1>2, <1>3, <1>4 DEF StaysIn
<1>6. it[n] \in UnlexStates
  BY <1>1, <1>5, LoopStays
<1> QED BY <1>4, <1>6 DEF UnlexStates

LEMMA DetokenizeIn ==
  ASSUME NEW toks \in Toks
  PROVE  detokenize(toks) \in Seq(Spellings)
<1>1. Unlexed(toks) \in Seq(Spellings)
  BY UnlexedIn
<1>2. DETOK_MAX \in Int
  <2>1. DETOK_MAX \in Nat
    BY SpellAssumption, Zenon
  <2> QED BY <2>1
<1>3. FrontOf(Unlexed(toks), DETOK_MAX, Pairs) \in Seq(Spellings)
  BY <1>1, <1>2, FrontOfIn
<1> QED BY <1>1, <1>3, Zenon DEF detokenize

LEMMA HeadSizeIn == ASSUME NEW num \in Int PROVE HeadSize(num) \in 2 .. 11
BY FiguresIn DEF HeadSize

LEMMA SavedIn ==
  ASSUME NEW p \in Stores
  PROVE  Saved(p) \in Seq(Lines)
<1> DEFINE lines == AsText(p)
           S == {k \in 0 .. Len(p) : k = Len(p) \/ SizeOf(SubSeq(lines, 1, k)) >= SAVE_MAX}
<1>1. p \in Seq(ProgLines) /\ Len(p) \in Nat
  BY LenProperties DEF Stores, Programs
<1>2. ASSUME NEW i \in 1 .. Len(p)
      PROVE  [num |-> p[i].num, head |-> HeadSize(p[i].num), text |-> detokenize(p[i].toks)] \in Lines
  <2>1. p[i].num \in Nat /\ p[i].toks \in Toks
    BY <1>1, LineIn
  <2>2. detokenize(p[i].toks) \in Seq(Spellings)
    BY <2>1, DetokenizeIn
  <2>3. HeadSize(p[i].num) \in Nat
    BY <2>1, HeadSizeIn
  <2> QED BY <2>1, <2>2, <2>3 DEF Lines
<1>3. lines \in Seq(Lines) /\ Len(lines) = Len(p)
  BY <1>1, <1>2 DEF AsText
<1> HIDE DEF lines
<1>4. S \subseteq Nat /\ S # {}
  BY <1>1
<1>5. PICK n \in 0 .. Len(p) : n = Min(S)
  <2>1. Min(S) \in S
    <3> HIDE DEF S
    <3> QED BY <1>4, LeastIn
  <2> QED BY <2>1
<1>6. Saved(p) = SubSeq(lines, 1, n)
  BY <1>5 DEF Saved, lines
<1>7. SubSeq(lines, 1, n) \in Seq(Lines)
  BY <1>1, <1>3, PieceOf
<1> QED BY <1>6, <1>7

-----------------------------------------------------------------------------
(* The store and the files of every reachable state. The files matter, for *)
(* LOAD builds the store from them.                                        *)

FilesIn == \A f \in DOMAIN disk : disk[f] \in Seq(Lines)
StoreIn == prog \in Stores /\ FilesIn

LEMMA ContentIn ==
  ASSUME FilesIn, NEW f, Exists(f)
  PROVE  Content(f) \in Seq(Lines)
<1>1. \A g \in DOMAIN Disk0 : Disk0[g] \in Seq(Lines)
  BY BasicAssumption, Zenon
<1> QED BY <1>1 DEF FilesIn, Content, Exists

LEMMA LoadedIn ==
  ASSUME FilesIn, NEW f, Exists(f), NEW old
  PROVE  Loaded(f, old) \in Stores
<1>1. Content(f) \in Seq(Lines)
  BY ContentIn
<1>2. LOAD_MAX \in Int
  <2>1. LOAD_MAX \in Nat
    BY BasicAssumption, Zenon
  <2> QED BY <2>1
<1>3. [lines |-> Content(f), room |-> LOAD_MAX, prog |-> << >>] \in LoadStates
  BY <1>1, <1>2, EmptyStore DEF LoadStates
<1> QED BY <1>3, ParsedIn DEF Loaded

\* A statement touches neither the program nor the files.
LEMMA StatementsKeepStore == Interpreter => UNCHANGED <<prog, disk, kept>>
<1>1. ASSUME NEW toks, Statement(toks) PROVE UNCHANGED <<prog, disk, kept>>
  BY <1>1 DEF Statement, Begin, world
<1>2. ASSUME NEW d, PrintStatement(d) \/ Let(d) \/ Poke(d) PROVE UNCHANGED <<prog, disk, kept>>
  BY <1>1, <1>2, Zenon DEF PrintStatement, Let, Poke
<1>3. ASSUME NEW d, If(d) \/ Goto(d) \/ Gosub(d) \/ For(d) PROVE UNCHANGED <<prog, disk, kept>>
  BY <1>1, <1>3, Zenon DEF If, Goto, Gosub, For
<1>4. Return => UNCHANGED <<prog, disk, kept>>
  BY DEF Return, Begin, world
<1>5. NextStatement \/ Input \/ Rem \/ Cls \/ Clr \/ End \/ Unknown => UNCHANGED <<prog, disk, kept>>
  BY <1>1, Zenon DEF NextStatement, Input, Rem, Cls, Clr, End, Unknown
<1>6. Nothing \/ Break \/ LineGoesOn \/ ImmediateEnds => UNCHANGED <<prog, disk, kept>>
  BY DEF Nothing, Break, LineGoesOn, ImmediateEnds, world
<1>7. LineEnds => UNCHANGED <<prog, disk, kept>>
  BY DEF LineEnds
<1> QED BY <1>2, <1>3, <1>4, <1>5, <1>6, <1>7, Zenon DEF Interpreter, Flow, Plain

LEMMA StoreInit == Init => StoreIn
BY EmptyStore DEF Init, StoreIn, FilesIn

LEMMA EnterStore ==
  ASSUME StoreIn, NEW l \in Source, EnterLine(l)
  PROVE  prog' \in Stores /\ OthersOf(prog', Target(l.num)) = OthersOf(prog, Target(l.num))
<1>1. l.num \in Nat /\ l.text \in Seq(Spellings)
  <2>1. Source \subseteq Lines
    BY BasicAssumption, Zenon
  <2> QED BY <2>1 DEF Lines
<1>2. PICK num \in Nat : num = Target(l.num)
  BY <1>1, TargetIn
<1>3. /\ num # 0 /\ prog \in Stores /\ prog \in Programs
      /\ prog' = IF l.text = << >> THEN prog_delete_line(prog, num)
                 ELSE prog_insert_line(prog, num, tokenize(l.text))
  BY <1>2 DEF EnterLine, StoreIn, Stores
<1>4. CASE l.text = << >>
  BY <1>2, <1>3, <1>4, DeletedIn, LineDeleted
<1>5. CASE l.text # << >>
  <2>1. tokenize(l.text) \in Toks /\ tokenize(l.text) # << >>
    BY <1>1, <1>5, TokenizeIn
  <2>2. num \in Nat \ {0}
    BY <1>2, <1>3
  <2>3. prog' = prog_insert_line(prog, num, tokenize(l.text))
    BY <1>3, <1>5
  <2> QED BY <1>2, <1>3, <2>1, <2>2, <2>3, LineInserted
<1> QED BY <1>4, <1>5

LEMMA SaveStore ==
  ASSUME StoreIn, NEW f, Save(f)
  PROVE  StoreIn'
<1>1. prog' = prog /\ prog \in Stores
  BY DEF Save, StoreIn
<1>2. Saved(prog) \in Seq(Lines) /\ << >> \in Seq(Lines)
  BY <1>1, SavedIn
<1>3. CASE disk' = disk
  BY <1>1, <1>3 DEF StoreIn, FilesIn
<1>4. ASSUME NEW text \in Seq(Lines), disk' = [n \in DOMAIN disk \cup {f} |-> IF n = f THEN text ELSE disk[n]]
      PROVE  StoreIn'
  BY <1>1, <1>4 DEF StoreIn, FilesIn
<1>5. \/ disk' = disk
      \/ \E text \in Seq(Lines) : disk' = [n \in DOMAIN disk \cup {f} |-> IF n = f THEN text ELSE disk[n]]
  <2>1. Exists(f) => Content(f) \in Seq(Lines)
    BY ContentIn DEF StoreIn
  <2> QED BY <1>2, <2>1 DEF Save
<1> QED BY <1>3, <1>4, <1>5

LEMMA StoreNext == StoreIn /\ [Next]_vars => StoreIn'
<1> SUFFICES ASSUME StoreIn, [Next]_vars PROVE StoreIn'
  OBVIOUS
<1>1. CASE UNCHANGED <<prog, disk>>
  BY <1>1 DEF StoreIn, FilesIn
<1>2. ASSUME prog' \in Stores, disk' = disk PROVE StoreIn'
  BY <1>2 DEF StoreIn, FilesIn
<1>3. CASE UNCHANGED vars
  BY <1>1, <1>3 DEF vars, world
<1>4. CASE Interpreter
  BY <1>1, <1>4, StatementsKeepStore
<1>5. CASE Prompt
  <2>1. ASSUME NEW l \in Source, EnterLine(l) PROVE StoreIn'
    <3>1. disk' = disk
      BY <2>1 DEF EnterLine
    <3> QED BY <1>2, <2>1, <3>1, EnterStore
  <2>2. ASSUME NEW text, EnterImmediate(text) PROVE StoreIn'
    BY <1>1, <2>2 DEF EnterImmediate
  <2>3. ASSUME NEW e, EnterExpression(e) PROVE StoreIn'
    BY <1>1, <2>3 DEF EnterExpression
  <2>4. CASE Run
    BY <1>1, <2>4 DEF Run
  <2>5. CASE New
    BY <1>2, <2>5, EmptyStore DEF New
  <2>6. CASE System
    BY <1>1, <2>6 DEF System
  <2>7. ASSUME NEW f, Save(f) PROVE StoreIn'
    BY <2>7, SaveStore
  <2>8. ASSUME NEW f, Load(f) PROVE StoreIn'
    <3>1. prog' \in Stores
      BY <2>8, LoadedIn DEF Load, StoreIn
    <3>2. disk' = disk
      BY <2>8 DEF Load
    <3> QED BY <1>2, <3>1, <3>2
  <2> QED BY <1>5, <2>1, <2>2, <2>3, <2>4, <2>5, <2>6, <2>7, <2>8, Zenon DEF Prompt
<1>6. ASSUME NEW a, Answer(a) PROVE StoreIn'
  BY <1>1, <1>6 DEF Answer, world
<1>7. CASE Start
  BY <1>2, <1>7, EmptyStore DEF Start, Fresh
<1>8. ASSUME NEW f, StartWith(f) PROVE StoreIn'
  <2>1. prog' = IF Exists(f) THEN Loaded(f, << >>) ELSE << >>
    BY <1>8 DEF StartWith
  <2>2. disk' = disk
    BY <1>8 DEF StartWith, Fresh
  <2>3. prog' \in Stores
    BY <2>1, LoadedIn, EmptyStore DEF StoreIn
  <2> QED BY <1>2, <2>2, <2>3
<1>9. ASSUME NEW k, Press(k) PROVE StoreIn'
  BY <1>1, <1>9 DEF Press, world
<1> QED BY <1>3, <1>4, <1>5, <1>6, <1>7, <1>8, <1>9, Zenon DEF Next

LEMMA StoreAlways == Spec => []StoreIn
BY StoreInit, StoreNext, PTL DEF Spec

\* Whatever is typed, saved and loaded, the store is sorted, with one line to a
\* number and none empty, and fits into prog_buf (prog_insert_line,
\* prog_delete_line, basic_parse_file).
THEOREM StoreStaysSorted == Spec => []StoreSorted
<1>1. StoreIn => StoreSorted
  <2> SUFFICES ASSUME prog \in Stores PROVE StoreSorted
    BY DEF StoreIn
  <2>1. prog \in Seq(ProgLines) /\ Ordered(prog) /\ prog_used(prog) <= PROG_SIZE /\ Len(prog) \in Nat
    BY LenProperties DEF Stores, Programs
  <2>2. ASSUME NEW i \in 1 .. Len(prog) - 1 PROVE prog[i].num < prog[i + 1].num
    <3>1. i \in 1 .. Len(prog) /\ i + 1 \in 1 .. Len(prog) /\ i < i + 1
      BY <2>1
    <3> QED BY <2>1, <3>1 DEF Ordered
  <2>3. ASSUME NEW i \in 1 .. Len(prog) PROVE prog[i].num # NoLine /\ prog[i].toks # << >>
    BY <2>1, LineIn DEF NoLine
  <2> QED BY <2>1, <2>2, <2>3 DEF StoreSorted
<1> QED BY <1>1, StoreAlways, PTL

\* Typing a numbered line, also an empty one or one there is no room for,
\* leaves the lines with other numbers as they were.
THEOREM EntriesTouchOneLine == Spec => EntryTouchesOneLine
<1> DEFINE Touch == \A l \in Source : EnterLine(l) =>
                      LET Others(p) == {p[i] : i \in {j \in DOMAIN p : p[j].num # Target(l.num)}}
                      IN Others(prog') = Others(prog)
<1>1. StoreIn => Touch
  <2> SUFFICES ASSUME StoreIn, NEW l \in Source, EnterLine(l)
               PROVE  OthersOf(prog', Target(l.num)) = OthersOf(prog, Target(l.num))
    BY DEF OthersOf
  <2> QED BY EnterStore
<1>2. StoreIn => [Touch]_vars
  BY <1>1
<1>3. EntryTouchesOneLine <=> [][Touch]_vars
  BY DEF EntryTouchesOneLine
<1> HIDE DEF Touch
<1> QED BY <1>2, <1>3, StoreAlways, PTL

-----------------------------------------------------------------------------
(* The state of the evaluator                                              *)

LEMMA ExprFacts ==
  /\ STRING_POOL_SIZE \in Nat /\ STR_MAX_LEN \in Nat
  /\ 0 \in Numbers /\ 1 \in Int /\ -1 \in Int
<1>1. STRING_POOL_SIZE \in Nat /\ STR_MAX_LEN \in Nat
  BY ExprAssumption, Zenon
<1>2. 0 \in Numbers
  BY TextFacts DEF Numbers, MinInt
<1> QED BY <1>1, <1>2

LEMMA NumbersInt == \A n \in Numbers : n \in Int /\ -IntHalf <= n /\ n < IntHalf
BY TextFacts DEF Numbers, MinInt

LEMMA ScanIn ==
  ASSUME NEW x \in Scans
  PROVE  /\ x.pos \in Nat /\ x.pool \in 0 .. STRING_POOL_SIZE /\ x.v \in Values /\ x.draw \in Nat
         /\ x.err \in {"none", "error", "trap"}
BY DEF Scans

LEMMA ValueIn ==
  ASSUME NEW v \in Values
  PROVE  v.type \in {"num", "str"} /\ v.num \in Numbers /\ v.num \in Int /\ v.str \in Seq(Words)
BY NumbersInt DEF Values

LEMMA PeekIn ==
  ASSUME NEW c \in Seq(Lexemes), NEW pos \in Nat, peek(c, pos) # "nul"
  PROVE  /\ pos < Len(c) /\ c[pos + 1] \in Lexemes
         /\ c[pos + 1].n \in Int /\ peek(c, pos) = c[pos + 1].t
         /\ peek(c, pos) = "STR" => c[pos + 1].n \in Nat
<1>1. Len(c) \in Nat
  BY LenProperties
<1>2. pos < Len(c) /\ peek(c, pos) = c[pos + 1].t
  BY DEF peek
<1>3. pos + 1 \in 1 .. Len(c)
  BY <1>1, <1>2
<1>4. c[pos + 1] \in Lexemes
  BY <1>3, ElementOfSeq
<1>5. \A l \in Lexemes : l.n \in Int /\ (l.t = "STR" => l.n \in Nat)
  BY DEF Lexemes
<1> QED BY <1>2, <1>4, <1>5

LEMMA SkipSpacesIn ==
  ASSUME NEW c \in Seq(Lexemes), NEW pos \in Nat
  PROVE  /\ skip_spaces(c, pos) \in Nat /\ skip_spaces(c, pos) >= pos
         /\ pos <= Len(c) => skip_spaces(c, pos) <= Len(c)
<1> DEFINE From(p) == CHOOSE q \in p .. Max({p, Len(c)}) :
                        peek(c, q) # Blank /\ \A i \in p .. q - 1 : peek(c, i) = Blank
           once == CHOOSE r \in {From(y) : y \in {pos}} : TRUE
<1>1. skip_spaces(c, pos) = once
  BY Zenon DEF skip_spaces, Once, Blank
<1>2. once = From(pos)
  OBVIOUS
<1>a. Len(c) \in Nat
  BY LenProperties
<1>b. Max({pos, Len(c)}) = IF pos >= Len(c) THEN pos ELSE Len(c)
  BY <1>a, GreatestOfTwo
<1>c. PICK m : m = Max({pos, Len(c)})
  OBVIOUS
<1>3. m \in Nat /\ m >= pos /\ m >= Len(c)
  BY <1>a, <1>b, <1>c
<1> DEFINE S == {q \in pos .. m : peek(c, q) # Blank}
<1>4. m \in S
  <2>2. peek(c, m) = "nul"
    BY <1>a, <1>3 DEF peek
  <2>3. Blank # "nul"
    BY Zenon DEF Blank
  <2> QED BY <1>3, <2>2, <2>3
<1>5. PICK q \in S : \A y \in S : q <= y
  <2>1. S \subseteq Nat /\ S # {}
    BY <1>3, <1>4
  <2> HIDE DEF S
  <2> QED BY <2>1, HasLeast
<1>6. \A i \in pos .. q - 1 : peek(c, i) = Blank
  BY <1>3, <1>5
<1>7. \E p \in pos .. m : peek(c, p) # Blank /\ \A i \in pos .. p - 1 : peek(c, i) = Blank
  BY <1>5, <1>6
<1>8. From(pos) \in pos .. m
  BY <1>c, <1>7
<1>9. pos <= Len(c) => m = Len(c)
  BY <1>a, <1>b, <1>c
<1> HIDE DEF From, once
<1> QED BY <1>1, <1>2, <1>3, <1>8, <1>9

\* x after a move, or with a value, has its type; the error flag stays.
LEMMA MovedIn ==
  ASSUME NEW x \in Scans, NEW p \in Nat
  PROVE  [x EXCEPT !.pos = p] \in Scans /\ [x EXCEPT !.pos = p].err = x.err
         /\ [x EXCEPT !.pos = p].pos = p /\ [x EXCEPT !.pos = p].v = x.v
BY DEF Scans

LEMMA SkipIn ==
  ASSUME NEW c \in Seq(Lexemes), NEW x \in Scans
  PROVE  Skip(c, x) \in Scans /\ Skip(c, x).err = x.err
         /\ Skip(c, x).pos = skip_spaces(c, x.pos) /\ Skip(c, x).v = x.v
<1>1. x.pos \in Nat
  BY ScanIn
<1>2. skip_spaces(c, x.pos) \in Nat
  BY <1>1, SkipSpacesIn
<1> QED BY <1>2, MovedIn DEF Skip

LEMMA PastIn ==
  ASSUME NEW x \in Scans
  PROVE  Past(x) \in Scans /\ Past(x).err = x.err /\ Past(x).v = x.v /\ Past(x).pos = x.pos + 1
<1>0. x.pos \in Nat
  BY ScanIn
<1>1. x.pos + 1 \in Nat
  BY <1>0
<1> QED BY <1>1, MovedIn DEF Past

LEMMA OptionalIn ==
  ASSUME NEW c \in Seq(Lexemes), NEW x \in Scans, NEW t
  PROVE  Optional(c, x, t) \in Scans /\ Optional(c, x, t).err = x.err /\ Optional(c, x, t).v = x.v
<1>1. PICK y \in Scans : y = Skip(c, x) /\ y.err = x.err /\ y.v = x.v
  BY SkipIn
<1>2. Optional(c, x, t) = IF peek(c, y.pos) = t THEN Past(y) ELSE y
  BY <1>1 DEF Optional
<1> QED BY <1>1, <1>2, PastIn

LEMMA NumValueIn == ASSUME NEW n \in Numbers PROVE NumValue(n) \in Values /\ NumValue(n).type = "num"
BY DEF NumValue, Values

LEMMA FailedIn ==
  ASSUME NEW x \in Scans
  PROVE  /\ Failed(x) \in Scans /\ Failed(x).err = "error" /\ Failed(x).pos = x.pos
         /\ Trapped(x) \in Scans /\ Trapped(x).err = "trap" /\ Trapped(x).pos = x.pos
<1>1. NumValue(0) \in Values
  BY NumValueIn, ExprFacts
<1> QED BY <1>1 DEF Failed, Trapped, Scans

LEMMA MakeNumIn ==
  ASSUME NEW x \in Scans, NEW n \in Int
  PROVE  make_num(x, n) \in Scans /\ make_num(x, n).err = x.err /\ make_num(x, n).pos = x.pos
<1>1. NumValue(Wrapped(n)) \in Values
  BY NumeralIn, NumValueIn
<1> QED BY <1>1 DEF make_num, Scans

LEMMA MakeStrIn ==
  ASSUME NEW x \in Scans, NEW s \in Seq(Words)
  PROVE  make_str(x, s) \in Scans /\ (x.err # "none" => make_str(x, s).err # "none")
         /\ make_str(x, s).pos = x.pos
<1>1. Len(s) \in Nat /\ x.pool \in 0 .. STRING_POOL_SIZE /\ STRING_POOL_SIZE \in Nat
  BY LenProperties, ScanIn, ExprFacts
<1>2. CASE x.pool + Len(s) + 1 > STRING_POOL_SIZE
  BY <1>2, FailedIn DEF make_str
<1>3. CASE ~(x.pool + Len(s) + 1 > STRING_POOL_SIZE)
  <2>1. PICK q \in 0 .. STRING_POOL_SIZE : q = x.pool + Len(s) + 1
    BY <1>1, <1>3
  <2>2. PICK v \in Values : v = [type |-> "str", num |-> 0, str |-> s]
    BY ExprFacts DEF Values
  <2>3. make_str(x, s) = [x EXCEPT !.v = v, !.pool = q]
    BY <1>3, <2>1, <2>2 DEF make_str
  <2>4. [x EXCEPT !.v = v, !.pool = q] \in Scans /\ [x EXCEPT !.v = v, !.pool = q].err = x.err
        /\ [x EXCEPT !.v = v, !.pool = q].pos = x.pos
    BY <2>1, <2>2 DEF Scans
  <2> QED BY <2>3, <2>4
<1> QED BY <1>2, <1>3

-----------------------------------------------------------------------------
(* Operators and functions                                                 *)

\* What may come out of x: an error stays one, and the position goes on, but
\* not over the end of the tokens.
Results(end, x) ==
  {y \in Scans : /\ x.err # "none" => y.err # "none"
                 /\ x.pos <= y.pos /\ (x.pos <= end => y.pos <= end)}

LEMMA ResultIn ==
  ASSUME NEW end, NEW x \in Scans
  PROVE  /\ x \in Results(end, x) /\ Failed(x) \in Results(end, x) /\ Trapped(x) \in Results(end, x)
         /\ \A n \in Int : make_num(x, n) \in Results(end, x)
         /\ \A s \in Seq(Words) : make_str(x, s) \in Results(end, x)
<1>1. /\ Failed(x) \in Scans /\ Failed(x).err = "error" /\ Trapped(x) \in Scans /\ Trapped(x).err = "trap"
      /\ Failed(x).pos = x.pos /\ Trapped(x).pos = x.pos
  BY FailedIn
<1>2. \A n \in Int : make_num(x, n) \in Scans /\ make_num(x, n).err = x.err /\ make_num(x, n).pos = x.pos
  BY MakeNumIn
<1>3. \A s \in Seq(Words) : /\ make_str(x, s) \in Scans /\ (x.err # "none" => make_str(x, s).err # "none")
                            /\ make_str(x, s).pos = x.pos
  BY MakeStrIn
<1>4. x.pos <= x.pos
  BY ScanIn
<1> QED BY <1>1, <1>2, <1>3, <1>4 DEF Results

\* What comes out of a result of x comes out of x.
LEMMA ResultsOf ==
  ASSUME NEW end \in Nat, NEW x \in Scans, NEW y \in Results(end, x), NEW z \in Results(end, y)
  PROVE  z \in Results(end, x) /\ z \in Scans /\ y \in Scans
<1>1. /\ y \in Scans /\ z \in Scans
      /\ x.err # "none" => y.err # "none"
      /\ y.err # "none" => z.err # "none"
      /\ x.pos <= y.pos /\ (x.pos <= end => y.pos <= end)
      /\ y.pos <= z.pos /\ (y.pos <= end => z.pos <= end)
  BY DEF Results
<1>2. x.pos \in Nat /\ y.pos \in Nat /\ z.pos \in Nat
  BY <1>1, ScanIn
<1>3. x.pos <= z.pos /\ (x.pos <= end => z.pos <= end)
  BY <1>1, <1>2
<1> QED BY <1>1, <1>3 DEF Results

\* Steps over tokens.
LEMMA ChainIn ==
  ASSUME NEW c \in Seq(Lexemes), NEW x \in Scans, NEW y \in Results(Len(c), x)
  PROVE  /\ y \in Scans /\ Skip(c, y) \in Results(Len(c), x) /\ Failed(y) \in Results(Len(c), x)
         /\ peek(c, y.pos) # "nul" => Past(y) \in Results(Len(c), x)
         /\ \A t : t # "nul" => Optional(c, y, t) \in Results(Len(c), x)
<1>0. y \in Scans /\ Len(c) \in Nat
  BY LenProperties DEF Results
<1>1. ASSUME NEW z \in Scans PROVE Skip(c, z) \in Results(Len(c), z)
  <2>1. /\ Skip(c, z) \in Scans /\ Skip(c, z).err = z.err /\ z.pos <= Skip(c, z).pos
        /\ z.pos <= Len(c) => Skip(c, z).pos <= Len(c)
    <3>1. z.pos \in Nat
      BY ScanIn
    <3>2. /\ skip_spaces(c, z.pos) \in Nat /\ skip_spaces(c, z.pos) >= z.pos
          /\ z.pos <= Len(c) => skip_spaces(c, z.pos) <= Len(c)
      BY <3>1, SkipSpacesIn
    <3> QED BY <3>1, <3>2, SkipIn
  <2> QED BY <2>1 DEF Results
<1>2. ASSUME NEW z \in Scans, peek(c, z.pos) # "nul" PROVE Past(z) \in Results(Len(c), z)
  <2>1. z.pos \in Nat
    BY ScanIn
  <2>2. z.pos < Len(c)
    BY <1>2, <2>1, PeekIn
  <2>3. Past(z) \in Scans /\ Past(z).err = z.err /\ z.pos <= Past(z).pos /\ Past(z).pos <= Len(c)
    BY <1>0, <2>1, <2>2, PastIn
  <2> QED BY <2>3 DEF Results
<1>3. PICK s \in Scans : s = Skip(c, y) /\ s \in Results(Len(c), x)
  BY <1>0, <1>1, ResultsOf, SkipIn
<1>4. ASSUME NEW t, t # "nul" PROVE Optional(c, y, t) \in Results(Len(c), x)
  <2>1. Optional(c, y, t) = IF peek(c, s.pos) = t THEN Past(s) ELSE s
    BY <1>3 DEF Optional
  <2>2. peek(c, s.pos) = t => Past(s) \in Results(Len(c), x)
    BY <1>0, <1>2, <1>3, <1>4, ResultsOf
  <2> QED BY <1>3, <2>1, <2>2
<1>5. Failed(y) \in Results(Len(c), x)
  BY <1>0, ResultIn, ResultsOf
<1>6. peek(c, y.pos) # "nul" => Past(y) \in Results(Len(c), x)
  BY <1>0, <1>2, ResultsOf
<1> QED BY <1>0, <1>3, <1>4, <1>5, <1>6

LEMMA TruthIn == ASSUME NEW cond PROVE Truth(cond) \in Int
<1>1. Truth(cond) = -1 \/ Truth(cond) = 0
  BY Zenon DEF Truth
<1> QED BY <1>1

LEMMA AbsIn ==
  ASSUME NEW n \in Int
  PROVE  Abs(n) \in Nat /\ (n # 0 => Abs(n) > 0) /\ Sign(n) \in Int
BY DEF Abs, Sign

LEMMA QuotientIn ==
  ASSUME NEW a \in Int, NEW b \in Int, b # 0
  PROVE  Quotient(a, b) \in Int /\ Remainder(a, b) \in Int
<1>1. PICK m \in Nat, n \in Nat \ {0} : m = Abs(a) /\ n = Abs(b)
  BY AbsIn
<1>2. PICK i \in Int, j \in Int : i = Sign(a) /\ j = Sign(b)
  BY AbsIn
<1>3. m \div n \in Int
  OBVIOUS
<1>4. PICK q \in Int : q = i * j * (m \div n)
  BY <1>3
<1>5. Quotient(a, b) = q
  BY <1>1, <1>2, <1>4 DEF Quotient
<1>6. a - b * q \in Int
  OBVIOUS
<1> QED BY <1>5, <1>6 DEF Remainder

LEMMA ComputedIn ==
  ASSUME NEW t, NEW a \in Int, NEW b \in Int, t \in {"/", "MOD"} => b # 0
  PROVE  Computed(t, a, b) \in Int
<1>1. a + b \in Int /\ a - b \in Int /\ a * b \in Int
  OBVIOUS
<1>2. b # 0 => Quotient(a, b) \in Int /\ Remainder(a, b) \in Int
  BY QuotientIn
<1>3. Truth(Compared(t, a - b)) \in Int
  BY TruthIn
<1>4. CASE t = "+"
  <2>1. Computed(t, a, b) = a + b
    BY <1>4, Zenon DEF Computed
  <2> QED BY <1>1, <2>1
<1>5. CASE t = "-"
  <2>1. Computed(t, a, b) = a - b
    BY <1>5, Zenon DEF Computed
  <2> QED BY <1>1, <2>1
<1>6. CASE t = "*"
  <2>1. Computed(t, a, b) = a * b
    BY <1>6, Zenon DEF Computed
  <2> QED BY <1>1, <2>1
<1>7. CASE t = "/"
  <2>1. Computed(t, a, b) = Quotient(a, b)
    BY <1>7, Zenon DEF Computed
  <2> QED BY <1>2, <1>7, <2>1
<1>8. CASE t = "MOD"
  <2>1. Computed(t, a, b) = Remainder(a, b)
    BY <1>8, Zenon DEF Computed
  <2> QED BY <1>2, <1>8, <2>1
<1>9. CASE t \notin {"+", "-", "*", "/", "MOD"}
  <2>1. Computed(t, a, b) = Truth(Compared(t, a - b))
    BY <1>9, Zenon DEF Computed
  <2> QED BY <1>3, <2>1
<1> QED BY <1>4, <1>5, <1>6, <1>7, <1>8, <1>9

LEMMA ConcatenationIn ==
  ASSUME NEW end, NEW l \in Seq(Words), NEW r \in Seq(Words), NEW x \in Scans
  PROVE  Joined(l, r, x) \in Results(end, x)
<1>1. PICK both \in Seq(Words) : both = l \o r
  BY JoinedIn
<1>2. PICK n \in Int : n = Len(both) % LenMod
  BY LenProperties, ExprAssumption
<1>3. Upto(both, 1, n) \in Seq(Words)
  BY UptoIn
<1>4. make_str(x, Upto(both, 1, n)) \in Results(end, x) /\ Trapped(x) \in Results(end, x)
  BY <1>3, ResultIn
<1>5. Joined(l, r, x) = IF x.pool + n < STRING_POOL_SIZE /\ x.pool + Len(both) > STRING_POOL_SIZE
                        THEN Trapped(x) ELSE make_str(x, Upto(both, 1, n))
  BY <1>1, <1>2, Zenon DEF Joined
<1> QED BY <1>4, <1>5, Zenon

LEMMA CombinedIn ==
  ASSUME NEW end, NEW t, NEW l \in Values, NEW x \in Scans
  PROVE  Combined(t, l, x) \in Results(end, x)
<1> DEFINE r == x.v
           plain == IF ~BothNum(l, r) \/ (t \in {"/", "MOD"} /\ r.num = 0) THEN Failed(x)
                    ELSE IF t \in {"/", "MOD"} /\ l.num = MinInt /\ r.num = -1 THEN Trapped(x)
                    ELSE make_num(x, Computed(t, l.num, r.num))
           orders == {"=", "<>", "<", ">", "<=", ">="}
<1>1. /\ r \in Values /\ l.str \in Seq(Words) /\ r.str \in Seq(Words)
      /\ l.num \in Int /\ r.num \in Int
  BY ScanIn, ValueIn
<1>2. Joined(l.str, r.str, x) \in Results(end, x)
  BY <1>1, ConcatenationIn
<1>3. ASSUME NEW cond PROVE make_num(x, Truth(cond)) \in Results(end, x)
  BY TruthIn, ResultIn
<1>4. plain \in Results(end, x)
  <2>1. ~(t \in {"/", "MOD"} /\ r.num = 0) => Computed(t, l.num, r.num) \in Int
    BY <1>1, ComputedIn
  <2>2. ~(t \in {"/", "MOD"} /\ r.num = 0) => make_num(x, Computed(t, l.num, r.num)) \in Results(end, x)
    BY <2>1, ResultIn
  <2> QED BY <2>2, ResultIn, Zenon
<1>5. Combined(t, l, x) =
        IF x.err # "none" THEN x
        ELSE CASE t = "AND" -> make_num(x, Truth(IsTrue(l) /\ IsTrue(r)))
          [] t = "OR" -> make_num(x, Truth(IsTrue(l) \/ IsTrue(r)))
          [] t = "+" /\ BothStr(l, r) -> Joined(l.str, r.str, x)
          [] t \in orders /\ BothStr(l, r) -> make_num(x, Truth(Compared(t, strcmp(l.str, r.str))))
          [] OTHER -> plain
  BY Zenon DEF Combined
<1> HIDE DEF plain, r, orders
<1>6. CASE x.err # "none"
  <2>1. Combined(t, l, x) = x
    BY <1>5, <1>6, Zenon
  <2> QED BY <2>1, ResultIn
<1>7. CASE x.err = "none" /\ t = "AND"
  <2>1. Combined(t, l, x) = make_num(x, Truth(IsTrue(l) /\ IsTrue(r)))
    BY <1>5, <1>7, Zenon DEF orders
  <2> QED BY <1>3, <2>1
<1>8. CASE x.err = "none" /\ t = "OR"
  <2>1. Combined(t, l, x) = make_num(x, Truth(IsTrue(l) \/ IsTrue(r)))
    BY <1>5, <1>8, Zenon DEF orders
  <2> QED BY <1>3, <2>1
<1>9. CASE x.err = "none" /\ t = "+" /\ BothStr(l, r)
  <2>1. Combined(t, l, x) = Joined(l.str, r.str, x)
    BY <1>5, <1>9, Zenon DEF orders
  <2> QED BY <1>2, <2>1
<1>10. CASE x.err = "none" /\ t \in orders /\ BothStr(l, r)
  <2>1. Combined(t, l, x) = make_num(x, Truth(Compared(t, strcmp(l.str, r.str))))
    BY <1>5, <1>10, Zenon DEF orders
  <2> QED BY <1>3, <2>1
<1>11. CASE x.err = "none" /\ t # "AND" /\ t # "OR" /\ ~((t = "+" \/ t \in orders) /\ BothStr(l, r))
  <2>1. Combined(t, l, x) = plain
    BY <1>5, <1>11, Zenon
  <2> QED BY <1>4, <2>1
<1> QED BY <1>6, <1>7, <1>8, <1>9, <1>10, <1>11, Zenon

LEMMA AppliedIn ==
  ASSUME NEW end, NEW f \in Functions1, NEW x \in Scans
  PROVE  Applied(f, x) \in Results(end, x)
<1> DEFINE a == x.v
<1>1. /\ a.num \in Numbers /\ a.num \in Int /\ a.str \in Seq(Words) /\ Len(a.str) \in Nat
      /\ x.draw \in Nat
  <2>1. a \in Values /\ x.draw \in Nat
    BY ScanIn
  <2> QED BY <2>1, ValueIn, LenProperties
<1> HIDE DEF a
<1>2. CASE a.type # (IF f \in NumFunctions THEN "num" ELSE "str")
  <2>1. Applied(f, x) = Failed(x)
    BY <1>2, Zenon DEF Applied, a
  <2> QED BY <2>1, ResultIn
<1>3. CASE a.type = (IF f \in NumFunctions THEN "num" ELSE "str")
  <2>1. Applied(f, x) =
          CASE f = "ABS" -> make_num(x, Abs(a.num))
            [] f = "RND" -> make_num(x, basic_rnd(x.draw, a.num))
            [] f = "INT" -> x
            [] f = "LEN" -> make_num(x, Len(a.str))
            [] f = "VAL" -> make_num(x, str_to_i32(a.str))
            [] f = "CHR$" -> make_str(x, <<Chars[(a.num % Len(Chars)) + 1]>>)
            [] f = "STR$" -> make_str(x, i32_to_str(a.num))
            [] f = "PEEK" -> make_num(x, x.draw % 256)
    BY <1>3, Zenon DEF Applied, a
  <2>2. \A n \in Int : make_num(x, n) \in Results(end, x)
    BY ResultIn
  <2>3. \A s \in Seq(Words) : make_str(x, s) \in Results(end, x)
    BY ResultIn
  <2>4. CASE f = "ABS"
    <3>1. Applied(f, x) = make_num(x, Abs(a.num))
      BY <2>1, <2>4, Zenon
    <3>2. Abs(a.num) \in Nat
      BY <1>1, AbsIn
    <3> QED BY <2>2, <3>1, <3>2
  <2>5. CASE f = "RND"
    <3>1. Applied(f, x) = make_num(x, basic_rnd(x.draw, a.num))
      BY <2>1, <2>5, Zenon
    <3>2. basic_rnd(x.draw, a.num) \in Int
      BY <1>1 DEF basic_rnd
    <3> QED BY <2>2, <3>1, <3>2
  <2>6. CASE f = "INT"
    <3>1. Applied(f, x) = x
      BY <2>1, <2>6, Zenon
    <3> QED BY <3>1, ResultIn
  <2>7. CASE f = "LEN"
    <3>1. Applied(f, x) = make_num(x, Len(a.str))
      BY <2>1, <2>7, Zenon
    <3> QED BY <1>1, <2>2, <3>1
  <2>8. CASE f = "VAL"
    <3>1. Applied(f, x) = make_num(x, str_to_i32(a.str))
      BY <2>1, <2>8, Zenon
    <3>2. str_to_i32(a.str) \in Int
      BY <1>1, TextAsNumber, NumbersInt
    <3> QED BY <2>2, <3>1, <3>2
  <2>9. CASE f = "CHR$"
    <3>1. Applied(f, x) = make_str(x, <<Chars[(a.num % Len(Chars)) + 1]>>)
      BY <2>1, <2>9, Zenon
    <3>2. PICK n \in Nat \ {0} : n = Len(Chars)
      <4>1. Chars \in Seq(Words)
        BY CharsAssumption, Zenon
      <4>2. "-" \in ToSet(Chars)
        BY TextAssumption, Zenon
      <4>3. ToSet(Chars) = {Chars[i] : i \in DOMAIN Chars}
        BY Zenon DEF ToSet
      <4>4. DOMAIN Chars = 1 .. Len(Chars) /\ Len(Chars) \in Nat
        BY <4>1, LenProperties
      <4>5. Len(Chars) # 0
        BY <4>2, <4>3, <4>4
      <4> QED BY <4>4, <4>5
    <3>3. (a.num % n) + 1 \in 1 .. n
      BY <1>1
    <3>4. Chars[(a.num % n) + 1] \in Words
      <4>1. Chars \in Seq(Words)
        BY CharsAssumption, Zenon
      <4> QED BY <3>2, <3>3, <4>1, ElementOfSeq
    <3>5. <<Chars[(a.num % n) + 1]>> \in Seq(Words)
      BY <3>4
    <3>6. <<Chars[(a.num % Len(Chars)) + 1]>> \in Seq(Words)
      BY <3>2, <3>5, Zenon
    <3> QED BY <2>3, <3>1, <3>6, Zenon
  <2>10. CASE f = "STR$"
    <3>1. Applied(f, x) = make_str(x, i32_to_str(a.num))
      BY <2>1, <2>10, Zenon
    <3>2. i32_to_str(a.num) \in Seq(Words)
      BY <1>1, NumberAsText
    <3> QED BY <2>3, <3>1, <3>2
  <2>11. CASE f = "PEEK"
    <3>1. Applied(f, x) = make_num(x, x.draw % 256)
      BY <2>1, <2>11, Zenon
    <3>2. x.draw % 256 \in Int
      BY <1>1
    <3> QED BY <2>2, <3>1, <3>2
  <2> QED BY <2>4, <2>5, <2>6, <2>7, <2>8, <2>9, <2>10, <2>11, Zenon
        DEF Functions1, NumFunctions, StrFunctions
<1> QED BY <1>2, <1>3

LEMMA ClampedIn ==
  ASSUME NEW n \in Int, NEW high \in Nat
  PROVE  Clamped(n, high) \in 0 .. high
<1>1. PICK m \in Int : m = Min({n, high}) /\ m <= high
  BY LeastOfTwo
<1>2. Max({0, m}) = IF 0 >= m THEN 0 ELSE m
  BY GreatestOfTwo
<1>3. Clamped(n, high) = Max({0, m})
  BY <1>1 DEF Clamped
<1> QED BY <1>1, <1>2, <1>3

LEMMA CutIn ==
  ASSUME NEW s \in Seq(Words), NEW n \in Int
  PROVE  LeftOf(s, n) \in Seq(Words) /\ RightOf(s, n) \in Seq(Words) /\ MidStart(s, n) \in Nat
<1>1. PICK len \in Nat : len = Len(s)
  BY LenProperties
<1>2. PICK k \in 0 .. len : k = Clamped(n, len)
  BY ClampedIn
<1>3. SubSeq(s, 1, k) \in Seq(Words)
  BY <1>1, <1>2, PieceOf
<1>4. SubSeq(s, len - k + 1, len) \in Seq(Words)
  <2>1. len - k + 1 \in Nat \ {0}
    BY <1>2
  <2> QED BY <1>1, <2>1, PieceOf
<1>5. Clamped(Wrapped(n - 1), len) \in Nat
  <2>1. Wrapped(n - 1) \in Int
    BY NumeralIn
  <2>2. Clamped(Wrapped(n - 1), len) \in 0 .. len
    BY <2>1, ClampedIn
  <2> QED BY <2>2
<1> QED BY <1>1, <1>2, <1>3, <1>4, <1>5 DEF LeftOf, RightOf, MidStart

LEMMA PieceIn ==
  ASSUME NEW end, NEW f \in CutFunctions, NEW a \in Values, NEW b \in Values, NEW x \in Scans
  PROVE  Piece(f, a, b, x) \in Results(end, x)
<1> DEFINE from == MidStart(a.str, b.num)
           n == Max({0, x.v.num})
           mid == IF Wrapped(from + n) < 0 THEN Trapped(x) ELSE make_str(x, Upto(a.str, from + 1, n))
<1>1. a.str \in Seq(Words) /\ b.num \in Int /\ x.v.num \in Int
  BY ScanIn, ValueIn
<1>2. \A s \in Seq(Words) : make_str(x, s) \in Results(end, x)
  BY ResultIn
<1>3. LeftOf(a.str, b.num) \in Seq(Words) /\ RightOf(a.str, b.num) \in Seq(Words) /\ from \in Nat
  BY <1>1, CutIn
<1>4. mid \in Results(end, x)
  <2>1. PICK i \in Int : i = n
    BY <1>1, GreatestOfTwo
  <2>2. PICK k \in Nat \ {0} : k = from + 1
    BY <1>3
  <2>3. Upto(a.str, k, i) \in Seq(Words)
    BY <1>1, UptoIn
  <2>4. make_str(x, Upto(a.str, from + 1, n)) \in Results(end, x)
    BY <1>2, <2>1, <2>2, <2>3, Zenon
  <2> QED BY <2>4, ResultIn, Zenon
<1>5. Piece(f, a, b, x) =
        IF x.err # "none" THEN x
        ELSE IF a.type # "str" \/ b.type # "num" \/ x.v.type # "num" THEN Failed(x)
        ELSE CASE f = "LEFT$" -> make_str(x, LeftOf(a.str, b.num))
               [] f = "RIGHT$" -> make_str(x, RightOf(a.str, b.num))
               [] f = "MID$" -> mid
  BY Zenon DEF Piece
<1> HIDE DEF mid
<1>6. CASE x.err # "none" \/ a.type # "str" \/ b.type # "num" \/ x.v.type # "num"
  BY <1>5, <1>6, ResultIn, Zenon
<1>7. CASE ~(x.err # "none" \/ a.type # "str" \/ b.type # "num" \/ x.v.type # "num")
  <2>1. Piece(f, a, b, x) =
          CASE f = "LEFT$" -> make_str(x, LeftOf(a.str, b.num))
            [] f = "RIGHT$" -> make_str(x, RightOf(a.str, b.num))
            [] f = "MID$" -> mid
    BY <1>5, <1>7, Zenon
  <2>2. f = "LEFT$" => Piece(f, a, b, x) = make_str(x, LeftOf(a.str, b.num))
    BY <2>1, Zenon
  <2>3. f = "RIGHT$" => Piece(f, a, b, x) = make_str(x, RightOf(a.str, b.num))
    BY <2>1, Zenon
  <2>4. f = "MID$" => Piece(f, a, b, x) = mid
    BY <2>1, Zenon
  <2> QED BY <1>2, <1>3, <1>4, <2>2, <2>3, <2>4, Zenon DEF CutFunctions
<1> QED BY <1>6, <1>7

LEMMA NegatedIn ==
  ASSUME NEW end, NEW t, NEW x \in Scans
  PROVE  Negated(t, x) \in Results(end, x)
<1> DEFINE neg == IF t = "-" THEN -x.v.num ELSE IF x.v.num # 0 THEN 0 ELSE 1
<1>1. neg \in Int
  BY ScanIn, ValueIn
<1>2. make_num(x, neg) \in Results(end, x)
  BY <1>1, ResultIn
<1>3. Negated(t, x) = CASE x.err # "none" -> x
                        [] x.err = "none" /\ x.v.type # "num" -> Failed(x)
                        [] OTHER -> make_num(x, neg)
  BY Zenon DEF Negated
<1> HIDE DEF neg
<1>4. CASE x.err # "none"
  BY <1>3, <1>4, ResultIn, Zenon
<1>5. CASE x.err = "none" /\ x.v.type # "num"
  BY <1>3, <1>5, ResultIn, Zenon
<1>6. CASE x.err = "none" /\ x.v.type = "num"
  BY <1>2, <1>3, <1>6, Zenon
<1> QED BY <1>4, <1>5, <1>6, Zenon

-----------------------------------------------------------------------------
(* The descent. Each call of it gives a state of the evaluator when the    *)
(* calls it nests do.                                                      *)

VarsIn == num_vars \in [NumVars -> Numbers] /\ str_vars \in [Letters -> Seq(Words)]
Evaluates(end, e) == \A call \in Calls : e[call] \in Results(end, call.x)

LEMMA ParseIn ==
  ASSUME NEW end, NEW e, Evaluates(end, e), NEW level \in Levels, NEW x \in Scans
  PROVE  parse(e, level, x) \in Results(end, x) /\ parse(e, level, x) \in Scans
         /\ e[[f |-> "rest", level |-> level, x |-> x]] \in Results(end, x)
<1>1. \A f \in {"parse", "rest"} : /\ [f |-> f, level |-> level, x |-> x] \in Calls
                                   /\ [f |-> f, level |-> level, x |-> x].x = x
  BY DEF Calls
<1>2. \A f \in {"parse", "rest"} : e[[f |-> f, level |-> level, x |-> x]] \in Results(end, x)
  BY <1>1, Zenon DEF Evaluates
<1>3. parse(e, level, x) \in Results(end, x) /\ e[[f |-> "rest", level |-> level, x |-> x]] \in Results(end, x)
  BY <1>2, Zenon DEF parse
<1> QED BY <1>3 DEF Results

\* What the calls below find for a result of x is one.
LEMMA NestedIn ==
  ASSUME NEW end \in Nat, NEW e, Evaluates(end, e), NEW level \in Levels,
         NEW x \in Scans, NEW y \in Results(end, x)
  PROVE  /\ parse(e, level, y) \in Results(end, x) /\ parse(e, level, y) \in Scans
         /\ e[[f |-> "rest", level |-> level, x |-> y]] \in Results(end, x)
<1>1. y \in Scans
  BY DEF Results
<1>2. parse(e, level, y) \in Results(end, y) /\ e[[f |-> "rest", level |-> level, x |-> y]] \in Results(end, y)
  BY <1>1, ParseIn
<1> QED BY <1>2, ResultsOf

LEMMA LevelsIn ==
  /\ "or" \in Levels /\ "primary" \in Levels
  /\ \A level \in Levels : level # "primary" => Below[level] \in Levels
BY DEF Levels, Below

LEMMA VariableIn ==
  ASSUME VarsIn, NEW c \in Seq(Lexemes), NEW x \in Scans, is_letter(peek(c, x.pos))
  PROVE  variable(c, x) \in Results(Len(c), x)
<1> DEFINE name == peek(c, x.pos)
           y == Past(x)
           suffix == peek(c, y.pos)
           str == make_str(Past(y), str_vars[name])
           numbered == make_num(Past(y), num_vars[<<name, DigitOf(suffix)>>])
           plain == make_num(y, num_vars[<<name, -1>>])
<1>1. name \in Letters
  BY DEF is_letter
<1>0. Len(c) \in Nat /\ x \in Results(Len(c), x)
  BY LenProperties, ResultIn
<1>2. /\ y \in Results(Len(c), x) /\ y \in Scans
      /\ suffix # "nul" => Past(y) \in Results(Len(c), x) /\ Past(y) \in Scans
  <2>1. name # "nul"
    BY <1>1, ExprAssumption
  <2>2. y \in Results(Len(c), x)
    BY <1>0, <2>1, ChainIn
  <2> HIDE DEF y
  <2>3. y \in Scans
    BY <2>2, ChainIn
  <2>4. suffix # "nul" => Past(y) \in Results(Len(c), x)
    BY <2>2, ChainIn
  <2>5. suffix # "nul" => Past(y) \in Scans
    BY <2>3, PastIn
  <2> QED BY <2>2, <2>3, <2>4, <2>5
<1> HIDE DEF name, y, suffix
<1>3. suffix = "$" => str \in Results(Len(c), x)
  <2>0. SUFFICES ASSUME suffix = "$" PROVE str \in Results(Len(c), x)
    OBVIOUS
  <2>0a. Past(y) \in Results(Len(c), x) /\ Past(y) \in Scans
    BY <1>2, <2>0
  <2>1. str_vars[name] \in Seq(Words)
    BY <1>1 DEF VarsIn
  <2>2. str \in Results(Len(c), Past(y))
    BY <2>0a, <2>1, ResultIn
  <2> HIDE DEF str
  <2> QED BY <1>0, <2>0a, <2>2, ResultsOf
<1>4. ASSUME NEW z \in Results(Len(c), x), NEW i \in -1 .. 9
      PROVE  make_num(z, num_vars[<<name, i>>]) \in Results(Len(c), x)
  <2>1. <<name, i>> \in NumVars
    BY <1>1 DEF NumVars
  <2>2. num_vars[<<name, i>>] \in Int
    <3>1. num_vars[<<name, i>>] \in Numbers
      BY <2>1 DEF VarsIn
    <3> QED BY <3>1, NumbersInt
  <2>3. z \in Scans
    BY DEF Results
  <2>4. make_num(z, num_vars[<<name, i>>]) \in Results(Len(c), z)
    BY <2>2, <2>3, ResultIn
  <2> QED BY <1>0, <2>4, ResultsOf
<1>5. plain \in Results(Len(c), x)
  <2>1. -1 \in -1 .. 9
    OBVIOUS
  <2> QED BY <1>2, <1>4, <2>1
<1>6. is_dig(suffix) => numbered \in Results(Len(c), x)
  <2>1. ASSUME is_dig(suffix) PROVE DigitOf(suffix) \in -1 .. 9
    <3>1. DigitOf(suffix) \in 0 .. 9
      BY <2>1, DigitOfIn
    <3> QED BY <3>1
  <2>2. ~is_dig("nul")
    <3>1. \A d \in 0 .. 9 : Digit(d) \in {"0", "1", "2", "3", "4", "5", "6", "7", "8", "9"}
      BY DEF Digit, DigitChars
    <3> QED BY <3>1 DEF is_dig
  <2>3. is_dig(suffix) => Past(y) \in Results(Len(c), x)
    BY <1>2, <2>2
  <2> QED BY <1>4, <2>1, <2>3
<1>7. variable(c, x) = CASE suffix = "$" -> str
                         [] is_dig(suffix) -> numbered
                         [] OTHER -> plain
  BY Zenon DEF variable, name, y, suffix
<1>8. ~is_dig("$")
  <2>1. \A d \in 0 .. 9 : Digit(d) \in {"0", "1", "2", "3", "4", "5", "6", "7", "8", "9"}
    BY DEF Digit, DigitChars
  <2> QED BY <2>1 DEF is_dig
<1> HIDE DEF str, numbered, plain
<1>9. CASE suffix = "$"
  BY <1>3, <1>7, <1>8, <1>9, Zenon
<1>10. CASE suffix # "$" /\ is_dig(suffix)
  BY <1>6, <1>7, <1>10, Zenon
<1>11. CASE suffix # "$" /\ ~is_dig(suffix)
  BY <1>5, <1>7, <1>11, Zenon
<1> QED BY <1>9, <1>10, <1>11, Zenon

LEMMA FunctionIn ==
  ASSUME NEW c \in Seq(Lexemes), NEW e, Evaluates(Len(c), e), NEW f \in FunctionTokens,
         NEW x \in Scans
  PROVE  parse_function(e, f, c, x) \in Results(Len(c), x)
<1> DEFINE R == Results(Len(c), x)
           open == Skip(c, x)
           Third(a, b, d) == Piece(f, a.v, b.v, Optional(c, d, ")"))
           third(a, b) == CHOOSE r \in {Third(a, b, d) : d \in {parse(e, "or", Optional(c, b, ","))}} : TRUE
           Second(a, b) == IF f # "MID$" THEN Third(a, b, b) ELSE third(a, b)
           second(a) == CHOOSE r \in {Second(a, b) : b \in {parse(e, "or", Optional(c, a, ","))}} : TRUE
           First(a) == IF a.err # "none" THEN a
                       ELSE IF f = "POKE" THEN Failed(a)
                       ELSE IF f \in Functions1 THEN Applied(f, Optional(c, a, ")"))
                       ELSE second(a)
           first == CHOOSE r \in {First(a) : a \in {parse(e, "or", Past(open))}} : TRUE
<1>1. parse_function(e, f, c, x) = IF peek(c, open.pos) # "(" THEN Failed(x) ELSE first
  BY Zenon DEF parse_function, Once
<1>2. Len(c) \in Nat /\ x \in R
  BY LenProperties, ResultIn
<1>3. ASSUME NEW a \in R
      PROVE  /\ a \in Scans /\ Failed(a) \in R /\ Optional(c, a, ")") \in R
             /\ parse(e, "or", Optional(c, a, ",")) \in R
  <2>1. a \in Scans /\ Failed(a) \in R /\ Optional(c, a, ")") \in R /\ Optional(c, a, ",") \in R
    <3>1. ")" # "nul" /\ "," # "nul"
      BY Zenon
    <3> QED BY <3>1, ChainIn, Zenon
  <2>2. parse(e, "or", Optional(c, a, ",")) \in R
    BY <1>2, <2>1, NestedIn, LevelsIn
  <2> QED BY <2>1, <2>2
<1>4. ASSUME NEW a \in R, NEW b \in R, NEW d \in R, f \in CutFunctions
      PROVE  Third(a, b, d) \in R
  <2>1. PICK z \in R : z = Optional(c, d, ")") /\ z \in Scans
    BY <1>3, Zenon
  <2>2. a.v \in Values /\ b.v \in Values
    BY <1>3, ScanIn
  <2>3. Piece(f, a.v, b.v, z) \in Results(Len(c), z)
    BY <1>4, <2>1, <2>2, PieceIn
  <2>4. Piece(f, a.v, b.v, z) \in R
    BY <1>2, <2>1, <2>3, ResultsOf
  <2> QED BY <2>1, <2>4
<1> HIDE DEF Third, R
<1>5. ASSUME NEW a \in R, NEW b \in R, f \in CutFunctions
      PROVE  Second(a, b) \in R
  <2>1. third(a, b) = Third(a, b, parse(e, "or", Optional(c, b, ",")))
    BY Zenon
  <2>2. parse(e, "or", Optional(c, b, ",")) \in R
    BY <1>3, Zenon
  <2>3. \A d \in R : Third(a, b, d) \in R
    BY <1>4, <1>5, Zenon
  <2>4. Third(a, b, parse(e, "or", Optional(c, b, ","))) \in R
    BY <2>2, <2>3, Zenon
  <2>5. third(a, b) \in R
    BY <2>1, <2>4, Zenon
  <2>6. Third(a, b, b) \in R
    BY <2>3, Zenon
  <2> HIDE DEF third
  <2> QED BY <2>5, <2>6
<1> HIDE DEF Second
<1>6. ASSUME NEW a \in R PROVE First(a) \in R
  <2>1. second(a) = Second(a, parse(e, "or", Optional(c, a, ",")))
    BY Zenon
  <2>2. f \in CutFunctions => second(a) \in R
    BY <1>3, <1>5, <2>1, Zenon
  <2>3. f \in Functions1 => Applied(f, Optional(c, a, ")")) \in R
    <3>1. PICK z \in R : z = Optional(c, a, ")") /\ z \in Scans
      BY <1>3, Zenon
    <3>2. f \in Functions1 => Applied(f, z) \in Results(Len(c), z)
      BY <3>1, AppliedIn
    <3>3. f \in Functions1 => Applied(f, z) \in R
      BY <1>2, <3>1, <3>2, ResultsOf DEF R
    <3> QED BY <3>1, <3>3, Zenon
  <2>4. Failed(a) \in R
    BY <1>3, Zenon
  <2>5. f # "POKE" /\ f \notin Functions1 => f \in CutFunctions
    BY DEF FunctionTokens
  <2> HIDE DEF second
  <2> QED BY <2>2, <2>3, <2>4, <2>5, Zenon
<1> HIDE DEF First
<1>7. peek(c, open.pos) = "(" => first \in R
  <2> SUFFICES ASSUME peek(c, open.pos) = "(" PROVE first \in R
    OBVIOUS
  <2>1. first = First(parse(e, "or", Past(open)))
    BY Zenon
  <2>2. open \in R
    BY <1>2, ChainIn DEF R
  <2>3. Past(open) \in R
    <3>1. peek(c, open.pos) # "nul"
      BY Zenon
    <3> HIDE DEF open
    <3> QED BY <2>2, <3>1, ChainIn DEF R
  <2>4. parse(e, "or", Past(open)) \in R
    BY <1>2, <2>3, NestedIn, LevelsIn DEF R
  <2> QED BY <1>6, <2>1, <2>4, Zenon
<1>8. Failed(x) \in R
  BY <1>2, <1>3, Zenon
<1> HIDE DEF first, open
<1>9. parse_function(e, f, c, x) \in R
  BY <1>1, <1>7, <1>8, Zenon
<1> QED BY <1>9 DEF R

LEMMA LiteralIn ==
  ASSUME NEW c \in Seq(Lexemes), Fits(c), NEW x \in Scans, peek(c, x.pos) = "STR"
  PROVE  literal(c, x) \in Scans /\ x.pos <= literal(c, x).pos /\ literal(c, x).pos <= Len(c)
<1> DEFINE n == c[x.pos + 1].n
           raw == Upto(c, x.pos + 3, n)
           chars == [i \in 1 .. Len(raw) |-> raw[i].t]
<1>1. x.pos \in Nat
  BY ScanIn
<1>2. n \in Nat
  <2>1. PICK p \in Nat : p = x.pos
    BY <1>1
  <2>2. peek(c, p) = "STR"
    BY <2>1, Zenon
  <2>3. c[p + 1].n \in Nat
    BY <2>2, PeekIn
  <2> QED BY <2>1, <2>3, Zenon
<1>2a. x.pos + 2 + n <= Len(c)
  <2>1. PICK p \in Nat : p = x.pos
    BY <1>1
  <2>2. peek(c, p) = "STR"
    BY <2>1, Zenon
  <2>3. p < Len(c) /\ c[p + 1].t = "STR" /\ Len(c) \in Nat
    BY <2>2, PeekIn, LenProperties
  <2>4. p + 1 \in 1 .. Len(c)
    BY <2>3
  <2>5. (p + 1) + 1 + c[p + 1].n <= Len(c)
    BY <2>3, <2>4 DEF Fits
  <2>6. PICK k \in Nat : k = c[p + 1].n
    BY <1>2, <2>1
  <2>7. (p + 1) + 1 + k = p + 2 + k
    OBVIOUS
  <2> QED BY <2>1, <2>5, <2>6, <2>7
<1> HIDE DEF n
<1>3. x.pos + 3 \in Nat \ {0} /\ x.pos + 2 + n \in Nat
  BY <1>1, <1>2
<1>4. raw \in Seq(Lexemes)
  <2>1. PICK i \in Nat \ {0}, k \in Int : i = x.pos + 3 /\ k = n
    BY <1>2, <1>3
  <2>2. Upto(c, i, k) \in Seq(Lexemes)
    BY UptoIn
  <2> QED BY <2>1, <2>2, Zenon
<1> HIDE DEF raw
<1>5. chars \in Seq(Words)
  <2>1. Len(raw) \in Nat /\ \A i \in 1 .. Len(raw) : raw[i] \in Lexemes
    BY <1>4, LenProperties, ElementOfSeq
  <2>2. \A i \in 1 .. Len(raw) : raw[i].t \in Words
    BY <2>1 DEF Lexemes
  <2> QED BY <2>1, <2>2
<1> HIDE DEF chars
<1>6. PICK p \in Nat : p = x.pos + 2 + n /\ x.pos <= p /\ p <= Len(c)
  BY <1>1, <1>2, <1>2a, <1>3
<1>7. [x EXCEPT !.pos = p] \in Scans /\ [x EXCEPT !.pos = p].pos = p
  BY MovedIn
<1>8. make_str([x EXCEPT !.pos = p], chars) \in Scans /\ make_str([x EXCEPT !.pos = p], chars).pos = p
  BY <1>5, <1>7, MakeStrIn
<1>9. literal(c, x) = make_str([x EXCEPT !.pos = x.pos + 2 + n], chars)
  BY Zenon DEF literal, n, raw, chars
<1> QED BY <1>6, <1>8, <1>9, Zenon

LEMMA OperandIn ==
  ASSUME VarsIn, NEW c \in Seq(Lexemes), Fits(c), NEW e, Evaluates(Len(c), e), NEW x \in Scans
  PROVE  Operand(e, c, x) \in Results(Len(c), x)
<1> DEFINE tok == peek(c, x.pos)
           Negate(y) == Negated(tok, y)
           Close(y) == Optional(c, y, ")")
           negated == CHOOSE r \in {Negate(y) : y \in {parse(e, "primary", Past(x))}} : TRUE
           closed == CHOOSE r \in {Close(y) : y \in {parse(e, "or", Past(x))}} : TRUE
           numeral == make_num([x EXCEPT !.pos = @ + 5], c[x.pos + 1].n)
           named == IF is_letter(tok) THEN variable(c, x) ELSE Failed(x)
           function == parse_function(e, tok, c, Past(x))
           Funs == FunctionTokens
           cases == CASE tok \in {"-", "NOT"} -> negated
                      [] tok = "(" -> closed
                      [] tok = "NUM" -> numeral
                      [] tok = "STR" -> literal(c, x)
                      [] tok \in Funs -> function
                      [] OTHER -> named
<1>1. Operand(e, c, x) = IF x.err # "none" THEN x ELSE cases
  BY Zenon DEF Operand, Once
<1>2. x.pos \in Nat /\ Len(c) \in Nat /\ x \in Results(Len(c), x)
  BY ScanIn, LenProperties, ResultIn
<1>3. tok # "nul" => Past(x) \in Results(Len(c), x) /\ Past(x) \in Scans
  BY <1>2, ChainIn, PastIn
<1>4. tok \in {"-", "NOT"} => negated \in Results(Len(c), x)
  <2>0. SUFFICES ASSUME tok \in {"-", "NOT"} PROVE negated \in Results(Len(c), x)
    OBVIOUS
  <2>1. negated = Negated(tok, parse(e, "primary", Past(x)))
    BY Zenon
  <2>2. Past(x) \in Results(Len(c), x)
    <3>1. tok # "nul"
      BY <2>0
    <3> QED BY <1>3, <3>1
  <2>3. PICK y \in Scans : y = parse(e, "primary", Past(x)) /\ y \in Results(Len(c), x)
    BY <1>2, <2>2, NestedIn, LevelsIn
  <2>4. Negated(tok, y) \in Results(Len(c), y)
    BY <2>3, NegatedIn
  <2>5. Negated(tok, y) \in Results(Len(c), x)
    BY <1>2, <2>3, <2>4, ResultsOf
  <2> QED BY <2>1, <2>3, <2>5, Zenon
<1>5. tok = "(" => closed \in Results(Len(c), x)
  <2>0. SUFFICES ASSUME tok = "(" PROVE closed \in Results(Len(c), x)
    OBVIOUS
  <2>1. closed = Optional(c, parse(e, "or", Past(x)), ")")
    BY Zenon
  <2>2. Past(x) \in Results(Len(c), x)
    <3>1. tok # "nul"
      BY <2>0, Zenon
    <3> QED BY <1>3, <3>1
  <2>3. PICK y \in Results(Len(c), x) : y = parse(e, "or", Past(x))
    BY <1>2, <2>2, NestedIn, LevelsIn
  <2>4. Optional(c, y, ")") \in Results(Len(c), x)
    <3>1. ")" # "nul"
      BY Zenon
    <3> QED BY <3>1, ChainIn, Zenon
  <2> QED BY <2>1, <2>3, <2>4, Zenon
<1>6. ASSUME x.err = "none", tok = "NUM" PROVE numeral \in Results(Len(c), x)
  <2>1. PICK p \in Nat : p = x.pos + 5
    BY <1>2
  <2>2. PICK k \in Int : k = c[x.pos + 1].n
    <3>1. tok # "nul"
      BY <1>6
    <3> QED BY <1>2, <3>1, PeekIn
  <2>3. numeral = make_num([x EXCEPT !.pos = p], k)
    BY <2>1, <2>2, Zenon
  <2>4. /\ make_num([x EXCEPT !.pos = p], k) \in Scans
        /\ make_num([x EXCEPT !.pos = p], k).pos = p
    <3>1. PICK y \in Scans : y = [x EXCEPT !.pos = p] /\ y.pos = p
      BY MovedIn
    <3>2. make_num(y, k) \in Scans /\ make_num(y, k).pos = p
      BY <3>1, MakeNumIn
    <3> QED BY <3>1, <3>2, Zenon
  <2>5. x.pos <= p /\ p <= Len(c)
    <3>1. x.pos < Len(c) /\ c[x.pos + 1].t = "NUM"
      BY <1>2, <1>6, PeekIn
    <3>2. x.pos + 1 \in 1 .. Len(c)
      BY <1>2, <3>1
    <3>3. (x.pos + 1) + 4 <= Len(c)
      BY <3>1, <3>2 DEF Fits
    <3> QED BY <1>2, <2>1, <3>3
  <2> HIDE DEF numeral
  <2> QED BY <1>6, <2>3, <2>4, <2>5 DEF Results
<1>7. ASSUME x.err = "none", tok = "STR" PROVE literal(c, x) \in Results(Len(c), x)
  <2>1. literal(c, x) \in Scans /\ x.pos <= literal(c, x).pos /\ literal(c, x).pos <= Len(c)
    BY <1>7, LiteralIn
  <2> QED BY <1>7, <2>1 DEF Results
<1>8. ASSUME tok \in Funs PROVE function \in Results(Len(c), x)
  <2>1. tok # "nul"
    BY <1>8 DEF FunctionTokens, Functions1, NumFunctions, StrFunctions, CutFunctions
  <2>2. Past(x) \in Results(Len(c), x) /\ Past(x) \in Scans
    BY <1>3, <2>1
  <2>3. function \in Results(Len(c), Past(x))
    BY <1>8, <2>2, FunctionIn
  <2> HIDE DEF function
  <2> QED BY <1>2, <2>2, <2>3, ResultsOf
<1>9. named \in Results(Len(c), x)
  BY VariableIn, ResultIn
<1>10. /\ tok \in {"-", "NOT"} => tok # "(" /\ tok # "NUM" /\ tok # "STR" /\ tok \notin Funs
       /\ "(" # "NUM" /\ "(" # "STR" /\ "(" \notin Funs
       /\ "NUM" # "STR" /\ "NUM" \notin Funs /\ "STR" \notin Funs
  BY DEF FunctionTokens, Functions1, NumFunctions, StrFunctions, CutFunctions
<1> HIDE DEF tok, negated, closed, numeral, named, function, Funs
<1>11. x.err = "none" => cases \in Results(Len(c), x)
  <2>0. SUFFICES ASSUME x.err = "none" PROVE cases \in Results(Len(c), x)
    OBVIOUS
  <2>1. CASE tok \in {"-", "NOT"}
    BY <1>4, <1>10, <2>1, Zenon
  <2>2. CASE tok = "("
    BY <1>5, <1>10, <2>2, Zenon
  <2>3. CASE tok = "NUM"
    BY <1>6, <1>10, <2>0, <2>3, Zenon
  <2>4. CASE tok = "STR"
    BY <1>7, <1>10, <2>0, <2>4, Zenon
  <2>5. CASE tok \in Funs
    BY <1>8, <1>10, <2>0, <2>5, Zenon
  <2>6. CASE tok \notin {"-", "NOT", "(", "NUM", "STR"} /\ tok \notin Funs
    BY <1>9, <2>6, Zenon
  <2> QED BY <2>1, <2>2, <2>3, <2>4, <2>5, <2>6
<1> HIDE DEF cases
<1> QED BY <1>1, <1>11, ResultIn, Zenon

LEMMA PrimaryIn ==
  ASSUME VarsIn, NEW c \in Seq(Lexemes), Fits(c), NEW e, Evaluates(Len(c), e), NEW x \in Scans
  PROVE  parse_primary(e, c, x) \in Results(Len(c), x)
<1> DEFINE once == CHOOSE r \in {Operand(e, c, y) : y \in {Skip(c, x)}} : TRUE
<1>1. parse_primary(e, c, x) = once
  BY Zenon DEF parse_primary, Once
<1>2. once = Operand(e, c, Skip(c, x))
  BY Zenon
<1>3. PICK y \in Scans : y = Skip(c, x) /\ y \in Results(Len(c), x)
  <2>1. x \in Results(Len(c), x)
    BY ResultIn
  <2> QED BY <2>1, ChainIn, SkipIn
<1>4. Operand(e, c, y) \in Results(Len(c), y)
  BY OperandIn
<1>5. Operand(e, c, y) \in Results(Len(c), x)
  BY <1>3, <1>4, LenProperties, ResultsOf
<1> QED BY <1>1, <1>2, <1>3, <1>5, Zenon

LEMMA RestIn ==
  ASSUME NEW c \in Seq(Lexemes), NEW e, Evaluates(Len(c), e), NEW level \in Levels, NEW x \in Scans
  PROVE  parse_rest(e, level, c, x) \in Results(Len(c), x)
<1> DEFINE y == Skip(c, x)
           op == peek(c, y.pos)
           Join(z) == Combined(op, x.v, z)
           Chain(z) == IF level = "compare" THEN z ELSE e[[f |-> "rest", level |-> level, x |-> z]]
           Operated(z) == CHOOSE r \in {Chain(u) : u \in {Join(z)}} : TRUE
           once == CHOOSE r \in {Operated(z) : z \in {parse(e, Below[level], Past(y))}} : TRUE
<1>1. parse_rest(e, level, c, x) = IF x.err # "none" \/ op \notin Ops[level] THEN y ELSE once
  BY Zenon DEF parse_rest, Once
<1>2. y \in Results(Len(c), x) /\ y \in Scans /\ Len(c) \in Nat
  <2>1. x \in Results(Len(c), x)
    BY ResultIn
  <2> QED BY <2>1, ChainIn, SkipIn, LenProperties
<1>3. x.v \in Values
  BY ScanIn
<1>4. ASSUME NEW z \in Results(Len(c), x) PROVE Chain(z) \in Results(Len(c), x)
  <2>1. e[[f |-> "rest", level |-> level, x |-> z]] \in Results(Len(c), x)
    BY <1>2, NestedIn
  <2> QED BY <2>1
<1> HIDE DEF Chain
<1>5. ASSUME NEW z \in Results(Len(c), x) PROVE Operated(z) \in Results(Len(c), x)
  <2>1. Operated(z) = Chain(Join(z))
    BY Zenon
  <2>2. z \in Scans
    BY DEF Results
  <2>3. Join(z) \in Results(Len(c), z)
    BY <1>3, <2>2, CombinedIn
  <2>4. Join(z) \in Results(Len(c), x)
    BY <1>2, <2>3, ResultsOf
  <2> QED BY <1>4, <2>1, <2>4, Zenon
<1> HIDE DEF Operated
<1>6. level # "primary" /\ op # "nul" => once \in Results(Len(c), x)
  <2> SUFFICES ASSUME level # "primary", op # "nul" PROVE once \in Results(Len(c), x)
    OBVIOUS
  <2>1. once = Operated(parse(e, Below[level], Past(y)))
    BY Zenon
  <2>2. Below[level] \in Levels
    BY LevelsIn
  <2>3. Past(y) \in Results(Len(c), x)
    <3> HIDE DEF y
    <3> QED BY <1>2, ChainIn DEF op
  <2>4. parse(e, Below[level], Past(y)) \in Results(Len(c), x)
    BY <1>2, <2>2, <2>3, NestedIn
  <2> QED BY <1>5, <2>1, <2>4, Zenon
<1>7. op \in Ops[level] => level # "primary" /\ op # "nul"
  <2>1. \A l \in Levels : "nul" \notin Ops[l] /\ (l = "primary" => Ops[l] = {})
    BY DEF Ops, Levels
  <2> HIDE DEF op
  <2> QED BY <2>1
<1> HIDE DEF y, once, op
<1> QED BY <1>1, <1>2, <1>6, <1>7, Zenon

LEMMA LevelIn ==
  ASSUME VarsIn, NEW c \in Seq(Lexemes), Fits(c), NEW e, Evaluates(Len(c), e),
         NEW level \in Levels, NEW x \in Scans
  PROVE  parse_level(e, level, c, x) \in Results(Len(c), x)
<1> DEFINE Rest(y) == parse_rest(e, level, c, y)
           once == CHOOSE r \in {Rest(y) : y \in {parse(e, Below[level], x)}} : TRUE
<1>1. parse_level(e, level, c, x) = IF level = "primary" THEN parse_primary(e, c, x) ELSE once
  BY Zenon DEF parse_level, Once
<1>2. level # "primary" => once \in Results(Len(c), x)
  <2> SUFFICES ASSUME level # "primary" PROVE once \in Results(Len(c), x)
    OBVIOUS
  <2>1. once = parse_rest(e, level, c, parse(e, Below[level], x))
    BY Zenon
  <2>2. Below[level] \in Levels
    BY LevelsIn
  <2>3. PICK y \in Scans : y = parse(e, Below[level], x) /\ y \in Results(Len(c), x)
    BY <2>2, ParseIn
  <2>4. parse_rest(e, level, c, y) \in Results(Len(c), y)
    BY <2>3, RestIn
  <2>5. parse_rest(e, level, c, y) \in Results(Len(c), x)
    BY <2>3, <2>4, LenProperties, ResultsOf
  <2> QED BY <2>1, <2>3, <2>5, Zenon
<1> HIDE DEF once
<1> QED BY <1>1, <1>2, PrimaryIn, Zenon

\* The evaluator of any tokens stays within its values and keeps an error.
LEMMA EvaluatorIn ==
  ASSUME VarsIn, NEW c \in Seq(Lexemes), Fits(c)
  PROVE  Evaluates(Len(c), Evaluator(c))
<1> DEFINE n == 7 * Len(c) + 8
           base == [call \in Calls |-> Failed(call.x)]
           called(g, call) == IF call.f = "rest" THEN parse_rest(g, call.level, c, call.x)
                              ELSE parse_level(g, call.level, c, call.x)
           outer(g) == [call \in Calls |-> called(g, call)]
           layer(g, k) == [call \in Calls |-> IF k = 0 THEN Failed(call.x) ELSE called(g, call)]
           loop == CHOOSE it : it = [k \in 0 .. n |-> layer(it[k - 1], k)]
           T == {g \in [Calls -> Scans] : Evaluates(Len(c), g)}
           step == [p \in Nat \X T |-> outer(p[2])]
<1>1. Evaluator(c) = loop[n]
  BY Zenon DEF Evaluator
<1>2. \A g : layer(g, 0) = base /\ \A k \in Nat \ {0} : layer(g, k) = outer(g)
  OBVIOUS
<1>3. n \in Nat
  BY LenProperties
<1>4. base \in T
  <2>1. \A call \in Calls : call.x \in Scans
    BY DEF Calls
  <2>2. \A call \in Calls : Failed(call.x) \in Results(Len(c), call.x) /\ Failed(call.x) \in Scans
    BY <2>1, ResultIn, FailedIn
  <2> QED BY <2>2 DEF Evaluates
<1>5. ASSUME NEW g \in T PROVE outer(g) \in T
  <2>1. Evaluates(Len(c), g)
    OBVIOUS
  <2>2. ASSUME NEW call \in Calls PROVE called(g, call) \in Results(Len(c), call.x)
    <3>1. call.x \in Scans /\ call.level \in Levels
      BY DEF Calls
    <3>2. /\ parse_rest(g, call.level, c, call.x) \in Results(Len(c), call.x)
          /\ parse_level(g, call.level, c, call.x) \in Results(Len(c), call.x)
      BY <2>1, <3>1, RestIn, LevelIn
    <3> QED BY <3>2
  <2> HIDE DEF called
  <2>3. \A call \in Calls : called(g, call) \in Scans
    BY <2>2 DEF Results
  <2>4. outer(g) \in [Calls -> Scans]
    BY <2>3
  <2>5. Evaluates(Len(c), outer(g))
    BY <2>2 DEF Evaluates
  <2> QED BY <2>4, <2>5
<1> HIDE DEF n, base, outer, layer, T
<1>6. \A k \in Nat : \A g \in T : step[<<k, g>>] = outer(g)
  OBVIOUS
<1> HIDE DEF step
<1>7. PICK f : IsCourse(f, T, base, step, n)
  <2>1. IsUpdate(step, T)
    BY <1>5, <1>6 DEF IsUpdate
  <2> QED BY <1>3, <1>4, <2>1, Recursion
<1>8. f \in [0 .. n -> T] /\ f[0] = base /\ \A k \in 1 .. n : f[k] = outer(f[k - 1])
  <2>1. ASSUME NEW k \in 1 .. n PROVE f[k] = outer(f[k - 1])
    <3>1. k \in Nat /\ f[k - 1] \in T /\ f[k] = step[<<k, f[k - 1]>>]
      BY <1>3, <1>7 DEF IsCourse
    <3> QED BY <1>6, <3>1
  <2> QED BY <1>7, <2>1 DEF IsCourse
<1>9. loop = [k \in 0 .. n |-> layer(loop[k - 1], k)]
  <2>1. ASSUME NEW k \in 0 .. n PROVE f[k] = layer(f[k - 1], k)
    BY <1>2, <1>3, <1>8
  <2>2. f = [k \in 0 .. n |-> layer(f[k - 1], k)]
    BY <1>8, <2>1
  <2> QED BY <2>2, Zenon
<1> HIDE DEF loop
<1>10. loop[0] = base /\ \A k \in 1 .. n : loop[k] = outer(loop[k - 1])
  BY <1>2, <1>3, <1>9
<1>11. loop[n] \in T
  <2>1. StaysIn(loop, T, n)
    BY <1>4, <1>5, <1>10 DEF StaysIn
  <2> QED BY <1>3, <2>1, LoopStays
<1> QED BY <1>1, <1>11 DEF T

LEMMA ParseOrIn ==
  ASSUME VarsIn, NEW c \in Seq(Lexemes), Fits(c), NEW x \in Scans
  PROVE  parse_or(c, x) \in Results(Len(c), x) /\ parse_or(c, x) \in Scans
BY EvaluatorIn, ParseIn, LevelsIn, Zenon DEF parse_or

-----------------------------------------------------------------------------
(* The invariant. While statements are executed, the current line and the  *)
(* lines on the two stacks are in store: RETURN and NEXT go back to them,  *)
(* and the text of the line is looked up without a check.                  *)

Named(p) == {n \in Nat : n # NoLine => prog_has_line(p, n)}
CallsOf(S) == [line : S, pos : Nat]
LoopsOf(S) == [var : NumVars, limit : Numbers, step : Numbers, line : S, pos : Nat]
States(S) ==
  {s \in [cur : S, pos : Nat, running : BOOLEAN, jumped : BOOLEAN, gosub : Seq(CallsOf(S)), for : Seq(LoopsOf(S))] :
     Len(s.gosub) <= GOSUB_DEPTH /\ Len(s.for) <= FOR_DEPTH}

Places == {"shell", "ready", "line", "stmt", "input", "lost"}
DataIn == VarsIn /\ \A v \in Letters : Len(str_vars[v]) <= STR_MAX_LEN
FlowIn == pc \in Places /\ st \in States(Nat) /\ (Executing => st \in States(Named(prog))) /\ spool \in 0 .. STRING_POOL_SIZE
KeysIn == keys \in Seq({CtrlC, OtherKey}) /\ Len(keys) <= KEYS_MAX
LineIn1 == tokens \in Toks /\ back \in {"ready", "shell"} /\ typed \in 0 .. MaxTyped
TypeIn == StoreIn /\ DataIn /\ FlowIn /\ KeysIn /\ LineIn1

LEMMA BoundsIn ==
  GOSUB_DEPTH \in Nat /\ FOR_DEPTH \in Nat /\ KEYS_MAX \in Nat /\ MaxTyped \in Nat
BY BasicAssumption, Zenon

LEMMA NamedIn ==
  ASSUME NEW p
  PROVE  0 \in Named(p) /\ Named(p) \subseteq Nat /\ \A n \in Nat : prog_has_line(p, n) => n \in Named(p)
BY DEF Named, NoLine

LEMMA NamedStates == ASSUME NEW p, NEW s \in States(Named(p)) PROVE s \in States(Nat)
<1> DEFINE S == Named(p)
<1>1. S \subseteq Nat
  BY NamedIn
<1> HIDE DEF S
<1>2. CallsOf(S) \subseteq CallsOf(Nat) /\ LoopsOf(S) \subseteq LoopsOf(Nat)
  BY <1>1 DEF CallsOf, LoopsOf
<1>3. Seq(CallsOf(S)) \subseteq Seq(CallsOf(Nat)) /\ Seq(LoopsOf(S)) \subseteq Seq(LoopsOf(Nat))
  BY <1>2, SeqMonotonic
<1>4. s \in States(S)
  BY DEF S
<1> QED BY <1>1, <1>3, <1>4 DEF States

\* What statements do to the state.
LEMMA StateIn ==
  ASSUME NEW S, NEW s \in States(S)
  PROVE  /\ s.cur \in S /\ s.pos \in Nat /\ s.running \in BOOLEAN /\ s.jumped \in BOOLEAN
         /\ s.gosub \in Seq(CallsOf(S)) /\ s.for \in Seq(LoopsOf(S))
         /\ Len(s.gosub) \in Nat /\ Len(s.gosub) <= GOSUB_DEPTH
         /\ Len(s.for) \in Nat /\ Len(s.for) <= FOR_DEPTH
BY LenProperties DEF States

LEMMA StateMoved ==
  ASSUME NEW S, NEW s \in States(S), NEW p \in Nat
  PROVE  [s EXCEPT !.pos = p] \in States(S) /\ [s EXCEPT !.pos = p, !.running = FALSE] \in States(S)
         /\ [s EXCEPT !.running = FALSE] \in States(S) /\ [s EXCEPT !.running = TRUE] \in States(S)
         /\ [s EXCEPT !.pos = p, !.jumped = FALSE] \in States(S)
BY DEF States

LEMMA StateJumped ==
  ASSUME NEW S, NEW s \in States(S), NEW n \in S, NEW p \in Nat
  PROVE  [s EXCEPT !.cur = n] \in States(S) /\ [s EXCEPT !.cur = n, !.jumped = TRUE] \in States(S)
         /\ [s EXCEPT !.cur = n, !.pos = p, !.jumped = TRUE] \in States(S)
         /\ [s EXCEPT !.cur = n, !.running = TRUE] \in States(S)
BY DEF States

LEMMA StateStacked ==
  ASSUME NEW S, NEW s \in States(S), NEW g \in Seq(CallsOf(S)), Len(g) <= GOSUB_DEPTH,
         NEW f \in Seq(LoopsOf(S)), Len(f) <= FOR_DEPTH, NEW p \in Nat, NEW n \in S
  PROVE  [s EXCEPT !.pos = p, !.gosub = g] \in States(S) /\ [s EXCEPT !.pos = p, !.for = f] \in States(S)
         /\ [s EXCEPT !.cur = n, !.pos = p, !.gosub = g] \in States(S)
BY DEF States

LEMMA RestState == ASSUME NEW S, 0 \in S PROVE AtRest \in States(S)
<1>1. << >> \in Seq(CallsOf(S)) /\ << >> \in Seq(LoopsOf(S)) /\ Len(<< >>) = 0
  BY EmptySeq
<1> QED BY <1>1, BoundsIn DEF AtRest, States, NoLine

\* A line in store has a text, and its number is none but 0.
LEMMA LineOfIn ==
  ASSUME NEW p \in Stores, NEW n \in Nat, prog_has_line(p, n)
  PROVE  LineOf(p, n) \in Toks
<1>1. PICK m : m = find_insert_pos(p, n)
  OBVIOUS
<1>2. p \in Programs /\ p \in Seq(ProgLines) /\ Len(p) \in Nat
  BY LenProperties DEF Stores, Programs
<1>3. m \in 1 .. Len(p)
  BY <1>1, <1>2, PlaceOf DEF prog_has_line
<1>4. p[m].toks \in Toks
  <2>1. p[m] \in ProgLines
    BY <1>2, <1>3, LineIn
  <2> QED BY <2>1 DEF ProgLines
<1> QED BY <1>1, <1>4 DEF LineOf, prog_find_line

LEMMA FirstLineIn ==
  ASSUME NEW p \in Stores
  PROVE  prog_first_line(p) \in Named(p) /\ (p # << >> => p[1].toks \in Toks)
<1>1. p \in Programs /\ p \in Seq(ProgLines) /\ Len(p) \in Nat
  BY LenProperties DEF Stores, Programs
<1>2. CASE p = << >>
  BY <1>2, NamedIn DEF prog_first_line, NoLine
<1>3. CASE p # << >>
  <2>1. 1 \in 1 .. Len(p)
    BY <1>1, <1>3, EmptySeq
  <2>2. p[1] \in ProgLines
    BY <1>1, <2>1, ElementOfSeq
  <2>3. p[1].num \in Nat /\ p[1].toks \in Toks
    BY <2>2 DEF ProgLines
  <2>4. prog_has_line(p, p[1].num)
    BY <1>1, <2>1, <2>3, LinePlace
  <2> QED BY <1>3, <2>3, <2>4, NamedIn DEF prog_first_line
<1> QED BY <1>2, <1>3

LEMMA NextLineIn ==
  ASSUME NEW p \in Stores, NEW n \in Nat
  PROVE  prog_next_line(p, n) \in Named(p)
<1>1. PICK m : m = find_insert_pos(p, n)
  OBVIOUS
<1>2. p \in Programs /\ p \in Seq(ProgLines) /\ Len(p) \in Nat
  BY LenProperties DEF Stores, Programs
<1>3. m \in 1 .. Len(p) + 1
  BY <1>1, <1>2, PlaceOf
<1>4. prog_next_line(p, n) = IF m >= Len(p) THEN NoLine ELSE p[m + 1].num
  BY <1>1 DEF prog_next_line
<1>5. CASE m >= Len(p)
  BY <1>4, <1>5, NamedIn DEF NoLine
<1>6. CASE ~(m >= Len(p))
  <2>1. m + 1 \in 1 .. Len(p)
    BY <1>2, <1>3, <1>6
  <2>2. p[m + 1].num \in Nat
    BY <1>2, <2>1, LineIn
  <2>3. prog_has_line(p, p[m + 1].num)
    BY <1>2, <2>1, <2>2, LinePlace
  <2> QED BY <1>4, <1>6, <2>2, <2>3, NamedIn
<1> QED BY <1>5, <1>6

-----------------------------------------------------------------------------
(* What a statement reads from its line                                    *)

LEMMA TokensIn == tokens \in Toks => tokens \in Seq(Lexemes) /\ Fits(tokens) /\ Len(tokens) \in Nat
BY LenProperties DEF Toks

LEMMA AtIn ==
  ASSUME tokens \in Toks, st.pos \in Nat
  PROVE  At \in Nat /\ At + 1 \in Nat /\ st.pos <= At /\ (st.pos <= Len(tokens) => At <= Len(tokens))
<1>1. At \in Nat /\ st.pos <= At /\ (st.pos <= Len(tokens) => At <= Len(tokens))
  BY TokensIn, SkipSpacesIn DEF At
<1> QED BY <1>1

LEMMA StartIn ==
  ASSUME spool \in 0 .. STRING_POOL_SIZE, NEW p \in Nat, NEW draw \in Nat
  PROVE  Scan(p, draw) \in Scans /\ Scan(p, draw).err = "none" /\ Scan(p, draw).pos = p
<1>1. NumValue(0) \in Values
  BY NumValueIn, ExprFacts
<1> QED BY <1>1 DEF Scan, Scans

LEMMA DrawIn == ASSUME NEW d \in Draws PROVE d \in Nat
<1>1. Draws \subseteq Nat
  BY BasicAssumption, Zenon
<1> QED BY <1>1

LEMMA EvalIn ==
  ASSUME VarsIn, tokens \in Toks, NEW x \in Scans
  PROVE  /\ expr_eval(x) \in Results(Len(tokens), x) /\ expr_eval(x) \in Scans
         /\ NumOnly(x) \in Results(Len(tokens), x) /\ NumOnly(x) \in Scans
         /\ NumOnly(expr_eval(x)) \in Results(Len(tokens), x) /\ NumOnly(expr_eval(x)) \in Scans
<1>1. \A y \in Scans : NumOnly(y) \in Results(Len(tokens), y)
  BY ResultIn DEF NumOnly
<1>2. expr_eval(x) \in Results(Len(tokens), x) /\ expr_eval(x) \in Scans
  BY TokensIn, ParseOrIn DEF expr_eval
<1>3. NumOnly(expr_eval(x)) \in Results(Len(tokens), expr_eval(x))
  BY <1>1, <1>2
<1>4. NumOnly(expr_eval(x)) \in Results(Len(tokens), x) /\ NumOnly(expr_eval(x)) \in Scans
  BY <1>2, <1>3, TokensIn, ResultsOf
<1>5. NumOnly(x) \in Results(Len(tokens), x) /\ NumOnly(x) \in Scans
  BY <1>1 DEF Results
<1> QED BY <1>2, <1>4, <1>5

LEMMA ExpectIn ==
  ASSUME tokens \in Toks, NEW x \in Scans, NEW t, t # "nul"
  PROVE  Expect(x, t) \in Results(Len(tokens), x) /\ Expect(x, t) \in Scans
<1>1. PICK y \in Scans : y = Skip(tokens, x) /\ y \in Results(Len(tokens), x)
  BY TokensIn, SkipIn, ResultIn, ChainIn
<1>2. Expect(x, t) = IF x.err # "none" THEN x ELSE IF peek(tokens, y.pos) = t THEN Past(y) ELSE Failed(y)
  BY <1>1 DEF Expect
<1>3. Failed(y) \in Results(Len(tokens), x) /\ (peek(tokens, y.pos) # "nul" => Past(y) \in Results(Len(tokens), x))
  BY <1>1, TokensIn, ChainIn
<1>4. Expect(x, t) \in Results(Len(tokens), x)
  BY <1>2, <1>3, ResultIn
<1> QED BY <1>4 DEF Results

LEMMA NulNoSuffix == ~is_dig("nul") /\ "nul" # "$"
<1>1. \A d \in 0 .. 9 : Digit(d) # "nul"
  BY DEF Digit, DigitChars
<1> QED BY <1>1, Zenon DEF is_dig

\* A name that is there lies within the line.
LEMMA TargetOf ==
  ASSUME tokens \in Toks, NEW pos \in Nat
  PROVE  /\ parse_var_target(pos).pos \in Nat /\ pos <= parse_var_target(pos).pos
         /\ parse_var_target(pos).ok =>
              /\ <<parse_var_target(pos).name, parse_var_target(pos).idx>> \in NumVars
              /\ parse_var_target(pos).pos <= Len(tokens)
<1> DEFINE p == skip_spaces(tokens, pos)
           name == peek(tokens, p)
           suffix == peek(tokens, p + 1)
           idx == IF is_dig(suffix) THEN DigitOf(suffix) ELSE -1
           two == suffix = "$" \/ is_dig(suffix)
<1>1. p \in Nat /\ pos <= p /\ Len(tokens) \in Nat
  BY TokensIn, SkipSpacesIn
<1>2. idx \in -1 .. 9
  <2>1. is_dig(suffix) => DigitOf(suffix) \in 0 .. 9
    BY DigitOfIn
  <2> HIDE DEF suffix
  <2> QED BY <2>1
<1>5. is_letter(name) => p < Len(tokens)
  <2>1. is_letter(name) => name # "nul"
    BY ExprAssumption, Zenon DEF is_letter
  <2> QED BY <1>1, <2>1, TokensIn, PeekIn
<1>6. two => p + 1 < Len(tokens)
  <2>1. two => suffix # "nul"
    BY NulNoSuffix, Zenon DEF two
  <2>2. p + 1 \in Nat
    BY <1>1
  <2> QED BY <2>1, <2>2, TokensIn, PeekIn
<1>7. /\ parse_var_target(pos).pos = IF two THEN p + 2 ELSE p + 1
      /\ parse_var_target(pos).ok = is_letter(name)
      /\ parse_var_target(pos).name = name
      /\ parse_var_target(pos).idx = idx
  BY DEF parse_var_target
<1> HIDE DEF p, name, suffix, idx, two
<1>4. is_letter(name) => <<name, idx>> \in NumVars
  BY <1>2 DEF is_letter, NumVars
<1> DEFINE q == IF two THEN p + 2 ELSE p + 1
<1>8. q \in Nat /\ pos <= q /\ (is_letter(name) => q <= Len(tokens))
  BY <1>1, <1>5, <1>6
<1> QED BY <1>4, <1>7, <1>8

LEMMA BehindIn ==
  ASSUME tokens \in Toks, spool \in 0 .. STRING_POOL_SIZE, NEW target, target.pos \in Nat, NEW draw \in Nat
  PROVE  /\ Behind(target, draw) \in Scans /\ (Behind(target, draw).err = "none" => target.ok)
         /\ Behind(target, draw).pos = target.pos
<1>1. Scan(target.pos, draw) \in Scans /\ Scan(target.pos, draw).pos = target.pos
  BY StartIn
<1> QED BY <1>1, FailedIn DEF Behind

LEMMA PrintItemIn ==
  ASSUME VarsIn, tokens \in Toks, NEW x \in Scans
  PROVE  PrintItem(x) \in Scans
<1> DEFINE y == Skip(tokens, x)
           t == peek(tokens, y.pos)
<1>1. PrintItem(x) \in {y, Past(y), expr_eval(y)}
  BY Zenon DEF PrintItem
<1>2. y \in Scans
  BY TokensIn, SkipIn
<1>3. Past(y) \in Scans /\ expr_eval(y) \in Scans
  BY <1>2, PastIn, EvalIn
<1> QED BY <1>1, <1>2, <1>3

LEMMA PrintItemsIn ==
  ASSUME VarsIn, tokens \in Toks, NEW x \in Scans
  PROVE  PrintItems(x) \in Scans
<1>1. Len(tokens) \in Nat
  BY TokensIn
<1>2. \A y \in Scans : PrintItem(y) \in Scans
  BY PrintItemIn
<1>3. PICK it : /\ it[0] = x /\ PrintItems(x) = it[Len(tokens)]
                /\ \A k \in 1 .. Len(tokens) : it[k] = PrintItem(it[k - 1])
  BY <1>1, <1>2, PrintLoop
<1>4. StaysIn(it, Scans, Len(tokens))
  BY <1>2, <1>3 DEF StaysIn
<1> QED BY <1>1, <1>3, <1>4, LoopStays

-----------------------------------------------------------------------------
(* Statements. Each one, started from a state of the invariant, leaves the *)
(* variables, the state, the pool and the place in their types.            *)

During ==
  /\ DataIn /\ st \in States(Named(prog)) /\ spool \in 0 .. STRING_POOL_SIZE
  /\ tokens \in Toks
Flowing == st' \in States(Named(prog)) /\ pc' \in Places /\ spool' \in 0 .. STRING_POOL_SIZE
Progress == DataIn' /\ Flowing
Missed ==
  \/ \E msg : exec_set_error(st, msg) /\ UNCHANGED data
  \/ pc' = "lost" /\ UNCHANGED <<st, err, spool, data>>

LEMMA DuringIn ==
  ASSUME During
  PROVE  /\ VarsIn /\ tokens \in Toks /\ tokens \in Seq(Lexemes) /\ Fits(tokens) /\ Len(tokens) \in Nat
         /\ st.pos \in Nat /\ At \in Nat /\ At + 1 \in Nat /\ st.cur \in Named(prog)
         /\ st.pos <= At /\ (st.pos <= Len(tokens) => At <= Len(tokens))
<1>1. st.pos \in Nat /\ st.cur \in Named(prog)
  BY StateIn DEF During
<1> QED BY <1>1, AtIn, TokensIn DEF During, DataIn

LEMMA GoOnFlows ==
  ASSUME NEW state \in States(Named(prog)), NEW pool \in 0 .. STRING_POOL_SIZE, GoOn(state, pool)
  PROVE  Flowing
BY DEF GoOn, Flowing, Places

LEMMA ErrorFlows ==
  ASSUME During, NEW state \in States(Named(prog)), NEW msg, exec_set_error(state, msg)
  PROVE  Flowing
<1>1. [state EXCEPT !.running = FALSE] \in States(Named(prog))
  BY StateMoved, DuringIn
<1> QED BY <1>1 DEF exec_set_error, Flowing, Places, During

LEMMA JumpFlows ==
  ASSUME During, NEW state \in States(Named(prog)), NEW n \in Int, NEW pool \in 0 .. STRING_POOL_SIZE,
         JumpTo(state, n, pool)
  PROVE  Flowing
<1> DEFINE to == Target(n)
<1>1. \/ prog_has_line(prog, to) /\ GoOn([state EXCEPT !.cur = to, !.jumped = TRUE], pool)
      \/ \E msg : exec_set_error(state, msg)
  BY Zenon DEF JumpTo
<1>2. to \in Nat
  BY TargetIn
<1> HIDE DEF to
<1>3. CASE prog_has_line(prog, to) /\ GoOn([state EXCEPT !.cur = to, !.jumped = TRUE], pool)
  <2>1. to \in Named(prog)
    BY <1>2, <1>3, NamedIn
  <2>2. [state EXCEPT !.cur = to, !.jumped = TRUE] \in States(Named(prog))
    BY <2>1, StateJumped, DuringIn
  <2> QED BY <1>3, <2>2, GoOnFlows
<1> QED BY <1>1, <1>3, ErrorFlows

LEMMA DataKept == DataIn /\ UNCHANGED data => DataIn'
BY DEF DataIn, VarsIn, data

LEMMA NumberKept ==
  ASSUME DataIn, NEW v, NEW n \in Numbers, num_vars' = [num_vars EXCEPT ![v] = n], UNCHANGED str_vars
  PROVE  DataIn'
BY DEF DataIn, VarsIn

LEMMA StringKept ==
  ASSUME DataIn, NEW v, NEW s \in Seq(Words), Len(s) <= STR_MAX_LEN,
         str_vars' = [str_vars EXCEPT ![v] = s], UNCHANGED num_vars
  PROVE  DataIn'
BY DEF DataIn, VarsIn

LEMMA ClearKept == vars_clear => DataIn'
<1>1. 0 \in Numbers /\ STR_MAX_LEN \in Nat /\ << >> \in Seq(Words) /\ Len(<< >>) = 0
  BY ExprFacts, EmptySeq
<1> QED BY <1>1 DEF vars_clear, DataIn, VarsIn

LEMMA MissedFlows == ASSUME During, Missed PROVE Progress
<1>1. CASE \E msg : exec_set_error(st, msg) /\ UNCHANGED data
  BY <1>1, ErrorFlows, DataKept DEF During, Progress
<1>2. CASE pc' = "lost" /\ UNCHANGED <<st, err, spool, data>>
  BY <1>2, DataKept DEF During, Progress, Flowing, Places
<1> QED BY <1>1, <1>2 DEF Missed

\* What an evaluation leaves.
LEMMA FoundIn ==
  ASSUME NEW x \in Scans
  PROVE  x.pos \in Nat /\ x.pool \in 0 .. STRING_POOL_SIZE /\ x.v.num \in Numbers /\ x.v.num \in Int
         /\ x.v.str \in Seq(Words)
BY ScanIn, ValueIn

LEMMA MovedFlows ==
  ASSUME During, NEW p \in Nat, NEW pool \in 0 .. STRING_POOL_SIZE, GoOn([st EXCEPT !.pos = p], pool)
  PROVE  Flowing
<1>1. [st EXCEPT !.pos = p] \in States(Named(prog))
  BY StateMoved DEF During
<1> QED BY <1>1, GoOnFlows

LEMMA SpoolIn == During => spool \in 0 .. STRING_POOL_SIZE
BY DEF During

LEMMA PrintKeeps == ASSUME During, NEW d \in Draws, PrintStatement(d) PROVE Progress
<1>1. \E x \in {PrintItems(Scan(At + 1, d))} :
        (GoOn([st EXCEPT !.pos = x.pos], x.pool) /\ UNCHANGED data) \/ Missed
  BY Zenon DEF PrintStatement, Evaluated, Missed
<1>2. PICK x : x = PrintItems(Scan(At + 1, d)) /\ ((GoOn([st EXCEPT !.pos = x.pos], x.pool) /\ UNCHANGED data) \/ Missed)
  BY <1>1
<1>3. x \in Scans
  BY <1>2, DuringIn, DrawIn, StartIn, SpoolIn, PrintItemsIn
<1>4. CASE GoOn([st EXCEPT !.pos = x.pos], x.pool) /\ UNCHANGED data
  <2>1. Flowing
    BY <1>3, <1>4, FoundIn, MovedFlows
  <2> QED BY <1>4, <2>1, DataKept DEF Progress, During
<1> QED BY <1>2, <1>4, MissedFlows

LEMMA PokeKeeps == ASSUME During, NEW d \in Draws, Poke(d) PROVE Progress
<1> DEFINE first == NumOnly(expr_eval(Scan(At + 1, d)))
<1>1. \E a \in {first} : \E x \in {NumOnly(expr_eval(Optional(tokens, a, ",")))} :
        (GoOn([st EXCEPT !.pos = x.pos], x.pool) /\ UNCHANGED data) \/ Missed
  BY Zenon DEF Poke, Evaluated, Missed
<1>2. first \in Scans
  BY DuringIn, DrawIn, StartIn, SpoolIn, EvalIn
<1> HIDE DEF first
<1>3. \A t : Optional(tokens, first, t) \in Scans
  BY <1>2, OptionalIn, DuringIn
<1>4. \A t : NumOnly(expr_eval(Optional(tokens, first, t))) \in Scans
  BY <1>3, EvalIn, DuringIn
<1>5. PICK x \in Scans : (GoOn([st EXCEPT !.pos = x.pos], x.pool) /\ UNCHANGED data) \/ Missed
  BY <1>1, <1>4, Zenon
<1>6. CASE GoOn([st EXCEPT !.pos = x.pos], x.pool) /\ UNCHANGED data
  <2>1. Flowing
    BY <1>6, FoundIn, MovedFlows
  <2> QED BY <1>6, <2>1, DataKept DEF Progress, During
<1> QED BY <1>5, <1>6, MissedFlows

LEMMA GotoKeeps == ASSUME During, NEW d \in Draws, Goto(d) PROVE Progress
<1>1. \E x \in {NumOnly(expr_eval(Scan(At + 1, d)))} :
        (JumpTo([st EXCEPT !.pos = x.pos], x.v.num, x.pool) /\ UNCHANGED data) \/ Missed
  BY Zenon DEF Goto, Evaluated, Missed
<1>2. NumOnly(expr_eval(Scan(At + 1, d))) \in Scans
  BY DuringIn, DrawIn, StartIn, SpoolIn, EvalIn
<1>3. PICK x \in Scans : (JumpTo([st EXCEPT !.pos = x.pos], x.v.num, x.pool) /\ UNCHANGED data) \/ Missed
  BY <1>1, <1>2
<1>4. CASE JumpTo([st EXCEPT !.pos = x.pos], x.v.num, x.pool) /\ UNCHANGED data
  <2>1. [st EXCEPT !.pos = x.pos] \in States(Named(prog))
    BY FoundIn, StateMoved DEF During
  <2>2. Flowing
    BY <1>4, <2>1, FoundIn, JumpFlows
  <2> QED BY <1>4, <2>2, DataKept DEF Progress, During
<1> QED BY <1>3, <1>4, MissedFlows

LEMMA GosubKeeps == ASSUME During, NEW d \in Draws, Gosub(d) PROVE Progress
<1>1. \E x \in {NumOnly(expr_eval(Scan(At + 1, d)))} : (Pushed(x) /\ UNCHANGED data) \/ Missed
  BY Zenon DEF Gosub, Evaluated, Missed
<1>2. NumOnly(expr_eval(Scan(At + 1, d))) \in Scans
  BY DuringIn, DrawIn, StartIn, SpoolIn, EvalIn
<1>3. PICK x \in Scans : (Pushed(x) /\ UNCHANGED data) \/ Missed
  BY <1>1, <1>2
<1>4. CASE Pushed(x) /\ UNCHANGED data
  <2> DEFINE g == Append(st.gosub, [line |-> st.cur, pos |-> x.pos])
             pushed == [st EXCEPT !.pos = x.pos, !.gosub = g]
  <2>1. \/ \E msg : exec_set_error(st, msg)
        \/ ~(Len(st.gosub) >= GOSUB_DEPTH) /\ JumpTo(pushed, x.v.num, x.pool)
    BY <1>4, Zenon DEF Pushed
  <2>2. st \in States(Named(prog))
    BY DEF During
  <2>3. ASSUME ~(Len(st.gosub) >= GOSUB_DEPTH) PROVE pushed \in States(Named(prog))
    <3>1. [line |-> st.cur, pos |-> x.pos] \in CallsOf(Named(prog))
      BY <2>2, StateIn, FoundIn DEF CallsOf
    <3>2. g \in Seq(CallsOf(Named(prog))) /\ Len(g) = Len(st.gosub) + 1
      BY <2>2, <3>1, StateIn, AppendProperties
    <3>3. Len(g) <= GOSUB_DEPTH
      BY <2>2, <2>3, <3>2, StateIn, BoundsIn
    <3>4. st.cur \in Named(prog) /\ st.for \in Seq(LoopsOf(Named(prog))) /\ Len(st.for) <= FOR_DEPTH /\ x.pos \in Nat
      BY <2>2, StateIn, FoundIn
    <3> HIDE DEF g
    <3> QED BY <2>2, <3>2, <3>3, <3>4, StateStacked
  <2> HIDE DEF pushed
  <2>4. Flowing
    BY <2>1, <2>2, <2>3, ErrorFlows, JumpFlows, FoundIn
  <2> QED BY <1>4, <2>4, DataKept DEF Progress, During
<1> QED BY <1>3, <1>4, MissedFlows

LEMMA MarksNul == "=" # "nul" /\ "TO" # "nul" /\ "THEN" # "nul"
BY Zenon

LEMMA LetKeeps == ASSUME During, NEW d \in Draws, Let(d) PROVE Progress
<1> DEFINE target == parse_var_target(IF Tok = "LET" THEN At + 1 ELSE At)
           Bound(x) == IF target.is_string
                       THEN /\ str_vars' = [str_vars EXCEPT ![target.name] = Upto(x.v.str, 1, STR_MAX_LEN)]
                            /\ UNCHANGED num_vars
                       ELSE /\ num_vars' = [num_vars EXCEPT ![<<target.name, target.idx>>] = x.v.num]
                            /\ UNCHANGED str_vars
<1>1. \E x \in {expr_eval(Expect(Behind(target, d), "="))} :
        (GoOn([st EXCEPT !.pos = x.pos], x.pool) /\ Bound(x)) \/ Missed
  BY Zenon DEF Let, Evaluated, Missed
<1>2. target.pos \in Nat
  BY DuringIn, TargetOf
<1> HIDE DEF target
<1>3. Behind(target, d) \in Scans
  BY <1>2, SpoolIn, DuringIn, DrawIn, BehindIn
<1>4. Expect(Behind(target, d), "=") \in Scans
  BY <1>3, DuringIn, ExpectIn, MarksNul
<1>5. expr_eval(Expect(Behind(target, d), "=")) \in Scans
  BY <1>4, DuringIn, EvalIn
<1>6. PICK x \in Scans : (GoOn([st EXCEPT !.pos = x.pos], x.pool) /\ Bound(x)) \/ Missed
  BY <1>1, <1>5
<1>7. CASE GoOn([st EXCEPT !.pos = x.pos], x.pool) /\ Bound(x)
  <2>1. Flowing
    BY <1>7, FoundIn, MovedFlows
  <2>2. DataIn
    BY DEF During
  <2>3. PICK s : s = Upto(x.v.str, 1, STR_MAX_LEN)
    OBVIOUS
  <2>4. s \in Seq(Words) /\ Len(s) <= STR_MAX_LEN
    <3>1. PICK n \in Nat, u \in Seq(Words) : n = STR_MAX_LEN /\ u = x.v.str
      BY ExprFacts, FoundIn
    <3>2. Upto(u, 1, n) \in Seq(Words) /\ Len(Upto(u, 1, n)) <= n
      BY UptoIn
    <3> QED BY <2>3, <3>1, <3>2
  <2>5. CASE target.is_string
    BY <1>7, <2>2, <2>3, <2>4, <2>5, StringKept, <2>1 DEF Progress
  <2>6. CASE ~target.is_string
    BY <1>7, <2>2, <2>6, NumberKept, FoundIn, <2>1 DEF Progress
  <2> QED BY <2>5, <2>6
<1> QED BY <1>6, <1>7, MissedFlows

LEMMA IfKeeps == ASSUME During, NEW d \in Draws, If(d) PROVE Progress
<1> DEFINE then(x) == skip_spaces(tokens, Optional(tokens, x, "THEN").pos)
           elses(x) == {p \in then(x) .. Len(tokens) - 1 : tokens[p + 1].t = "ELSE"}
           Inner(p, x) == st' = [st EXCEPT !.pos = p] /\ spool' = x.pool /\ pc' = "stmt"
           Jump(x) == /\ peek(tokens, then(x)) = "NUM"
                      /\ JumpTo([st EXCEPT !.pos = then(x) + 5], tokens[then(x) + 1].n, x.pool)
           Chosen(x) == \/ Jump(x)
                        \/ Inner(then(x), x)
                        \/ elses(x) # {} /\ Inner(Min(elses(x)) + 1, x)
                        \/ GoOn([st EXCEPT !.pos = Len(tokens)], x.pool)
<1>1. \E x \in {expr_eval(Scan(At + 1, d))} : (Chosen(x) /\ UNCHANGED data) \/ Missed
  BY Zenon DEF If, Evaluated, Missed
<1>2. expr_eval(Scan(At + 1, d)) \in Scans
  BY DuringIn, DrawIn, StartIn, SpoolIn, EvalIn
<1>3. PICK x \in Scans : (Chosen(x) /\ UNCHANGED data) \/ Missed
  BY <1>1, <1>2
<1>4. PICK p \in Nat : p = then(x)
  <2>1. Optional(tokens, x, "THEN").pos \in Nat
    BY DuringIn, OptionalIn, ScanIn
  <2> QED BY <2>1, DuringIn, SkipSpacesIn
<1>5. ASSUME NEW q \in Nat, Inner(q, x) PROVE Flowing
  <2>1. [st EXCEPT !.pos = q] \in States(Named(prog))
    BY StateMoved DEF During
  <2> QED BY <1>5, <2>1, FoundIn DEF Flowing, Places
<1>6. ASSUME Jump(x) PROVE Flowing
  <2>1. tokens[p + 1].n \in Int
    BY <1>4, <1>6, DuringIn, PeekIn
  <2>2. [st EXCEPT !.pos = p + 5] \in States(Named(prog))
    <3>1. p + 5 \in Nat
      OBVIOUS
    <3> QED BY <3>1, StateMoved DEF During
  <2> QED BY <1>4, <1>6, <2>1, <2>2, FoundIn, JumpFlows
<1>7. ASSUME elses(x) # {} PROVE Min(elses(x)) + 1 \in Nat
  <2>1. elses(x) \subseteq Nat
    BY <1>4, DuringIn
  <2>2. Min(elses(x)) \in Nat
    BY <1>7, <2>1, LeastIn
  <2> QED BY <2>2
<1>8. GoOn([st EXCEPT !.pos = Len(tokens)], x.pool) => Flowing
  BY DuringIn, FoundIn, MovedFlows
<1> HIDE DEF elses, Inner, Jump
<1>9. Chosen(x) => Flowing
  BY <1>4, <1>5, <1>6, <1>7, <1>8
<1> HIDE DEF Chosen
<1> QED BY <1>3, <1>9, MissedFlows, DataKept DEF Progress, During

\* What FOR takes for its step.
LEMMA StepIn ==
  ASSUME During, NEW x \in Scans
  PROVE  LET y == Skip(tokens, x)
             step == IF x.err # "none" THEN x
                     ELSE IF peek(tokens, y.pos) = "STEP" THEN NumOnly(expr_eval(Past(y)))
                     ELSE make_num(y, 1)
         IN step \in Results(Len(tokens), x) /\ step \in Scans
<1> DEFINE z == Skip(tokens, x)
           Step == IF x.err # "none" THEN x
                   ELSE IF peek(tokens, z.pos) = "STEP" THEN NumOnly(expr_eval(Past(z)))
                   ELSE make_num(z, 1)
<1>1. PICK y \in Scans : y = Skip(tokens, x) /\ y \in Results(Len(tokens), x)
  BY DuringIn, SkipIn, ResultIn, ChainIn
<1>2. peek(tokens, y.pos) # "nul" => Past(y) \in Results(Len(tokens), x) /\ Past(y) \in Scans
  BY <1>1, DuringIn, ChainIn, PastIn
<1>3. peek(tokens, y.pos) # "nul" => NumOnly(expr_eval(Past(y))) \in Results(Len(tokens), x)
  BY <1>2, DuringIn, EvalIn, ResultsOf
<1>4. make_num(y, 1) \in Results(Len(tokens), x)
  BY <1>1, DuringIn, ResultIn, ResultsOf
<1>5. Step = IF x.err # "none" THEN x
             ELSE IF peek(tokens, y.pos) = "STEP" THEN NumOnly(expr_eval(Past(y)))
             ELSE make_num(y, 1)
  BY <1>1
<1> HIDE DEF Step
<1>6. Step \in Results(Len(tokens), x)
  BY <1>3, <1>4, <1>5, ResultIn
<1>7. Step \in Scans
  BY <1>6 DEF Results
<1> QED BY <1>6, <1>7, Zenon DEF Step

LEMMA ForKeeps == ASSUME During, NEW d \in Draws, For(d) PROVE Progress
<1> DEFINE var == parse_var_target(At + 1)
           target == [var EXCEPT !.ok = @ /\ ~var.is_string]
           Number2(x, t) == NumOnly(expr_eval(Expect(x, t)))
           Step(x) == LET y == Skip(tokens, x)
                      IN IF x.err # "none" THEN x
                         ELSE IF peek(tokens, y.pos) = "STEP" THEN NumOnly(expr_eval(Past(y)))
                         ELSE make_num(y, 1)
           frame(from, to, x) == [var |-> <<var.name, var.idx>>, limit |-> to.v.num,
                                  step |-> x.v.num, line |-> st.cur, pos |-> x.pos]
           Pushes(from, to, x) ==
             /\ x.err = "none"
             /\ num_vars' = [num_vars EXCEPT ![<<var.name, var.idx>>] = from.v.num]
             /\ \/ \E msg : exec_set_error(st, msg)
                \/ /\ ~(Len(st.for) >= FOR_DEPTH)
                   /\ GoOn([st EXCEPT !.pos = x.pos, !.for = Append(@, frame(from, to, x))], x.pool)
             /\ UNCHANGED str_vars
<1>1. \E from \in {Number2(Behind(target, d), "=")} : \E to \in {Number2(from, "TO")} :
        \E x \in {Step(to)} : Pushes(from, to, x) \/ Missed
  BY ZenonT(60) DEF For, Evaluated, Missed
<1>2. target.pos \in Nat /\ (target.ok => <<var.name, var.idx>> \in NumVars)
  <2>1. var.pos \in Nat /\ (var.ok => <<var.name, var.idx>> \in NumVars)
    BY DuringIn, TargetOf
  <2>2. target.pos = var.pos /\ (target.ok => var.ok)
    BY DEF parse_var_target
  <2> QED BY <2>1, <2>2
<1> HIDE DEF var, target
<1>3. ASSUME NEW x \in Scans, NEW t, t # "nul"
      PROVE  Number2(x, t) \in Results(Len(tokens), x) /\ Number2(x, t) \in Scans
  <2>1. PICK y \in Scans : y = Expect(x, t) /\ y \in Results(Len(tokens), x)
    BY <1>3, DuringIn, ExpectIn
  <2>2. NumOnly(expr_eval(y)) \in Results(Len(tokens), y)
    BY <2>1, DuringIn, EvalIn
  <2> QED BY <2>1, <2>2, DuringIn, ResultsOf
<1>4. ASSUME NEW x \in Scans PROVE Step(x) \in Results(Len(tokens), x) /\ Step(x) \in Scans
  BY StepIn
<1> HIDE DEF Number2, Step
<1>5. Behind(target, d) \in Scans /\ (Behind(target, d).err = "none" => target.ok)
  BY <1>2, SpoolIn, DuringIn, DrawIn, BehindIn
<1>6. PICK from \in Scans : /\ from \in Results(Len(tokens), Behind(target, d))
                            /\ \E to \in {Number2(from, "TO")} : \E x \in {Step(to)} : Pushes(from, to, x) \/ Missed
  BY <1>1, <1>3, <1>5, MarksNul
<1>7. PICK to \in Scans : to \in Results(Len(tokens), from) /\ \E x \in {Step(to)} : Pushes(from, to, x) \/ Missed
  BY <1>3, <1>6, MarksNul
<1>8. PICK x \in Scans : x \in Results(Len(tokens), to) /\ (Pushes(from, to, x) \/ Missed)
  BY <1>4, <1>7
<1>9. CASE Pushes(from, to, x)
  <2>1. <<var.name, var.idx>> \in NumVars
    BY <1>2, <1>5, <1>6, <1>7, <1>8, <1>9 DEF Results
  <2>2. DataIn'
    BY <1>9, FoundIn, NumberKept DEF During
  <2>3. st \in States(Named(prog))
    BY DEF During
  <2>4. CASE \E msg : exec_set_error(st, msg)
    BY <2>2, <2>3, <2>4, ErrorFlows DEF Progress
  <2>5. CASE /\ ~(Len(st.for) >= FOR_DEPTH)
             /\ GoOn([st EXCEPT !.pos = x.pos, !.for = Append(@, frame(from, to, x))], x.pool)
    <3>1. frame(from, to, x) \in LoopsOf(Named(prog))
      BY <2>1, <2>3, StateIn, FoundIn DEF LoopsOf
    <3> DEFINE f == Append(st.for, frame(from, to, x))
    <3> HIDE DEF frame
    <3>2. f \in Seq(LoopsOf(Named(prog))) /\ Len(f) = Len(st.for) + 1
      BY <2>3, <3>1, StateIn, AppendProperties
    <3>3. Len(f) <= FOR_DEPTH
      BY <2>3, <2>5, <3>2, StateIn, BoundsIn
    <3>4. /\ st.cur \in Named(prog) /\ st.gosub \in Seq(CallsOf(Named(prog)))
          /\ Len(st.gosub) <= GOSUB_DEPTH /\ x.pos \in Nat /\ x.pool \in 0 .. STRING_POOL_SIZE
      BY <2>3, StateIn, FoundIn
    <3>5. GoOn([st EXCEPT !.pos = x.pos, !.for = f], x.pool)
      BY <2>5
    <3> HIDE DEF f
    <3>6. [st EXCEPT !.pos = x.pos, !.for = f] \in States(Named(prog))
      BY <2>3, <3>2, <3>3, <3>4, StateStacked
    <3>7. Flowing
      BY <3>4, <3>5, <3>6, GoOnFlows
    <3> QED BY <2>2, <3>7 DEF Progress
  <2> QED BY <1>9, <2>4, <2>5
<1> QED BY <1>8, <1>9, MissedFlows

LEMMA InputKeeps == ASSUME During, Input PROVE Progress
<1> DEFINE p == skip_spaces(tokens, At + 1)
           prompted == Optional(tokens, Scan(p + 2 + tokens[p + 1].n, 0), ";").pos
           q == IF peek(tokens, p) = "STR" THEN prompted ELSE p
<1>1. /\ \/ pc' = "input" /\ st' = [st EXCEPT !.pos = q] /\ UNCHANGED <<err, spool>>
         \/ \E msg : exec_set_error(st, msg)
      /\ UNCHANGED data
  BY Zenon DEF Input
<1>2. p \in Nat
  BY DuringIn, SkipSpacesIn
<1>3. q \in Nat
  <2>1. ASSUME peek(tokens, p) = "STR" PROVE prompted \in Nat
    <3>1. tokens[p + 1].n \in Nat
      BY <1>2, <2>1, DuringIn, PeekIn
    <3>2. p + 2 + tokens[p + 1].n \in Nat
      BY <1>2, <3>1
    <3>3. Scan(p + 2 + tokens[p + 1].n, 0) \in Scans
      BY <3>2, SpoolIn, StartIn
    <3> QED BY <3>3, DuringIn, OptionalIn, ScanIn, Zenon
  <2> HIDE DEF prompted, p
  <2> QED BY <1>2, <2>1
<1> HIDE DEF q
<1>4. CASE pc' = "input" /\ st' = [st EXCEPT !.pos = q] /\ UNCHANGED <<err, spool>>
  <2>1. [st EXCEPT !.pos = q] \in States(Named(prog))
    BY <1>3, StateMoved DEF During
  <2> QED BY <1>1, <1>4, <2>1, DataKept DEF During, Progress, Flowing, Places
<1>5. CASE \E msg : exec_set_error(st, msg)
  <2>1. st \in States(Named(prog))
    BY DEF During
  <2> QED BY <1>1, <1>5, <2>1, ErrorFlows, DataKept DEF During, Progress
<1> QED BY <1>1, <1>4, <1>5

LEMMA AnswerKeeps == ASSUME During, NEW answer \in Answers, Answer(answer) PROVE Progress
<1> DEFINE target == parse_var_target(st.pos)
           cut == {i \in DOMAIN keys : keys[i] = CtrlC}
           typedIn == IF cut = {} THEN answer ELSE << >>
<1>1. /\ IF target.is_string
         THEN str_vars' = [str_vars EXCEPT ![target.name] = typedIn] /\ UNCHANGED num_vars
         ELSE /\ num_vars' = [num_vars EXCEPT ![<<target.name, target.idx>>] = str_to_i32(typedIn)]
              /\ UNCHANGED str_vars
      /\ GoOn([st EXCEPT !.pos = target.pos], spool)
  BY Zenon DEF Answer
<1>2. typedIn \in Seq(Words) /\ Len(typedIn) <= STR_MAX_LEN
  <2>1. Answers \subseteq Seq(Words) /\ \A a \in Answers : Len(a) < STR_MAX_LEN
    BY BasicAssumption, Zenon
  <2>2. answer \in Seq(Words) /\ Len(answer) \in Nat /\ Len(answer) < STR_MAX_LEN
    BY <2>1, LenProperties
  <2>3. << >> \in Seq(Words) /\ Len(<< >>) = 0 /\ STR_MAX_LEN \in Nat
    BY EmptySeq, ExprFacts
  <2> HIDE DEF cut
  <2> QED BY <2>2, <2>3
<1>3. target.pos \in Nat
  BY DuringIn, TargetOf
<1> HIDE DEF target, typedIn
<1>4. Flowing
  BY <1>1, <1>3, SpoolIn, MovedFlows
<1>5. str_to_i32(typedIn) \in Numbers
  BY <1>2, TextAsNumber
<1>6. DataIn
  BY DEF During
<1>7. DataIn'
  BY <1>1, <1>2, <1>5, <1>6, NumberKept, StringKept
<1> QED BY <1>4, <1>7 DEF Progress

LEMMA ReturnKeeps == ASSUME During, Return PROVE Progress
<1> DEFINE top == Last(st.gosub)
           g == SubSeq(st.gosub, 1, Len(st.gosub) - 1)
           popped == [st EXCEPT !.cur = top.line, !.pos = top.pos, !.gosub = g]
<1>1. /\ \/ \E msg : exec_set_error(st, msg)
         \/ st.gosub # << >> /\ GoOn(popped, spool)
      /\ UNCHANGED data
  BY Zenon DEF Return
<1>2. st \in States(Named(prog))
  BY DEF During
<1>3. ASSUME st.gosub # << >> PROVE popped \in States(Named(prog))
  <2>1. st.gosub \in Seq(CallsOf(Named(prog))) /\ Len(st.gosub) \in Nat /\ Len(st.gosub) <= GOSUB_DEPTH
    BY <1>2, StateIn
  <2>2. Len(st.gosub) \in 1 .. Len(st.gosub)
    BY <1>3, <2>1, EmptySeq
  <2>3. st.gosub[Len(st.gosub)] \in CallsOf(Named(prog))
    BY <2>1, <2>2, ElementOfSeq
  <2>4. top \in CallsOf(Named(prog))
    BY <2>3 DEF Last
  <2>5. top.line \in Named(prog) /\ top.pos \in Nat
    BY <2>4 DEF CallsOf
  <2>6. g \in Seq(CallsOf(Named(prog))) /\ Len(g) <= GOSUB_DEPTH
    <3>0. PICK m \in Nat : m = Len(st.gosub)
      BY <2>1
    <3>1. PICK n \in Int : n = m - 1
      OBVIOUS
    <3>2. n <= Len(st.gosub) /\ 1 \in Nat \ {0}
      BY <3>0, <3>1
    <3>3. SubSeq(st.gosub, 1, n) \in Seq(CallsOf(Named(prog)))
          /\ Len(SubSeq(st.gosub, 1, n)) = IF 1 <= n THEN n - 1 + 1 ELSE 0
      BY <2>1, <3>2, PieceOf
    <3>4. Len(SubSeq(st.gosub, 1, n)) <= GOSUB_DEPTH
      BY <2>1, <3>0, <3>1, <3>3, BoundsIn
    <3> QED BY <3>0, <3>1, <3>3, <3>4
  <2>7. st.for \in Seq(LoopsOf(Named(prog))) /\ Len(st.for) <= FOR_DEPTH
    BY <1>2, StateIn
  <2> HIDE DEF top, g
  <2> QED BY <1>2, <2>5, <2>6, <2>7, StateStacked
<1> HIDE DEF popped
<1>4. Flowing
  BY <1>1, <1>2, <1>3, SpoolIn, ErrorFlows, GoOnFlows
<1> QED BY <1>1, <1>4, DataKept DEF During, Progress

LEMMA NextKeeps == ASSUME During, NextStatement PROVE Progress
<1> DEFINE p == skip_spaces(tokens, At + 1)
           target == parse_var_target(p)
           q == IF ~target.ok THEN p ELSE IF target.idx >= 0 THEN p + 2 ELSE p + 1
           matching == {i \in DOMAIN st.for : target.ok => st.for[i].var = <<target.name, target.idx>>}
           new(i) == Wrapped(num_vars[st.for[i].var] + st.for[i].step)
           ended(i) == [st EXCEPT !.pos = q, !.for = SubSeq(@, 1, i - 1)]
           again(i) == [st EXCEPT !.cur = st.for[i].line, !.pos = st.for[i].pos, !.jumped = TRUE]
<1>1. /\ \/ (\E msg : exec_set_error(st, msg)) /\ UNCHANGED num_vars
         \/ /\ matching # {}
            /\ \E i \in {Max(matching)} :
                 /\ num_vars' = [num_vars EXCEPT ![st.for[i].var] = new(i)]
                 /\ GoOn(ended(i), spool) \/ GoOn(again(i), spool)
      /\ UNCHANGED str_vars
  BY Zenon DEF NextStatement
<1>2. /\ st \in States(Named(prog)) /\ DataIn /\ VarsIn /\ p \in Nat
  BY DuringIn, SkipSpacesIn DEF During
<1>3. q \in Nat
  <2> HIDE DEF target, p
  <2> QED BY <1>2
<1>4. /\ st.for \in Seq(LoopsOf(Named(prog))) /\ Len(st.for) \in Nat /\ Len(st.for) <= FOR_DEPTH
      /\ st.gosub \in Seq(CallsOf(Named(prog))) /\ Len(st.gosub) <= GOSUB_DEPTH /\ st.cur \in Named(prog)
  BY <1>2, StateIn
<1>5. CASE (\E msg : exec_set_error(st, msg)) /\ UNCHANGED num_vars
  BY <1>1, <1>2, <1>5, ErrorFlows, DataKept DEF Progress, data
<1>6. CASE /\ matching # {}
           /\ \E i \in {Max(matching)} :
                /\ num_vars' = [num_vars EXCEPT ![st.for[i].var] = new(i)]
                /\ GoOn(ended(i), spool) \/ GoOn(again(i), spool)
  <2>1. matching \subseteq 1 .. Len(st.for)
    BY <1>4, LenProperties
  <2> HIDE DEF matching, q
  <2>2. Max(matching) \in 1 .. Len(st.for)
    <3>1. matching \subseteq 0 .. Len(st.for)
      BY <1>4, <2>1
    <3> QED BY <1>4, <1>6, <2>1, <3>1, GreatestIn
  <2>3. PICK i \in 1 .. Len(st.for) : /\ num_vars' = [num_vars EXCEPT ![st.for[i].var] = new(i)]
                                      /\ GoOn(ended(i), spool) \/ GoOn(again(i), spool)
    BY <1>6, <2>2
  <2>4. st.for[i] \in LoopsOf(Named(prog))
    BY <1>4, ElementOfSeq
  <2>5. /\ st.for[i].var \in NumVars /\ st.for[i].step \in Int
        /\ st.for[i].line \in Named(prog) /\ st.for[i].pos \in Nat
    BY <2>4, NumbersInt DEF LoopsOf
  <2>6. new(i) \in Numbers
    <3>1. num_vars[st.for[i].var] \in Int
      BY <1>2, <2>5, NumbersInt DEF VarsIn
    <3>2. num_vars[st.for[i].var] + st.for[i].step \in Int
      BY <2>5, <3>1
    <3> QED BY <3>2, NumeralIn
  <2> HIDE DEF new
  <2>7. DataIn'
    BY <1>1, <1>2, <2>3, <2>6, NumberKept
  <2>8. again(i) \in States(Named(prog))
    BY <1>2, <2>5, StateJumped
  <2>9. ended(i) \in States(Named(prog))
    <3>1. PICK n \in Int : n = i - 1
      OBVIOUS
    <3>2. n <= Len(st.for) /\ 1 \in Nat \ {0}
      BY <1>4, <3>1
    <3>3. SubSeq(st.for, 1, n) \in Seq(LoopsOf(Named(prog)))
          /\ Len(SubSeq(st.for, 1, n)) = IF 1 <= n THEN n - 1 + 1 ELSE 0
      BY <1>4, <3>2, PieceOf
    <3>4. Len(SubSeq(st.for, 1, n)) <= FOR_DEPTH
      BY <1>4, <3>1, <3>3, BoundsIn
    <3>5. [st EXCEPT !.pos = q, !.for = SubSeq(st.for, 1, n)] \in States(Named(prog))
      BY <1>2, <1>3, <1>4, <3>3, <3>4, StateStacked
    <3> QED BY <3>1, <3>5
  <2> HIDE DEF ended, again
  <2>10. Flowing
    BY <2>3, <2>8, <2>9, SpoolIn, GoOnFlows
  <2> QED BY <2>7, <2>10 DEF Progress
<1> QED BY <1>1, <1>5, <1>6

\* The statements without an expression, and the turns of the loop of a line.
LEMMA PlainKeeps ==
  ASSUME During, Rem \/ Cls \/ Clr \/ End \/ Unknown \/ Nothing \/ Break
  PROVE  Progress
<1>1. Len(tokens) \in Nat /\ At \in Nat /\ At + 1 \in Nat /\ spool \in 0 .. STRING_POOL_SIZE
  BY DuringIn, SpoolIn
<1>2. st \in States(Named(prog)) /\ DataIn
  BY DEF During
<1>3. ASSUME UNCHANGED data, NEW p \in Nat,
             GoOn([st EXCEPT !.pos = p], spool) \/ GoOn([st EXCEPT !.pos = p, !.running = FALSE], spool)
      PROVE  Progress
  <2>1. [st EXCEPT !.pos = p] \in States(Named(prog)) /\ [st EXCEPT !.pos = p, !.running = FALSE] \in States(Named(prog))
    BY <1>2, StateMoved
  <2> QED BY <1>1, <1>2, <1>3, <2>1, GoOnFlows, DataKept DEF Progress
<1>4. CASE Rem
  BY <1>1, <1>3, <1>4 DEF Rem
<1>5. CASE Cls
  BY <1>1, <1>3, <1>5 DEF Cls
<1>6. CASE Clr
  BY <1>1, <1>6, MovedFlows, ClearKept DEF Clr, Progress
<1>7. CASE End
  BY <1>1, <1>3, <1>7 DEF End
<1>8. CASE Unknown
  <2>1. (\E msg : exec_set_error(st, msg)) /\ UNCHANGED data
    BY <1>8, Zenon DEF Unknown
  <2> QED BY <1>2, <2>1, ErrorFlows, DataKept DEF Progress
<1>9. CASE Nothing
  <2>1. UNCHANGED data /\ GoOn([st EXCEPT !.pos = At], spool)
    BY <1>9, Zenon DEF Nothing, data
  <2> QED BY <1>1, <1>3, <2>1
<1>10. CASE Break
  <2>1. UNCHANGED data /\ GoOn([st EXCEPT !.pos = At, !.running = FALSE], spool)
    BY <1>10, Zenon DEF Break, data
  <2> QED BY <1>1, <1>3, <2>1
<1> QED BY <1>4, <1>5, <1>6, <1>7, <1>8, <1>9, <1>10

LEMMA GoesOnKeeps == ASSUME During, LineGoesOn PROVE Progress
<1> DEFINE S == {q \in st.pos .. Len(tokens) : q = Len(tokens) \/ tokens[q + 1].t \notin {Blank, ":"}}
           p == Separators(st.pos)
<1>1. st.pos < Len(tokens) /\ st' = [st EXCEPT !.pos = p] /\ pc' = "stmt" /\ spool' = spool /\ UNCHANGED data
  BY Zenon DEF LineGoesOn, More, data
<1>2. st.pos \in Nat /\ Len(tokens) \in Nat /\ st \in States(Named(prog)) /\ DataIn
  BY DuringIn DEF During
<1>3. p = Min(S)
  BY Zenon DEF Separators, Blank
<1>4. Len(tokens) \in S /\ S \subseteq Nat
  BY <1>1, <1>2
<1> HIDE DEF S, p
<1>5. p \in Nat
  BY <1>3, <1>4, LeastIn
<1>6. [st EXCEPT !.pos = p] \in States(Named(prog))
  BY <1>2, <1>5, StateMoved
<1> QED BY <1>1, <1>2, <1>6, SpoolIn, DataKept DEF Progress, Flowing, Places

\* Everything the interpreter does within a line.
Turns == Flow \/ Return \/ NextStatement \/ Plain \/ Input \/ Rem \/ Cls \/ Clr \/ End \/ Unknown
         \/ Nothing \/ Break \/ LineGoesOn

LEMMA TurnsKeep == ASSUME During, Turns PROVE Progress
<1>1. CASE Flow
  BY <1>1, IfKeeps, GotoKeeps, GosubKeeps, ForKeeps, Zenon DEF Flow
<1>2. CASE Plain
  BY <1>2, PrintKeeps, LetKeeps, PokeKeeps, Zenon DEF Plain
<1>3. CASE Rem \/ Cls \/ Clr \/ End \/ Unknown \/ Nothing \/ Break
  BY <1>3, PlainKeeps
<1> QED BY <1>1, <1>2, <1>3, ReturnKeeps, NextKeeps, InputKeeps, GoesOnKeeps DEF Turns

LEMMA TurnsWorld == Turns => (pc = "stmt" \/ pc = "line") /\ UNCHANGED world /\ keys' \in {keys, Tail(keys)}
                             /\ (keys = << >> => keys' = << >>)
<1>1. ASSUME NEW toks, Begin(toks)
      PROVE  pc = "stmt" /\ UNCHANGED world /\ keys' \in {keys, Tail(keys)} /\ (keys = << >> => keys' = << >>)
  BY <1>1 DEF Begin
<1> DEFINE Done == pc = "stmt" /\ UNCHANGED world /\ keys' \in {keys, Tail(keys)} /\ (keys = << >> => keys' = << >>)
<1>2. ASSUME NEW toks, Statement(toks) PROVE Done
  BY <1>1, <1>2 DEF Statement
<1> HIDE DEF Done
<1>3. ASSUME NEW d, PrintStatement(d) \/ Let(d) \/ Poke(d) PROVE Done
  BY <1>2, <1>3, Zenon DEF PrintStatement, Let, Poke
<1>4. ASSUME NEW d, If(d) \/ Goto(d) \/ Gosub(d) \/ For(d) PROVE Done
  BY <1>2, <1>4, Zenon DEF If, Goto, Gosub, For
<1>5. Return => Done
  BY <1>1, Zenon DEF Return, Done
<1>6. NextStatement \/ Input \/ Rem \/ Cls \/ Clr \/ End \/ Unknown => Done
  BY <1>2, Zenon DEF NextStatement, Input, Rem, Cls, Clr, End, Unknown
<1>7. Nothing \/ Break => Done
  BY DEF Nothing, Break, Done
<1>8. LineGoesOn => pc = "line" /\ UNCHANGED <<world, keys>>
  BY DEF LineGoesOn
<1>9. Turns => Done \/ LineGoesOn
  BY <1>3, <1>4, <1>5, <1>6, <1>7, Zenon DEF Turns, Flow, Plain
<1> QED BY <1>8, <1>9 DEF Done

-----------------------------------------------------------------------------
(* The loop of cmd_run, the prompt and the shell                           *)

\* A step that ends within the lines of the store in its types.
Settled == st' \in States(Named(prog')) /\ pc' \in Places /\ spool' \in 0 .. STRING_POOL_SIZE

LEMMA SettledFlow == Settled => FlowIn'
BY NamedStates DEF Settled, FlowIn

\* Nothing is executed after the step.
LEMMA WaitingFlow ==
  ASSUME st' \in States(Nat), pc' \in {"ready", "shell"}, spool' \in 0 .. STRING_POOL_SIZE
  PROVE  FlowIn'
BY DEF FlowIn, Executing, Places

LEMMA DuringType == ASSUME TypeIn, Executing PROVE During
BY DEF TypeIn, FlowIn, LineIn1, During

LEMMA NoKeys == << >> \in Seq({CtrlC, OtherKey}) /\ Len(<< >>) <= KEYS_MAX
<1>1. << >> \in Seq({CtrlC, OtherKey}) /\ Len(<< >>) = 0
  BY EmptySeq
<1> QED BY <1>1, BoundsIn

LEMMA KeysTaken ==
  ASSUME KeysIn, keys' \in {keys, Tail(keys)}, keys = << >> => keys' = << >>
  PROVE  KeysIn'
<1>1. CASE keys' = keys
  BY <1>1 DEF KeysIn
<1>2. CASE keys' = Tail(keys) /\ keys # << >>
  <2>1. keys \in Seq({CtrlC, OtherKey}) /\ Len(keys) \in Nat /\ Len(keys) <= KEYS_MAX
    BY LenProperties DEF KeysIn
  <2>2. Tail(keys) \in Seq({CtrlC, OtherKey}) /\ Len(Tail(keys)) = Len(keys) - 1
    BY <1>2, <2>1, HeadTailProperties
  <2>3. Len(Tail(keys)) <= KEYS_MAX
    BY <2>1, <2>2, BoundsIn
  <2> QED BY <1>2, <2>2, <2>3 DEF KeysIn
<1> QED BY <1>1, <1>2

LEMMA TurnsType == ASSUME TypeIn, Turns PROVE DataIn' /\ FlowIn' /\ KeysIn' /\ LineIn1'
<1>1. /\ Executing /\ UNCHANGED world /\ keys' \in {keys, Tail(keys)} /\ (keys = << >> => keys' = << >>)
  BY TurnsWorld DEF Executing
<1>2. Progress
  BY <1>1, DuringType, TurnsKeep
<1>3. Settled
  BY <1>1, <1>2 DEF Settled, Progress, Flowing, world
<1>4. KeysIn'
  BY <1>1, KeysTaken DEF TypeIn
<1> QED BY <1>1, <1>2, <1>3, <1>4, SettledFlow DEF Progress, TypeIn, LineIn1, world

\* The call of exec_line_at for a line in store, or for the one typed.
LEMMA LineStarts ==
  ASSUME NEW S, NEW state \in States(S), NEW num, NEW toks, NEW pos \in Nat, exec_line_at(state, num, toks, pos)
  PROVE  st' \in States(S) /\ pc' = "line" /\ spool' = 0 /\ tokens' = toks
<1>1. [state EXCEPT !.pos = pos, !.jumped = FALSE] \in States(S)
  BY StateMoved
<1> QED BY <1>1 DEF exec_line_at

LEMMA PoolEmpty == 0 \in 0 .. STRING_POOL_SIZE
BY ExprFacts

LEMMA LineEndsType == ASSUME TypeIn, LineEnds PROVE DataIn' /\ FlowIn' /\ KeysIn' /\ LineIn1'
<1> DEFINE cur == IF st.jumped THEN st.cur ELSE prog_next_line(prog, st.cur)
           from == IF st.jumped THEN st.pos ELSE 0
<1>1. /\ pc = "line" /\ UNCHANGED <<prog, back, typed, data, keys>>
      /\ \/ pc' = back /\ UNCHANGED <<st, tokens, spool>>
         \/ pc' = back /\ st' = [st EXCEPT !.cur = NoLine] /\ UNCHANGED <<tokens, spool>>
         \/ cur # NoLine /\ exec_line_at([st EXCEPT !.cur = cur], cur, LineOf(prog, cur), from)
  BY Zenon DEF LineEnds
<1>2. During
  BY <1>1, DuringType DEF Executing
<1>3. /\ st \in States(Named(prog)) /\ st.cur \in Named(prog) /\ st.pos \in Nat /\ spool \in 0 .. STRING_POOL_SIZE
      /\ prog \in Stores /\ tokens \in Toks /\ back \in {"ready", "shell"}
  BY <1>2, DuringIn DEF During, TypeIn, StoreIn, LineIn1
<1>4. DataIn' /\ KeysIn'
  BY <1>1, DataKept DEF TypeIn, KeysIn
<1>5. typed' \in 0 .. MaxTyped /\ back' \in {"ready", "shell"}
  BY <1>1 DEF TypeIn, LineIn1
<1>6. from \in Nat
  BY <1>3
<1>7. cur \in Named(prog) /\ (cur # NoLine => LineOf(prog, cur) \in Toks)
  <2>1. st.cur \in Nat
    BY <1>3, NamedIn
  <2>2. cur \in Named(prog)
    BY <1>3, <2>1, NextLineIn
  <2> HIDE DEF cur
  <2>3. cur # NoLine => cur \in Nat /\ prog_has_line(prog, cur)
    BY <2>2 DEF Named
  <2> QED BY <1>3, <2>2, <2>3, LineOfIn
<1> HIDE DEF cur, from
<1>8. CASE pc' = back /\ UNCHANGED <<st, tokens, spool>>
  <2>1. FlowIn'
    BY <1>3, <1>8, NamedStates, WaitingFlow
  <2> QED BY <1>3, <1>4, <1>5, <1>8, <2>1 DEF LineIn1
<1>9. CASE pc' = back /\ st' = [st EXCEPT !.cur = NoLine] /\ UNCHANGED <<tokens, spool>>
  <2>1. [st EXCEPT !.cur = NoLine] \in States(Named(prog))
    BY <1>3, NamedIn, StateJumped DEF NoLine
  <2>2. FlowIn'
    BY <1>3, <1>9, <2>1, NamedStates, WaitingFlow
  <2> QED BY <1>3, <1>4, <1>5, <1>9, <2>2 DEF LineIn1
<1>10. CASE cur # NoLine /\ exec_line_at([st EXCEPT !.cur = cur], cur, LineOf(prog, cur), from)
  <2>1. [st EXCEPT !.cur = cur] \in States(Named(prog))
    BY <1>3, <1>7, StateJumped
  <2>2. st' \in States(Named(prog)) /\ pc' = "line" /\ spool' = 0 /\ tokens' = LineOf(prog, cur)
    BY <1>6, <1>10, <2>1, LineStarts
  <2>3. FlowIn'
    BY <1>1, <2>2, PoolEmpty, SettledFlow DEF Settled, Places
  <2> QED BY <1>4, <1>5, <1>7, <1>10, <2>2, <2>3 DEF LineIn1
<1> QED BY <1>1, <1>8, <1>9, <1>10

LEMMA ImmediateEndsType == ASSUME TypeIn, ImmediateEnds PROVE DataIn' /\ FlowIn' /\ KeysIn' /\ LineIn1'
<1>1. pc' = "ready" /\ UNCHANGED <<world, data, st, spool, keys>>
  BY DEF ImmediateEnds
<1>2. FlowIn'
  BY <1>1, WaitingFlow DEF TypeIn, FlowIn
<1> QED BY <1>1, <1>2, DataKept DEF TypeIn, KeysIn, LineIn1, world

\* cmd_run for a program in store.
LEMMA RunFlows ==
  ASSUME NEW p \in Stores, prog' = p, tokens \in Toks, NEW to \in {"ready", "shell"}, cmd_run(p, to)
  PROVE  DataIn' /\ FlowIn' /\ tokens' \in Toks
<1> DEFINE fresh == [exec_init(st) EXCEPT !.cur = prog_first_line(p), !.running = TRUE]
<1>1. /\ vars_clear
      /\ \/ pc' = to /\ st' = fresh /\ spool' = 0 /\ UNCHANGED <<line, tokens>>
         \/ p # << >> /\ exec_line_at(fresh, prog_first_line(p), p[1].toks, 0)
  BY Zenon DEF cmd_run
<1>2. DataIn'
  BY <1>1, ClearKept
<1>3. prog_first_line(p) \in Named(p) /\ (p # << >> => p[1].toks \in Toks)
  BY FirstLineIn
<1>4. fresh \in States(Named(p))
  <2>1. AtRest \in States(Named(p))
    BY RestState, NamedIn
  <2>2. [AtRest EXCEPT !.cur = prog_first_line(p), !.running = TRUE] \in States(Named(p))
    BY <1>3, <2>1, StateJumped
  <2> QED BY <2>2 DEF exec_init
<1> HIDE DEF fresh
<1>5. CASE pc' = to /\ st' = fresh /\ spool' = 0 /\ UNCHANGED <<line, tokens>>
  <2>1. FlowIn'
    BY <1>4, <1>5, PoolEmpty, SettledFlow DEF Settled, Places
  <2> QED BY <1>2, <1>5, <2>1
<1>6. CASE p # << >> /\ exec_line_at(fresh, prog_first_line(p), p[1].toks, 0)
  <2>1. st' \in States(Named(p)) /\ pc' = "line" /\ spool' = 0 /\ tokens' = p[1].toks
    BY <1>4, <1>6, LineStarts
  <2>2. FlowIn'
    BY <2>1, PoolEmpty, SettledFlow DEF Settled, Places
  <2> QED BY <1>2, <1>3, <1>6, <2>1, <2>2
<1> QED BY <1>1, <1>5, <1>6

LEMMA ImmediateFlows ==
  ASSUME NEW text \in Seq(Spellings), exec_immediate(text)
  PROVE  FlowIn' /\ tokens' \in Toks
<1> DEFINE fresh == [exec_init(st) EXCEPT !.running = TRUE]
<1>1. fresh \in States(Named(prog'))
  BY RestState, NamedIn, StateMoved DEF exec_init
<1>2. exec_line_at(fresh, NoLine, tokenize(text), 0)
  BY DEF exec_immediate
<1> HIDE DEF fresh
<1>3. st' \in States(Named(prog')) /\ pc' = "line" /\ spool' = 0 /\ tokens' = tokenize(text)
  BY <1>1, <1>2, LineStarts
<1>4. FlowIn'
  BY <1>3, PoolEmpty, SettledFlow DEF Settled, Places
<1> QED BY <1>3, <1>4, TokenizeIn

LEMMA ProbeIn == ASSUME NEW e \in Expressions PROVE Probe(e) \in Seq(Spellings)
<1>1. e.text \in Seq(Spellings) /\ "A" \in Letters
  BY BasicAssumption, Zenon
<1>2. "=" \in Words /\ "A" \in Words
  BY <1>1, Zenon DEF Words, Marks
<1>3. Lex("A") \in Spellings /\ Lex("=") \in Spellings
  BY <1>2, LexemesIn, Zenon
<1> DEFINE a == Lex("A")
           b == Lex("=")
<1> HIDE DEF a, b
<1>4. <<a, b>> \in Seq(Spellings)
  BY <1>3 DEF a, b
<1>5. <<a, b>> \o e.text \in Seq(Spellings)
  BY <1>1, <1>4, ConcatProperties
<1> QED BY <1>5, Zenon DEF Probe, a, b

\* Lines that are typed at the prompt, none of which is executed.
LEMMA IdleType ==
  ASSUME TypeIn, pc = "ready", Idle, DataIn', keys' = << >>, typed' \in 0 .. MaxTyped
  PROVE  DataIn' /\ FlowIn' /\ KeysIn' /\ LineIn1'
<1>1. FlowIn'
  BY WaitingFlow DEF Idle, TypeIn, FlowIn
<1>2. KeysIn'
  BY NoKeys DEF KeysIn
<1> QED BY <1>1, <1>2 DEF Idle, TypeIn, LineIn1

LEMMA TypedIn ==
  ASSUME typed \in 0 .. MaxTyped, typed < MaxTyped, typed' = typed + 1 \/ typed' = typed
  PROVE  typed' \in 0 .. MaxTyped
BY BoundsIn

LEMMA PromptType == ASSUME TypeIn, StoreIn', Prompt PROVE DataIn' /\ FlowIn' /\ KeysIn' /\ LineIn1'
<1> DEFINE Goal == DataIn' /\ FlowIn' /\ KeysIn' /\ LineIn1'
<1>1. /\ DataIn /\ tokens \in Toks /\ back \in {"ready", "shell"} /\ typed \in 0 .. MaxTyped /\ prog \in Stores
  BY DEF TypeIn, LineIn1, StoreIn
<1>2. Typing => pc = "ready" /\ keys' = << >> /\ typed' \in 0 .. MaxTyped
  BY <1>1, TypedIn DEF Typing
<1>3. keys' = << >> => KeysIn'
  BY NoKeys DEF KeysIn
<1>4. ASSUME NEW l, EnterLine(l) PROVE Goal
  <2>1. Typing /\ Idle /\ UNCHANGED data
    BY <1>4 DEF EnterLine
  <2> QED BY <1>1, <1>2, <2>1, DataKept, IdleType
<1>5. ASSUME NEW text \in Immediate, EnterImmediate(text) PROVE Goal
  <2>1. text \in Seq(Spellings)
    <3>1. Immediate \subseteq Seq(Spellings)
      BY BasicAssumption, Zenon
    <3> QED BY <3>1
  <2>2. Typing /\ exec_immediate(text) /\ UNCHANGED <<data, back>>
    BY <1>5 DEF EnterImmediate
  <2> QED BY <1>1, <1>2, <1>3, <2>1, <2>2, DataKept, ImmediateFlows DEF LineIn1
<1>6. ASSUME NEW e \in Expressions, EnterExpression(e) PROVE Goal
  <2>1. exec_immediate(Probe(e)) /\ UNCHANGED <<data, back>> /\ keys' = << >> /\ typed' = MaxTyped
    BY <1>6 DEF EnterExpression
  <2>2. typed' \in 0 .. MaxTyped
    BY <2>1, BoundsIn
  <2> QED BY <1>1, <1>3, <2>1, <2>2, ProbeIn, DataKept, ImmediateFlows DEF LineIn1
<1>7. CASE Run
  <2>1. Typing /\ cmd_run(prog, back) /\ UNCHANGED <<prog, back>>
    BY <1>7 DEF Run
  <2>2. DataIn' /\ FlowIn' /\ tokens' \in Toks
    BY <1>1, <2>1, RunFlows
  <2> QED BY <1>1, <1>2, <1>3, <2>1, <2>2 DEF LineIn1
<1>8. CASE New
  <2>1. Typing /\ Idle /\ vars_clear
    BY <1>8 DEF New
  <2> QED BY <1>2, <2>1, ClearKept, IdleType
<1>9. CASE System
  <2>1. Typing /\ pc' = "shell" /\ UNCHANGED <<data, st, spool, tokens, back>>
    BY <1>9 DEF System
  <2>2. FlowIn'
    BY <2>1, WaitingFlow DEF TypeIn, FlowIn
  <2> QED BY <1>1, <1>2, <1>3, <2>1, <2>2, DataKept DEF LineIn1
<1>10. ASSUME NEW f, Save(f) PROVE Goal
  <2>1. Typing /\ Idle /\ UNCHANGED data
    BY <1>10 DEF Save
  <2> QED BY <1>1, <1>2, <2>1, DataKept, IdleType
<1>11. ASSUME NEW f, Load(f) PROVE Goal
  <2>1. Typing /\ Idle /\ UNCHANGED data
    BY <1>11 DEF Load
  <2> QED BY <1>1, <1>2, <2>1, DataKept, IdleType
<1> QED BY <1>4, <1>5, <1>6, <1>7, <1>8, <1>9, <1>10, <1>11 DEF Prompt

LEMMA OthersType ==
  ASSUME TypeIn, StoreIn',
         (\E a \in Answers : Answer(a)) \/ Start \/ (\E f \in Names : StartWith(f))
           \/ (\E k \in {CtrlC, OtherKey} : Press(k))
  PROVE  DataIn' /\ FlowIn' /\ KeysIn' /\ LineIn1'
<1>1. /\ DataIn /\ tokens \in Toks /\ back \in {"ready", "shell"} /\ typed \in 0 .. MaxTyped
      /\ spool \in 0 .. STRING_POOL_SIZE /\ KeysIn
  BY DEF TypeIn, LineIn1, FlowIn
<1>2. keys' = << >> => KeysIn'
  BY NoKeys DEF KeysIn
<1>3. ASSUME NEW a \in Answers, Answer(a) PROVE DataIn' /\ FlowIn' /\ KeysIn' /\ LineIn1'
  <2> DEFINE cut == {i \in DOMAIN keys : keys[i] = CtrlC}
  <2>1. /\ Executing /\ UNCHANGED world
        /\ keys' = IF cut = {} THEN << >> ELSE SubSeq(keys, Min(cut) + 1, Len(keys))
    BY <1>3 DEF Answer, Executing
  <2>2. Progress
    BY <1>3, <2>1, DuringType, AnswerKeeps
  <2>3. FlowIn' /\ DataIn'
    BY <2>1, <2>2, SettledFlow DEF Settled, Progress, Flowing, world
  <2>4. KeysIn'
    <3>1. keys \in Seq({CtrlC, OtherKey}) /\ Len(keys) \in Nat /\ Len(keys) <= KEYS_MAX
      BY <1>1, LenProperties DEF KeysIn
    <3>2. cut \subseteq Nat
      BY <3>1, LenProperties
    <3> HIDE DEF cut
    <3>3. CASE cut # {}
      <4>1. Min(cut) \in Nat
        BY <3>2, <3>3, LeastIn
      <4>2. PICK m \in Nat \ {0} : m = Min(cut) + 1
        BY <4>1
      <4>3. /\ SubSeq(keys, m, Len(keys)) \in Seq({CtrlC, OtherKey})
            /\ Len(SubSeq(keys, m, Len(keys))) = IF m <= Len(keys) THEN Len(keys) - m + 1 ELSE 0
        BY <3>1, PieceOf
      <4>4. Len(SubSeq(keys, m, Len(keys))) <= KEYS_MAX
        BY <3>1, <4>3, BoundsIn
      <4> QED BY <2>1, <3>3, <4>2, <4>3, <4>4 DEF KeysIn
    <3> QED BY <1>2, <2>1, <3>3
  <2> QED BY <1>1, <2>1, <2>3, <2>4 DEF LineIn1, world
<1>4. CASE Start
  <2>1. /\ keys' = << >> /\ back' = "ready" /\ vars_clear /\ st' = AtRest /\ pc' = "ready"
        /\ tokens' = << >> /\ spool' = 0 /\ typed' = typed
    BY <1>4 DEF Start, Fresh, exec_init
  <2>2. st' \in States(Nat)
    BY <2>1, RestState
  <2>3. FlowIn'
    BY <2>1, <2>2, PoolEmpty, WaitingFlow
  <2>4. tokens' \in Toks
    BY <2>1, NoItems, ToksIn
  <2> QED BY <1>1, <1>2, <2>1, <2>3, <2>4, ClearKept DEF LineIn1
<1>5. ASSUME NEW f, StartWith(f) PROVE DataIn' /\ FlowIn' /\ KeysIn' /\ LineIn1'
  <2>1. keys' = << >> /\ back' = "shell" /\ typed' = typed + 1 /\ typed < MaxTyped /\ cmd_run(prog', "shell")
    BY <1>5 DEF StartWith, Fresh
  <2>2. prog' \in Stores
    BY DEF StoreIn
  <2>3. DataIn' /\ FlowIn' /\ tokens' \in Toks
    BY <1>1, <2>1, <2>2, RunFlows
  <2> QED BY <1>1, <1>2, <2>1, <2>3, TypedIn DEF LineIn1
<1>6. ASSUME NEW k \in {CtrlC, OtherKey}, Press(k) PROVE DataIn' /\ FlowIn' /\ KeysIn' /\ LineIn1'
  <2>1. /\ Len(keys) < KEYS_MAX /\ keys' = Append(keys, k)
        /\ UNCHANGED <<world, data, st, spool, pc>>
    BY <1>6 DEF Press
  <2>2. FlowIn'
    BY <2>1 DEF TypeIn, FlowIn, Executing, world
  <2>3. KeysIn'
    <3>1. keys \in Seq({CtrlC, OtherKey}) /\ Len(keys) \in Nat
      BY <1>1, LenProperties DEF KeysIn
    <3>2. Append(keys, k) \in Seq({CtrlC, OtherKey}) /\ Len(Append(keys, k)) = Len(keys) + 1
      BY <3>1, AppendProperties
    <3> QED BY <2>1, <3>1, <3>2, BoundsIn DEF KeysIn
  <2> QED BY <1>1, <2>1, <2>2, <2>3, DataKept DEF LineIn1, world
<1> QED BY <1>3, <1>4, <1>5, <1>6

LEMMA TypeInit == Init => TypeIn
<1> SUFFICES ASSUME Init PROVE TypeIn
  OBVIOUS
<1>1. StoreIn
  BY StoreInit
<1>2. /\ num_vars = [v \in NumVars |-> 0] /\ str_vars = [v \in Letters |-> << >>]
      /\ pc = "shell" /\ back = "ready" /\ st = AtRest /\ spool = 0 /\ tokens = << >> /\ keys = << >> /\ typed = 0
  BY DEF Init
<1>3. DataIn
  <2>1. 0 \in Numbers /\ STR_MAX_LEN \in Nat /\ << >> \in Seq(Words) /\ Len(<< >>) = 0
    BY ExprFacts, EmptySeq
  <2> QED BY <1>2, <2>1 DEF DataIn, VarsIn
<1>4. FlowIn
  <2>1. AtRest \in States(Nat)
    BY RestState
  <2> QED BY <1>2, <2>1, PoolEmpty DEF FlowIn, Executing, Places
<1>5. KeysIn
  BY <1>2, NoKeys DEF KeysIn
<1>6. LineIn1
  BY <1>2, BoundsIn, NoItems, ToksIn DEF LineIn1
<1> QED BY <1>1, <1>3, <1>4, <1>5, <1>6 DEF TypeIn

LEMMA TypeNext == TypeIn /\ [Next]_vars => TypeIn'
<1> SUFFICES ASSUME TypeIn, [Next]_vars PROVE DataIn' /\ FlowIn' /\ KeysIn' /\ LineIn1' /\ StoreIn'
  BY DEF TypeIn
<1>1. StoreIn'
  BY StoreNext DEF TypeIn
<1>2. CASE UNCHANGED vars
  BY <1>1, <1>2 DEF TypeIn, DataIn, VarsIn, FlowIn, Executing, KeysIn, LineIn1, vars, world, data
<1>3. CASE Interpreter
  <2>1. Turns \/ LineEnds \/ ImmediateEnds
    BY <1>3, Zenon DEF Interpreter, Turns
  <2> QED BY <1>1, <2>1, TurnsType, LineEndsType, ImmediateEndsType
<1>4. CASE Prompt
  BY <1>1, <1>4, PromptType
<1>5. CASE (\E a \in Answers : Answer(a)) \/ Start \/ (\E f \in Names : StartWith(f))
           \/ (\E k \in {CtrlC, OtherKey} : Press(k))
  BY <1>1, <1>5, OthersType
<1> QED BY <1>2, <1>3, <1>4, <1>5, Zenon DEF Next

\* Every number fits its word and every string its variable, the stacks stay
\* within their sizes, the count of the string pool within the pool's, and the
\* current line of a run is in store, for programs and lines of any contents
\* (exec.c, vars.c). It does not say that what is copied stays within the pool: a
\* concatenation that passes the pool's end (expr.c:399-404) ends in "lost".
THEOREM TypeCorrect == Spec => []BasicTypeOK
<1>1. TypeIn => BasicTypeOK
  <2> SUFFICES ASSUME TypeIn PROVE BasicTypeOK
    OBVIOUS
  <2>1. st \in States(Nat) /\ pc \in Places /\ spool \in 0 .. STRING_POOL_SIZE
    BY DEF TypeIn, FlowIn
  <2>2. st.running \in BOOLEAN /\ st.jumped \in BOOLEAN /\ Len(st.gosub) <= GOSUB_DEPTH /\ Len(st.for) <= FOR_DEPTH
    BY <2>1, StateIn
  <2>3. st.cur # NoLine => prog_has_line(prog, st.cur) \/ ~Executing
    <3>1. Executing => st.cur \in Named(prog)
      BY StateIn DEF TypeIn, FlowIn
    <3> QED BY <3>1 DEF Named
  <2>4. num_vars \in [NumVars -> Numbers] /\ \A v \in Letters : Len(str_vars[v]) <= STR_MAX_LEN
    BY DEF TypeIn, DataIn, VarsIn
  <2>5. back \in {"ready", "shell"} /\ Len(keys) <= KEYS_MAX /\ typed \in 0 .. MaxTyped
    BY DEF TypeIn, KeysIn, LineIn1
  <2> QED BY <2>1, <2>2, <2>3, <2>4, <2>5 DEF BasicTypeOK, Places
<1> QED BY <1>1, TypeInit, TypeNext, PTL DEF Spec

-----------------------------------------------------------------------------
(* Where an entry of a stack leads. A statement starts within its line; what *)
(* it pushes is the place behind it on the line that is executed, until      *)
(* RETURN has taken the current line away from there.                        *)

OnLine == Executing /\ line # NoLine
Lined == OnLine => prog_has_line(prog, line) /\ tokens = LineOf(prog, line)
Placed == /\ pc = "stmt" => st.pos <= Len(tokens) /\ ~st.jumped
          /\ pc = "input" => ~st.jumped
Followed(s) ==
  /\ ~s.jumped => s.cur = line
  /\ \A i \in DOMAIN s.gosub : Returnable(s.gosub[i], "GOSUB")
  /\ \A i \in DOMAIN s.for : Returnable(s.for[i], "FOR")
PlaceIn == Lined /\ Placed /\ (OnLine /\ ~drifted => Followed(st))

\* A statement that pushes and pops nothing.
Quiet == /\ st'.gosub = st.gosub /\ st'.for = st.for
         /\ st'.jumped \/ (st'.jumped = st.jumped /\ st'.cur = st.cur)

\* No statement is started and no answer awaited.
Ended == pc' \notin {"stmt", "input"}

LEMMA QuietFollows == ASSUME Quiet, Followed(st) PROVE Followed(st')
BY DEF Quiet, Followed

LEMMA FieldsIn ==
  ASSUME NEW S, NEW s \in States(S)
  PROVE  s \in [cur : S, pos : Nat, running : BOOLEAN, jumped : BOOLEAN, gosub : Seq(CallsOf(S)), for : Seq(LoopsOf(S))]
BY DEF States

\* The ways in which st' is made from st.
LEMMA QuietMoves ==
  ASSUME During
  PROVE  /\ \A p : st' = [st EXCEPT !.pos = p] => Quiet
         /\ \A p : st' = [st EXCEPT !.pos = p, !.running = FALSE] => Quiet
         /\ \A p, n : st' = [st EXCEPT !.pos = p, !.cur = n, !.jumped = TRUE] => Quiet
         /\ st' = [st EXCEPT !.running = FALSE] => Quiet
         /\ st' = st => Quiet
<1>1. st \in [cur : Named(prog), pos : Nat, running : BOOLEAN, jumped : BOOLEAN,
              gosub : Seq(CallsOf(Named(prog))), for : Seq(LoopsOf(Named(prog)))]
  BY FieldsIn DEF During
<1> QED BY <1>1 DEF Quiet

LEMMA QuietError == ASSUME During, NEW msg, exec_set_error(st, msg) PROVE Quiet /\ Ended
BY QuietMoves DEF exec_set_error, Ended

LEMMA QuietGoOn == ASSUME During, NEW p, NEW pool, GoOn([st EXCEPT !.pos = p], pool) PROVE Quiet /\ Ended
BY QuietMoves DEF GoOn, Ended

LEMMA QuietMissed == ASSUME During, Missed PROVE Quiet /\ Ended
<1>1. CASE \E msg : exec_set_error(st, msg) /\ UNCHANGED data
  BY <1>1, QuietError
<1>2. CASE pc' = "lost" /\ UNCHANGED <<st, err, spool, data>>
  BY <1>2, QuietMoves DEF Ended
<1> QED BY <1>1, <1>2 DEF Missed

LEMMA QuietJump ==
  ASSUME During, NEW p, NEW n, NEW pool, JumpTo([st EXCEPT !.pos = p], n, pool)
  PROVE  Quiet /\ Ended
<1> DEFINE moved == [st EXCEPT !.pos = p]
<1>1. /\ \/ \E m : st' = [moved EXCEPT !.cur = m, !.jumped = TRUE]
         \/ st' = [moved EXCEPT !.running = FALSE]
      /\ pc' = "line"
  BY Zenon DEF JumpTo, GoOn, exec_set_error
<1>2. st \in [cur : Named(prog), pos : Nat, running : BOOLEAN, jumped : BOOLEAN,
              gosub : Seq(CallsOf(Named(prog))), for : Seq(LoopsOf(Named(prog)))]
  BY FieldsIn DEF During
<1> QED BY <1>1, <1>2 DEF Quiet, Ended

LEMMA QuietExpressions ==
  ASSUME During, NEW d, PrintStatement(d) \/ Poke(d) \/ Let(d) \/ Goto(d)
  PROVE  Quiet /\ Ended
<1>1. CASE PrintStatement(d)
  <2>1. \E x \in {PrintItems(Scan(At + 1, d))} : GoOn([st EXCEPT !.pos = x.pos], x.pool) \/ Missed
    BY <1>1, Zenon DEF PrintStatement, Evaluated, Missed
  <2> QED BY <2>1, QuietGoOn, QuietMissed
<1>2. CASE Poke(d)
  <2>1. \E a \in {NumOnly(expr_eval(Scan(At + 1, d)))} : \E x \in {NumOnly(expr_eval(Optional(tokens, a, ",")))} :
          GoOn([st EXCEPT !.pos = x.pos], x.pool) \/ Missed
    BY <1>2, Zenon DEF Poke, Evaluated, Missed
  <2>2. PICK x : GoOn([st EXCEPT !.pos = x.pos], x.pool) \/ Missed
    BY <2>1, Zenon
  <2> QED BY <2>2, QuietGoOn, QuietMissed
<1>3. CASE Let(d)
  <2>1. \E x : GoOn([st EXCEPT !.pos = x.pos], x.pool) \/ Missed
    BY <1>3, Zenon DEF Let, Evaluated, Missed
  <2> QED BY <2>1, QuietGoOn, QuietMissed
<1>4. CASE Goto(d)
  <2>1. \E x : JumpTo([st EXCEPT !.pos = x.pos], x.v.num, x.pool) \/ Missed
    BY <1>4, Zenon DEF Goto, Evaluated, Missed
  <2> QED BY <2>1, QuietJump, QuietMissed
<1> QED BY <1>1, <1>2, <1>3, <1>4

LEMMA QuietOthers ==
  ASSUME During, Rem \/ Cls \/ Clr \/ End \/ Unknown \/ Nothing \/ Break \/ \E a : Answer(a)
  PROVE  Quiet /\ Ended
<1>1. CASE \E p, pool : GoOn([st EXCEPT !.pos = p], pool) \/ GoOn([st EXCEPT !.pos = p, !.running = FALSE], pool)
  BY <1>1, QuietMoves DEF GoOn, Ended
<1>2. CASE \E msg : exec_set_error(st, msg)
  BY <1>2, QuietError
<1>3. Rem \/ Cls \/ Clr \/ Nothing =>
        \E p, pool : GoOn([st EXCEPT !.pos = p], pool) \/ GoOn([st EXCEPT !.pos = p, !.running = FALSE], pool)
  BY Zenon DEF Rem, Cls, Clr, Nothing
<1>4. End \/ Break =>
        \E p, pool : GoOn([st EXCEPT !.pos = p], pool) \/ GoOn([st EXCEPT !.pos = p, !.running = FALSE], pool)
  BY Zenon DEF End, Break
<1>5. (\E a : Answer(a)) =>
        \E p, pool : GoOn([st EXCEPT !.pos = p], pool) \/ GoOn([st EXCEPT !.pos = p, !.running = FALSE], pool)
  BY Zenon DEF Answer
<1>6. Unknown => \E msg : exec_set_error(st, msg)
  BY Zenon DEF Unknown
<1> QED BY <1>1, <1>2, <1>3, <1>4, <1>5, <1>6, Zenon

LEMMA InputPlaces == ASSUME During, Input PROVE Quiet /\ pc' # "stmt" /\ (pc' = "input" => st'.jumped = st.jumped)
<1>1. \/ \E msg : exec_set_error(st, msg)
      \/ pc' = "input" /\ \E p : st' = [st EXCEPT !.pos = p]
  BY Zenon DEF Input
<1>2. CASE \E msg : exec_set_error(st, msg)
  BY <1>2, QuietError DEF Ended
<1>3. CASE pc' = "input" /\ \E p : st' = [st EXCEPT !.pos = p]
  <2>1. Quiet
    BY <1>3, QuietMoves
  <2>2. st'.jumped = st.jumped
    BY <1>3, FieldsIn DEF During
  <2> QED BY <1>3, <2>1, <2>2
<1> QED BY <1>1, <1>2, <1>3

\* The token a statement starts with, and what is evaluated behind it.
LEMMA TokIn ==
  ASSUME During, Tok # "nul"
  PROVE  At + 1 \in 1 .. Len(tokens) /\ tokens[At + 1].t = Tok
<1>1. At \in Nat /\ tokens \in Seq(Lexemes) /\ Len(tokens) \in Nat
  BY DuringIn
<1>2. At < Len(tokens) /\ Tok = tokens[At + 1].t
  BY <1>1, PeekIn DEF Tok
<1> QED BY <1>1, <1>2

LEMMA BehindTok ==
  ASSUME During, Tok # "nul", NEW d \in Draws, NEW x \in Results(Len(tokens), Scan(At + 1, d))
  PROVE  x \in Scans /\ x.pos \in At + 1 .. Len(tokens)
<1>1. At \in Nat /\ At + 1 \in 1 .. Len(tokens) /\ Len(tokens) \in Nat
  BY DuringIn, TokIn
<1>2. Scan(At + 1, d) \in Scans /\ Scan(At + 1, d).pos = At + 1
  BY <1>1, DrawIn, SpoolIn, StartIn
<1>3. x \in Scans /\ At + 1 <= x.pos /\ x.pos <= Len(tokens)
  BY <1>1, <1>2 DEF Results
<1>4. x.pos \in Nat
  BY <1>3, ScanIn
<1> QED BY <1>1, <1>3, <1>4

LEMMA TokNames ==
  ASSUME NEW toks, Begin(toks)
  PROVE  pc = "stmt" /\ Tok \in toks
BY DEF Begin

\* IF starts the statement behind THEN or ELSE within the line.
LEMMA IfPlaces == ASSUME During, NEW d \in Draws, If(d) 
                PROVE  Quiet /\ pc' # "input" /\ (pc' = "stmt" => st'.pos <= Len(tokens) /\ st'.jumped = st.jumped)
<1> DEFINE then(x) == skip_spaces(tokens, Optional(tokens, x, "THEN").pos)
           elses(x) == {p \in then(x) .. Len(tokens) - 1 : tokens[p + 1].t = "ELSE"}
           Inner(p) == st' = [st EXCEPT !.pos = p] /\ pc' = "stmt"
           Jump(x) == JumpTo([st EXCEPT !.pos = then(x) + 5], tokens[then(x) + 1].n, x.pool)
           Chosen(x) == \/ Jump(x)
                        \/ Inner(then(x))
                        \/ elses(x) # {} /\ Inner(Min(elses(x)) + 1)
                        \/ GoOn([st EXCEPT !.pos = Len(tokens)], x.pool)
           Goal == /\ Quiet /\ pc' # "input"
                   /\ pc' = "stmt" => st'.pos <= Len(tokens) /\ st'.jumped = st.jumped
<1>1. \E x \in {expr_eval(Scan(At + 1, d))} : Chosen(x) \/ Missed
  BY Zenon DEF If, Evaluated, Missed
<1>2. Tok = "IF"
  BY TokNames DEF If, Statement
<1>3. expr_eval(Scan(At + 1, d)) \in Results(Len(tokens), Scan(At + 1, d))
  BY DuringIn, DrawIn, StartIn, SpoolIn, EvalIn
<1>4. PICK x \in Results(Len(tokens), Scan(At + 1, d)) : Chosen(x) \/ Missed
  BY <1>1, <1>3
<1>5. x \in Scans /\ x.pos <= Len(tokens) /\ Len(tokens) \in Nat
  BY <1>2, BehindTok, DuringIn
<1>6. PICK p \in Nat : p = then(x) /\ p <= Len(tokens)
  <2>1. PICK o : o = Optional(tokens, x, "THEN")
    OBVIOUS
  <2>2. o \in Scans /\ o.pos <= Len(tokens)
    BY <1>5, <2>1, DuringIn, ResultIn, ChainIn, MarksNul DEF Results
  <2>3. o.pos \in Nat
    BY <2>2, ScanIn
  <2> QED BY <2>1, <2>2, <2>3, DuringIn, SkipSpacesIn
<1>7. ASSUME NEW q \in Nat, q <= Len(tokens), Inner(q) PROVE Goal
  <2>1. Quiet
    BY <1>7, QuietMoves
  <2>2. st'.pos = q /\ st'.jumped = st.jumped
    BY <1>7, FieldsIn DEF During
  <2> QED BY <1>7, <2>1, <2>2
<1>8. ASSUME Jump(x) PROVE Goal
  <2>1. Quiet /\ Ended
    BY <1>8, QuietJump
  <2> QED BY <2>1 DEF Ended
<1>9. ASSUME elses(x) # {} PROVE Min(elses(x)) + 1 \in Nat /\ Min(elses(x)) + 1 <= Len(tokens)
  <2>1. elses(x) \subseteq Nat /\ \A q \in elses(x) : q + 1 <= Len(tokens)
    BY <1>5, <1>6
  <2>2. Min(elses(x)) \in elses(x)
    BY <1>9, <2>1, LeastIn
  <2> HIDE DEF elses
  <2> QED BY <2>1, <2>2
<1>10. ASSUME GoOn([st EXCEPT !.pos = Len(tokens)], x.pool) PROVE Goal
  <2>1. Quiet /\ Ended
    BY <1>10, QuietGoOn
  <2> QED BY <2>1 DEF Ended
<1>11. ASSUME Missed PROVE Goal
  <2>1. Quiet /\ Ended
    BY <1>11, QuietMissed
  <2> QED BY <2>1 DEF Ended
<1> HIDE DEF elses, Inner, Jump, Goal
<1>12. Chosen(x) => Goal
  BY <1>5, <1>6, <1>7, <1>8, <1>9, <1>10
<1> HIDE DEF Chosen
<1>13. Goal
  BY <1>4, <1>11, <1>12
<1> QED BY <1>13 DEF Goal

LEMMA GoesOnPlaces == ASSUME During, LineGoesOn PROVE Quiet /\ st'.pos <= Len(tokens) /\ ~st'.jumped /\ pc' = "stmt"
<1> DEFINE S == {q \in st.pos .. Len(tokens) : q = Len(tokens) \/ tokens[q + 1].t \notin {Blank, ":"}}
           p == Separators(st.pos)
<1>1. st.pos < Len(tokens) /\ st' = [st EXCEPT !.pos = p] /\ ~st.jumped /\ pc' = "stmt"
  BY Zenon DEF LineGoesOn, More
<1>2. st.pos \in Nat /\ Len(tokens) \in Nat
  BY DuringIn
<1>3. p = Min(S)
  BY Zenon DEF Separators, Blank
<1>4. Len(tokens) \in S /\ S \subseteq Nat /\ \A q \in S : q <= Len(tokens)
  BY <1>1, <1>2
<1> HIDE DEF S, p
<1>5. p \in S
  BY <1>3, <1>4, LeastIn
<1>6. st \in [cur : Named(prog), pos : Nat, running : BOOLEAN, jumped : BOOLEAN,
              gosub : Seq(CallsOf(Named(prog))), for : Seq(LoopsOf(Named(prog)))]
  BY FieldsIn DEF During
<1> QED BY <1>1, <1>4, <1>5, <1>6, QuietMoves

\* The stacks, as statements change them.
LEMMA PushedReturns ==
  ASSUME NEW S, NEW s \in Seq(S), NEW e \in S, NEW t, \A i \in DOMAIN s : Returnable(s[i], t), Returnable(e, t)
  PROVE  \A i \in DOMAIN Append(s, e) : Returnable(Append(s, e)[i], t)
<1> DEFINE a == Append(s, e)
<1>1. Len(s) \in Nat /\ DOMAIN s = 1 .. Len(s) /\ DOMAIN a = 1 .. Len(s) + 1
      /\ a[Len(s) + 1] = e /\ \A i \in 1 .. Len(s) : a[i] = s[i]
  OBVIOUS
<1> HIDE DEF a
<1>2. ASSUME NEW i \in DOMAIN a PROVE Returnable(a[i], t)
  <2>1. i \in 1 .. Len(s) \/ i = Len(s) + 1
    BY <1>1
  <2> QED BY <1>1, <2>1
<1> QED BY <1>2 DEF a

LEMMA PoppedReturns ==
  ASSUME NEW S, NEW s \in Seq(S), NEW t, \A i \in DOMAIN s : Returnable(s[i], t), NEW n \in Int, n <= Len(s)
  PROVE  \A i \in DOMAIN SubSeq(s, 1, n) : Returnable(SubSeq(s, 1, n)[i], t)
<1> DEFINE a == SubSeq(s, 1, n)
<1>1. Len(s) \in Nat /\ DOMAIN s = 1 .. Len(s)
  OBVIOUS
<1>2. DOMAIN a \subseteq 1 .. Len(s) /\ \A i \in DOMAIN a : a[i] = s[i]
  BY <1>1
<1> HIDE DEF a
<1>3. \A i \in DOMAIN a : Returnable(a[i], t)
  BY <1>1, <1>2
<1> QED BY <1>3 DEF a

\* The place behind the first token of the statement that is executed.
LEMMA BehindReturns ==
  ASSUME During, Lined, Placed, OnLine, pc = "stmt", Followed(st), Tok # "nul",
         NEW e, e.line = st.cur, e.pos \in At + 1 .. Len(tokens)
  PROVE  Returnable(e, Tok)
<1>1. st.cur = line /\ prog_has_line(prog, line) /\ tokens = LineOf(prog, line)
  BY DEF Lined, Placed, Followed
<1>2. At + 1 \in 1 .. Len(tokens) /\ tokens[At + 1].t = Tok /\ Len(tokens) \in Nat /\ At \in Nat
  BY TokIn, DuringIn
<1>3. e.pos \in 1 .. Len(tokens) /\ At + 1 \in 1 .. e.pos
  BY <1>2
<1>4. e.line = line
  BY <1>1
<1> QED BY <1>1, <1>2, <1>3, <1>4 DEF Returnable

LEMMA GosubFollows ==
  ASSUME During, NEW d \in Draws, Gosub(d)
  PROVE  Ended /\ (Lined /\ Placed /\ OnLine /\ Followed(st) => Followed(st'))
<1> DEFINE Goal == Ended /\ (Lined /\ Placed /\ OnLine /\ Followed(st) => Followed(st'))
<1>1. \E x \in {NumOnly(expr_eval(Scan(At + 1, d)))} : Pushed(x) \/ Missed
  BY Zenon DEF Gosub, Evaluated, Missed
<1>2. Tok = "GOSUB" /\ pc = "stmt" /\ "GOSUB" # "nul"
  BY TokNames DEF Gosub, Statement
<1>3. NumOnly(expr_eval(Scan(At + 1, d))) \in Results(Len(tokens), Scan(At + 1, d))
  BY DuringIn, DrawIn, StartIn, SpoolIn, EvalIn
<1>4. PICK x \in Results(Len(tokens), Scan(At + 1, d)) : Pushed(x) \/ Missed
  BY <1>1, <1>3
<1>5. x \in Scans /\ x.pos \in At + 1 .. Len(tokens)
  BY <1>2, BehindTok
<1>6. ASSUME Quiet, Ended PROVE Goal
  BY <1>6, QuietFollows
<1>7. CASE Missed
  BY <1>6, <1>7, QuietMissed
<1>8. CASE Pushed(x)
  <2> DEFINE e == [line |-> st.cur, pos |-> x.pos]
             g == Append(st.gosub, e)
             pushed == [st EXCEPT !.pos = x.pos, !.gosub = g]
  <2>1. \/ \E msg : exec_set_error(st, msg)
        \/ JumpTo(pushed, x.v.num, x.pool)
    BY <1>8, Zenon DEF Pushed
  <2>2. CASE \E msg : exec_set_error(st, msg)
    BY <1>6, <2>2, QuietError
  <2>3. CASE JumpTo(pushed, x.v.num, x.pool)
    <3>1. /\ \/ \E m : st' = [pushed EXCEPT !.cur = m, !.jumped = TRUE]
             \/ st' = [pushed EXCEPT !.running = FALSE]
          /\ pc' = "line"
      BY <2>3, Zenon DEF JumpTo, GoOn, exec_set_error
    <3>2. st \in [cur : Named(prog), pos : Nat, running : BOOLEAN, jumped : BOOLEAN,
                  gosub : Seq(CallsOf(Named(prog))), for : Seq(LoopsOf(Named(prog)))]
      BY FieldsIn DEF During
    <3>3. e.line = st.cur /\ e.pos = x.pos
      OBVIOUS
    <3>4. e \in CallsOf(Named(prog))
      BY <1>5, <3>2, FoundIn DEF CallsOf
    <3> HIDE DEF e
    <3>5. /\ st'.gosub = g /\ st'.for = st.for
          /\ st'.jumped \/ (st'.jumped = st.jumped /\ st'.cur = st.cur)
      BY <3>1, <3>2
    <3>6. ASSUME Lined, Placed, OnLine, Followed(st) PROVE Followed(st')
      <4>1. Returnable(e, "GOSUB")
        BY <1>2, <1>5, <3>3, <3>6, BehindReturns
      <4>2. \A i \in DOMAIN g : Returnable(g[i], "GOSUB")
        BY <3>2, <3>4, <3>6, <4>1, PushedReturns DEF Followed
      <4> HIDE DEF g
      <4> QED BY <3>5, <3>6, <4>2 DEF Followed
    <3> QED BY <3>1, <3>6 DEF Ended
  <2> QED BY <2>1, <2>2, <2>3
<1> QED BY <1>4, <1>7, <1>8

LEMMA ReturnFollows ==
  ASSUME During, Return
  PROVE  Ended /\ (Followed(st) /\ ~drifted' => Followed(st'))
<1> DEFINE top == Last(st.gosub)
           g == SubSeq(st.gosub, 1, Len(st.gosub) - 1)
<1>1. \/ \E msg : exec_set_error(st, msg)
      \/ /\ st' = [st EXCEPT !.cur = top.line, !.pos = top.pos, !.gosub = g] /\ pc' = "line"
         /\ drifted' = (drifted \/ top.line # line)
  BY Zenon DEF Return, GoOn
<1>2. CASE \E msg : exec_set_error(st, msg)
  BY <1>2, QuietError, QuietFollows
<1>3. CASE /\ st' = [st EXCEPT !.cur = top.line, !.pos = top.pos, !.gosub = g] /\ pc' = "line"
           /\ drifted' = (drifted \/ top.line # line)
  <2>1. st \in [cur : Named(prog), pos : Nat, running : BOOLEAN, jumped : BOOLEAN,
                gosub : Seq(CallsOf(Named(prog))), for : Seq(LoopsOf(Named(prog)))]
    BY FieldsIn DEF During
  <2>2. Followed(st) => \A i \in DOMAIN g : Returnable(g[i], "GOSUB")
    <3>0. PICK m \in Nat : m = Len(st.gosub)
      BY <2>1, LenProperties
    <3>1. PICK n \in Int : n = m - 1 /\ n <= m
      OBVIOUS
    <3> QED BY <2>1, <3>0, <3>1, PoppedReturns DEF Followed
  <2> HIDE DEF top, g
  <2>3. st'.cur = top.line /\ st'.gosub = g /\ st'.for = st.for
    BY <1>3, <2>1
  <2> QED BY <1>3, <2>2, <2>3 DEF Followed, Ended
<1> QED BY <1>1, <1>2, <1>3

LEMMA NextFollows ==
  ASSUME During, NextStatement
  PROVE  Ended /\ (Followed(st) => Followed(st'))
<1> DEFINE p == skip_spaces(tokens, At + 1)
           target == parse_var_target(p)
           q == IF ~target.ok THEN p ELSE IF target.idx >= 0 THEN p + 2 ELSE p + 1
           matching == {i \in DOMAIN st.for : target.ok => st.for[i].var = <<target.name, target.idx>>}
           ended(i) == [st EXCEPT !.pos = q, !.for = SubSeq(@, 1, i - 1)]
           again(i) == [st EXCEPT !.cur = st.for[i].line, !.pos = st.for[i].pos, !.jumped = TRUE]
<1>1. \/ \E msg : exec_set_error(st, msg)
      \/ /\ matching # {}
         /\ \E i \in {Max(matching)} : GoOn(ended(i), spool) \/ GoOn(again(i), spool)
  BY Zenon DEF NextStatement
<1>2. CASE \E msg : exec_set_error(st, msg)
  BY <1>2, QuietError, QuietFollows
<1>3. CASE /\ matching # {}
           /\ \E i \in {Max(matching)} : GoOn(ended(i), spool) \/ GoOn(again(i), spool)
  <2>1. st \in [cur : Named(prog), pos : Nat, running : BOOLEAN, jumped : BOOLEAN,
                gosub : Seq(CallsOf(Named(prog))), for : Seq(LoopsOf(Named(prog)))]
    BY FieldsIn DEF During
  <2>2. Len(st.for) \in Nat /\ matching \subseteq 1 .. Len(st.for)
    BY <2>1, LenProperties
  <2> HIDE DEF matching, q
  <2>3. Max(matching) \in 1 .. Len(st.for)
    <3>1. matching \subseteq 0 .. Len(st.for)
      BY <2>2
    <3> QED BY <1>3, <2>2, <3>1, GreatestIn
  <2>4. PICK i \in 1 .. Len(st.for) : GoOn(ended(i), spool) \/ GoOn(again(i), spool)
    BY <1>3, <2>3
  <2>5. PICK n \in Int : n = i - 1 /\ n <= Len(st.for)
    BY <2>2
  <2>6. Followed(st) => \A k \in DOMAIN SubSeq(st.for, 1, n) : Returnable(SubSeq(st.for, 1, n)[k], "FOR")
    BY <2>1, <2>5, PoppedReturns DEF Followed
  <2>7. CASE GoOn(again(i), spool)
    <3>1. Quiet /\ Ended
      BY <2>1, <2>7 DEF GoOn, Quiet, Ended
    <3> QED BY <3>1, QuietFollows
  <2>8. CASE GoOn(ended(i), spool)
    <3> DEFINE f == SubSeq(st.for, 1, n)
    <3>1. st' = [st EXCEPT !.pos = q, !.for = f] /\ pc' = "line"
      BY <2>5, <2>8 DEF GoOn
    <3> HIDE DEF f
    <3>2. st'.for = f /\ st'.gosub = st.gosub /\ st'.jumped = st.jumped /\ st'.cur = st.cur
      BY <2>1, <3>1
    <3>3. Followed(st) => \A k \in DOMAIN f : Returnable(f[k], "FOR")
      BY <2>6 DEF f
    <3> QED BY <3>1, <3>2, <3>3 DEF Followed, Ended
  <2> QED BY <2>4, <2>7, <2>8
<1> QED BY <1>1, <1>2, <1>3

LEMMA ForFollows ==
  ASSUME During, NEW d \in Draws, For(d)
  PROVE  Ended /\ (Lined /\ Placed /\ OnLine /\ Followed(st) => Followed(st'))
<1> DEFINE var == parse_var_target(At + 1)
           target == [var EXCEPT !.ok = @ /\ ~var.is_string]
           Number2(x, t) == NumOnly(expr_eval(Expect(x, t)))
           Step(x) == LET y == Skip(tokens, x)
                      IN IF x.err # "none" THEN x
                         ELSE IF peek(tokens, y.pos) = "STEP" THEN NumOnly(expr_eval(Past(y)))
                         ELSE make_num(y, 1)
           frame(from, to, x) == [var |-> <<var.name, var.idx>>, limit |-> to.v.num,
                                  step |-> x.v.num, line |-> st.cur, pos |-> x.pos]
           Pushes(from, to, x) ==
             /\ x.err = "none"
             /\ \/ \E msg : exec_set_error(st, msg)
                \/ GoOn([st EXCEPT !.pos = x.pos, !.for = Append(@, frame(from, to, x))], x.pool)
           Goal == Ended /\ (Lined /\ Placed /\ OnLine /\ Followed(st) => Followed(st'))
<1>1. \E from \in {Number2(Behind(target, d), "=")} : \E to \in {Number2(from, "TO")} :
        \E x \in {Step(to)} : Pushes(from, to, x) \/ Missed
  BY ZenonT(60) DEF For, Evaluated, Missed
<1>2. Tok = "FOR" /\ pc = "stmt" /\ "FOR" # "nul"
  <2>1. Statement({"FOR"})
    BY ZenonT(60) DEF For
  <2> QED BY <2>1, TokNames DEF Statement
<1>3. /\ target.pos \in Nat /\ At + 1 <= target.pos
      /\ target.ok => <<var.name, var.idx>> \in NumVars /\ target.pos <= Len(tokens)
  <2>1. /\ var.pos \in Nat /\ At + 1 <= var.pos
        /\ var.ok => <<var.name, var.idx>> \in NumVars /\ var.pos <= Len(tokens)
    BY DuringIn, TargetOf
  <2>2. target.pos = var.pos /\ (target.ok => var.ok)
    BY DEF parse_var_target
  <2> QED BY <2>1, <2>2
<1> HIDE DEF var, target
<1>4. ASSUME NEW x \in Scans, NEW t, t # "nul"
      PROVE  Number2(x, t) \in Results(Len(tokens), x) /\ Number2(x, t) \in Scans
  <2>1. PICK y \in Scans : y = Expect(x, t) /\ y \in Results(Len(tokens), x)
    BY <1>4, DuringIn, ExpectIn
  <2>2. NumOnly(expr_eval(y)) \in Results(Len(tokens), y)
    BY <2>1, DuringIn, EvalIn
  <2> QED BY <2>1, <2>2, DuringIn, ResultsOf
<1>5. ASSUME NEW x \in Scans PROVE Step(x) \in Results(Len(tokens), x) /\ Step(x) \in Scans
  BY StepIn
<1> HIDE DEF Number2, Step
<1>6. /\ Behind(target, d) \in Scans /\ (Behind(target, d).err = "none" => target.ok)
      /\ Behind(target, d).pos = target.pos
  BY <1>3, SpoolIn, DuringIn, DrawIn, BehindIn
<1>7. PICK from \in Scans : /\ from \in Results(Len(tokens), Behind(target, d))
                            /\ \E to \in {Number2(from, "TO")} : \E x \in {Step(to)} : Pushes(from, to, x) \/ Missed
  BY <1>1, <1>4, <1>6, MarksNul
<1>8. PICK to \in Scans : to \in Results(Len(tokens), from) /\ \E x \in {Step(to)} : Pushes(from, to, x) \/ Missed
  BY <1>4, <1>7, MarksNul
<1>9. PICK x \in Scans : x \in Results(Len(tokens), to) /\ (Pushes(from, to, x) \/ Missed)
  BY <1>5, <1>8
<1>10. ASSUME Quiet, Ended PROVE Goal
  BY <1>10, QuietFollows
<1>11. CASE Missed
  BY <1>10, <1>11, QuietMissed
<1>12. CASE x.err = "none" /\ \E msg : exec_set_error(st, msg)
  BY <1>10, <1>12, QuietError
<1>13. CASE x.err = "none" /\ GoOn([st EXCEPT !.pos = x.pos, !.for = Append(@, frame(from, to, x))], x.pool)
  <2>1. /\ from.err = "none" /\ to.err = "none" /\ Behind(target, d).err = "none"
        /\ target.pos <= from.pos /\ from.pos <= to.pos /\ to.pos <= x.pos
        /\ target.pos <= Len(tokens) => from.pos <= Len(tokens)
        /\ from.pos <= Len(tokens) => to.pos <= Len(tokens)
        /\ to.pos <= Len(tokens) => x.pos <= Len(tokens)
    BY <1>6, <1>7, <1>8, <1>9, <1>13 DEF Results
  <2>2. from.pos \in Nat /\ to.pos \in Nat /\ x.pos \in Nat /\ At + 1 \in Nat /\ Len(tokens) \in Nat
    BY ScanIn, DuringIn
  <2>3. target.ok
    BY <1>6, <2>1
  <2>4. x.pos \in At + 1 .. Len(tokens)
    BY <1>3, <2>1, <2>2, <2>3
  <2> DEFINE e == frame(from, to, x)
             f == Append(st.for, e)
  <2>5. e \in LoopsOf(Named(prog)) /\ e.line = st.cur /\ e.pos = x.pos
    <3>1. st.cur \in Named(prog) /\ to.v.num \in Numbers /\ x.v.num \in Numbers /\ x.pos \in Nat
      BY DuringIn, FoundIn
    <3> QED BY <1>3, <2>3, <3>1 DEF LoopsOf
  <2>6. st' = [st EXCEPT !.pos = x.pos, !.for = f] /\ pc' = "line"
    BY <1>13 DEF GoOn
  <2>7. st \in [cur : Named(prog), pos : Nat, running : BOOLEAN, jumped : BOOLEAN,
                gosub : Seq(CallsOf(Named(prog))), for : Seq(LoopsOf(Named(prog)))]
    BY FieldsIn DEF During
  <2> HIDE DEF frame, e
  <2>8. ASSUME Lined, Placed, OnLine, Followed(st) PROVE \A i \in DOMAIN f : Returnable(f[i], "FOR")
    <3>1. Returnable(e, "FOR")
      BY <1>2, <2>4, <2>5, <2>8, BehindReturns
    <3> QED BY <2>5, <2>7, <2>8, <3>1, PushedReturns DEF Followed
  <2> HIDE DEF f
  <2>9. st'.for = f /\ st'.gosub = st.gosub /\ st'.jumped = st.jumped /\ st'.cur = st.cur
    BY <2>6, <2>7
  <2> QED BY <2>6, <2>8, <2>9 DEF Followed, Ended
<1> QED BY <1>9, <1>11, <1>12, <1>13

\* Each turn starts what it starts within the line, and leaves stacks that lead
\* into the program.
StartsIn == /\ pc' = "stmt" => st'.pos <= Len(tokens) /\ ~st'.jumped
            /\ pc' = "input" => ~st'.jumped
Follows == StartsIn /\ (Lined /\ Placed /\ OnLine /\ Followed(st) /\ ~drifted' => Followed(st'))

LEMMA QuietTurn == ASSUME Quiet, Ended PROVE Follows
BY QuietFollows DEF Ended, StartsIn, Follows

LEMMA TurnsFollow == ASSUME During, Placed, Turns PROVE Follows
<1>1. ASSUME NEW d \in Draws, If(d) PROVE Follows
  <2>1. pc = "stmt"
    BY <1>1, TokNames DEF If, Statement
  <2>2. Quiet /\ pc' # "input" /\ (pc' = "stmt" => st'.pos <= Len(tokens) /\ st'.jumped = st.jumped)
    BY <1>1, IfPlaces
  <2> QED BY <2>1, <2>2, QuietFollows DEF Placed, StartsIn, Follows
<1>2. ASSUME Input PROVE Follows
  <2>1. pc = "stmt"
    BY <1>2, TokNames DEF Input, Statement
  <2>2. Quiet /\ pc' # "stmt" /\ (pc' = "input" => st'.jumped = st.jumped)
    BY <1>2, InputPlaces
  <2> QED BY <2>1, <2>2, QuietFollows DEF Placed, StartsIn, Follows
<1>3. ASSUME LineGoesOn PROVE Follows
  BY <1>3, GoesOnPlaces, QuietFollows DEF StartsIn, Follows
<1>4. ASSUME NEW d \in Draws, Gosub(d) \/ For(d) PROVE Follows
  BY <1>4, GosubFollows, ForFollows DEF Ended, StartsIn, Follows
<1>5. ASSUME Return \/ NextStatement PROVE Follows
  BY <1>5, ReturnFollows, NextFollows DEF Ended, StartsIn, Follows
<1>6. ASSUME NEW d \in Draws, PrintStatement(d) \/ Poke(d) \/ Let(d) \/ Goto(d) PROVE Follows
  BY <1>6, QuietExpressions, QuietTurn
<1>7. ASSUME Rem \/ Cls \/ Clr \/ End \/ Unknown \/ Nothing \/ Break PROVE Follows
  BY <1>7, QuietOthers, QuietTurn
<1>8. Flow => \E d \in Draws : If(d) \/ Goto(d) \/ Gosub(d) \/ For(d)
  BY Zenon DEF Flow
<1>9. Plain => \E d \in Draws : PrintStatement(d) \/ Poke(d) \/ Let(d)
  BY Zenon DEF Plain
<1> QED BY <1>1, <1>2, <1>3, <1>4, <1>5, <1>6, <1>7, <1>8, <1>9, Zenon DEF Turns

LEMMA TurnsDrift == ASSUME Turns, drifted PROVE drifted'
<1>1. ASSUME NEW toks, Statement(toks) PROVE drifted'
  BY <1>1 DEF Statement
<1>2. ASSUME NEW d, PrintStatement(d) \/ Let(d) \/ Poke(d) PROVE drifted'
  BY <1>1, <1>2, Zenon DEF PrintStatement, Let, Poke
<1>3. ASSUME NEW d, If(d) \/ Goto(d) \/ Gosub(d) \/ For(d) PROVE drifted'
  BY <1>1, <1>3, Zenon DEF If, Goto, Gosub, For
<1>4. Return => drifted'
  BY Zenon DEF Return
<1>5. NextStatement \/ Input \/ Rem \/ Cls \/ Clr \/ End \/ Unknown => drifted'
  BY <1>1, Zenon DEF NextStatement, Input, Rem, Cls, Clr, End, Unknown
<1>6. Nothing \/ Break \/ LineGoesOn => drifted'
  BY Zenon DEF Nothing, Break, LineGoesOn
<1> QED BY <1>2, <1>3, <1>4, <1>5, <1>6, Zenon DEF Turns, Flow, Plain

\* The line itself stays while it is executed.
LEMMA FollowsPlace ==
  ASSUME PlaceIn, Executing, UNCHANGED world, Follows, drifted => drifted'
  PROVE  PlaceIn'
<1>1. prog' = prog /\ line' = line /\ tokens' = tokens
  BY DEF world
<1>2. Lined'
  BY <1>1 DEF PlaceIn, Lined, OnLine
<1>3. Placed'
  BY <1>1 DEF Follows, StartsIn, Placed
<1>4. OnLine' => OnLine
  BY <1>1 DEF OnLine
<1>5. OnLine /\ ~drifted' => Followed(st')
  BY DEF PlaceIn, Follows
<1>6. Followed(st') => Followed(st)'
  BY <1>1 DEF Followed, Returnable, LineOf
<1> QED BY <1>2, <1>3, <1>4, <1>5, <1>6 DEF PlaceIn

LEMMA TurnsPlace == ASSUME TypeIn, PlaceIn, Turns PROVE PlaceIn'
<1>1. Executing /\ UNCHANGED world
  BY TurnsWorld DEF Executing
<1>2. During
  BY <1>1, DuringType
<1> QED BY <1>1, <1>2, TurnsFollow, TurnsDrift, FollowsPlace DEF PlaceIn

\* Steps that execute nothing, and those that start a line.
LEMMA IdlePlace == ASSUME pc' \notin {"line", "stmt", "input"} PROVE PlaceIn'
BY DEF PlaceIn, Lined, Placed, OnLine, Executing

LEMMA TypedLinePlace == ASSUME pc' = "line", line' = NoLine PROVE PlaceIn'
BY DEF PlaceIn, Lined, Placed, OnLine

LEMMA StartedPlace ==
  ASSUME pc' = "line", line' \in Nat, prog_has_line(prog', line'), tokens' = LineOf(prog', line'),
         ~drifted' => Followed(st)'
  PROVE  PlaceIn'
BY DEF PlaceIn, Lined, Placed, OnLine

LEMMA LineEndsPlace == ASSUME TypeIn, PlaceIn, LineEnds PROVE PlaceIn'
<1> DEFINE cur == IF st.jumped THEN st.cur ELSE prog_next_line(prog, st.cur)
           from == IF st.jumped THEN st.pos ELSE 0
<1>1. /\ pc = "line" /\ line # NoLine /\ UNCHANGED <<prog, drifted>>
      /\ \/ pc' = back
         \/ cur # NoLine /\ exec_line_at([st EXCEPT !.cur = cur], cur, LineOf(prog, cur), from)
  BY Zenon DEF LineEnds
<1>2. back \in {"ready", "shell"} /\ prog \in Stores
  BY DEF TypeIn, LineIn1, StoreIn
<1>3. st \in States(Named(prog)) /\ st.cur \in Named(prog)
  BY <1>1, DuringType, DuringIn DEF Executing, During
<1>4. CASE pc' = back
  BY <1>2, <1>4, IdlePlace
<1>5. CASE cur # NoLine /\ exec_line_at([st EXCEPT !.cur = cur], cur, LineOf(prog, cur), from)
  <2>1. cur \in Named(prog)
    <3>1. st.cur \in Nat
      BY <1>3, NamedIn
    <3> QED BY <1>2, <1>3, <3>1, NextLineIn
  <2>2. cur \in Nat /\ prog_has_line(prog, cur)
    BY <1>5, <2>1 DEF Named
  <2> DEFINE s == [[st EXCEPT !.cur = cur] EXCEPT !.pos = from, !.jumped = FALSE]
  <2>3. st' = s /\ line' = cur /\ tokens' = LineOf(prog, cur) /\ pc' = "line"
    BY <1>5, Zenon DEF exec_line_at
  <2> HIDE DEF cur, from
  <2>4. s.cur = cur /\ s.gosub = st.gosub /\ s.for = st.for
    BY <1>3, FieldsIn
  <2> HIDE DEF s
  <2>5. ~drifted' => Followed(st)'
    <3>1. ~drifted => Followed(st)
      BY <1>1 DEF PlaceIn, OnLine, Executing
    <3> QED BY <1>1, <2>3, <2>4, <3>1 DEF Followed, Returnable, LineOf
  <2> QED BY <1>1, <2>2, <2>3, <2>5, StartedPlace DEF LineOf
<1> QED BY <1>1, <1>4, <1>5

LEMMA FirstLineOf ==
  ASSUME NEW p \in Stores, p # << >>
  PROVE  /\ prog_first_line(p) \in Nat /\ prog_has_line(p, prog_first_line(p))
         /\ LineOf(p, prog_first_line(p)) = p[1].toks
<1>1. p \in Programs /\ p \in Seq(ProgLines) /\ Len(p) \in Nat
  BY LenProperties DEF Stores, Programs
<1>2. 1 \in 1 .. Len(p)
  BY <1>1, EmptySeq
<1>3. p[1].num \in Nat
  BY <1>1, <1>2, LineIn
<1>4. prog_first_line(p) = p[1].num
  BY DEF prog_first_line
<1>5. find_insert_pos(p, p[1].num) = 1 /\ prog_has_line(p, p[1].num)
  BY <1>1, <1>2, <1>3, LinePlace
<1> QED BY <1>3, <1>4, <1>5 DEF LineOf, prog_find_line

LEMMA RunPlace ==
  ASSUME NEW p \in Stores, prog' = p, NEW to \in {"ready", "shell"}, cmd_run(p, to)
  PROVE  PlaceIn'
<1> DEFINE fresh == [exec_init(st) EXCEPT !.cur = prog_first_line(p), !.running = TRUE]
<1>1. \/ pc' = to
      \/ p # << >> /\ exec_line_at(fresh, prog_first_line(p), p[1].toks, 0)
  BY Zenon DEF cmd_run
<1>2. CASE pc' = to
  BY <1>2, IdlePlace
<1>3. CASE p # << >> /\ exec_line_at(fresh, prog_first_line(p), p[1].toks, 0)
  <2>1. /\ st' = [fresh EXCEPT !.pos = 0, !.jumped = FALSE]
        /\ line' = prog_first_line(p) /\ tokens' = p[1].toks /\ pc' = "line"
    BY <1>3, Zenon DEF exec_line_at
  <2>2. st'.cur = prog_first_line(p) /\ st'.gosub = << >> /\ st'.for = << >>
    BY <2>1 DEF exec_init, AtRest
  <2>3. DOMAIN << >> = {}
    OBVIOUS
  <2>4. Followed(st)'
    BY <2>1, <2>2, <2>3 DEF Followed
  <2> QED BY <1>3, <2>1, <2>4, FirstLineOf, StartedPlace
<1> QED BY <1>1, <1>2, <1>3

LEMMA ImmediatePlace == ASSUME NEW text, exec_immediate(text) PROVE PlaceIn'
BY TypedLinePlace DEF exec_immediate, exec_line_at

LEMMA PromptPlace == ASSUME TypeIn, StoreIn', PlaceIn, Prompt PROVE PlaceIn'
<1>1. back \in {"ready", "shell"} /\ prog \in Stores
  BY DEF TypeIn, LineIn1, StoreIn
<1>2. Typing /\ Idle => PlaceIn'
  BY IdlePlace DEF Typing, Idle
<1>3. ASSUME NEW l, EnterLine(l) PROVE PlaceIn'
  BY <1>2, <1>3 DEF EnterLine
<1>4. ASSUME NEW text, EnterImmediate(text) PROVE PlaceIn'
  BY <1>4, ImmediatePlace DEF EnterImmediate
<1>5. ASSUME NEW e, EnterExpression(e) PROVE PlaceIn'
  BY <1>5, ImmediatePlace DEF EnterExpression
<1>6. CASE Run
  BY <1>1, <1>6, RunPlace DEF Run
<1>7. CASE New
  BY <1>2, <1>7 DEF New
<1>8. CASE System
  BY <1>8, IdlePlace DEF System
<1>9. ASSUME NEW f, Save(f) \/ Load(f) PROVE PlaceIn'
  <2>1. Typing /\ Idle
    BY <1>9, Zenon DEF Save, Load
  <2> QED BY <1>2, <2>1
<1> QED BY <1>3, <1>4, <1>5, <1>6, <1>7, <1>8, <1>9 DEF Prompt

LEMMA OthersPlace ==
  ASSUME TypeIn, StoreIn', PlaceIn,
         (\E a \in Answers : Answer(a)) \/ Start \/ (\E f \in Names : StartWith(f))
           \/ (\E k \in {CtrlC, OtherKey} : Press(k))
  PROVE  PlaceIn'
<1>1. ASSUME NEW a \in Answers, Answer(a) PROVE PlaceIn'
  <2>1. Executing /\ UNCHANGED <<world, drifted>>
    BY <1>1 DEF Answer, Executing
  <2>2. Quiet /\ Ended
    BY <1>1, <2>1, DuringType, QuietOthers
  <2> QED BY <2>1, <2>2, QuietTurn, FollowsPlace
<1>2. CASE Start
  BY <1>2, IdlePlace DEF Start
<1>3. ASSUME NEW f, StartWith(f) PROVE PlaceIn'
  <2>1. cmd_run(prog', "shell")
    BY <1>3 DEF StartWith
  <2>2. prog' \in Stores
    BY DEF StoreIn
  <2> QED BY <2>1, <2>2, RunPlace
<1>4. ASSUME NEW k, Press(k) PROVE PlaceIn'
  <2>1. UNCHANGED <<world, st, pc, drifted>>
    BY <1>4 DEF Press
  <2> QED BY <2>1 DEF PlaceIn, Lined, Placed, OnLine, Executing, Followed, Returnable, LineOf, world
<1> QED BY <1>1, <1>2, <1>3, <1>4

LEMMA PlaceNext == TypeIn /\ PlaceIn /\ [Next]_vars => PlaceIn'
<1> SUFFICES ASSUME TypeIn, PlaceIn, [Next]_vars PROVE PlaceIn'
  OBVIOUS
<1>1. StoreIn'
  BY StoreNext DEF TypeIn
<1>2. CASE UNCHANGED vars
  BY <1>2 DEF PlaceIn, Lined, Placed, OnLine, Executing, Followed, Returnable, LineOf, vars, world
<1>3. CASE Interpreter
  <2>1. Turns \/ LineEnds \/ ImmediateEnds
    BY <1>3, Zenon DEF Interpreter, Turns
  <2>2. ImmediateEnds => PlaceIn'
    BY IdlePlace DEF ImmediateEnds
  <2> QED BY <2>1, <2>2, TurnsPlace, LineEndsPlace
<1>4. CASE Prompt
  BY <1>1, <1>4, PromptPlace
<1>5. CASE (\E a \in Answers : Answer(a)) \/ Start \/ (\E f \in Names : StartWith(f))
           \/ (\E k \in {CtrlC, OtherKey} : Press(k))
  BY <1>1, <1>5, OthersPlace
<1> QED BY <1>2, <1>3, <1>4, <1>5, Zenon DEF Next

\* While a program runs, and until RETURN has left the line that is executed,
\* every entry of the two stacks names a line in store and a place in it behind
\* a GOSUB or a FOR, however long the program, the lines and the expressions are
\* (exec.c, cmd_run): RETURN and NEXT use an entry without checking it.
THEOREM EntriesStayReturnable == Spec => []EntriesReturnable
<1>1. Init => PlaceIn
  BY DEF Init, PlaceIn, Lined, Placed, OnLine, Executing
<1>2. PlaceIn => EntriesReturnable
  BY DEF PlaceIn, EntriesReturnable, OnLine, Followed
<1> QED BY <1>1, <1>2, TypeInit, TypeNext, PlaceNext, PTL DEF Spec

-----------------------------------------------------------------------------
(* A line that is written and read again. What tokenize does to a text, an  *)
(* item at a time, is what it does to the text of the items: one turn of    *)
(* detokenize takes an item, and one turn of tokenize puts it back.         *)

\* m turns lead from x to y.
LexRuns(x, m, y) == \E it : it[0] = x /\ it[m] = y /\ \A k \in 1 .. m : it[k] = LexTurn(it[k - 1])
UnlexRuns(x, m, y) == \E it : it[0] = x /\ it[m] = y /\ \A k \in 1 .. m : it[k] = UnlexTurn(it[k - 1])

LEMMA RunsStart == ASSUME NEW x PROVE LexRuns(x, 0, x) /\ UnlexRuns(x, 0, x)
<1> DEFINE it == [k \in 0 .. 0 |-> x]
<1>1. it[0] = x /\ 1 .. 0 = {}
  OBVIOUS
<1> HIDE DEF it
<1> QED BY <1>1 DEF LexRuns, UnlexRuns

LEMMA LexRunsOn ==
  ASSUME NEW x, NEW y, NEW m \in Nat, LexRuns(x, m, y)
  PROVE  LexRuns(x, m + 1, LexTurn(y))
<1>1. PICK it : it[0] = x /\ it[m] = y /\ \A k \in 1 .. m : it[k] = LexTurn(it[k - 1])
  BY DEF LexRuns
<1>2. PICK z : z = LexTurn(y)
  OBVIOUS
<1> DEFINE jt == [k \in 0 .. m + 1 |-> IF k = m + 1 THEN z ELSE it[k]]
<1>3. jt[0] = x /\ jt[m] = y /\ jt[m + 1] = z /\ \A k \in 1 .. m : jt[k] = it[k] /\ jt[k - 1] = it[k - 1]
  BY <1>1
<1> HIDE DEF jt
<1>4. ASSUME NEW k \in 1 .. m + 1 PROVE jt[k] = LexTurn(jt[k - 1])
  <2>1. CASE k = m + 1
    <3>1. k - 1 = m
      BY <2>1
    <3> QED BY <1>2, <1>3, <2>1, <3>1
  <2>2. CASE k # m + 1
    <3>1. k \in 1 .. m
      BY <2>2
    <3> QED BY <1>1, <1>3, <3>1
  <2> QED BY <2>1, <2>2
<1> QED BY <1>2, <1>3, <1>4, Zenon DEF LexRuns

LEMMA UnlexRunsOn ==
  ASSUME NEW x, NEW y, NEW m \in Nat, UnlexRuns(x, m, y)
  PROVE  UnlexRuns(x, m + 1, UnlexTurn(y))
<1>1. PICK it : it[0] = x /\ it[m] = y /\ \A k \in 1 .. m : it[k] = UnlexTurn(it[k - 1])
  BY DEF UnlexRuns
<1>2. PICK z : z = UnlexTurn(y)
  OBVIOUS
<1> DEFINE jt == [k \in 0 .. m + 1 |-> IF k = m + 1 THEN z ELSE it[k]]
<1>3. jt[0] = x /\ jt[m] = y /\ jt[m + 1] = z /\ \A k \in 1 .. m : jt[k] = it[k] /\ jt[k - 1] = it[k - 1]
  BY <1>1
<1> HIDE DEF jt
<1>4. ASSUME NEW k \in 1 .. m + 1 PROVE jt[k] = UnlexTurn(jt[k - 1])
  <2>1. CASE k = m + 1
    <3>1. k - 1 = m
      BY <2>1
    <3> QED BY <1>2, <1>3, <2>1, <3>1
  <2>2. CASE k # m + 1
    <3>1. k \in 1 .. m
      BY <2>2
    <3> QED BY <1>1, <1>3, <3>1
  <2> QED BY <2>1, <2>2
<1> QED BY <1>2, <1>3, <1>4, Zenon DEF UnlexRuns

\* What m turns have come to, with nothing left, is what comes out.
LEMMA LexRunsOut ==
  ASSUME NEW text \in Seq(Spellings), NEW c, NEW m \in 0 .. Len(text),
         LexRuns([text |-> text, out |-> << >>], m, [text |-> << >>, out |-> c])
  PROVE  tokenize(text) = c
<1> DEFINE x == [text |-> text, out |-> << >>]
           y == [text |-> << >>, out |-> c]
<1>1. PICK n \in Nat : n = Len(text) /\ m \in Nat /\ m <= n
  BY LenProperties
<1>2. PICK f : f[0] = x /\ f[m] = y /\ \A k \in 1 .. m : f[k] = LexTurn(f[k - 1])
  BY DEF LexRuns
<1>3. x \in LexStates /\ \A s \in LexStates : LexTurn(s) \in LexStates
  BY NoItems, LexStateIn, LexTurnIn
<1>4. PICK it : /\ it[0] = x /\ tokenize(text) = it[n].out
                /\ \A k \in 1 .. n : it[k] = LexTurn(it[k - 1])
  BY <1>1, <1>3, LexLoop
<1>5. LexTurn(y) = y /\ y.out = c
  BY DEF LexTurn
<1> HIDE DEF x, y
<1> DEFINE S == {k \in Nat : k <= n => it[k] = IF k <= m THEN f[k] ELSE y}
<1>6. 0 \in S
  BY <1>1, <1>2, <1>4
<1>7. ASSUME NEW k \in Nat, k \in S PROVE k + 1 \in S
  <2> SUFFICES ASSUME k + 1 <= n PROVE it[k + 1] = IF k + 1 <= m THEN f[k + 1] ELSE y
    OBVIOUS
  <2>1. k + 1 \in 1 .. n /\ (k + 1) - 1 = k /\ k <= n
    OBVIOUS
  <2>2. it[k + 1] = LexTurn(it[k]) /\ it[k] = IF k <= m THEN f[k] ELSE y
    BY <1>4, <1>7, <2>1
  <2>3. CASE k + 1 <= m
    <3>1. k + 1 \in 1 .. m /\ k <= m
      BY <1>1, <2>3
    <3>2. f[k + 1] = LexTurn(f[k])
      BY <1>2, <2>1, <3>1
    <3> QED BY <2>2, <2>3, <3>1, <3>2
  <2>4. CASE ~(k + 1 <= m)
    <3>1. k = m \/ ~(k <= m)
      BY <1>1, <2>4
    <3>2. it[k] = y
      BY <1>1, <1>2, <2>2, <3>1
    <3> QED BY <1>5, <2>2, <2>4, <3>2
  <2> QED BY <2>3, <2>4
<1> HIDE DEF S
<1>8. n \in S
  BY <1>1, <1>6, <1>7, InductionOnSets
<1>9. it[n] = y
  <2>1. it[n] = IF n <= m THEN f[n] ELSE y
    BY <1>1, <1>8 DEF S
  <2>2. n <= m => n = m
    BY <1>1
  <2> QED BY <1>2, <2>1, <2>2
<1> QED BY <1>4, <1>5, <1>9

LEMMA UnlexRunsOut ==
  ASSUME NEW toks \in Toks, NEW u, NEW m \in 0 .. Len(toks),
         UnlexRuns([toks |-> toks, out |-> << >>], m, [toks |-> << >>, out |-> u])
  PROVE  Unlexed(toks) = u
<1> DEFINE x == [toks |-> toks, out |-> << >>]
           y == [toks |-> << >>, out |-> u]
<1>1. PICK n \in Nat : n = Len(toks) /\ m \in Nat /\ m <= n
  BY ToksIn, LenProperties
<1>2. PICK f : f[0] = x /\ f[m] = y /\ \A k \in 1 .. m : f[k] = UnlexTurn(f[k - 1])
  BY DEF UnlexRuns
<1>3. x \in UnlexStates /\ \A s \in UnlexStates : UnlexTurn(s) \in UnlexStates
  BY UnlexTurnIn DEF UnlexStates
<1>4. PICK it : /\ it[0] = x /\ Unlexed(toks) = it[n].out
                /\ \A k \in 1 .. n : it[k] = UnlexTurn(it[k - 1])
  BY <1>1, <1>3, UnlexLoop
<1>5. UnlexTurn(y) = y /\ y.out = u
  BY DEF UnlexTurn
<1> HIDE DEF x, y
<1> DEFINE S == {k \in Nat : k <= n => it[k] = IF k <= m THEN f[k] ELSE y}
<1>6. 0 \in S
  BY <1>1, <1>2, <1>4
<1>7. ASSUME NEW k \in Nat, k \in S PROVE k + 1 \in S
  <2> SUFFICES ASSUME k + 1 <= n PROVE it[k + 1] = IF k + 1 <= m THEN f[k + 1] ELSE y
    OBVIOUS
  <2>1. k + 1 \in 1 .. n /\ (k + 1) - 1 = k /\ k <= n
    OBVIOUS
  <2>2. it[k + 1] = UnlexTurn(it[k]) /\ it[k] = IF k <= m THEN f[k] ELSE y
    BY <1>4, <1>7, <2>1
  <2>3. CASE k + 1 <= m
    <3>1. k + 1 \in 1 .. m /\ k <= m
      BY <1>1, <2>3
    <3>2. f[k + 1] = UnlexTurn(f[k])
      BY <1>2, <2>1, <3>1
    <3> QED BY <2>2, <2>3, <3>1, <3>2
  <2>4. CASE ~(k + 1 <= m)
    <3>1. k = m \/ ~(k <= m)
      BY <1>1, <2>4
    <3>2. it[k] = y
      BY <1>1, <1>2, <2>2, <3>1
    <3> QED BY <1>5, <2>2, <2>4, <3>2
  <2> QED BY <2>3, <2>4
<1> HIDE DEF S
<1>8. n \in S
  BY <1>1, <1>6, <1>7, InductionOnSets
<1>9. it[n] = y
  <2>1. it[n] = IF n <= m THEN f[n] ELSE y
    BY <1>1, <1>8 DEF S
  <2>2. n <= m => n = m
    BY <1>1
  <2> QED BY <1>2, <2>1, <2>2
<1> QED BY <1>4, <1>5, <1>9

\* The two parts of a concatenation.
LEMMA PartsOf ==
  ASSUME NEW S, NEW a \in Seq(S), NEW b \in Seq(S)
  PROVE  /\ a \o b \in Seq(S) /\ Len(a) \in Nat /\ Len(b) \in Nat /\ Len(a \o b) = Len(a) + Len(b)
         /\ SubSeq(a \o b, Len(a) + 1, Len(a \o b)) = b
         /\ SubSeq(a \o b, 1, Len(a)) = a
<1>1. PICK c : c = a \o b
  OBVIOUS
<1>2. PICK m \in Nat, n \in Nat : m = Len(a) /\ n = Len(b)
  BY LenProperties
<1>3. /\ c \in Seq(S) /\ Len(c) = m + n
      /\ \A i \in 1 .. m : c[i] = a[i]
      /\ \A i \in 1 .. n : c[m + i] = b[i]
  BY <1>1, <1>2
<1>4. SubSeq(c, m + 1, m + n) = b
  <2>1. PICK d : d = SubSeq(c, m + 1, m + n)
    OBVIOUS
  <2>2. /\ d \in Seq(S) /\ Len(d) = IF m + 1 <= m + n THEN (m + n) - (m + 1) + 1 ELSE 0
        /\ \A i \in 1 .. (m + n) - (m + 1) + 1 : d[i] = c[(m + 1) + i - 1]
    BY <1>2, <1>3, <2>1, PieceOf
  <2>3. Len(d) = n /\ \A i \in 1 .. n : i \in 1 .. (m + n) - (m + 1) + 1 /\ (m + 1) + i - 1 = m + i
    BY <1>2, <2>2
  <2>4. \A i \in 1 .. n : d[i] = b[i]
    BY <1>3, <2>2, <2>3
  <2> QED BY <1>2, <2>1, <2>2, <2>3, <2>4, SeqEqual
<1>5. SubSeq(c, 1, m) = a
  <2>1. PICK d : d = SubSeq(c, 1, m)
    OBVIOUS
  <2>2. /\ d \in Seq(S) /\ Len(d) = IF 1 <= m THEN m - 1 + 1 ELSE 0
        /\ \A i \in 1 .. m - 1 + 1 : d[i] = c[1 + i - 1]
    BY <1>2, <1>3, <2>1, PieceOf
  <2>3. Len(d) = m /\ \A i \in 1 .. m : i \in 1 .. m - 1 + 1 /\ 1 + i - 1 = i
    BY <1>2, <2>2
  <2>4. \A i \in 1 .. m : d[i] = a[i]
    BY <1>3, <2>2, <2>3
  <2> QED BY <1>2, <2>1, <2>2, <2>3, <2>4, SeqEqual
<1> QED BY <1>1, <1>2, <1>3, <1>4, <1>5

\* One lexeme in front.
LEMMA FirstOf ==
  ASSUME NEW S, NEW l \in S, NEW b \in Seq(S)
  PROVE  /\ <<l>> \in Seq(S) /\ <<l>> \o b \in Seq(S) /\ <<l>> \o b # << >>
         /\ Head(<<l>> \o b) = l /\ Tail(<<l>> \o b) = b /\ Len(<<l>> \o b) = Len(b) + 1
         /\ SubSeq(<<l>> \o b, 2, Len(<<l>> \o b)) = b
<1>1. <<l>> \in Seq(S) /\ Len(<<l>>) = 1 /\ <<l>>[1] = l
  OBVIOUS
<1>2. PICK a \in Seq(S) : a = <<l>> /\ Len(a) = 1 /\ a[1] = l
  BY <1>1
<1>3. PICK c : c = a \o b
  OBVIOUS
<1>4. c \in Seq(S) /\ Len(b) \in Nat /\ Len(c) = 1 + Len(b) /\ c[1] = l
  BY <1>2, <1>3
<1>5. SubSeq(c, 2, Len(c)) = b
  <2>1. 1 + 1 = 2
    OBVIOUS
  <2>2. SubSeq(c, Len(a) + 1, Len(c)) = b
    BY <1>2, <1>3, PartsOf
  <2> QED BY <1>2, <2>1, <2>2
<1>6. c # << >> /\ Head(c) = l /\ Tail(c) = SubSeq(c, 2, Len(c))
  BY <1>4
<1> QED BY <1>1, <1>2, <1>3, <1>4, <1>5, <1>6

LEMMA FirstSpelling ==
  ASSUME NEW l \in Spellings, NEW t \in Seq(Spellings), NEW text, text = <<l>> \o t
  PROVE  text # << >> /\ Head(text) = l /\ Tail(text) = t
BY FirstOf, ZenonT(40)

LEMMA FirstLexeme ==
  ASSUME NEW l \in Lexemes, NEW d \in Seq(Lexemes), NEW toks, toks = <<l>> \o d
  PROVE  toks # << >> /\ Head(toks) = l /\ SubSeq(toks, 2, Len(toks)) = d
BY FirstOf, ZenonT(40)

\* A turn of each loop, by the first lexeme.
LEMMA UnlexNumber ==
  ASSUME NEW toks, toks # << >>, NEW out, Head(toks).t = "NUM", NEW v, Head(toks).n = v
  PROVE  UnlexTurn([toks |-> toks, out |-> out]) =
           [toks |-> SubSeq(toks, 6, Len(toks)), out |-> out \o NumberText(v)]
<1> DEFINE s == [toks |-> toks, out |-> out]
<1>1. s.toks = toks /\ s.out = out
  OBVIOUS
<1> HIDE DEF s
<1>2. UnlexTurn(s) = UnlexStep(s)
  BY <1>1, Zenon DEF UnlexTurn
<1>3. UnlexStep(s) = [toks |-> SubSeq(toks, 6, Len(toks)), out |-> out \o NumberText(v)]
  BY <1>1, Zenon DEF UnlexStep
<1> QED BY <1>2, <1>3, Zenon DEF s

LEMMA UnlexString ==
  ASSUME NEW toks, toks # << >>, NEW out, Head(toks).t = "STR", NEW v, Head(toks).n = v
  PROVE  UnlexTurn([toks |-> toks, out |-> out]) =
           [toks |-> SubSeq(toks, v + 3, Len(toks)),
            out |-> out \o <<Lex(Quote)>> \o Upto(toks, 3, v) \o <<Lex(Quote)>>]
<1> DEFINE s == [toks |-> toks, out |-> out]
<1>1. s.toks = toks /\ s.out = out
  OBVIOUS
<1> HIDE DEF s
<1>2. UnlexTurn(s) = UnlexStep(s)
  BY <1>1, Zenon DEF UnlexTurn
<1>3. UnlexStep(s) = [toks |-> SubSeq(toks, v + 3, Len(toks)),
                      out |-> out \o <<Lex(Quote)>> \o Upto(toks, 3, v) \o <<Lex(Quote)>>]
  BY <1>1, Zenon DEF UnlexStep
<1> QED BY <1>2, <1>3, Zenon DEF s

LEMMA UnlexRem ==
  ASSUME NEW toks, toks # << >>, NEW out, Head(toks).t = "REM"
  PROVE  UnlexTurn([toks |-> toks, out |-> out]) = [toks |-> << >>, out |-> out \o toks]
<1> DEFINE s == [toks |-> toks, out |-> out]
<1>1. s.toks = toks /\ s.out = out
  OBVIOUS
<1> HIDE DEF s
<1>2. UnlexTurn(s) = UnlexStep(s)
  BY <1>1, Zenon DEF UnlexTurn
<1>3. UnlexStep(s) = [toks |-> << >>, out |-> out \o toks]
  BY <1>1, Zenon DEF UnlexStep
<1> QED BY <1>2, <1>3, Zenon DEF s

LEMMA UnlexOther ==
  ASSUME NEW toks, toks # << >>, NEW out, Head(toks).t \notin {"NUM", "STR", "REM"}
  PROVE  UnlexTurn([toks |-> toks, out |-> out]) =
           [toks |-> SubSeq(toks, 2, Len(toks)), out |-> Append(out, Head(toks))]
<1> DEFINE s == [toks |-> toks, out |-> out]
<1>1. s.toks = toks /\ s.out = out
  OBVIOUS
<1> HIDE DEF s
<1>2. UnlexTurn(s) = UnlexStep(s)
  BY <1>1, Zenon DEF UnlexTurn
<1>3. UnlexStep(s) = [toks |-> SubSeq(toks, 2, Len(toks)), out |-> Append(out, Head(toks))]
  BY <1>1, Zenon DEF UnlexStep
<1> QED BY <1>2, <1>3, Zenon DEF s

\* Where a string ends: at its quotation mark, or where there is no room.
StringEnd(rest) ==
  LET quotes == {i \in DOMAIN rest : rest[i].t = Quote}
  IN IF quotes = {} THEN Len(rest) + 1 ELSE Min(quotes)
StringInside(rest, n) == Upto(rest, 1, Min({StringEnd(rest) - 1, (TOK_MAX - 1 - n) - 2}))
StringPast(rest, n) ==
  IF Len(StringInside(rest, n)) = StringEnd(rest) - 1 THEN StringEnd(rest) + 1 ELSE Len(StringInside(rest, n)) + 1

LEMMA QuoteDiffers == Quote \notin {"REM", "digits", "NUM", "STR", "byte"}
BY DEF Quote

LEMMA LexRem ==
  ASSUME NEW text, text # << >>, NEW out, ~(Len(out) >= TOK_MAX - 5), Head(text).t = "REM"
  PROVE  LexTurn([text |-> text, out |-> out]) =
           [text |-> << >>, out |-> Append(out, Head(text)) \o Upto(Tail(text), 1, (TOK_MAX - 1 - Len(out)) - 1)]
<1> DEFINE s == [text |-> text, out |-> out]
<1>1. s.text = text /\ s.out = out
  OBVIOUS
<1> HIDE DEF s
<1>2. LexTurn(s) = LexStep(s)
  BY <1>1, Zenon DEF LexTurn
<1>3. LexStep(s) =
        [text |-> << >>, out |-> Append(out, Head(text)) \o Upto(Tail(text), 1, (TOK_MAX - 1 - Len(out)) - 1)]
  BY <1>1, QuoteDiffers, NoDigits, Zenon DEF LexStep, StringEnd, StringInside, StringPast
<1> QED BY <1>2, <1>3, Zenon DEF s

LEMMA LexNumber ==
  ASSUME NEW text, text # << >>, NEW out, ~(Len(out) >= TOK_MAX - 5), Head(text).t = "digits",
         NEW v, Head(text).n = v
  PROVE  LexTurn([text |-> text, out |-> out]) =
           [text |-> Tail(text), out |-> out \o NumBytes(Wrapped(v))]
<1> DEFINE s == [text |-> text, out |-> out]
<1>1. s.text = text /\ s.out = out
  OBVIOUS
<1> HIDE DEF s
<1>2. LexTurn(s) = LexStep(s)
  BY <1>1, Zenon DEF LexTurn
<1>3. LexStep(s) =
        [text |-> Tail(text), out |-> out \o NumBytes(Wrapped(v))]
  BY <1>1, QuoteDiffers, NoDigits, Zenon DEF LexStep, StringEnd, StringInside, StringPast
<1> QED BY <1>2, <1>3, Zenon DEF s

LEMMA LexDigits ==
  ASSUME NEW text, text # << >>, NEW out, ~(Len(out) >= TOK_MAX - 5), is_dig(Head(text).t),
         NEW n, DigitsAhead(text) = n
  PROVE  LexTurn([text |-> text, out |-> out]) =
           [text |-> SubSeq(text, n + 1, Len(text)), out |-> out \o NumBytes(IntOf(CharsUpto(text, n)))]
<1> DEFINE s == [text |-> text, out |-> out]
<1>1. s.text = text /\ s.out = out
  OBVIOUS
<1> HIDE DEF s
<1>2. LexTurn(s) = LexStep(s)
  BY <1>1, Zenon DEF LexTurn
<1>3. Head(text).t # "REM" /\ Head(text).t # "digits"
  BY NoDigits
<1>4. LexStep(s) =
        [text |-> SubSeq(text, n + 1, Len(text)), out |-> out \o NumBytes(IntOf(CharsUpto(text, n)))]
  BY <1>1, <1>3, NoDigits, Zenon DEF LexStep
<1> QED BY <1>2, <1>4, Zenon DEF s

LEMMA LexString ==
  ASSUME NEW text, text # << >>, NEW out, ~(Len(out) >= TOK_MAX - 5), Head(text).t = Quote
  PROVE  LexTurn([text |-> text, out |-> out]) =
           [text |-> SubSeq(Tail(text), StringPast(Tail(text), Len(out)), Len(Tail(text))),
            out |-> out \o StrBytes(Len(StringInside(Tail(text), Len(out)))) \o StringInside(Tail(text), Len(out))]
<1> DEFINE s == [text |-> text, out |-> out]
<1>1. s.text = text /\ s.out = out
  OBVIOUS
<1> HIDE DEF s
<1>2. LexTurn(s) = LexStep(s)
  BY <1>1, Zenon DEF LexTurn
<1>3. LexStep(s) =
        [text |-> SubSeq(Tail(text), StringPast(Tail(text), Len(out)), Len(Tail(text))),
            out |-> out \o StrBytes(Len(StringInside(Tail(text), Len(out)))) \o StringInside(Tail(text), Len(out))]
  BY <1>1, QuoteDiffers, NoDigits, Zenon DEF LexStep, StringEnd, StringInside, StringPast
<1> QED BY <1>2, <1>3, Zenon DEF s

LEMMA LexOther ==
  ASSUME NEW text, text # << >>, NEW out, ~(Len(out) >= TOK_MAX - 5),
         Head(text).t \notin {"REM", "digits", Quote}, ~is_dig(Head(text).t)
  PROVE  LexTurn([text |-> text, out |-> out]) =
           [text |-> Tail(text), out |-> Append(out, Head(text))]
<1> DEFINE s == [text |-> text, out |-> out]
<1>1. s.text = text /\ s.out = out
  OBVIOUS
<1> HIDE DEF s
<1>2. LexTurn(s) = LexStep(s)
  BY <1>1, Zenon DEF LexTurn
<1>3. LexStep(s) =
        [text |-> Tail(text), out |-> Append(out, Head(text))]
  BY <1>1, QuoteDiffers, NoDigits, Zenon DEF LexStep, StringEnd, StringInside, StringPast
<1> QED BY <1>2, <1>3, Zenon DEF s

-----------------------------------------------------------------------------
(* The items of a line and what they look like in a text. n is the length   *)
(* of what is in front of an item, D what may follow it in a line, and T    *)
(* what may follow its text.                                                *)

NonNeg(c) == \A i \in 1 .. Len(c) : c[i].n >= 0

Shows(item, w, D) ==
  \A d \in D : \A u \in Seq(Spellings) :
    UnlexTurn([toks |-> item \o d, out |-> u]) = [toks |-> d, out |-> u \o w]
Reads(w, item, n, T) ==
  \A t \in T : \A c \in Seq(Lexemes) :
    Len(c) = n => LexTurn([text |-> w \o t, out |-> c]) = [text |-> t, out |-> c \o item]

Item(item, w, n, D, T) ==
  /\ item \in Seq(Lexemes) /\ w \in Seq(Spellings)
  /\ Len(w) >= 1 /\ Len(w) <= Len(item) /\ n + Len(item) <= TOK_MAX - 1
  /\ Shows(item, w, D)
  /\ NonNeg(item) => Reads(w, item, n, T)

\* The first of several.
LEMMA HeadOf ==
  ASSUME NEW S, NEW a \in Seq(S), Len(a) >= 1, NEW b \in Seq(S)
  PROVE  Head(a \o b) = a[1] /\ a \o b # << >> /\ a # << >>
OBVIOUS

LEMMA TextsRegrouped ==
  ASSUME NEW a \in Seq(Spellings), NEW b \in Seq(Spellings), NEW c \in Seq(Spellings)
  PROVE  (a \o b) \o c = a \o (b \o c)
<1>1. a \in Seq(Lexemes) /\ b \in Seq(Lexemes) /\ c \in Seq(Lexemes)
  BY SpellingsIn, Zenon
<1> QED BY <1>1, Regrouped, Zenon

\* The quotes around a text.
LEMMA QuotedBehind ==
  ASSUME NEW q \in Seq(Spellings), NEW k \in Seq(Spellings), NEW u \in Seq(Spellings)
  PROVE  ((u \o q) \o k) \o q = u \o (q \o (k \o q))
<1>1. PICK x \in Seq(Spellings) : x = u \o q
  BY JoinedIn
<1>2. PICK y \in Seq(Spellings) : y = k \o q
  BY JoinedIn
<1>3. (x \o k) \o q = x \o (k \o q)
  BY TextsRegrouped, Zenon
<1>4. (u \o q) \o y = u \o (q \o y)
  BY TextsRegrouped, ZenonT(40)
<1> QED BY <1>1, <1>2, <1>3, <1>4, Zenon

LEMMA QuotedInFront ==
  ASSUME NEW q \in Seq(Spellings), NEW k \in Seq(Spellings), NEW t \in Seq(Spellings)
  PROVE  (q \o (k \o q)) \o t = q \o (k \o (q \o t))
<1>1. PICK y \in Seq(Spellings) : y = k \o q
  BY JoinedIn
<1>2. (q \o y) \o t = q \o (y \o t)
  BY TextsRegrouped, ZenonT(40)
<1>3. (k \o q) \o t = k \o (q \o t)
  BY TextsRegrouped, Zenon
<1> QED BY <1>1, <1>2, <1>3, Zenon

LEMMA QuoteText ==
  /\ <<Lex(Quote)>> \in Seq(Spellings) /\ Len(<<Lex(Quote)>>) = 1
  /\ Lex(Quote) \in Spellings /\ Lex(Quote).t = Quote /\ <<Lex(Quote)>>[1] = Lex(Quote)
<1>1. PICK q : q = Lex(Quote)
  OBVIOUS
<1>2. q \in Spellings
  BY <1>1, MarksIn, Zenon
<1>3. Lex(Quote).t = Quote
  BY DEF Lex
<1>4. <<q>> \in Seq(Spellings) /\ Len(<<q>>) = 1 /\ <<q>>[1] = q
  BY <1>2
<1> QED BY <1>1, <1>2, <1>3, <1>4, Zenon

LEMMA NumBytesAre ==
  ASSUME NEW v \in Int
  PROVE  /\ NumBytes(v) \in Seq(Lexemes) /\ Len(NumBytes(v)) = 5 /\ NumBytes(v)[1] = Number(v)
         /\ Number(v).t = "NUM" /\ Number(v).n = v /\ Number(v) \in Lexemes
<1>1. NumBytes(v) \in Seq(Lexemes)
  BY NumBytesIn, ToksIn
<1>2. Len(NumBytes(v)) = 5 /\ NumBytes(v)[1] = Number(v)
  BY DEF NumBytes
<1>3. Number(v).t = "NUM" /\ Number(v).n = v
  BY DEF Number
<1> QED BY <1>1, <1>2, <1>3, LexemesIn

LEMMA NumberShown ==
  ASSUME NEW v \in Int, NEW d \in Seq(Lexemes), NEW u \in Seq(Spellings)
  PROVE  UnlexTurn([toks |-> NumBytes(v) \o d, out |-> u]) = [toks |-> d, out |-> u \o NumberText(v)]
<1>1. PICK a \in Seq(Lexemes) : a = NumBytes(v) /\ Len(a) = 5 /\ a[1] = Number(v)
  BY NumBytesAre, Zenon
<1>2. PICK toks : toks = a \o d
  OBVIOUS
<1>3. PICK l : l = Number(v) /\ l.t = "NUM" /\ l.n = v
  BY NumBytesAre, Zenon
<1>4. toks # << >> /\ l = Head(toks) /\ Head(toks).t = "NUM" /\ Head(toks).n = v
  <2>1. Len(a) >= 1
    BY <1>1
  <2>2. Head(a \o d) = a[1] /\ a \o d # << >>
    BY <2>1, HeadOf
  <2> QED BY <1>1, <1>2, <1>3, <2>2, Zenon
<1>5. UnlexTurn([toks |-> toks, out |-> u]) = [toks |-> SubSeq(toks, 6, Len(toks)), out |-> u \o NumberText(v)]
  BY <1>4, UnlexNumber, Zenon
<1>6. SubSeq(toks, 6, Len(toks)) = d
  <2>1. SubSeq(a \o d, Len(a) + 1, Len(a \o d)) = d
    BY PartsOf
  <2>2. Len(a) + 1 = 6
    BY <1>1
  <2> QED BY <1>2, <2>1, <2>2, Zenon
<1> QED BY <1>1, <1>2, <1>3, <1>5, <1>6, Zenon

LEMMA OtherShown ==
  ASSUME NEW l \in Spellings, l.t # "REM", NEW d \in Seq(Lexemes), NEW u \in Seq(Spellings)
  PROVE  UnlexTurn([toks |-> <<l>> \o d, out |-> u]) = [toks |-> d, out |-> u \o <<l>>]
<1>1. l \in Lexemes /\ l.t \notin {"NUM", "STR", "REM"}
  BY SpellingsIn
<1>2. PICK toks : toks = <<l>> \o d
  OBVIOUS
<1>3. toks # << >> /\ l = Head(toks) /\ SubSeq(toks, 2, Len(toks)) = d
  BY <1>1, <1>2, FirstLexeme, Zenon
<1>4. UnlexTurn([toks |-> toks, out |-> u]) = [toks |-> SubSeq(toks, 2, Len(toks)), out |-> Append(u, Head(toks))]
  BY <1>1, <1>3, UnlexOther, Zenon
<1>5. Append(u, l) = u \o <<l>>
  BY AppendIsConcat
<1> QED BY <1>2, <1>3, <1>4, <1>5, Zenon

LEMMA RemShown ==
  ASSUME NEW l \in Spellings, l.t = "REM", NEW k \in Seq(Spellings), NEW u
  PROVE  UnlexTurn([toks |-> <<l>> \o k, out |-> u]) = [toks |-> << >>, out |-> u \o (<<l>> \o k)]
<1>1. PICK toks : toks = <<l>> \o k
  OBVIOUS
<1>2. toks # << >> /\ l = Head(toks)
  BY <1>1, FirstSpelling, Zenon
<1>3. UnlexTurn([toks |-> toks, out |-> u]) = [toks |-> << >>, out |-> u \o toks]
  BY <1>2, UnlexRem, Zenon
<1> QED BY <1>1, <1>3, Zenon

LEMMA StrBytesAre ==
  ASSUME NEW k \in Seq(Spellings)
  PROVE  /\ StrBytes(Len(k)) \in Seq(Lexemes) /\ Len(StrBytes(Len(k))) = 2 /\ k \in Seq(Lexemes)
         /\ StrBytes(Len(k))[1].t = "STR" /\ StrBytes(Len(k))[1].n = Len(k)
         /\ StrBytes(Len(k))[1] \in Lexemes
<1>1. StrBytes(Len(k)) \in Seq(Lexemes) /\ k \in Seq(Lexemes)
  BY StrBytesIn, SpellingsIn
<1>2. PICK n : n = Len(k)
  OBVIOUS
<1>3. Len(StrBytes(n)) = 2 /\ StrBytes(n)[1].t = "STR" /\ StrBytes(n)[1].n = n
  BY DEF StrBytes
<1>4. StrBytes(n)[1] \in Lexemes
  <2>1. PICK b \in Seq(Lexemes) : b = StrBytes(n) /\ Len(b) = 2
    BY <1>1, <1>2, <1>3
  <2>2. 1 \in 1 .. Len(b)
    BY <2>1
  <2>3. b[1] \in Lexemes
    BY <2>2, ElementOfSeq
  <2> QED BY <2>1, <2>3, Zenon
<1> QED BY <1>1, <1>2, <1>3, <1>4

\* The middle of three.
LEMMA MiddleOf ==
  ASSUME NEW S, NEW a \in Seq(S), NEW k \in Seq(S), NEW d \in Seq(S), NEW i \in Nat \ {0}, i = Len(a) + 1
  PROVE  Upto(a \o (k \o d), i, Len(k)) = k
<1>1. PICK m \in Nat, n \in Nat : m = Len(a) /\ n = Len(k)
  BY LenProperties
<1>2. PICK e \in Seq(S) : e = k \o d
  BY PartsOf
<1>3. PICK g \in Seq(S) : g = a \o e
  BY PartsOf
<1>4. /\ n <= Len(e) /\ Len(g) = m + Len(e) /\ Len(e) \in Nat
      /\ \A q \in 1 .. n : e[q] = k[q]
  <2>1. Len(k \o d) = Len(k) + Len(d) /\ Len(d) \in Nat /\ Len(a \o e) = Len(a) + Len(e) /\ Len(e) \in Nat
    BY PartsOf, LenProperties
  <2>2. \A q \in 1 .. Len(k) : (k \o d)[q] = k[q]
    OBVIOUS
  <2> QED BY <1>1, <1>2, <1>3, <2>1, <2>2
<1>5. \A q \in 1 .. Len(e) : g[m + q] = e[q]
  BY <1>1, <1>3, <1>4
<1>6. Min({Len(g), i + n - 1}) = m + n
  BY <1>1, <1>4, LeastOfTwo
<1>7. Upto(g, i, n) = SubSeq(g, i, m + n)
  BY <1>6, Zenon DEF Upto
<1>8. PICK h : h = SubSeq(g, i, m + n)
  OBVIOUS
<1>9. /\ h \in Seq(S) /\ Len(h) = IF i <= m + n THEN (m + n) - i + 1 ELSE 0
      /\ \A q \in 1 .. (m + n) - i + 1 : h[q] = g[i + q - 1]
  BY <1>1, <1>4, <1>8, PieceOf
<1>10. Len(h) = n
  BY <1>1, <1>9
<1>11. ASSUME NEW q \in 1 .. n PROVE h[q] = k[q]
  <2>1. q \in 1 .. (m + n) - i + 1 /\ i + q - 1 = m + q /\ q \in 1 .. Len(e)
    BY <1>1, <1>4
  <2> QED BY <1>4, <1>5, <1>9, <2>1
<1>12. h = k
  BY <1>1, <1>9, <1>10, <1>11, SeqEqual
<1> QED BY <1>1, <1>2, <1>3, <1>7, <1>8, <1>12, Zenon

LEMMA StringShown ==
  ASSUME NEW k \in Seq(Spellings), NEW d \in Seq(Lexemes), NEW u \in Seq(Spellings)
  PROVE  UnlexTurn([toks |-> (StrBytes(Len(k)) \o k) \o d, out |-> u]) =
           [toks |-> d, out |-> u \o (<<Lex(Quote)>> \o (k \o <<Lex(Quote)>>))]
<1>1. PICK b \in Seq(Lexemes) : b = StrBytes(Len(k)) /\ Len(b) = 2 /\ b[1].t = "STR" /\ b[1].n = Len(k)
  BY StrBytesAre, Zenon
<1>2. k \in Seq(Lexemes) /\ Len(k) \in Nat
  BY StrBytesAre, LenProperties
<1>3. PICK e \in Seq(Lexemes) : e = k \o d
  BY <1>2, PartsOf
<1>4. PICK toks \in Seq(Lexemes) : toks = b \o e
  BY PartsOf
<1>5. (StrBytes(Len(k)) \o k) \o d = toks
  <2>1. (b \o k) \o d = b \o (k \o d)
    BY <1>2, Regrouped
  <2> QED BY <1>1, <1>3, <1>4, <2>1, Zenon
<1>6. toks # << >> /\ Head(toks).t = "STR" /\ Head(toks).n = Len(k)
  <2>1. Len(b) >= 1
    BY <1>1
  <2>2. Head(b \o e) = b[1] /\ b \o e # << >>
    BY <2>1, HeadOf
  <2> QED BY <1>1, <1>4, <2>2, Zenon
<1>7. UnlexTurn([toks |-> toks, out |-> u]) =
        [toks |-> SubSeq(toks, Len(k) + 3, Len(toks)),
         out |-> u \o <<Lex(Quote)>> \o Upto(toks, 3, Len(k)) \o <<Lex(Quote)>>]
  BY <1>6, UnlexString, Zenon
<1>8. SubSeq(toks, Len(k) + 3, Len(toks)) = d
  <2>1. PICK a \in Seq(Lexemes) : a = b \o k
    BY <1>2, PartsOf
  <2>2. SubSeq(a \o d, Len(a) + 1, Len(a \o d)) = d
    BY PartsOf
  <2>3. toks = a \o d
    BY <1>1, <1>5, <2>1, Zenon
  <2>4. Len(a) = Len(b) + Len(k)
    BY <1>2, <2>1, PartsOf
  <2>5. Len(a) + 1 = Len(k) + 3
    BY <1>1, <1>2, <2>4
  <2> QED BY <2>2, <2>3, <2>5, Zenon
<1>9. Upto(toks, 3, Len(k)) = k
  <2>1. 3 \in Nat \ {0} /\ 3 = Len(b) + 1
    BY <1>1
  <2>2. Upto(b \o (k \o d), 3, Len(k)) = k
    BY <1>2, <2>1, MiddleOf
  <2> QED BY <1>3, <1>4, <2>2, Zenon
<1>10. PICK q \in Seq(Spellings) : q = <<Lex(Quote)>>
  BY QuoteText, Zenon
<1>11. ((u \o q) \o k) \o q = u \o (q \o (k \o q))
  BY QuotedBehind, Zenon
<1> QED BY <1>5, <1>7, <1>8, <1>9, <1>10, <1>11, Zenon

\* What is read back.
LEMMA NumberRead ==
  ASSUME NEW v \in Numbers, v >= 0, NEW t \in Seq(Spellings), NEW c, ~(Len(c) >= TOK_MAX - 5)
  PROVE  LexTurn([text |-> NumberText(v) \o t, out |-> c]) = [text |-> t, out |-> c \o NumBytes(v)]
<1>1. v \in Int /\ v < IntHalf
  BY NumbersInt
<1>2. PICK l \in Spellings : l = Digits(v)
  BY <1>1, LexemesIn
<1>3. l.t = "digits" /\ l.n = v
  BY <1>2 DEF Digits
<1>4. NumberText(v) = <<l>>
  <2>1. v # MinInt /\ ~(v < 0)
    BY <1>1, TextFacts DEF MinInt
  <2> QED BY <1>2, <2>1, Zenon DEF NumberText
<1>5. Wrapped(v) = v
  <2>1. PICK h \in Nat : h = IntHalf /\ h > 0
    BY TextFacts
  <2>2. (v + h) % (2 * h) = v + h
    BY <1>1, <2>1
  <2> QED BY <1>1, <2>1, <2>2 DEF Wrapped
<1>6. PICK text : text = <<l>> \o t
  OBVIOUS
<1>7. text # << >> /\ Head(text) = l /\ Tail(text) = t
  BY <1>6, FirstSpelling, Zenon
<1>8. LexTurn([text |-> text, out |-> c]) = [text |-> Tail(text), out |-> c \o NumBytes(Wrapped(v))]
  BY <1>3, <1>7, LexNumber, Zenon
<1> QED BY <1>4, <1>5, <1>6, <1>7, <1>8, Zenon

LEMMA OtherRead ==
  ASSUME NEW l \in Spellings, l.t \notin {"REM", "digits", Quote}, ~is_dig(l.t), NEW t \in Seq(Spellings),
         NEW c \in Seq(Lexemes), ~(Len(c) >= TOK_MAX - 5)
  PROVE  LexTurn([text |-> <<l>> \o t, out |-> c]) = [text |-> t, out |-> c \o <<l>>]
<1>1. PICK text : text = <<l>> \o t
  OBVIOUS
<1>2. text # << >> /\ Head(text) = l /\ Tail(text) = t
  BY <1>1, FirstSpelling, Zenon
<1>3. Head(text).t \notin {"REM", "digits", Quote} /\ ~is_dig(Head(text).t)
  BY <1>2, Zenon
<1>4. LexTurn([text |-> text, out |-> c]) = [text |-> Tail(text), out |-> Append(c, Head(text))]
  BY <1>2, <1>3, LexOther, Zenon
<1>5. Append(c, l) = c \o <<l>>
  BY SpellingsIn, AppendIsConcat
<1> QED BY <1>1, <1>2, <1>4, <1>5, Zenon

LEMMA UptoFront ==
  ASSUME NEW S, NEW s \in Seq(S), NEW m \in 0 .. Len(s)
  PROVE  /\ Upto(s, 1, m) = SubSeq(s, 1, m) /\ SubSeq(s, 1, m) \in Seq(S) /\ Len(SubSeq(s, 1, m)) = m
         /\ \A i \in 1 .. m : SubSeq(s, 1, m)[i] = s[i]
<1>1. PICK n \in Nat : n = Len(s) /\ m \in Nat /\ m <= n
  BY LenProperties
<1>2. Min({n, 1 + m - 1}) = m
  BY <1>1, LeastOfTwo
<1>3. Upto(s, 1, m) = SubSeq(s, 1, m)
  BY <1>1, <1>2, Zenon DEF Upto
<1>4. /\ SubSeq(s, 1, m) \in Seq(S) /\ Len(SubSeq(s, 1, m)) = IF 1 <= m THEN m - 1 + 1 ELSE 0
      /\ \A i \in 1 .. m - 1 + 1 : SubSeq(s, 1, m)[i] = s[1 + i - 1]
  BY <1>1, PieceOf
<1>5. Len(SubSeq(s, 1, m)) = m
  BY <1>1, <1>4
<1>6. ASSUME NEW i \in 1 .. m PROVE SubSeq(s, 1, m)[i] = s[i]
  <2>1. i \in 1 .. m - 1 + 1 /\ 1 + i - 1 = i
    BY <1>1
  <2> QED BY <1>4, <2>1
<1> QED BY <1>3, <1>4, <1>5, <1>6

LEMMA UptoAll ==
  ASSUME NEW S, NEW s \in Seq(S), NEW n \in Int, Len(s) <= n
  PROVE  Upto(s, 1, n) = s
<1>1. PICK m \in Nat : m = Len(s)
  BY LenProperties
<1>2. Min({m, 1 + n - 1}) = m
  BY <1>1, LeastOfTwo
<1>3. Upto(s, 1, n) = SubSeq(s, 1, m)
  BY <1>1, <1>2, Zenon DEF Upto
<1>4. /\ SubSeq(s, 1, m) \in Seq(S) /\ Len(SubSeq(s, 1, m)) = m
      /\ \A i \in 1 .. m : SubSeq(s, 1, m)[i] = s[i]
  <2>1. m \in 0 .. Len(s)
    BY <1>1
  <2> QED BY <2>1, UptoFront
<1>5. SubSeq(s, 1, m) = s
  BY <1>1, <1>4, SeqEqual
<1> QED BY <1>3, <1>5

LEMMA StringEndIn ==
  ASSUME NEW rest \in Seq(Spellings)
  PROVE  /\ StringEnd(rest) \in 1 .. Len(rest) + 1
         /\ \A i \in 1 .. Len(rest) : i < StringEnd(rest) => rest[i].t # Quote
         /\ StringEnd(rest) <= Len(rest) => rest[StringEnd(rest)].t = Quote
<1> DEFINE quotes == {i \in DOMAIN rest : rest[i].t = Quote}
<1>1. PICK n \in Nat : n = Len(rest) /\ DOMAIN rest = 1 .. n
  BY LenProperties
<1>2. StringEnd(rest) = IF quotes = {} THEN n + 1 ELSE Min(quotes)
  BY <1>1 DEF StringEnd
<1>3. /\ quotes \subseteq 1 .. n /\ quotes \subseteq Nat
      /\ \A i \in 1 .. n : rest[i].t = Quote <=> i \in quotes
  BY <1>1
<1> HIDE DEF quotes
<1>4. CASE quotes = {}
  BY <1>1, <1>2, <1>3, <1>4
<1>5. CASE quotes # {}
  <2>1. PICK m \in Nat : m = Min(quotes) /\ m \in quotes /\ \A y \in quotes : m <= y
    BY <1>3, <1>5, LeastIn
  <2>2. StringEnd(rest) = m
    BY <1>2, <1>5, <2>1
  <2>3. m \in 1 .. n /\ rest[m].t = Quote
    BY <1>3, <2>1
  <2>4. ASSUME NEW i \in 1 .. n, i < m PROVE rest[i].t # Quote
    BY <1>3, <2>1, <2>4
  <2> QED BY <1>1, <2>2, <2>3, <2>4
<1> QED BY <1>4, <1>5

Unquoted(k) == \A i \in 1 .. Len(k) : k[i].t # Quote

LEMMA StringKeptIn ==
  ASSUME NEW rest \in Seq(Spellings), NEW n \in Nat, n < TOK_MAX - 5
  PROVE  /\ StringInside(rest, n) \in Seq(Spellings) /\ Len(StringInside(rest, n)) \in Nat
         /\ Len(StringInside(rest, n)) <= (TOK_MAX - 1 - n) - 2
         /\ Unquoted(StringInside(rest, n))
         /\ SubSeq(rest, StringPast(rest, n), Len(rest)) \in Seq(Spellings)
<1>1. PICK e \in Nat, r \in Nat, m \in Nat : e = StringEnd(rest) /\ r = (TOK_MAX - 1 - n) - 2 /\ m = Min({e - 1, r})
  <2>1. Len(rest) \in Nat /\ StringEnd(rest) \in 1 .. Len(rest) + 1
    BY LenProperties, StringEndIn
  <2>2. StringEnd(rest) \in Nat /\ StringEnd(rest) >= 1 /\ (TOK_MAX - 1 - n) - 2 \in Nat
    BY <2>1, TextFacts
  <2>3. PICK e \in Nat, r \in Nat : e = StringEnd(rest) /\ r = (TOK_MAX - 1 - n) - 2 /\ e >= 1
    BY <2>2
  <2>4. Min({e - 1, r}) \in Nat
    BY <2>3, LeastOfTwo
  <2> QED BY <2>3, <2>4
<1>2. m <= r /\ m <= e - 1 /\ e <= Len(rest) + 1 /\ m <= Len(rest) /\ Len(rest) \in Nat
  <2>1. e \in 1 .. Len(rest) + 1 /\ Len(rest) \in Nat
    BY <1>1, StringEndIn, LenProperties
  <2>2. m <= r /\ m <= e - 1
    BY <1>1, LeastOfTwo
  <2> QED BY <2>1, <2>2
<1>3. m \in 0 .. Len(rest)
  BY <1>2
<1>4. PICK k : k = SubSeq(rest, 1, m)
  OBVIOUS
<1>5. k \in Seq(Spellings) /\ Len(k) = m /\ \A i \in 1 .. m : k[i] = rest[i]
  BY <1>3, <1>4, UptoFront
<1>6. StringInside(rest, n) = k
  <2>1. StringInside(rest, n) = Upto(rest, 1, m)
    BY <1>1, Zenon DEF StringInside
  <2> QED BY <1>3, <1>4, <2>1, UptoFront
<1>7. ASSUME NEW i \in 1 .. m PROVE k[i].t # Quote
  <2>1. i \in 1 .. Len(rest) /\ i < e
    BY <1>2
  <2>2. rest[i].t # Quote
    BY <1>1, <2>1, StringEndIn
  <2> QED BY <1>5, <2>2
<1>8. SubSeq(rest, StringPast(rest, n), Len(rest)) \in Seq(Spellings)
  <2>1. StringPast(rest, n) = IF m = e - 1 THEN e + 1 ELSE m + 1
    BY <1>1, <1>5, <1>6, Zenon DEF StringPast
  <2>2. PICK p \in Nat \ {0} : p = StringPast(rest, n)
    BY <2>1
  <2> QED BY <1>2, <2>2, PieceOf
<1>9. m <= (TOK_MAX - 1 - n) - 2
  BY <1>1, <1>2
<1> QED BY <1>5, <1>6, <1>7, <1>8, <1>9 DEF Unquoted

LEMMA QuoteEnds ==
  ASSUME NEW k \in Seq(Spellings), Unquoted(k), NEW t \in Seq(Spellings), NEW q \in Spellings, q.t = Quote
  PROVE  StringEnd(k \o (<<q>> \o t)) = Len(k) + 1
<1>1. PICK x \in Seq(Spellings) : x = <<q>> \o t
  BY FirstOf, Zenon
<1>2. PICK rest \in Seq(Spellings) : rest = k \o x
  BY PartsOf
<1>3. PICK m \in Nat : m = Len(k)
  BY LenProperties
<1>4. /\ Len(x) \in Nat /\ Len(x) >= 1 /\ x[1] = q /\ Len(rest) = m + Len(x)
      /\ \A i \in 1 .. m : rest[i] = k[i]
      /\ rest[m + 1] = x[1]
  <2>1. Len(<<q>> \o t) = Len(t) + 1 /\ Head(<<q>> \o t) = q /\ <<q>> \o t # << >> /\ Len(t) \in Nat
    BY FirstOf, LenProperties
  <2>2. Len(x) \in Nat /\ Len(x) >= 1 /\ x[1] = q
    BY <1>1, <2>1
  <2>3. Len(k \o x) = Len(k) + Len(x)
    BY PartsOf
  <2>4. \A i \in 1 .. Len(k) : (k \o x)[i] = k[i]
    OBVIOUS
  <2>5. (k \o x)[Len(k) + 1] = x[1]
    BY <2>2
  <2> QED BY <1>2, <1>3, <2>2, <2>3, <2>4, <2>5
<1>5. PICK e \in Nat : e = StringEnd(rest) /\ e \in 1 .. Len(rest) + 1
  <2>1. StringEnd(rest) \in 1 .. Len(rest) + 1
    BY StringEndIn
  <2> QED BY <1>4, <2>1
<1>6. ASSUME e < m + 1 PROVE FALSE
  <2>1. e <= Len(rest) /\ e \in 1 .. m
    BY <1>4, <1>5, <1>6
  <2>2. rest[e].t = Quote
    BY <1>5, <2>1, StringEndIn
  <2> QED BY <1>3, <1>4, <2>1, <2>2 DEF Unquoted
<1>7. ASSUME m + 1 < e PROVE FALSE
  <2>1. m + 1 \in 1 .. Len(rest)
    BY <1>4
  <2>2. rest[m + 1].t # Quote
    BY <1>5, <1>7, <2>1, StringEndIn
  <2> QED BY <1>4, <2>2
<1>8. e = m + 1
  BY <1>6, <1>7
<1> QED BY <1>1, <1>2, <1>3, <1>5, <1>8, Zenon

LEMMA ThirdOf ==
  ASSUME NEW k \in Seq(Spellings), NEW z \in Seq(Spellings), NEW t \in Seq(Spellings)
  PROVE  SubSeq(k \o (z \o t), Len(k) + Len(z) + 1, Len(k \o (z \o t))) = t
<1>1. PICK y \in Seq(Spellings) : y = k \o z
  BY PartsOf
<1>2. Len(k \o z) = Len(k) + Len(z)
  BY PartsOf
<1>3. SubSeq(y \o t, Len(y) + 1, Len(y \o t)) = t
  BY PartsOf
<1>4. (k \o z) \o t = k \o (z \o t)
  BY TextsRegrouped
<1> QED BY <1>1, <1>2, <1>3, <1>4, Zenon

LEMMA QuoteKept ==
  ASSUME NEW k \in Seq(Spellings), Unquoted(k), NEW t \in Seq(Spellings), NEW q \in Spellings, q.t = Quote,
         NEW rest \in Seq(Spellings), rest = k \o (<<q>> \o t),
         NEW n \in Nat, Len(k) <= (TOK_MAX - 1 - n) - 2
  PROVE  StringInside(rest, n) = k /\ SubSeq(rest, StringPast(rest, n), Len(rest)) = t
<1>1. PICK x \in Seq(Spellings) : x = <<q>> \o t
  BY FirstOf, Zenon
<1>2. rest = k \o x
  BY <1>1, Zenon
<1>3. PICK m \in Nat, r \in Int : m = Len(k) /\ r = (TOK_MAX - 1 - n) - 2
  BY LenProperties, TextFacts
<1>4. m <= r
  BY <1>3
<1>5. StringEnd(rest) = m + 1
  BY <1>1, <1>2, <1>3, QuoteEnds, Zenon
<1>6. (m + 1) - 1 = m /\ (m + 1) + 1 = m + 2
  OBVIOUS
<1>7. StringInside(rest, n) = k
  <2>1. Min({m, r}) = m
    <3>1. m \in Int
      OBVIOUS
    <3>2. Min({m, r}) = IF m <= r THEN m ELSE r
      BY <3>1, LeastOfTwo, Zenon
    <3> QED BY <1>4, <3>2, Zenon
  <2>2. StringInside(rest, n) = Upto(rest, 1, m)
    BY <1>3, <1>5, <1>6, <2>1, Zenon DEF StringInside
  <2>3. Len(k \o x) = Len(k) + Len(x) /\ Len(x) \in Nat /\ SubSeq(k \o x, 1, Len(k)) = k
    BY PartsOf
  <2>4. m \in 0 .. Len(rest)
    BY <1>2, <1>3, <2>3
  <2>5. Upto(rest, 1, m) = SubSeq(rest, 1, m)
    BY <2>4, UptoFront
  <2> QED BY <1>2, <1>3, <2>2, <2>3, <2>5, Zenon
<1>8. StringPast(rest, n) = m + 2
  BY <1>3, <1>5, <1>6, <1>7, Zenon DEF StringPast
<1>9. SubSeq(rest, m + 2, Len(rest)) = t
  <2>1. PICK z \in Seq(Spellings) : z = <<q>> /\ Len(z) = 1
    <3>1. <<q>> \in Seq(Spellings) /\ Len(<<q>>) = 1
      OBVIOUS
    <3> QED BY <3>1, Zenon
  <2>2. SubSeq(k \o (z \o t), Len(k) + Len(z) + 1, Len(k \o (z \o t))) = t
    BY ThirdOf, Zenon
  <2>3. rest = k \o (z \o t)
    BY <1>1, <1>2, <2>1, Zenon
  <2>4. Len(k) + Len(z) + 1 = m + 2
    BY <1>3, <2>1
  <2> QED BY <2>2, <2>3, <2>4, Zenon
<1> QED BY <1>1, <1>2, <1>7, <1>8, <1>9, Zenon

LEMMA StringRead ==
  ASSUME NEW k \in Seq(Spellings), Unquoted(k), NEW t \in Seq(Spellings),
         NEW c \in Seq(Lexemes), ~(Len(c) >= TOK_MAX - 5), Len(k) <= (TOK_MAX - 1 - Len(c)) - 2
  PROVE  LexTurn([text |-> (<<Lex(Quote)>> \o (k \o <<Lex(Quote)>>)) \o t, out |-> c]) =
           [text |-> t, out |-> c \o (StrBytes(Len(k)) \o k)]
<1>1. PICK l \in Spellings : l = Lex(Quote) /\ l.t = Quote
  BY QuoteText, Zenon
<1>2. PICK q \in Seq(Spellings) : q = <<l>>
  BY FirstOf, Zenon
<1>3. PICK x \in Seq(Spellings) : x = q \o t
  BY JoinedIn, Zenon
<1>4. PICK rest \in Seq(Spellings) : rest = k \o x
  BY JoinedIn, Zenon
<1>5. PICK text : text = q \o rest
  OBVIOUS
<1>6. (q \o (k \o q)) \o t = text
  <2>1. (q \o (k \o q)) \o t = q \o (k \o (q \o t))
    BY QuotedInFront, Zenon
  <2> QED BY <1>3, <1>4, <1>5, <2>1, Zenon
<1>7. text # << >> /\ Head(text).t = Quote /\ Tail(text) = rest
  <2>1. text # << >> /\ Head(text) = l /\ Tail(text) = rest
    BY <1>2, <1>5, FirstSpelling, Zenon
  <2> QED BY <1>1, <2>1, Zenon
<1>8. PICK n \in Nat : n = Len(c)
  BY LenProperties
<1>9. StringInside(rest, n) = k /\ SubSeq(rest, StringPast(rest, n), Len(rest)) = t
  <2>1. Len(k) <= (TOK_MAX - 1 - n) - 2
    BY <1>8, Zenon
  <2>2. rest = k \o (<<l>> \o t)
    BY <1>2, <1>3, <1>4, Zenon
  <2> QED BY <1>1, <2>1, <2>2, QuoteKept, Zenon
<1>10. LexTurn([text |-> text, out |-> c]) = [text |-> t, out |-> c \o StrBytes(Len(k)) \o k]
  <2>1. LexTurn([text |-> text, out |-> c]) =
          [text |-> SubSeq(Tail(text), StringPast(Tail(text), Len(c)), Len(Tail(text))),
           out |-> c \o StrBytes(Len(StringInside(Tail(text), Len(c)))) \o StringInside(Tail(text), Len(c))]
    BY <1>7, LexString, Zenon
  <2> QED BY <1>7, <1>8, <1>9, <2>1, Zenon
<1>11. (c \o StrBytes(Len(k))) \o k = c \o (StrBytes(Len(k)) \o k)
  <2>1. StrBytes(Len(k)) \in Seq(Lexemes) /\ k \in Seq(Lexemes)
    BY StrBytesAre, Zenon
  <2> QED BY <2>1, Regrouped, Zenon
<1> QED BY <1>1, <1>2, <1>6, <1>10, <1>11, Zenon

LEMMA RemRead ==
  ASSUME NEW l \in Spellings, l.t = "REM", NEW k \in Seq(Spellings), NEW c \in Seq(Lexemes),
         ~(Len(c) >= TOK_MAX - 5), NEW n \in Int, n = (TOK_MAX - 1 - Len(c)) - 1, Len(k) <= n
  PROVE  LexTurn([text |-> <<l>> \o k, out |-> c]) = [text |-> << >>, out |-> c \o (<<l>> \o k)]
<1>1. PICK text : text = <<l>> \o k
  OBVIOUS
<1>2. text # << >> /\ Head(text) = l /\ Tail(text) = k
  BY <1>1, FirstSpelling, Zenon
<1>3. Upto(k, 1, n) = k
  BY UptoAll, Zenon
<1>4. LexTurn([text |-> text, out |-> c]) = [text |-> << >>, out |-> Append(c, l) \o k]
  <2>1. LexTurn([text |-> text, out |-> c]) =
          [text |-> << >>, out |-> Append(c, Head(text)) \o Upto(Tail(text), 1, (TOK_MAX - 1 - Len(c)) - 1)]
    BY <1>2, LexRem, Zenon
  <2> QED BY <1>2, <1>3, <2>1, Zenon
<1>5. Append(c, l) \o k = c \o (<<l>> \o k)
  <2>1. l \in Lexemes /\ k \in Seq(Lexemes)
    BY SpellingsIn, Zenon
  <2>2. PICK x \in Seq(Lexemes) : x = <<l>>
    BY <2>1, FirstOf, Zenon
  <2>3. Append(c, l) = c \o <<l>>
    BY <2>1, AppendIsConcat
  <2>4. (c \o x) \o k = c \o (x \o k)
    BY <2>1, Regrouped, Zenon
  <2> QED BY <2>2, <2>3, <2>4, Zenon
<1> QED BY <1>1, <1>4, <1>5, Zenon

LEMMA NoRoomLeft ==
  ASSUME NEW n \in Nat, n < TOK_MAX - 5
  PROVE  /\ ~(n >= TOK_MAX - 5) /\ n + 1 <= TOK_MAX - 1 /\ n + 5 <= TOK_MAX - 1
         /\ (TOK_MAX - 1 - n) - 1 \in Nat /\ (TOK_MAX - 1 - n) - 2 \in Nat
         /\ \A m \in Nat : /\ m <= (TOK_MAX - 1 - n) - 1 => n + (m + 1) <= TOK_MAX - 1
                           /\ m <= (TOK_MAX - 1 - n) - 2 => n + (m + 2) <= TOK_MAX - 1
BY TextFacts

LEMMA NumberItem ==
  ASSUME NEW v \in Numbers, NEW n \in Nat, n < TOK_MAX - 5
  PROVE  Item(NumBytes(v), NumberText(v), n, Seq(Lexemes), Seq(Spellings))
<1>1. v \in Int
  BY NumbersInt
<1>2. PICK item \in Seq(Lexemes) : item = NumBytes(v) /\ Len(item) = 5 /\ item[1].n = v
  BY <1>1, NumBytesAre, Zenon
<1>3. PICK w \in Seq(Spellings) : w = NumberText(v)
  BY <1>1, NumberTextIn, Zenon
<1>4. Len(w) >= 1 /\ Len(w) <= 5
  <2>1. Len(NumberText(v)) = 1 \/ Len(NumberText(v)) = 2
    BY DEF NumberText
  <2>2. \A m \in {1, 2} : m >= 1 /\ m <= 5
    OBVIOUS
  <2> QED BY <1>3, <2>1, <2>2, Zenon
<1>5. ~(n >= TOK_MAX - 5) /\ n + 5 <= TOK_MAX - 1
  BY NoRoomLeft, Zenon
<1>6. Shows(item, w, Seq(Lexemes))
  BY <1>1, <1>2, <1>3, NumberShown, Zenon DEF Shows
<1>7. ASSUME NonNeg(item) PROVE Reads(w, item, n, Seq(Spellings))
  <2>1. v >= 0
    BY <1>2, <1>7 DEF NonNeg
  <2>2. ASSUME NEW t \in Seq(Spellings), NEW c \in Seq(Lexemes), Len(c) = n
        PROVE  LexTurn([text |-> w \o t, out |-> c]) = [text |-> t, out |-> c \o item]
    <3>1. ~(Len(c) >= TOK_MAX - 5)
      BY <1>5, <2>2, Zenon
    <3> QED BY <1>2, <1>3, <2>1, <3>1, NumberRead, Zenon
  <2> QED BY <2>2, Zenon DEF Reads
<1>8. Len(w) <= Len(item) /\ n + Len(item) <= TOK_MAX - 1
  BY <1>2, <1>4, <1>5, Zenon
<1> QED BY <1>2, <1>3, <1>4, <1>6, <1>7, <1>8, Zenon DEF Item

LEMMA OtherItem ==
  ASSUME NEW l \in Spellings, l.t \notin {"REM", "digits", Quote}, ~is_dig(l.t),
         NEW n \in Nat, n < TOK_MAX - 5
  PROVE  Item(<<l>>, <<l>>, n, Seq(Lexemes), Seq(Spellings))
<1>1. l \in Lexemes /\ l.t # "REM"
  BY SpellingsIn, Zenon
<1>2. PICK item : item = <<l>>
  OBVIOUS
<1>3. item \in Seq(Lexemes) /\ item \in Seq(Spellings)
  <2>1. <<l>> \in Seq(Spellings)
    OBVIOUS
  <2> QED BY <1>2, <2>1, SpellingsIn, Zenon
<1>4. Len(item) = 1
  BY <1>2
<1>5. ~(n >= TOK_MAX - 5) /\ n + 1 <= TOK_MAX - 1
  BY NoRoomLeft, Zenon
<1>6. Shows(item, item, Seq(Lexemes))
  BY <1>1, <1>2, OtherShown, Zenon DEF Shows
<1>7. Reads(item, item, n, Seq(Spellings))
  <2>1. ASSUME NEW t \in Seq(Spellings), NEW c \in Seq(Lexemes), Len(c) = n
        PROVE  LexTurn([text |-> item \o t, out |-> c]) = [text |-> t, out |-> c \o item]
    <3>1. ~(Len(c) >= TOK_MAX - 5)
      BY <1>5, <2>1, Zenon
    <3> QED BY <1>2, <3>1, OtherRead, Zenon
  <2> QED BY <2>1, Zenon DEF Reads
<1>8. Len(item) >= 1 /\ Len(item) <= Len(item) /\ n + Len(item) <= TOK_MAX - 1
  <2>1. 1 >= 1 /\ 1 <= 1
    OBVIOUS
  <2> QED BY <1>4, <1>5, <2>1, Zenon
<1> QED BY <1>2, <1>3, <1>6, <1>7, <1>8, Zenon DEF Item

LEMMA StringItem ==
  ASSUME NEW k \in Seq(Spellings), Unquoted(k), NEW n \in Nat, n < TOK_MAX - 5,
         Len(k) <= (TOK_MAX - 1 - n) - 2
  PROVE  Item(StrBytes(Len(k)) \o k, <<Lex(Quote)>> \o (k \o <<Lex(Quote)>>), n, Seq(Lexemes), Seq(Spellings))
<1>1. PICK b \in Seq(Lexemes) : b = StrBytes(Len(k)) /\ Len(b) = 2 /\ k \in Seq(Lexemes)
  BY StrBytesAre, Zenon
<1>2. PICK q \in Seq(Spellings) : q = <<Lex(Quote)>> /\ Len(q) = 1
  BY QuoteText, Zenon
<1>3. PICK y \in Seq(Spellings) : y = k \o q
  BY JoinedIn, Zenon
<1>4. PICK w \in Seq(Spellings) : w = q \o y
  BY JoinedIn, Zenon
<1>5. PICK item \in Seq(Lexemes) : item = b \o k
  BY <1>1, JoinedIn, Zenon
<1>6. PICK m \in Nat : m = Len(k)
  BY LenProperties
<1>7. Len(w) = m + 2 /\ Len(item) = m + 2
  <2>1. Len(k \o q) = Len(k) + Len(q)
    BY PartsOf
  <2>2. Len(q \o y) = Len(q) + Len(y)
    BY PartsOf
  <2>3. Len(b \o k) = Len(b) + Len(k)
    BY <1>1, PartsOf
  <2> QED BY <1>1, <1>2, <1>3, <1>4, <1>5, <1>6, <2>1, <2>2, <2>3
<1>8. ~(n >= TOK_MAX - 5) /\ n + (m + 2) <= TOK_MAX - 1
  BY <1>6, NoRoomLeft, Zenon
<1>13. item = StrBytes(Len(k)) \o k /\ w = <<Lex(Quote)>> \o (k \o <<Lex(Quote)>>)
  BY <1>1, <1>2, <1>3, <1>4, <1>5, Zenon
<1>9. Shows(item, w, Seq(Lexemes))
  <2>1. ASSUME NEW d \in Seq(Lexemes), NEW u \in Seq(Spellings)
        PROVE  UnlexTurn([toks |-> item \o d, out |-> u]) = [toks |-> d, out |-> u \o w]
    <3>1. UnlexTurn([toks |-> (StrBytes(Len(k)) \o k) \o d, out |-> u]) =
            [toks |-> d, out |-> u \o (<<Lex(Quote)>> \o (k \o <<Lex(Quote)>>))]
      BY StringShown, Zenon
    <3> QED BY <1>13, <3>1, Zenon
  <2> QED BY <2>1, Zenon DEF Shows
<1>10. Reads(w, item, n, Seq(Spellings))
  <2>1. ASSUME NEW t \in Seq(Spellings), NEW c \in Seq(Lexemes), Len(c) = n
        PROVE  LexTurn([text |-> w \o t, out |-> c]) = [text |-> t, out |-> c \o item]
    <3>1. ~(Len(c) >= TOK_MAX - 5) /\ Len(k) <= (TOK_MAX - 1 - Len(c)) - 2
      BY <1>8, <2>1, Zenon
    <3>2. LexTurn([text |-> (<<Lex(Quote)>> \o (k \o <<Lex(Quote)>>)) \o t, out |-> c]) =
            [text |-> t, out |-> c \o (StrBytes(Len(k)) \o k)]
      BY <3>1, StringRead, Zenon
    <3> QED BY <1>13, <3>2, Zenon
  <2> QED BY <2>1, Zenon DEF Reads
<1>11. Len(w) >= 1 /\ Len(w) <= Len(item) /\ n + Len(item) <= TOK_MAX - 1
  <2>1. m + 2 >= 1 /\ m + 2 <= m + 2
    OBVIOUS
  <2> QED BY <1>7, <1>8, <2>1, Zenon
<1>12. Item(item, w, n, Seq(Lexemes), Seq(Spellings))
  BY <1>9, <1>10, <1>11, Zenon DEF Item
<1> QED BY <1>1, <1>2, <1>3, <1>4, <1>5, <1>12, Zenon

LEMMA RemItem ==
  ASSUME NEW l \in Spellings, l.t = "REM", NEW k \in Seq(Spellings), NEW n \in Nat, n < TOK_MAX - 5,
         Len(k) <= (TOK_MAX - 1 - n) - 1
  PROVE  Item(<<l>> \o k, <<l>> \o k, n, {<< >>}, {<< >>})
<1>1. PICK item : item = <<l>> \o k
  OBVIOUS
<1>2. item \in Seq(Spellings) /\ Len(item) = Len(k) + 1 /\ Len(k) \in Nat
  BY <1>1, FirstOf, LenProperties, ZenonT(40)
<1>3. item \in Seq(Lexemes)
  BY <1>2, SpellingsIn, Zenon
<1>4. ~(n >= TOK_MAX - 5) /\ n + (Len(k) + 1) <= TOK_MAX - 1
  BY <1>2, NoRoomLeft, Zenon
<1>5. item \o << >> = item
  BY <1>3
<1>6. Shows(item, item, {<< >>})
  <2>1. ASSUME NEW u \in Seq(Spellings)
        PROVE  UnlexTurn([toks |-> item \o << >>, out |-> u]) = [toks |-> << >>, out |-> u \o item]
    BY <1>1, <1>5, RemShown, Zenon
  <2> QED BY <2>1, Zenon DEF Shows
<1>7. Reads(item, item, n, {<< >>})
  <2>1. ASSUME NEW c \in Seq(Lexemes), Len(c) = n
        PROVE  LexTurn([text |-> item \o << >>, out |-> c]) = [text |-> << >>, out |-> c \o item]
    <3>1. ~(Len(c) >= TOK_MAX - 5)
      BY <1>4, <2>1, Zenon
    <3>2. PICK r \in Int : r = (TOK_MAX - 1 - n) - 1
      BY TextFacts
    <3>3. r = (TOK_MAX - 1 - Len(c)) - 1 /\ Len(k) <= r
      BY <2>1, <3>2, Zenon
    <3> QED BY <1>1, <1>5, <3>1, <3>3, RemRead, Zenon
  <2> QED BY <2>1, Zenon DEF Reads
<1>8. Len(item) >= 1 /\ Len(item) <= Len(item) /\ n + Len(item) <= TOK_MAX - 1
  <2>1. Len(item) >= 1 /\ Len(item) <= Len(item)
    BY <1>2
  <2> QED BY <1>2, <1>4, <2>1, Zenon
<1> QED BY <1>1, <1>2, <1>3, <1>6, <1>7, <1>8, Zenon DEF Item

\* What each turn of tokenize puts out is an item.
Advance(text, c, n, rest, item, w) ==
  /\ LexTurn([text |-> text, out |-> c]) = [text |-> rest, out |-> c \o item]
  /\ \/ Item(item, w, n, Seq(Lexemes), Seq(Spellings))
     \/ rest = << >> /\ Item(item, w, n, {<< >>}, {<< >>})

LEMMA TurnItem ==
  ASSUME NEW text \in Seq(Spellings), text # << >>, NEW c \in Seq(Lexemes),
         NEW n \in Nat, n = Len(c), n < TOK_MAX - 5
  PROVE  \E rest \in Seq(Spellings) : \E item, w : Advance(text, c, n, rest, item, w)
<1>1. PICK l \in Spellings, rest \in Seq(Spellings) : l = Head(text) /\ rest = Tail(text)
  BY HeadTailProperties
<1>2. l.t \in Words /\ l.n \in Int /\ l \in Lexemes
  BY SpellingsIn DEF Lexemes
<1>3. ~(Len(c) >= TOK_MAX - 5)
  BY NoRoomLeft, Zenon
<1>4. CASE l.t = "REM"
  <2>1. PICK r \in Nat : r = (TOK_MAX - 1 - n) - 1
    BY NoRoomLeft, Zenon
  <2>2. PICK k \in Seq(Spellings) : k = Upto(rest, 1, r) /\ Len(k) <= r
    <3>1. r \in Int /\ r >= 0 /\ 1 \in Nat \ {0}
      OBVIOUS
    <3> QED BY <3>1, UptoIn, Zenon
  <2>3. LexTurn([text |-> text, out |-> c]) = [text |-> << >>, out |-> Append(c, l) \o k]
    BY <1>1, <1>3, <1>4, <2>1, <2>2, LexRem, Zenon
  <2>4. Append(c, l) \o k = c \o (<<l>> \o k)
    <3>1. k \in Seq(Lexemes)
      BY SpellingsIn, Zenon
    <3>2. PICK x \in Seq(Lexemes) : x = <<l>>
      BY <1>2, FirstOf, Zenon
    <3>3. Append(c, l) = c \o <<l>>
      BY <1>2, AppendIsConcat
    <3>4. (c \o x) \o k = c \o (x \o k)
      BY <3>1, Regrouped, Zenon
    <3> QED BY <3>2, <3>3, <3>4, Zenon
  <2>5. Item(<<l>> \o k, <<l>> \o k, n, {<< >>}, {<< >>})
    BY <1>4, <2>1, <2>2, RemItem, Zenon
  <2>6. << >> \in Seq(Spellings)
    OBVIOUS
  <2>7. Advance(text, c, n, << >>, <<l>> \o k, <<l>> \o k)
    BY <2>3, <2>4, <2>5, Zenon DEF Advance
  <2> QED BY <2>6, <2>7, Zenon
<1>5. CASE l.t = "digits"
  <2>1. PICK v \in Numbers : v = Wrapped(l.n)
    BY <1>2, NumeralIn
  <2>2. LexTurn([text |-> text, out |-> c]) = [text |-> rest, out |-> c \o NumBytes(v)]
    BY <1>1, <1>3, <1>5, <2>1, LexNumber, Zenon
  <2>3. Item(NumBytes(v), NumberText(v), n, Seq(Lexemes), Seq(Spellings))
    BY NumberItem, Zenon
  <2>4. Advance(text, c, n, rest, NumBytes(v), NumberText(v))
    BY <2>2, <2>3, Zenon DEF Advance
  <2> QED BY <2>4, Zenon
<1>6. CASE l.t = Quote
  <2>1. PICK k \in Seq(Spellings), left \in Seq(Spellings) :
          /\ k = StringInside(rest, n) /\ Len(k) <= (TOK_MAX - 1 - n) - 2 /\ Unquoted(k)
          /\ left = SubSeq(rest, StringPast(rest, n), Len(rest))
    BY StringKeptIn, Zenon
  <2>2. LexTurn([text |-> text, out |-> c]) = [text |-> left, out |-> c \o StrBytes(Len(k)) \o k]
    BY <1>1, <1>3, <1>6, <2>1, LexString, Zenon
  <2>3. (c \o StrBytes(Len(k))) \o k = c \o (StrBytes(Len(k)) \o k)
    <3>1. StrBytes(Len(k)) \in Seq(Lexemes) /\ k \in Seq(Lexemes)
      BY StrBytesAre, Zenon
    <3> QED BY <3>1, Regrouped, Zenon
  <2>4. Item(StrBytes(Len(k)) \o k, <<Lex(Quote)>> \o (k \o <<Lex(Quote)>>), n, Seq(Lexemes), Seq(Spellings))
    BY <2>1, StringItem, Zenon
  <2>5. Advance(text, c, n, left, StrBytes(Len(k)) \o k, <<Lex(Quote)>> \o (k \o <<Lex(Quote)>>))
    BY <2>2, <2>3, <2>4, Zenon DEF Advance
  <2> QED BY <2>5, Zenon
<1>7. CASE is_dig(l.t)
  <2>1. PICK k \in 0 .. Len(text) : k = DigitsAhead(text) /\ \A i \in 1 .. k : is_dig(text[i].t)
    BY DigitsAheadIn
  <2>2. IntOf(CharsUpto(text, k)) \in Numbers
    BY <2>1, CharsUptoIn, IntOfIn
  <2>3. PICK v \in Numbers : v = IntOf(CharsUpto(text, k))
    BY <2>2
  <2>4. PICK left \in Seq(Spellings) : left = SubSeq(text, k + 1, Len(text))
    <3>1. PICK m \in Nat \ {0}, e \in Nat : m = k + 1 /\ e = Len(text)
      BY <2>1, LenProperties
    <3>2. e <= Len(text)
      BY <3>1
    <3>3. SubSeq(text, m, e) \in Seq(Spellings)
      BY <3>2, PieceOf
    <3> QED BY <3>1, <3>3
  <2>5. LexTurn([text |-> text, out |-> c]) = [text |-> left, out |-> c \o NumBytes(v)]
    BY <1>1, <1>3, <1>7, <2>1, <2>3, <2>4, LexDigits, Zenon
  <2>6. Item(NumBytes(v), NumberText(v), n, Seq(Lexemes), Seq(Spellings))
    BY NumberItem, Zenon
  <2>7. Advance(text, c, n, left, NumBytes(v), NumberText(v))
    BY <2>5, <2>6, Zenon DEF Advance
  <2> QED BY <2>7, Zenon
<1>8. CASE l.t \notin {"REM", "digits", Quote} /\ ~is_dig(l.t)
  <2>1. LexTurn([text |-> text, out |-> c]) = [text |-> rest, out |-> Append(c, l)]
    BY <1>1, <1>3, <1>8, LexOther, Zenon
  <2>2. Append(c, l) = c \o <<l>>
    BY <1>2, AppendIsConcat
  <2>3. Item(<<l>>, <<l>>, n, Seq(Lexemes), Seq(Spellings))
    BY <1>8, OtherItem, Zenon
  <2>4. Advance(text, c, n, rest, <<l>>, <<l>>)
    BY <2>1, <2>2, <2>3, Zenon DEF Advance
  <2> QED BY <2>4, Zenon
<1> QED BY <1>4, <1>5, <1>6, <1>7, <1>8, Zenon

-----------------------------------------------------------------------------
(* The two loops, item by item: c is what tokenize has put out, and u what  *)
(* detokenize makes of it.                                                  *)

Shown(c, u, D) ==
  \E m \in 0 .. Len(c) : \A d \in D :
    UnlexRuns([toks |-> c \o d, out |-> << >>], m, [toks |-> d, out |-> u])
Read(u, c, T) ==
  \E m \in 0 .. Len(u) : \A t \in T :
    LexRuns([text |-> u \o t, out |-> << >>], m, [text |-> t, out |-> c])
Mirror(c, u, D, T) ==
  /\ c \in Seq(Lexemes) /\ u \in Seq(Spellings)
  /\ Len(u) <= Len(c) /\ Len(c) <= TOK_MAX - 1
  /\ Shown(c, u, D)
  /\ NonNeg(c) => Read(u, c, T)

LEMMA MirrorEmpty == Mirror(<< >>, << >>, Seq(Lexemes), Seq(Spellings))
<1>1. \A d \in Seq(Lexemes) : << >> \o d = d
  OBVIOUS
<1>2. \A t \in Seq(Spellings) : << >> \o t = t
  OBVIOUS
<1>3. << >> \in Seq(Lexemes) /\ << >> \in Seq(Spellings) /\ Len(<< >>) = 0 /\ 0 \in 0 .. 0 /\ 0 <= 0
  OBVIOUS
<1>4. 0 <= TOK_MAX - 1
  BY TextFacts
<1>5. Shown(<< >>, << >>, Seq(Lexemes))
  <2>1. ASSUME NEW d \in Seq(Lexemes)
        PROVE  UnlexRuns([toks |-> << >> \o d, out |-> << >>], 0, [toks |-> d, out |-> << >>])
    BY <1>1, RunsStart, Zenon
  <2> QED BY <1>3, <2>1, Zenon DEF Shown
<1>6. Read(<< >>, << >>, Seq(Spellings))
  <2>1. ASSUME NEW t \in Seq(Spellings)
        PROVE  LexRuns([text |-> << >> \o t, out |-> << >>], 0, [text |-> t, out |-> << >>])
    BY <1>2, RunsStart, Zenon
  <2> QED BY <1>3, <2>1, Zenon DEF Read
<1> QED BY <1>3, <1>4, <1>5, <1>6, Zenon DEF Mirror

LEMMA MirrorLess ==
  ASSUME NEW c, NEW u, Mirror(c, u, Seq(Lexemes), Seq(Spellings))
  PROVE  Mirror(c, u, {<< >>}, {<< >>})
<1>1. << >> \in Seq(Lexemes) /\ << >> \in Seq(Spellings)
  OBVIOUS
<1>2. Shown(c, u, {<< >>})
  <2>1. PICK m \in 0 .. Len(c) : \A d \in Seq(Lexemes) :
          UnlexRuns([toks |-> c \o d, out |-> << >>], m, [toks |-> d, out |-> u])
    BY Zenon DEF Mirror, Shown
  <2> QED BY <1>1, <2>1, Zenon DEF Shown
<1>3. ASSUME NonNeg(c) PROVE Read(u, c, {<< >>})
  <2>1. PICK m \in 0 .. Len(u) : \A t \in Seq(Spellings) :
          LexRuns([text |-> u \o t, out |-> << >>], m, [text |-> t, out |-> c])
    BY <1>3, Zenon DEF Mirror, Read
  <2> QED BY <1>1, <2>1, Zenon DEF Read
<1> QED BY <1>2, <1>3, Zenon DEF Mirror

LEMMA NonNegFront ==
  ASSUME NEW a \in Seq(Lexemes), NEW b \in Seq(Lexemes), NonNeg(a \o b)
  PROVE  NonNeg(a) /\ NonNeg(b)
<1>1. PICK m \in Nat, n \in Nat : m = Len(a) /\ n = Len(b)
  BY LenProperties
<1>2. PICK g : g = a \o b
  OBVIOUS
<1>3. /\ Len(g) = m + n
      /\ \A i \in 1 .. m : g[i] = a[i]
      /\ \A i \in 1 .. n : g[m + i] = b[i]
  BY <1>1, <1>2, ElementsOf
<1>4. \A i \in 1 .. m + n : g[i].n >= 0
  BY <1>2, <1>3 DEF NonNeg
<1>5. ASSUME NEW i \in 1 .. m PROVE a[i].n >= 0
  <2>1. i \in 1 .. m + n
    BY <1>1
  <2> QED BY <1>3, <1>4, <2>1
<1>6. ASSUME NEW i \in 1 .. n PROVE b[i].n >= 0
  <2>1. m + i \in 1 .. m + n
    BY <1>1
  <2> QED BY <1>3, <1>4, <2>1
<1> QED BY <1>1, <1>5, <1>6 DEF NonNeg

LEMMA ShownGrown ==
  ASSUME NEW c \in Seq(Lexemes), NEW u \in Seq(Spellings), Shown(c, u, Seq(Lexemes)),
         NEW item \in Seq(Lexemes), NEW w \in Seq(Spellings), Len(item) >= 1,
         NEW D, D \subseteq Seq(Lexemes), Shows(item, w, D)
  PROVE  Shown(c \o item, u \o w, D)
<1>1. PICK m \in 0 .. Len(c) : \A d \in Seq(Lexemes) :
        UnlexRuns([toks |-> c \o d, out |-> << >>], m, [toks |-> d, out |-> u])
  BY Zenon DEF Shown
<1>2. m \in Nat /\ m + 1 \in 0 .. Len(c \o item)
  <2>1. Len(c \o item) = Len(c) + Len(item) /\ Len(c) \in Nat /\ Len(item) \in Nat
    BY PartsOf
  <2> QED BY <2>1
<1>3. ASSUME NEW d \in D
      PROVE  UnlexRuns([toks |-> (c \o item) \o d, out |-> << >>], m + 1, [toks |-> d, out |-> u \o w])
  <2>1. d \in Seq(Lexemes)
    BY Zenon
  <2>2. PICK e \in Seq(Lexemes) : e = item \o d
    BY <2>1, JoinedIn, Zenon
  <2>3. (c \o item) \o d = c \o e
    BY <2>1, <2>2, Regrouped, ZenonT(40)
  <2>4. UnlexRuns([toks |-> c \o e, out |-> << >>], m, [toks |-> e, out |-> u])
    BY <1>1, Zenon
  <2>5. UnlexRuns([toks |-> c \o e, out |-> << >>], m + 1, UnlexTurn([toks |-> e, out |-> u]))
    BY <1>2, <2>4, UnlexRunsOn, Zenon
  <2>6. UnlexTurn([toks |-> e, out |-> u]) = [toks |-> d, out |-> u \o w]
    BY <2>2, Zenon DEF Shows
  <2> QED BY <2>3, <2>5, <2>6, Zenon
<1> QED BY <1>2, <1>3, Zenon DEF Shown

LEMMA ReadGrown ==
  ASSUME NEW c \in Seq(Lexemes), NEW u \in Seq(Spellings), Read(u, c, Seq(Spellings)),
         NEW item \in Seq(Lexemes), NEW w \in Seq(Spellings), Len(w) >= 1,
         NEW T, T \subseteq Seq(Spellings), Reads(w, item, Len(c), T)
  PROVE  Read(u \o w, c \o item, T)
<1>1. PICK m \in 0 .. Len(u) : \A t \in Seq(Spellings) :
        LexRuns([text |-> u \o t, out |-> << >>], m, [text |-> t, out |-> c])
  BY Zenon DEF Read
<1>2. m \in Nat /\ m + 1 \in 0 .. Len(u \o w)
  <2>1. Len(u \o w) = Len(u) + Len(w) /\ Len(u) \in Nat /\ Len(w) \in Nat
    BY PartsOf
  <2> QED BY <2>1
<1>3. ASSUME NEW t \in T
      PROVE  LexRuns([text |-> (u \o w) \o t, out |-> << >>], m + 1, [text |-> t, out |-> c \o item])
  <2>1. t \in Seq(Spellings)
    BY Zenon
  <2>2. PICK e \in Seq(Spellings) : e = w \o t
    BY <2>1, JoinedIn, Zenon
  <2>3. (u \o w) \o t = u \o e
    BY <2>1, <2>2, TextsRegrouped, ZenonT(30)
  <2>4. LexRuns([text |-> u \o e, out |-> << >>], m, [text |-> e, out |-> c])
    BY <1>1, Zenon
  <2>5. LexRuns([text |-> u \o e, out |-> << >>], m + 1, LexTurn([text |-> e, out |-> c]))
    BY <1>2, <2>4, LexRunsOn, Zenon
  <2>6. LexTurn([text |-> e, out |-> c]) = [text |-> t, out |-> c \o item]
    BY <2>2, Zenon DEF Reads
  <2> QED BY <2>3, <2>5, <2>6, Zenon
<1> QED BY <1>2, <1>3, Zenon DEF Read

LEMMA MirrorGrown ==
  ASSUME NEW c, NEW u, Mirror(c, u, Seq(Lexemes), Seq(Spellings)),
         NEW D, D \subseteq Seq(Lexemes), NEW T, T \subseteq Seq(Spellings),
         NEW item, NEW w, Item(item, w, Len(c), D, T)
  PROVE  Mirror(c \o item, u \o w, D, T)
<1>1. /\ c \in Seq(Lexemes) /\ u \in Seq(Spellings) /\ Len(u) <= Len(c)
      /\ Shown(c, u, Seq(Lexemes)) /\ (NonNeg(c) => Read(u, c, Seq(Spellings)))
  BY Zenon DEF Mirror
<1>2. /\ item \in Seq(Lexemes) /\ w \in Seq(Spellings) /\ Len(w) >= 1 /\ Len(w) <= Len(item)
      /\ Len(c) + Len(item) <= TOK_MAX - 1
      /\ Shows(item, w, D) /\ (NonNeg(item) => Reads(w, item, Len(c), T))
  BY Zenon DEF Item
<1>3. c \o item \in Seq(Lexemes) /\ u \o w \in Seq(Spellings)
  BY <1>1, <1>2, JoinedIn, Zenon
<1>4. Len(item) >= 1 /\ Len(u \o w) <= Len(c \o item) /\ Len(c \o item) <= TOK_MAX - 1
  <2>1. Len(c \o item) = Len(c) + Len(item) /\ Len(u \o w) = Len(u) + Len(w)
    BY <1>1, <1>2, PartsOf
  <2>2. Len(c) \in Nat /\ Len(item) \in Nat /\ Len(u) \in Nat /\ Len(w) \in Nat
    BY <1>1, <1>2, LenProperties
  <2> QED BY <1>1, <1>2, <2>1, <2>2, TextFacts
<1>5. Shown(c \o item, u \o w, D)
  BY <1>1, <1>2, <1>4, ShownGrown, Zenon
<1>6. ASSUME NonNeg(c \o item) PROVE Read(u \o w, c \o item, T)
  <2>1. NonNeg(c) /\ NonNeg(item)
    BY <1>1, <1>2, <1>6, NonNegFront, Zenon
  <2> QED BY <1>1, <1>2, <2>1, ReadGrown, Zenon
<1> QED BY <1>3, <1>4, <1>5, <1>6, Zenon DEF Mirror

MirrorStates ==
  {s \in [text : Seq(Spellings), out : Seq(Lexemes)] :
     \E u : IF s.text = << >> THEN Mirror(s.out, u, {<< >>}, {<< >>})
            ELSE Mirror(s.out, u, Seq(Lexemes), Seq(Spellings))}

LEMMA MirrorTurn == ASSUME NEW s \in MirrorStates PROVE LexTurn(s) \in MirrorStates
<1>1. CASE s.text = << >> \/ Len(s.out) >= TOK_MAX - 5
  <2>1. LexTurn(s) = s
    BY <1>1, Zenon DEF LexTurn
  <2> QED BY <2>1, Zenon
<1>2. CASE ~(s.text = << >> \/ Len(s.out) >= TOK_MAX - 5)
  <2>1. PICK text \in Seq(Spellings), c \in Seq(Lexemes) : s = [text |-> text, out |-> c] /\ s.text = text /\ s.out = c
    BY DEF MirrorStates
  <2>2. PICK u : Mirror(c, u, Seq(Lexemes), Seq(Spellings))
    BY <1>2, <2>1, Zenon DEF MirrorStates
  <2>3. PICK n \in Nat : n = Len(c) /\ n < TOK_MAX - 5
    <3>1. Len(c) \in Nat /\ ~(Len(c) >= TOK_MAX - 5)
      BY <1>2, <2>1, LenProperties
    <3> QED BY <3>1, TextFacts
  <2>4. PICK rest \in Seq(Spellings) : \E item, w : Advance(text, c, n, rest, item, w)
    <3>1. text # << >>
      BY <1>2, <2>1, Zenon
    <3> QED BY <2>3, <3>1, TurnItem, Zenon
  <2>5. PICK item, w : Advance(text, c, n, rest, item, w)
    BY <2>4, Zenon
  <2>6. /\ LexTurn(s) = [text |-> rest, out |-> c \o item]
        /\ LexTurn(s).text = rest /\ LexTurn(s).out = c \o item
    <3>1. LexTurn(s) = [text |-> rest, out |-> c \o item]
      BY <2>1, <2>5, Zenon DEF Advance
    <3> QED BY <3>1
  <2>7. << >> \in Seq(Lexemes) /\ << >> \in Seq(Spellings)
    OBVIOUS
  <2>8. IF rest = << >> THEN Mirror(c \o item, u \o w, {<< >>}, {<< >>})
        ELSE Mirror(c \o item, u \o w, Seq(Lexemes), Seq(Spellings))
    <3>1. CASE Item(item, w, n, Seq(Lexemes), Seq(Spellings))
      <4>1. Mirror(c \o item, u \o w, Seq(Lexemes), Seq(Spellings))
        BY <2>2, <2>3, <3>1, MirrorGrown, Zenon
      <4> QED BY <4>1, MirrorLess, Zenon
    <3>2. CASE rest = << >> /\ Item(item, w, n, {<< >>}, {<< >>})
      <4>1. Mirror(c \o item, u \o w, {<< >>}, {<< >>})
        <5>1. {<< >>} \subseteq Seq(Lexemes) /\ {<< >>} \subseteq Seq(Spellings)
          BY <2>7, Zenon
        <5> QED BY <2>2, <2>3, <3>2, <5>1, MirrorGrown, Zenon
      <4> QED BY <3>2, <4>1, Zenon
    <3> QED BY <2>5, <3>1, <3>2, Zenon DEF Advance
  <2>9. c \o item \in Seq(Lexemes)
    BY <2>8, Zenon DEF Mirror
  <2>10. LexTurn(s) \in [text : Seq(Spellings), out : Seq(Lexemes)]
    BY <2>6, <2>9
  <2> QED BY <2>6, <2>8, <2>10, Zenon DEF MirrorStates
<1> QED BY <1>1, <1>2

\* What comes of a text is read back as it was, unless a number in it is
\* negative.
LEMMA RoundTrip ==
  ASSUME NEW text \in Seq(Spellings), NEW c, c = tokenize(text)
  PROVE  NonNeg(c) => tokenize(Unlexed(c)) = c
<1> DEFINE x == [text |-> text, out |-> << >>]
<1>1. PICK n \in Nat : n = Len(text)
  BY LenProperties
<1>2. x \in MirrorStates
  <2>1. << >> \in Seq(Lexemes) /\ x.text = text /\ x.out = << >> /\ x \in [text : Seq(Spellings), out : Seq(Lexemes)]
    OBVIOUS
  <2>2. Mirror(<< >>, << >>, Seq(Lexemes), Seq(Spellings)) /\ Mirror(<< >>, << >>, {<< >>}, {<< >>})
    BY MirrorEmpty, MirrorLess, Zenon
  <2> HIDE DEF x
  <2> QED BY <2>1, <2>2, Zenon DEF MirrorStates
<1> HIDE DEF x
<1>3. \A y \in MirrorStates : LexTurn(y) \in MirrorStates
  BY MirrorTurn
<1>4. PICK it : /\ it[0] = x /\ tokenize(text) = it[n].out
                /\ \A k \in 1 .. n : it[k] = LexTurn(it[k - 1])
  BY <1>1, <1>2, <1>3, LexLoop DEF x
<1>5. StaysIn(it, MirrorStates, n)
  BY <1>2, <1>3, <1>4 DEF StaysIn
<1>6. it[n] \in MirrorStates
  BY <1>1, <1>5, LoopStays
<1>7. PICK u : Mirror(c, u, {<< >>}, {<< >>})
  BY <1>4, <1>6, MirrorLess, Zenon DEF MirrorStates
<1>8. /\ c \in Seq(Lexemes) /\ u \in Seq(Spellings)
      /\ Shown(c, u, {<< >>}) /\ (NonNeg(c) => Read(u, c, {<< >>}))
  BY <1>7, Zenon DEF Mirror
<1>9. c \o << >> = c /\ u \o << >> = u
  BY <1>8
<1>10. Unlexed(c) = u
  <2>1. PICK m \in 0 .. Len(c) : UnlexRuns([toks |-> c, out |-> << >>], m, [toks |-> << >>, out |-> u])
    BY <1>8, <1>9, Zenon DEF Shown
  <2>2. c \in Toks
    BY TokenizeIn, Zenon
  <2> QED BY <2>1, <2>2, UnlexRunsOut, Zenon
<1>11. ASSUME NonNeg(c) PROVE tokenize(u) = c
  <2>1. PICK m \in 0 .. Len(u) : LexRuns([text |-> u, out |-> << >>], m, [text |-> << >>, out |-> c])
    BY <1>8, <1>9, <1>11, Zenon DEF Read
  <2> QED BY <1>8, <2>1, LexRunsOut, Zenon
<1> QED BY <1>10, <1>11, Zenon

-----------------------------------------------------------------------------
(* The sizes of the front of a program and of a file.                       *)

LEMMA SumRises ==
  ASSUME NEW s \in Seq(Nat), NEW sum, IsSum(sum, s), NEW i \in 0 .. Len(s), NEW j \in 0 .. Len(s), i <= j
  PROVE  sum[i] \in Nat /\ sum[j] \in Nat /\ sum[i] <= sum[j]
<1>1. PICK n \in Nat : n = Len(s) /\ i \in 0 .. n /\ j \in 0 .. n
  BY LenProperties
<1>2. /\ \A k \in 0 .. n : sum[k] \in Nat
      /\ \A k \in 1 .. n : sum[k] = sum[k - 1] + s[k] /\ s[k] \in Nat
  BY <1>1, ElementOfSeq DEF IsSum
<1> DEFINE S == {k \in Nat : i + k <= n => sum[i] <= sum[i + k]}
<1>3. 0 \in S
  BY <1>1, <1>2
<1>4. ASSUME NEW k \in Nat, k \in S PROVE k + 1 \in S
  <2>1. ASSUME i + (k + 1) <= n PROVE sum[i] <= sum[i + (k + 1)]
    <3>1. i + (k + 1) \in 1 .. n /\ (i + (k + 1)) - 1 = i + k /\ i + k \in 0 .. n /\ i \in 0 .. n /\ i + k <= n
      BY <1>1, <2>1
    <3>2. sum[i + (k + 1)] = sum[i + k] + s[i + (k + 1)] /\ s[i + (k + 1)] \in Nat
      BY <1>2, <3>1
    <3>3. sum[i] <= sum[i + k] /\ sum[i] \in Nat /\ sum[i + k] \in Nat
      BY <1>2, <1>4, <3>1
    <3> QED BY <3>2, <3>3
  <2> QED BY <2>1
<1>5. j - i \in S
  <2> HIDE DEF S
  <2>1. j - i \in Nat
    BY <1>1
  <2>2. Nat \subseteq S
    BY <1>3, <1>4, InductionOnSets
  <2> QED BY <2>1, <2>2
<1>6. i + (j - i) = j
  BY <1>1
<1> QED BY <1>1, <1>2, <1>5, <1>6

LEMMA TotalFront ==
  ASSUME NEW s \in Seq(Nat), NEW sum, IsSum(sum, s), NEW k \in 0 .. Len(s)
  PROVE  Total(SubSeq(s, 1, k)) = sum[k]
<1>1. PICK n \in Nat : n = Len(s) /\ k \in Nat /\ k <= n
  BY LenProperties
<1>2. PICK t \in Seq(Nat) : t = SubSeq(s, 1, k) /\ Len(t) = k /\ \A i \in 1 .. k : t[i] = s[i]
  BY UptoFront
<1>3. PICK f : IsSum(f, t) /\ Total(t) = f[k]
  BY <1>2, TotalSum
<1>4. f[0] = 0 /\ sum[0] = 0 /\ \A i \in 1 .. k : f[i] = f[i - 1] + s[i]
  BY <1>2, <1>3 DEF IsSum
<1>5. \A i \in 1 .. k : sum[i] = sum[i - 1] + s[i]
  BY <1>1 DEF IsSum
<1> DEFINE S == {i \in Nat : i <= k => f[i] = sum[i]}
<1>6. 0 \in S
  BY <1>4
<1>7. ASSUME NEW i \in Nat, i \in S PROVE i + 1 \in S
  <2>1. ASSUME i + 1 <= k PROVE f[i + 1] = sum[i + 1]
    <3>1. i + 1 \in 1 .. k /\ (i + 1) - 1 = i /\ i <= k
      BY <1>1, <2>1
    <3>2. f[i] = sum[i]
      BY <1>7, <3>1
    <3> QED BY <1>4, <1>5, <3>1, <3>2
  <2> QED BY <2>1
<1>8. k \in S
  <2> HIDE DEF S
  <2> QED BY <1>1, <1>6, <1>7, InductionOnSets
<1> QED BY <1>1, <1>2, <1>3, <1>8

\* The front of a program fits into prog_buf like the whole.
LEMMA FrontStore ==
  ASSUME NEW p \in Stores, NEW k \in 0 .. Len(p)
  PROVE  SubSeq(p, 1, k) \in Stores
<1>1. p \in Seq(ProgLines) /\ Ordered(p) /\ prog_used(p) <= PROG_SIZE
  BY DEF Stores, Programs
<1>2. PICK n \in Nat : n = Len(p) /\ k \in Nat /\ k <= n
  BY LenProperties
<1>3. PICK q \in Seq(ProgLines) : q = SubSeq(p, 1, k) /\ Len(q) = k /\ \A i \in 1 .. k : q[i] = p[i]
  BY <1>1, UptoFront
<1>4. Ordered(q)
  <2>1. \A i \in 1 .. k : i \in 1 .. n
    BY <1>2
  <2> QED BY <1>1, <1>2, <1>3, <2>1 DEF Ordered
<1>5. prog_used(q) <= PROG_SIZE
  <2>1. PICK s \in Seq(Nat) : s = Sizes(p) /\ Len(s) = n /\ prog_used(p) = Total(s)
    BY <1>1, <1>2, SizesIn
  <2>2. PICK sum : IsSum(sum, s) /\ Total(s) = sum[n]
    BY <2>1, TotalSum
  <2>3. k \in 0 .. Len(s) /\ n \in 0 .. Len(s)
    BY <1>2, <2>1
  <2>4. Total(SubSeq(s, 1, k)) = sum[k] /\ sum[k] \in Nat /\ sum[n] \in Nat /\ sum[k] <= sum[n]
    BY <1>2, <2>2, <2>3, TotalFront, SumRises
  <2>5. Sizes(q) = SubSeq(s, 1, k)
    <3>1. PICK t \in Seq(Nat) : t = SubSeq(s, 1, k) /\ Len(t) = k /\ \A i \in 1 .. k : t[i] = s[i]
      BY <2>3, UptoFront
    <3>2. PICK z \in Seq(Nat) : z = Sizes(q) /\ Len(z) = k /\ \A i \in 1 .. k : z[i] = LineSize(q[i])
      BY <1>3, SizesIn
    <3>3. \A i \in 1 .. k : s[i] = LineSize(p[i])
      <4>1. \A i \in 1 .. k : i \in 1 .. Len(p)
        BY <1>2
      <4> QED BY <1>1, <2>1, <4>1, SizesIn
    <3>4. \A i \in 1 .. k : z[i] = t[i]
      BY <1>3, <3>1, <3>2, <3>3
    <3> QED BY <3>1, <3>2, <3>4, SeqEqual
  <2>6. prog_used(q) = Total(Sizes(q))
    BY SizesIn
  <2>7. prog_used(q) = sum[k] /\ prog_used(p) = sum[n]
    BY <2>1, <2>2, <2>4, <2>5, <2>6
  <2>8. PROG_SIZE \in Nat
    BY ProgramAssumption
  <2> QED BY <1>1, <2>4, <2>7, <2>8
<1> QED BY <1>3, <1>4, <1>5 DEF Stores, Programs

\* Lines that are put into a store, and the line that comes last.
LEMMA DeletedInto ==
  ASSUME NEW S, NEW p \in Programs, p \in Seq(S), NEW num \in Nat
  PROVE  prog_delete_line(p, num) \in Seq(S)
<1>1. CASE ~prog_has_line(p, num)
  BY <1>1 DEF prog_delete_line
<1>2. CASE prog_has_line(p, num)
  <2>1. PICK i : i = find_insert_pos(p, num)
    OBVIOUS
  <2>2. i \in 1 .. Len(p)
    <3>1. Len(p) \in Nat /\ i \in 1 .. Len(p) + 1 /\ i <= Len(p)
      BY <1>2, <2>1, LenProperties, PlaceOf, LinePlace
    <3> QED BY <3>1
  <2>3. RemoveAt(p, i) \in Seq(S)
    BY <2>2, RemovedLine
  <2> QED BY <1>2, <2>1, <2>3 DEF prog_delete_line
<1> QED BY <1>1, <1>2

LEMMA InsertedInto ==
  ASSUME NEW S, NEW p \in Stores, p \in Seq(S), NEW num \in Nat, NEW toks, [num |-> num, toks |-> toks] \in S
  PROVE  prog_insert_line(p, num, toks) \in Seq(S)
<1>1. p \in Programs
  BY DEF Stores
<1>2. PICK d : d = prog_delete_line(p, num)
  OBVIOUS
<1>3. d \in Seq(S) /\ d \in Programs
  BY <1>1, <1>2, DeletedInto, LineDeleted
<1>4. PICK l \in S : l = [num |-> num, toks |-> toks]
  OBVIOUS
<1>5. PICK i : i = find_insert_pos(d, num)
  OBVIOUS
<1>6. i \in 1 .. Len(d) + 1
  BY <1>3, <1>5, PlaceOf
<1>7. InsertAt(d, i, l) \in Seq(S)
  BY <1>3, <1>6, InsertedLine
<1>8. prog_insert_line(p, num, toks) = d \/ prog_insert_line(p, num, toks) = InsertAt(d, i, l)
  BY <1>2, <1>4, <1>5, Zenon DEF prog_insert_line
<1> QED BY <1>3, <1>7, <1>8, Zenon

LEMMA FrontGrown ==
  ASSUME NEW p \in Stores, NEW k \in Nat, k < Len(p)
  PROVE  prog_insert_line(SubSeq(p, 1, k), p[k + 1].num, p[k + 1].toks) = SubSeq(p, 1, k + 1)
<1>1. PICK n \in Nat : n = Len(p) /\ k + 1 \in 1 .. n /\ k + 1 \in 0 .. n /\ k \in 0 .. n
  BY LenProperties
<1>2. p \in Seq(ProgLines) /\ Ordered(p)
  BY DEF Stores, Programs
<1>3. PICK q : q = SubSeq(p, 1, k)
  OBVIOUS
<1>4. PICK g : g = SubSeq(p, 1, k + 1)
  OBVIOUS
<1>5. /\ q \in Stores /\ q \in Programs /\ q \in Seq(ProgLines)
      /\ Len(q) = k /\ \A i \in 1 .. k : q[i] = p[i]
  BY <1>1, <1>2, <1>3, FrontStore, UptoFront DEF Stores, Programs
<1>6. /\ g \in Stores /\ g \in Seq(ProgLines) /\ prog_used(g) <= PROG_SIZE
      /\ Len(g) = k + 1 /\ \A i \in 1 .. k + 1 : g[i] = p[i]
  BY <1>1, <1>2, <1>4, FrontStore, UptoFront DEF Stores, Programs
<1>7. PICK l \in ProgLines : l = p[k + 1]
  BY <1>1, <1>2, ElementOfSeq
<1>8. l.num \in Nat /\ l = [num |-> l.num, toks |-> l.toks]
  BY DEF ProgLines
<1>9. ASSUME NEW i \in 1 .. k PROVE q[i].num < l.num
  <2>1. i \in 1 .. n /\ i < k + 1
    BY <1>1
  <2>2. p[i].num < p[k + 1].num
    BY <1>1, <1>2, <2>1 DEF Ordered
  <2> QED BY <1>5, <1>7, <2>2
<1>10. find_insert_pos(q, l.num) = k + 1
  <2>1. PICK m : m = find_insert_pos(q, l.num)
    OBVIOUS
  <2>2. m \in 1 .. k + 1 /\ \A i \in 1 .. k : i < m <=> q[i].num < l.num
    BY <1>5, <1>8, <2>1, PlaceOf
  <2>3. ~(m \in 1 .. k)
    <3> SUFFICES ASSUME m \in 1 .. k PROVE FALSE
      OBVIOUS
    <3>1. m < m
      BY <1>9, <2>2
    <3> QED BY <2>2, <3>1
  <2>4. m = k + 1
    BY <2>2, <2>3
  <2> QED BY <2>1, <2>4
<1>11. ~prog_has_line(q, l.num)
  <2>1. ~(k + 1 <= k)
    OBVIOUS
  <2> QED BY <1>5, <1>8, <1>10, <2>1, LinePlace
<1>12. prog_delete_line(q, l.num) = q
  BY <1>11, Zenon DEF prog_delete_line
<1>13. PICK h : h = InsertAt(q, k + 1, l)
  OBVIOUS
<1>14. h \in Seq(ProgLines) /\ Inserted(q, h, k + 1) /\ h[k + 1] = l
  <2>1. PICK i \in 1 .. Len(q) + 1 : i = k + 1
    BY <1>5
  <2>2. InsertAt(q, i, l) \in Seq(ProgLines) /\ Inserted(q, InsertAt(q, i, l), i) /\ InsertAt(q, i, l)[i] = l
    <3>1. q \in Seq(ProgLines) /\ l \in ProgLines
      BY <1>5
    <3> QED BY <3>1, InsertedLine, ZenonT(40)
  <2> QED BY <1>13, <2>1, <2>2, Zenon
<1>15. h = g
  <2>1. Len(h) = k + 1 /\ \A i \in 1 .. (k + 1) - 1 : h[i] = q[i]
    BY <1>5, <1>14 DEF Inserted
  <2>2. ASSUME NEW i \in 1 .. k + 1 PROVE h[i] = g[i]
    <3>1. CASE i = k + 1
      BY <1>6, <1>7, <1>14, <3>1
    <3>2. CASE i # k + 1
      <4>1. i \in 1 .. k /\ i \in 1 .. (k + 1) - 1
        BY <3>2
      <4> QED BY <1>5, <1>6, <2>1, <4>1
    <3> QED BY <3>1, <3>2
  <2> QED BY <1>6, <1>14, <2>1, <2>2, SeqEqual
<1>16. ~(prog_used(q) + LineSize(l) > PROG_SIZE)
  <2>1. prog_used(q) \in Nat /\ LineSize(h[k + 1]) \in Nat /\ prog_used(h) = prog_used(q) + LineSize(h[k + 1])
    <3>1. k + 1 \in 1 .. Len(q) + 1
      BY <1>5
    <3> QED BY <1>5, <1>14, <3>1, UsedInserted
  <2> QED BY <1>6, <1>14, <1>15, <2>1, ProgramAssumption
<1>17. prog_insert_line(q, l.num, l.toks) = h
  BY <1>8, <1>10, <1>12, <1>13, <1>16, Zenon DEF prog_insert_line
<1> QED BY <1>3, <1>4, <1>7, <1>15, <1>17, Zenon

-----------------------------------------------------------------------------
(* The programs there can be: every line has been tokenized.                *)

MadeLines == {l \in ProgLines : Target(l.num) = l.num /\ \E text \in Seq(Spellings) : l.toks = tokenize(text)}
Made == {p \in Stores : p \in Seq(MadeLines)}

LEMMA TargetAgain == ASSUME NEW n \in Int PROVE Target(Target(n)) = Target(n)
BY DEF Target

LEMMA MadeEmpty == << >> \in Made
BY EmptyStore DEF Made

LEMMA MadeDeleted ==
  ASSUME NEW p \in Made, NEW num \in Nat
  PROVE  prog_delete_line(p, num) \in Made
<1>1. p \in Stores /\ p \in Programs /\ p \in Seq(MadeLines)
  BY DEF Made, Stores
<1>2. prog_delete_line(p, num) \in Stores
  BY <1>1, DeletedIn
<1>3. prog_delete_line(p, num) \in Seq(MadeLines)
  BY <1>1, DeletedInto
<1> QED BY <1>2, <1>3 DEF Made

LEMMA MadeInserted ==
  ASSUME NEW p \in Made, NEW num \in Nat \ {0}, Target(num) = num,
         NEW text \in Seq(Spellings), tokenize(text) # << >>
  PROVE  prog_insert_line(p, num, tokenize(text)) \in Made
<1>1. p \in Stores /\ p \in Seq(MadeLines) /\ num \in Nat
  BY DEF Made
<1>2. PICK toks \in Toks : toks = tokenize(text) /\ toks # << >>
  BY TokenizeIn
<1>3. [num |-> num, toks |-> toks] \in ProgLines
  BY <1>2 DEF ProgLines
<1>4. [num |-> num, toks |-> toks] \in MadeLines
  BY <1>2, <1>3 DEF MadeLines
<1>5. prog_insert_line(p, num, toks) \in Seq(MadeLines)
  BY <1>1, <1>4, InsertedInto
<1>6. prog_insert_line(p, num, toks) \in Stores
  BY <1>1, <1>2, LineInserted
<1> QED BY <1>2, <1>5, <1>6 DEF Made

LEMMA MadeTurn ==
  ASSUME NEW s \in LoadStates, s.prog \in Made
  PROVE  LoadTurn(s).prog \in Made
<1>1. CASE s.lines = << >> \/ s.room <= 0
  BY <1>1 DEF LoadTurn
<1>2. CASE ~(s.lines = << >> \/ s.room <= 0)
  <2>1. s.lines \in Seq(Lines) /\ s.room \in Int
    BY DEF LoadStates
  <2>2. PICK first \in Lines : first = Head(s.lines)
    BY <1>2, <2>1, HeadTailProperties
  <2>3. first.num \in Nat /\ first.text \in Seq(Spellings)
    BY DEF Lines
  <2>4. PICK num \in Nat : num = Target(first.num) /\ Target(num) = num
    BY <2>3, TargetIn, TargetAgain
  <2>5. PICK top \in Int : top = Min({LINE_MAX, s.room})
    <3>1. LINE_MAX \in Nat
      BY BasicAssumption, Zenon
    <3> QED BY <2>1, <3>1, LeastOfTwo
  <2>6. PICK text \in Seq(Spellings) :
          text = IF TextSize(first) - 1 <= top THEN first.text ELSE FrontOf(first.text, top - first.head, {})
    <3>1. first.head \in Nat
      BY DEF Lines
    <3>2. top - first.head \in Int
      BY <3>1
    <3> QED BY <2>3, <3>2, FrontOfIn
  <2>7. LoadTurn(s).prog = IF num = 0 \/ tokenize(text) = << >> THEN s.prog
                           ELSE prog_insert_line(s.prog, num, tokenize(text))
    <3>1. LoadTurn(s) = LoadStep(s)
      BY <1>2, Zenon DEF LoadTurn
    <3>2. PICK now : now = IF num = 0 \/ tokenize(text) = << >> THEN s.prog
                           ELSE prog_insert_line(s.prog, num, tokenize(text))
      OBVIOUS
    <3>3. PICK left : left = <<AsLine(BackOf(first.text, top - first.head))>> \o Tail(s.lines)
      OBVIOUS
    <3>4. LoadStep(s) = IF TextSize(first) - 1 <= top
                        THEN [lines |-> Tail(s.lines), room |-> s.room - TextSize(first), prog |-> now]
                        ELSE [lines |-> left, room |-> s.room - LINE_MAX, prog |-> now]
      BY <2>2, <2>4, <2>5, <2>6, <3>2, <3>3, Zenon DEF LoadStep
    <3> QED BY <3>1, <3>2, <3>4
  <2>8. num # 0 /\ tokenize(text) # << >> => prog_insert_line(s.prog, num, tokenize(text)) \in Made
    BY <2>4, MadeInserted
  <2> QED BY <2>7, <2>8
<1> QED BY <1>1, <1>2

LEMMA MadeLoaded ==
  ASSUME FilesIn, NEW f, Exists(f), NEW old
  PROVE  Loaded(f, old) \in Made
<1> DEFINE T == {y \in LoadStates : y.prog \in Made}
<1>1. PICK text \in Seq(Lines) : text = Content(f)
  BY ContentIn
<1>2. LOAD_MAX \in Int
  <2>1. LOAD_MAX \in Nat
    BY BasicAssumption, Zenon
  <2> QED BY <2>1
<1>3. PICK s : s = [lines |-> text, room |-> LOAD_MAX, prog |-> << >>]
  OBVIOUS
<1>4. s \in T
  BY <1>2, <1>3, EmptyStore, MadeEmpty DEF LoadStates
<1>5. \A y \in T : LoadTurn(y) \in T
  BY LoadTurnIn, MadeTurn
<1>6. Len(s.lines) \in Nat
  BY <1>1, <1>3, LenProperties
<1>11. PICK n \in Nat : n = LoadTurns(s.lines)
  BY <1>6, LoadTurnsIn
<1> HIDE DEF T
<1>7. PICK it : /\ it[0] = s /\ Parsed(s) = it[n].prog
                /\ \A k \in 1 .. n : it[k] = LoadTurn(it[k - 1])
  BY <1>4, <1>5, <1>6, <1>11, LoadLoop
<1>8. StaysIn(it, T, n)
  BY <1>4, <1>5, <1>7 DEF StaysIn
<1>9. it[n] \in T
  BY <1>8, LoopStays
<1>10. Loaded(f, old) = it[n].prog
  BY <1>1, <1>3, <1>7 DEF Loaded
<1> QED BY <1>9, <1>10 DEF T

-----------------------------------------------------------------------------
(* What SAVE writes: the lines of a program until SAVE_MAX is reached.      *)

TextSizes(lines) == [i \in 1 .. Len(lines) |-> TextSize(lines[i])]

LEMMA TextSizesIn ==
  ASSUME NEW lines \in Seq(Lines)
  PROVE  /\ TextSizes(lines) \in Seq(Nat) /\ Len(TextSizes(lines)) = Len(lines)
         /\ SizeOf(lines) = Total(TextSizes(lines))
         /\ \A i \in 1 .. Len(lines) : TextSizes(lines)[i] = TextSize(lines[i]) /\ TextSize(lines[i]) \in Nat
<1>1. PICK n \in Nat : n = Len(lines)
  BY LenProperties
<1>2. ASSUME NEW i \in 1 .. n PROVE TextSize(lines[i]) \in Nat
  <2>1. lines[i] \in Lines
    BY <1>1, ElementOfSeq
  <2> QED BY <2>1, TextSizeIn
<1>3. TextSizes(lines) \in Seq(Nat) /\ Len(TextSizes(lines)) = n
  BY <1>1, <1>2 DEF TextSizes
<1> QED BY <1>1, <1>2, <1>3 DEF TextSizes, SizeOf

\* The size of the first k lines.
LEMMA SizeFront ==
  ASSUME NEW lines \in Seq(Lines), NEW sum, IsSum(sum, TextSizes(lines)), NEW k \in 0 .. Len(lines)
  PROVE  SizeOf(SubSeq(lines, 1, k)) = sum[k]
<1>1. PICK s \in Seq(Nat) : /\ s = TextSizes(lines) /\ Len(s) = Len(lines)
                            /\ \A i \in 1 .. Len(lines) : s[i] = TextSize(lines[i])
  BY TextSizesIn
<1>2. PICK front \in Seq(Lines) : /\ front = SubSeq(lines, 1, k) /\ Len(front) = k
                                  /\ \A i \in 1 .. k : front[i] = lines[i]
  BY UptoFront
<1>3. PICK t \in Seq(Nat) : t = SubSeq(s, 1, k) /\ Len(t) = k /\ \A i \in 1 .. k : t[i] = s[i]
  <2>1. k \in 0 .. Len(s)
    BY <1>1
  <2> QED BY <2>1, UptoFront
<1>4. PICK z \in Seq(Nat) : /\ z = TextSizes(front) /\ Len(z) = k /\ SizeOf(front) = Total(z)
                            /\ \A i \in 1 .. k : z[i] = TextSize(front[i])
  BY <1>2, TextSizesIn
<1>5. z = t
  <2>1. ASSUME NEW i \in 1 .. k PROVE z[i] = t[i]
    <3>1. i \in 1 .. Len(lines)
      <4>1. Len(lines) \in Nat
        BY LenProperties
      <4> QED BY <4>1
    <3> QED BY <1>1, <1>2, <1>3, <1>4, <3>1
  <2> QED BY <1>3, <1>4, <2>1, SeqEqual
<1>6. Total(t) = sum[k]
  <2>1. k \in 0 .. Len(s)
    BY <1>1
  <2> QED BY <1>1, <1>3, <2>1, TotalFront
<1> QED BY <1>2, <1>4, <1>5, <1>6, Zenon

TextLine(l) == [num |-> l.num, head |-> HeadSize(l.num), text |-> detokenize(l.toks)]

LEMMA TextOf ==
  ASSUME NEW p \in Stores
  PROVE  /\ AsText(p) \in Seq(Lines) /\ Len(AsText(p)) = Len(p)
         /\ \A i \in 1 .. Len(p) : AsText(p)[i] = TextLine(p[i])
<1>1. p \in Seq(ProgLines)
  BY DEF Stores, Programs
<1>2. PICK n \in Nat : n = Len(p)
  BY <1>1, LenProperties
<1>3. ASSUME NEW i \in 1 .. n
      PROVE  TextLine(p[i]) \in Lines
  <2>1. p[i].num \in Nat /\ p[i].toks \in Toks
    BY <1>1, <1>2, LineIn
  <2>2. detokenize(p[i].toks) \in Seq(Spellings)
    BY <2>1, DetokenizeIn
  <2>3. HeadSize(p[i].num) \in Nat
    BY <2>1, HeadSizeIn
  <2> QED BY <2>1, <2>2, <2>3 DEF Lines, TextLine
<1>4. AsText(p) = [i \in 1 .. n |-> TextLine(p[i])]
  BY <1>2 DEF AsText, TextLine
<1> QED BY <1>2, <1>3, <1>4

\* n lines are written, and all when the text is no larger than SAVE_MAX.
SavedUpTo(p, lines, sum, n) ==
  /\ IsSum(sum, TextSizes(lines)) /\ Saved(p) = SubSeq(lines, 1, n)
  /\ \A k \in 0 .. n - 1 : sum[k] < SAVE_MAX
  /\ SizeOf(lines) <= SAVE_MAX => n = Len(p)

LEMMA SavedFront ==
  ASSUME NEW p \in Stores
  PROVE  \E n \in 0 .. Len(p) : \E sum : SavedUpTo(p, AsText(p), sum, n)
<1>1. PICK lines \in Seq(Lines) : lines = AsText(p) /\ Len(lines) = Len(p)
  BY TextOf
<1>2. PICK len \in Nat : len = Len(p) /\ len = Len(lines)
  BY <1>1, LenProperties
<1>3. PICK s \in Seq(Nat) : /\ s = TextSizes(lines) /\ Len(s) = len /\ SizeOf(lines) = Total(s)
                            /\ \A i \in 1 .. len : s[i] = TextSize(lines[i])
  BY <1>2, TextSizesIn
<1>4. PICK sum : IsSum(sum, s) /\ Total(s) = sum[len]
  BY <1>3, TotalSum
<1>5. /\ \A k \in 0 .. len : sum[k] \in Nat
      /\ \A k \in 1 .. len : sum[k] = sum[k - 1] + s[k]
  BY <1>3, <1>4 DEF IsSum
<1>6. SAVE_MAX \in Nat
  BY BasicAssumption, Zenon
<1> DEFINE S == {k \in 0 .. len : k = len \/ SizeOf(SubSeq(lines, 1, k)) >= SAVE_MAX}
<1>7. PICK n \in 0 .. len : n = Min(S) /\ n \in S /\ \A y \in S : n <= y
  <2>1. S \subseteq Nat /\ len \in S
    OBVIOUS
  <2> HIDE DEF S
  <2>2. Min(S) \in S /\ \A y \in S : Min(S) <= y
    BY <2>1, LeastIn
  <2>3. S \subseteq 0 .. len
    BY DEF S
  <2> QED BY <2>2, <2>3
<1>8. Saved(p) = SubSeq(lines, 1, n)
  <2>1. Saved(p) = SubSeq(lines, 1, Min(S))
    BY <1>1, <1>2, Zenon DEF Saved
  <2> QED BY <1>7, <2>1, Zenon
<1>9. \A k \in 0 .. len : SizeOf(SubSeq(lines, 1, k)) = sum[k]
  <2>1. IsSum(sum, TextSizes(lines))
    BY <1>3, <1>4, Zenon
  <2> QED BY <1>2, <2>1, SizeFront
<1>10. n = len \/ sum[n] >= SAVE_MAX
  BY <1>7, <1>9
<1>11. ASSUME NEW k \in 0 .. n - 1 PROVE sum[k] < SAVE_MAX
  <2>1. k \in 0 .. len /\ k < n /\ ~(n <= k)
    BY <1>7
  <2>2. k \notin S
    BY <1>7, <2>1
  <2>3. ~(sum[k] >= SAVE_MAX)
    BY <1>9, <2>1, <2>2
  <2> QED BY <1>5, <1>6, <2>1, <2>3
<1> HIDE DEF S
<1>12. ASSUME SizeOf(lines) <= SAVE_MAX, n # len PROVE FALSE
  <2>1. n + 1 \in 1 .. len /\ n + 1 \in 0 .. len /\ (n + 1) - 1 = n /\ n + 1 <= len /\ len \in 0 .. len
    BY <1>7, <1>12
  <2>2. sum[n] \in Nat /\ sum[n] >= SAVE_MAX /\ sum[n + 1] = sum[n] + s[n + 1]
    BY <1>5, <1>7, <1>10, <1>12, <2>1
  <2>3. s[n + 1] \in Nat /\ s[n + 1] > 0
    <3>0. lines[n + 1] \in Lines
      BY <1>2, <2>1, ElementOfSeq
    <3>1. lines[n + 1].head \in Nat /\ lines[n + 1].text \in Seq(Spellings)
      BY <3>0 DEF Lines
    <3>2. Width(lines[n + 1].text) \in Nat
      BY <3>1, WidthIn
    <3>3. TextSize(lines[n + 1]) = lines[n + 1].head + Width(lines[n + 1].text) + 1
      BY <3>0, TextSizeIn
    <3>4. s[n + 1] = TextSize(lines[n + 1])
      BY <1>3, <2>1
    <3> QED BY <3>1, <3>2, <3>3, <3>4
  <2>4. sum[n + 1] \in Nat /\ sum[len] \in Nat /\ sum[n + 1] <= sum[len]
    <3>1. n + 1 \in 0 .. Len(s) /\ len \in 0 .. Len(s) /\ n + 1 <= len
      BY <1>3, <2>1
    <3> QED BY <1>4, <3>1, SumRises
  <2>5. sum[len] <= SAVE_MAX
    BY <1>3, <1>4, <1>12
  <2> QED BY <1>6, <2>2, <2>3, <2>4, <2>5
<1>13. SavedUpTo(p, lines, sum, n)
  BY <1>2, <1>3, <1>4, <1>8, <1>11, <1>12 DEF SavedUpTo
<1> QED BY <1>1, <1>2, <1>13

-----------------------------------------------------------------------------
(* LOAD of what SAVE has written: turn by turn the lines come back.         *)

AllPlain(old) == \A j \in DOMAIN old : Plain1(old[j])
Like(old) == {l \in ProgLines : \E j \in DOMAIN old : l.num = old[j].num /\ (Plain1(old[j]) => l = old[j])}

\* After j turns.
Loading(old, sum, n, j) ==
  {s \in LoadStates : /\ s.lines = SubSeq(AsText(old), j + 1, n) /\ s.room = LOAD_MAX - sum[j]
                      /\ s.prog \in Seq(Like(old))
                      /\ AllPlain(old) => s.prog = SubSeq(old, 1, j)}

AllShort(old) == \A j \in DOMAIN old : Short(old[j])

\* A line that is read again: it fits, and nothing of it is cut off.
LEMMA LineComesBack ==
  ASSUME NEW l \in MadeLines, Short(l), NEW room \in Int, room >= LOAD_MAX - SAVE_MAX
  PROVE  /\ detokenize(l.toks) \in Seq(Spellings)
         /\ TextSize(TextLine(l)) - 1 <= Min({LINE_MAX, room})
         /\ Plain1(l) => tokenize(detokenize(l.toks)) = l.toks
<1>1. PICK text \in Seq(Spellings) : l.toks = tokenize(text)
  BY DEF MadeLines
<1>2. PICK c : c = l.toks /\ c = tokenize(text)
  BY <1>1
<1>3. c \in Toks /\ c \in Seq(Lexemes)
  BY <1>2, TokenizeIn
<1>4. NonNeg(c) => tokenize(Unlexed(c)) = c
  BY <1>2, RoundTrip
<1>5. PICK w \in Seq(Spellings) : w = Unlexed(c)
  BY <1>3, UnlexedIn
<1>6. PICK len \in Nat, head \in Nat : len = Width(w) /\ head = HeadSize(l.num)
  <2>1. l.num \in Int
    BY DEF MadeLines, ProgLines
  <2> QED BY <1>5, <2>1, WidthIn, HeadSizeIn
<1>7. head + len <= LINE_MAX
  BY <1>2, <1>5, <1>6 DEF Short
<1>8. /\ LINE_MAX \in Nat /\ DETOK_MAX \in Nat /\ LINE_MAX <= DETOK_MAX
      /\ SAVE_MAX \in Nat /\ LOAD_MAX \in Nat /\ SAVE_MAX + DETOK_MAX + 7 <= LOAD_MAX
  BY BasicAssumption, SpellAssumption, Zenon
<1>9. detokenize(c) = w
  <2>1. len <= DETOK_MAX
    BY <1>6, <1>7, <1>8
  <2> QED BY <1>5, <1>6, <2>1, Zenon DEF detokenize
<1>10. TextSize(TextLine(l)) = head + len + 1
  BY <1>2, <1>6, <1>9 DEF TextSize, TextLine
<1>11. head + len + 1 - 1 <= Min({LINE_MAX, room})
  <2>1. room >= LINE_MAX
    BY <1>8
  <2>2. Min({LINE_MAX, room}) = LINE_MAX
    BY <1>8, <2>1, LeastOfTwo
  <2> QED BY <1>6, <1>7, <1>8, <2>2
<1>12. Plain1(l) => NonNeg(c)
  <2>1. DOMAIN c = 1 .. Len(c)
    BY <1>3
  <2> QED BY <1>2, <2>1 DEF Plain1, NonNeg
<1>13. TextSize(TextLine(l)) - 1 <= Min({LINE_MAX, room})
  BY <1>10, <1>11
<1> QED BY <1>2, <1>4, <1>5, <1>9, <1>12, <1>13, Zenon

\* The lines that are left.
LEMMA LinesLeft ==
  ASSUME NEW S, NEW s \in Seq(S), NEW n \in 0 .. Len(s), NEW j \in 0 .. n - 1
  PROVE  LET t == SubSeq(s, j + 1, n)
         IN t # << >> /\ Head(t) = s[j + 1] /\ Tail(t) = SubSeq(s, (j + 1) + 1, n)
<1>1. PICK len \in Nat : len = Len(s)
  BY LenProperties
<1>2. j + 1 \in Nat \ {0} /\ (j + 1) + 1 \in Nat \ {0} /\ n \in Int /\ n <= len /\ j + 1 <= n
  BY <1>1
<1>3. PICK t \in Seq(S) : /\ t = SubSeq(s, j + 1, n) /\ Len(t) = n - (j + 1) + 1
                          /\ \A i \in 1 .. n - (j + 1) + 1 : t[i] = s[(j + 1) + i - 1]
  <2>1. PICK a \in Nat \ {0} : a = j + 1 /\ a <= n /\ n \in Int /\ n <= Len(s)
    BY <1>1, <1>2
  <2>2. /\ SubSeq(s, a, n) \in Seq(S) /\ Len(SubSeq(s, a, n)) = n - a + 1
        /\ \A i \in 1 .. n - a + 1 : SubSeq(s, a, n)[i] = s[a + i - 1]
    BY <2>1, PieceOf
  <2> QED BY <2>1, <2>2, Zenon
<1>4. PICK u \in Seq(S) : /\ u = SubSeq(s, (j + 1) + 1, n)
                          /\ Len(u) = IF (j + 1) + 1 <= n THEN n - ((j + 1) + 1) + 1 ELSE 0
                          /\ \A i \in 1 .. n - ((j + 1) + 1) + 1 : u[i] = s[((j + 1) + 1) + i - 1]
  <2>1. PICK a \in Nat \ {0} : a = (j + 1) + 1 /\ n \in Int /\ n <= Len(s)
    BY <1>1, <1>2
  <2>2. /\ SubSeq(s, a, n) \in Seq(S) /\ Len(SubSeq(s, a, n)) = IF a <= n THEN n - a + 1 ELSE 0
        /\ \A i \in 1 .. n - a + 1 : SubSeq(s, a, n)[i] = s[a + i - 1]
    BY <2>1, PieceOf
  <2> QED BY <2>1, <2>2, Zenon
<1>5. Len(t) = n - j /\ n - j >= 1 /\ n - j \in Nat
  BY <1>1, <1>2, <1>3
<1>6. t # << >>
  BY <1>5
<1>7. /\ Tail(t) \in Seq(S) /\ Len(Tail(t)) = Len(t) - 1
      /\ \A i \in 1 .. Len(Tail(t)) : Tail(t)[i] = t[i + 1]
  BY <1>6, HeadTailProperties
<1>8. Head(t) = t[1] /\ t[1] = s[j + 1]
  <2>1. 1 \in 1 .. n - (j + 1) + 1 /\ (j + 1) + 1 - 1 = j + 1
    BY <1>1, <1>2
  <2>2. t[1] = s[j + 1]
    BY <1>3, <2>1
  <2> QED BY <2>2
<1>9. Tail(t) = u
  <2>1. Len(Tail(t)) = n - j - 1 /\ Len(u) = n - j - 1
    BY <1>1, <1>2, <1>4, <1>5, <1>7
  <2>2. ASSUME NEW i \in 1 .. n - j - 1 PROVE Tail(t)[i] = u[i]
    <3>1. i \in 1 .. Len(Tail(t)) /\ i + 1 \in 1 .. n - (j + 1) + 1 /\ i \in 1 .. n - ((j + 1) + 1) + 1
      BY <1>1, <1>2, <2>1
    <3>2. (j + 1) + (i + 1) - 1 = ((j + 1) + 1) + i - 1
      BY <1>2
    <3>3. t[i + 1] = s[(j + 1) + (i + 1) - 1]
      BY <1>3, <3>1
    <3>4. u[i] = s[((j + 1) + 1) + i - 1]
      BY <1>4, <3>1
    <3>5. Tail(t)[i] = t[i + 1]
      BY <1>7, <3>1
    <3> QED BY <3>2, <3>3, <3>4, <3>5, Zenon
  <2> HIDE <1>7
  <2>3. Tail(t) \in Seq(S)
    BY <1>7
  <2> QED BY <2>1, <2>2, <2>3, SeqEqual
<1> QED BY <1>3, <1>4, <1>6, <1>8, <1>9, Zenon

LEMMA LoadingTurn ==
  ASSUME NEW old \in Made, AllShort(old), NEW n \in 0 .. Len(old), NEW sum, SavedUpTo(old, AsText(old), sum, n),
         NEW j \in 0 .. n - 1, NEW s \in Loading(old, sum, n, j)
  PROVE  LoadTurn(s) \in Loading(old, sum, n, j + 1)
<1>1. old \in Stores /\ old \in Seq(MadeLines) /\ old \in Seq(ProgLines)
  BY DEF Made, Stores, Programs
<1>2. PICK len \in Nat : len = Len(old) /\ n \in 0 .. len /\ j \in Nat /\ j < n /\ j + 1 \in 1 .. len /\ j < len
  BY <1>1, LenProperties
<1>3. PICK lines \in Seq(Lines) : lines = AsText(old) /\ Len(lines) = len
  BY <1>1, <1>2, TextOf
<1>4. PICK l \in MadeLines : l = old[j + 1]
  BY <1>1, <1>2, ElementOfSeq
<1>5. l \in ProgLines /\ l.num \in Nat \ {0} /\ Target(l.num) = l.num /\ l.toks # << >> /\ l = [num |-> l.num, toks |-> l.toks]
  BY <1>4 DEF MadeLines, ProgLines
<1>6. PICK text \in Seq(Spellings) : text = detokenize(l.toks)
  BY <1>5, DetokenizeIn DEF ProgLines
<1>7. lines[j + 1] = TextLine(l)
  BY <1>1, <1>2, <1>3, <1>4, <1>6, TextOf
<1>8. /\ s \in LoadStates /\ s.lines = SubSeq(lines, j + 1, n) /\ s.room = LOAD_MAX - sum[j]
      /\ s.prog \in Seq(Like(old)) /\ s.prog \in Stores /\ s.room \in Int
      /\ AllPlain(old) => s.prog = SubSeq(old, 1, j)
  BY <1>3 DEF Loading, LoadStates
<1>9. /\ sum[j] \in Nat /\ sum[j] < SAVE_MAX /\ sum[j + 1] = sum[j] + TextSize(TextLine(l))
  <2>1. PICK z \in Seq(Nat) : z = TextSizes(lines) /\ Len(z) = len /\ \A i \in 1 .. len : z[i] = TextSize(lines[i])
    BY <1>3, TextSizesIn
  <2>2. IsSum(sum, z) /\ \A k \in 0 .. n - 1 : sum[k] < SAVE_MAX
    BY <1>3, <2>1 DEF SavedUpTo
  <2>3. j \in 0 .. len /\ (j + 1) - 1 = j
    BY <1>2
  <2>4. sum[j] \in Nat /\ sum[j + 1] = sum[j] + z[j + 1]
    BY <1>2, <2>1, <2>2, <2>3 DEF IsSum
  <2>5. z[j + 1] = TextSize(TextLine(l))
    BY <1>2, <1>7, <2>1
  <2> QED BY <2>2, <2>4, <2>5
<1>10. SAVE_MAX \in Nat /\ LOAD_MAX \in Nat /\ SAVE_MAX < LOAD_MAX
  <2>1. SAVE_MAX \in Nat /\ LOAD_MAX \in Nat /\ DETOK_MAX \in Nat /\ SAVE_MAX + DETOK_MAX + 7 <= LOAD_MAX
    BY BasicAssumption, SpellAssumption, Zenon
  <2> QED BY <2>1
<1>11. s.room >= LOAD_MAX - SAVE_MAX /\ ~(s.room <= 0)
  BY <1>8, <1>9, <1>10
<1>12. /\ s.lines # << >> /\ Head(s.lines) = lines[j + 1]
       /\ Tail(s.lines) = SubSeq(lines, (j + 1) + 1, n)
  <2>1. n \in 0 .. Len(lines)
    BY <1>2, <1>3
  <2> QED BY <1>8, <2>1, LinesLeft
<1>13. /\ TextSize(TextLine(l)) - 1 <= Min({LINE_MAX, s.room})
       /\ Plain1(l) => tokenize(text) = l.toks
  <2>1. Short(l)
    <3>1. j + 1 \in DOMAIN old
      BY <1>1, <1>2
    <3> QED BY <1>4, <3>1 DEF AllShort
  <2> QED BY <1>6, <1>8, <1>11, <2>1, LineComesBack
<1>14. PICK toks \in Toks : toks = tokenize(text)
  BY TokenizeIn
<1>15. PICK new : new = IF toks = << >> THEN s.prog ELSE prog_insert_line(s.prog, l.num, toks)
  OBVIOUS
<1>16. LoadTurn(s) = [lines |-> SubSeq(lines, (j + 1) + 1, n), room |-> s.room - TextSize(TextLine(l)), prog |-> new]
  <2>1. LoadTurn(s) = LoadStep(s)
    BY <1>11, <1>12, Zenon DEF LoadTurn
  <2>2. PICK first : first = TextLine(l)
    OBVIOUS
  <2>3. Head(s.lines) = first /\ first.num = l.num /\ first.text = text /\ Target(l.num) = l.num /\ l.num # 0
    BY <1>5, <1>6, <1>7, <1>12, <2>2 DEF TextLine
  <2>4. LoadStep(s) = [lines |-> Tail(s.lines), room |-> s.room - TextSize(first), prog |-> new]
    BY <1>13, <1>14, <1>15, <2>2, <2>3, Zenon DEF LoadStep
  <2> QED BY <1>12, <2>1, <2>2, <2>4, Zenon
<1>17. new \in Seq(Like(old))
  <2>1. CASE toks = << >>
    BY <1>8, <1>15, <2>1
  <2>2. CASE toks # << >>
    <3>1. [num |-> l.num, toks |-> toks] \in ProgLines
      BY <1>5, <2>2 DEF ProgLines
    <3>2. j + 1 \in DOMAIN old
      BY <1>1, <1>2
    <3>3. Plain1(l) => [num |-> l.num, toks |-> toks] = l
      BY <1>5, <1>13, <1>14
    <3>4. [num |-> l.num, toks |-> toks] \in Like(old)
      BY <1>4, <3>1, <3>2, <3>3 DEF Like
    <3>5. prog_insert_line(s.prog, l.num, toks) \in Seq(Like(old))
      BY <1>5, <1>8, <3>4, InsertedInto
    <3> QED BY <1>15, <2>2, <3>5
  <2> QED BY <2>1, <2>2
<1>18. AllPlain(old) => new = SubSeq(old, 1, j + 1)
  <2> SUFFICES ASSUME AllPlain(old) PROVE new = SubSeq(old, 1, j + 1)
    OBVIOUS
  <2>1. j + 1 \in DOMAIN old
    BY <1>1, <1>2
  <2>2. Plain1(l)
    BY <1>4, <2>1 DEF AllPlain
  <2>3. toks = l.toks /\ toks # << >> /\ s.prog = SubSeq(old, 1, j)
    BY <1>5, <1>8, <1>13, <1>14, <2>2
  <2>4. prog_insert_line(SubSeq(old, 1, j), old[j + 1].num, old[j + 1].toks) = SubSeq(old, 1, j + 1)
    BY <1>1, <1>2, FrontGrown
  <2> QED BY <1>4, <1>15, <2>3, <2>4, Zenon
<1>19. LoadTurn(s) \in LoadStates
  BY <1>8, LoadTurnIn
<1>20. s.room - TextSize(TextLine(l)) = LOAD_MAX - sum[j + 1]
  <2>1. TextSize(TextLine(l)) \in Nat
    <3>1. j + 1 \in 1 .. Len(lines)
      BY <1>2, <1>3
    <3>2. lines[j + 1] \in Lines
      BY <3>1, ElementOfSeq
    <3> QED BY <1>7, <3>2, TextSizeIn
  <2> QED BY <1>8, <1>9, <1>10, <2>1
<1> QED BY <1>3, <1>16, <1>17, <1>18, <1>19, <1>20 DEF Loading

LEMMA ComesBack ==
  ASSUME NEW old \in Made, AllShort(old)
  PROVE  Restored(Parsed([lines |-> Saved(old), room |-> LOAD_MAX, prog |-> << >>]), old)
<1>1. old \in Stores /\ old \in Seq(ProgLines)
  BY DEF Made, Stores, Programs
<1>0. PICK n \in 0 .. Len(old) : \E sum : SavedUpTo(old, AsText(old), sum, n)
  BY <1>1, SavedFront
<1>2. PICK sum : SavedUpTo(old, AsText(old), sum, n)
  BY <1>0
<1>3. PICK lines \in Seq(Lines) : lines = AsText(old) /\ Len(lines) = Len(old)
  BY <1>1, TextOf
<1>4. n \in Nat /\ n <= Len(old) /\ Len(old) \in Nat
  BY <1>1, LenProperties
<1>5. PICK text \in Seq(Lines) : text = Saved(old) /\ text = SubSeq(lines, 1, n) /\ Len(text) = n
  BY <1>2, <1>3, UptoFront DEF SavedUpTo
<1>6. PICK s : s = [lines |-> text, room |-> LOAD_MAX, prog |-> << >>]
  OBVIOUS
<1>7. LOAD_MAX \in Nat
  BY BasicAssumption, Zenon
<1>8. s \in LoadStates
  BY <1>6, <1>7, EmptyStore DEF LoadStates
<1>9. s \in Loading(old, sum, n, 0)
  <2>1. sum[0] = 0
    BY <1>2 DEF SavedUpTo, IsSum
  <2>2. << >> \in Seq(Like(old)) /\ SubSeq(old, 1, 0) = << >>
    BY SubSeqEmpty
  <2>3. s.lines = SubSeq(AsText(old), 0 + 1, n) /\ s.room = LOAD_MAX - sum[0] /\ s.prog = << >>
    BY <1>3, <1>5, <1>6, <1>7, <2>1
  <2> QED BY <1>8, <2>2, <2>3 DEF Loading
<1>18. PICK m \in Nat : m = LoadTurns(s.lines) /\ n <= m
  <2>1. Len(s.lines) = n
    BY <1>5, <1>6
  <2> QED BY <1>4, <2>1, LoadTurnsIn
<1>10. PICK it : /\ it[0] = s /\ Parsed(s) = it[m].prog
                 /\ \A k \in 1 .. m : it[k] = LoadTurn(it[k - 1])
  <2>1. Len(s.lines) \in Nat
    BY <1>4, <1>5, <1>6
  <2> QED BY <1>8, <1>18, <2>1, LoadTurnIn, LoadLoop
<1> DEFINE S == {k \in Nat : k <= m => it[k] \in Loading(old, sum, n, IF k <= n THEN k ELSE n)}
<1>11. 0 \in S
  BY <1>4, <1>9, <1>10
<1>12. ASSUME NEW k \in Nat, k \in S PROVE k + 1 \in S
  <2> SUFFICES ASSUME k + 1 <= m PROVE it[k + 1] \in Loading(old, sum, n, IF k + 1 <= n THEN k + 1 ELSE n)
    OBVIOUS
  <2>1. k + 1 \in 1 .. m /\ (k + 1) - 1 = k /\ k <= m
    BY <1>18
  <2>2. it[k] \in Loading(old, sum, n, IF k <= n THEN k ELSE n) /\ it[k + 1] = LoadTurn(it[k])
    BY <1>10, <1>12, <2>1
  <2>3. CASE k + 1 <= n
    <3>1. k \in 0 .. n - 1 /\ k <= n
      BY <1>4, <2>3
    <3>2. it[k] \in Loading(old, sum, n, k)
      BY <2>2, <3>1
    <3>3. it[k + 1] \in Loading(old, sum, n, k + 1)
      BY <1>2, <2>2, <3>1, <3>2, LoadingTurn
    <3> QED BY <2>3, <3>3
  <2>4. CASE ~(k + 1 <= n)
    <3>1. (IF k <= n THEN k ELSE n) = n
      BY <1>4, <2>4
    <3>2. it[k] \in Loading(old, sum, n, n)
      BY <2>2, <3>1
    <3>3. SubSeq(AsText(old), n + 1, n) = << >>
      BY <1>4, SubSeqEmpty
    <3>4. it[k].lines = << >>
      BY <3>2, <3>3 DEF Loading
    <3>5. LoadTurn(it[k]) = it[k]
      BY <3>4 DEF LoadTurn
    <3> QED BY <2>2, <2>4, <3>2, <3>5
  <2> QED BY <2>3, <2>4
<1>13. it[m] \in Loading(old, sum, n, n)
  <2> HIDE DEF S
  <2>1. Nat \subseteq S
    BY <1>11, <1>12, InductionOnSets
  <2>2. (IF m <= n THEN m ELSE n) = n
    BY <1>4, <1>18
  <2> QED BY <1>18, <2>1, <2>2 DEF S
<1> HIDE DEF S
<1>14. PICK new : new = Parsed(s) /\ new \in Seq(Like(old)) /\ (AllPlain(old) => new = SubSeq(old, 1, n))
  BY <1>10, <1>13 DEF Loading
<1>15. ASSUME NEW i \in DOMAIN new
       PROVE  \E j \in DOMAIN old : new[i].num = old[j].num /\ (Plain1(old[j]) => new[i] = old[j])
  <2>1. new[i] \in Like(old)
    BY <1>14, <1>15
  <2> QED BY <2>1 DEF Like
<1>16. ASSUME AllPlain(old)
       PROVE  IsPrefix(new, old) /\ (SizeOf(AsText(old)) <= SAVE_MAX => new = old)
  <2>1. new = SubSeq(old, 1, n) /\ Len(new) = n
    BY <1>1, <1>14, <1>16, UptoFront
  <2>2. IsPrefix(new, old)
    BY <1>4, <2>1 DEF IsPrefix
  <2>3. ASSUME n = Len(old) PROVE new = old
    BY <1>1, <1>4, <2>1, <2>3
  <2>4. SizeOf(AsText(old)) <= SAVE_MAX => n = Len(old)
    BY <1>2 DEF SavedUpTo
  <2> QED BY <2>2, <2>3, <2>4
<1>17. Restored(new, old)
  BY <1>15, <1>16 DEF Restored, AllPlain
<1> QED BY <1>5, <1>6, <1>14, <1>17, Zenon

-----------------------------------------------------------------------------
(* The files that were saved hold what their programs look like.           *)

FilesKept ==
  /\ DOMAIN kept = SaveFiles
  /\ \A f \in SaveFiles : kept[f] # << >> =>
       f \in DOMAIN disk /\ \E p \in Made : kept[f] = <<p>> /\ disk[f] = Saved(p)
StoreMade == StoreIn /\ prog \in Made /\ FilesKept

LEMMA MadeEntered ==
  ASSUME StoreMade, NEW l \in Source, EnterLine(l)
  PROVE  prog' \in Made
<1>1. l.num \in Nat /\ l.text \in Seq(Spellings)
  <2>1. Source \subseteq Lines
    BY BasicAssumption, Zenon
  <2> QED BY <2>1 DEF Lines
<1>2. PICK num \in Nat : num = Target(l.num) /\ Target(num) = num
  BY <1>1, TargetIn, TargetAgain
<1>3. /\ num # 0 /\ prog \in Made
      /\ prog' = IF l.text = << >> THEN prog_delete_line(prog, num)
                 ELSE prog_insert_line(prog, num, tokenize(l.text))
  BY <1>2 DEF EnterLine, StoreMade
<1>4. CASE l.text = << >>
  BY <1>2, <1>3, <1>4, MadeDeleted
<1>5. CASE l.text # << >>
  <2>1. tokenize(l.text) # << >> /\ num \in Nat \ {0}
    BY <1>1, <1>2, <1>3, <1>5, TokenizeIn
  <2>2. prog_insert_line(prog, num, tokenize(l.text)) \in Made
    BY <1>1, <1>2, <1>3, <2>1, MadeInserted
  <2> QED BY <1>3, <1>5, <2>2
<1> QED BY <1>4, <1>5

LEMMA SaveKept ==
  ASSUME StoreMade, NEW f \in SaveFiles, Save(f)
  PROVE  prog' \in Made /\ FilesKept'
<1>1. prog' = prog /\ prog \in Made
  BY DEF Save, StoreMade
<1>2. DOMAIN kept = SaveFiles
  BY DEF StoreMade, FilesKept
<1> DEFINE Wrote(text) == disk' = [n \in DOMAIN disk \cup {f} |-> IF n = f THEN text ELSE disk[n]]
<1>3. \/ Wrote(Saved(prog)) /\ kept' = [kept EXCEPT ![f] = <<prog>>]
      \/ kept' = [kept EXCEPT ![f] = << >>] /\ ((\E text : Wrote(text)) \/ disk' = disk)
  BY DEF Save
<1>4. DOMAIN kept' = SaveFiles /\ \A g \in SaveFiles : g # f => kept'[g] = kept[g]
  BY <1>2, <1>3
<1>5. DOMAIN disk \subseteq DOMAIN disk' /\ \A g \in DOMAIN disk : g # f => disk'[g] = disk[g]
  BY <1>3
<1>6. ASSUME NEW g \in SaveFiles, kept'[g] # << >>
      PROVE  g \in DOMAIN disk' /\ \E p \in Made : kept'[g] = <<p>> /\ disk'[g] = Saved(p)
  <2>1. CASE g # f
    <3>1. kept[g] # << >> /\ kept'[g] = kept[g]
      BY <1>4, <1>6, <2>1
    <3>2. PICK p \in Made : g \in DOMAIN disk /\ kept[g] = <<p>> /\ disk[g] = Saved(p)
      BY <3>1 DEF StoreMade, FilesKept
    <3> QED BY <1>5, <2>1, <3>1, <3>2
  <2>2. CASE g = f
    <3>1. Wrote(Saved(prog)) /\ kept'[f] = <<prog>>
      BY <1>2, <1>3, <1>6, <2>2
    <3>2. f \in DOMAIN disk' /\ disk'[f] = Saved(prog)
      BY <3>1
    <3> QED BY <1>1, <2>2, <3>1, <3>2
  <2> QED BY <2>1, <2>2
<1> QED BY <1>1, <1>4, <1>6 DEF FilesKept

LEMMA MadeInit == Init => StoreMade
<1> SUFFICES ASSUME Init PROVE StoreMade
  OBVIOUS
<1>1. prog \in Made /\ StoreIn
  BY MadeEmpty, StoreInit DEF Init
<1>2. FilesKept
  BY DEF Init, FilesKept
<1> QED BY <1>1, <1>2 DEF StoreMade

LEMMA MadeNext == StoreMade /\ [Next]_vars => StoreMade'
<1> SUFFICES ASSUME StoreMade, [Next]_vars PROVE prog' \in Made /\ FilesKept'
  BY StoreNext DEF StoreMade
<1>1. prog \in Made /\ FilesKept /\ FilesIn
  BY DEF StoreMade, StoreIn
<1>2. ASSUME UNCHANGED <<disk, kept>> PROVE FilesKept'
  BY <1>1, <1>2 DEF FilesKept
<1>3. CASE UNCHANGED <<prog, disk, kept>>
  BY <1>1, <1>2, <1>3
<1>4. CASE UNCHANGED vars
  BY <1>3, <1>4 DEF vars, world
<1>5. CASE Interpreter
  BY <1>3, <1>5, StatementsKeepStore
<1>6. CASE Prompt
  <2>1. ASSUME NEW l \in Source, EnterLine(l) PROVE prog' \in Made /\ FilesKept'
    <3>1. UNCHANGED <<disk, kept>>
      BY <2>1 DEF EnterLine
    <3> QED BY <1>2, <2>1, <3>1, MadeEntered
  <2>2. ASSUME NEW text, EnterImmediate(text) PROVE UNCHANGED <<prog, disk, kept>>
    BY <2>2 DEF EnterImmediate
  <2>3. ASSUME NEW e, EnterExpression(e) PROVE UNCHANGED <<prog, disk, kept>>
    BY <2>3 DEF EnterExpression
  <2>4. Run => UNCHANGED <<prog, disk, kept>>
    BY DEF Run
  <2>5. CASE New
    <3>1. prog' = << >> /\ UNCHANGED <<disk, kept>>
      BY <2>5 DEF New
    <3> QED BY <1>2, <3>1, MadeEmpty
  <2>6. System => UNCHANGED <<prog, disk, kept>>
    BY DEF System
  <2>7. ASSUME NEW f \in SaveFiles, Save(f) PROVE prog' \in Made /\ FilesKept'
    BY <2>7, SaveKept
  <2>8. ASSUME NEW f, Load(f) PROVE prog' \in Made /\ FilesKept'
    <3>1. prog' \in Made /\ UNCHANGED <<disk, kept>>
      BY <1>1, <2>8, MadeLoaded DEF Load
    <3> QED BY <1>2, <3>1
  <2> QED BY <1>3, <1>6, <2>1, <2>2, <2>3, <2>4, <2>5, <2>6, <2>7, <2>8, Zenon DEF Prompt
<1>7. ASSUME NEW a, Answer(a) PROVE UNCHANGED <<prog, disk, kept>>
  BY <1>7 DEF Answer, world
<1>8. CASE Start
  <2>1. prog' = << >> /\ UNCHANGED <<disk, kept>>
    BY <1>8 DEF Start, Fresh
  <2> QED BY <1>2, <2>1, MadeEmpty
<1>9. ASSUME NEW f, StartWith(f) PROVE prog' \in Made /\ FilesKept'
  <2>1. prog' = IF Exists(f) THEN Loaded(f, << >>) ELSE << >>
    BY <1>9 DEF StartWith
  <2>2. UNCHANGED <<disk, kept>>
    BY <1>9 DEF StartWith, Fresh
  <2>3. prog' \in Made
    BY <1>1, <2>1, MadeLoaded, MadeEmpty
  <2> QED BY <1>2, <2>2, <2>3
<1>10. ASSUME NEW k, Press(k) PROVE UNCHANGED <<prog, disk, kept>>
  BY <1>10 DEF Press, world
<1> QED BY <1>3, <1>4, <1>5, <1>6, <1>7, <1>8, <1>9, <1>10, Zenon DEF Next

\* A program that was saved comes back when its file is loaded, if each of its
\* lines, as it is listed, fits into line_buf: no line is cut off, none is altered
\* unless a literal in it is negative, and without such literals all of it is
\* there, up to where SAVE stopped (cmd_save, cmd_load, detokenize, tokenize). A
\* longer line is cut (basic.c:238), and of its program nothing is claimed.
THEOREM SavedComesBack == Spec => LoadRestoresSaved
<1> DEFINE Back == \A f \in DOMAIN kept :
                     kept[f] # << >> /\ Load(f) /\ (\A i \in DOMAIN kept[f][1] : Short(kept[f][1][i]))
                       => \A new \in {prog'} : Restored(new, kept[f][1])
<1>1. StoreMade => Back
  <2> SUFFICES ASSUME StoreMade, NEW f \in DOMAIN kept, kept[f] # << >>, Load(f),
                      \A i \in DOMAIN kept[f][1] : Short(kept[f][1][i])
               PROVE  Restored(prog', kept[f][1])
    OBVIOUS
  <2>1. PICK p \in Made : f \in DOMAIN disk /\ kept[f] = <<p>> /\ disk[f] = Saved(p)
    BY DEF StoreMade, FilesKept
  <2>2. prog' = Parsed([lines |-> Saved(p), room |-> LOAD_MAX, prog |-> << >>])
    BY <2>1, Zenon DEF Load, Loaded, Exists, Content
  <2>3. kept[f][1] = p
    BY <2>1
  <2>4. AllShort(p)
    BY <2>3 DEF AllShort
  <2> QED BY <2>2, <2>3, <2>4, ComesBack, Zenon
<1>2. StoreMade => [Back]_vars
  BY <1>1
<1>3. LoadRestoresSaved <=> [][Back]_vars
  BY DEF LoadRestoresSaved
<1>4. Spec => []StoreMade
  BY MadeInit, MadeNext, PTL DEF Spec
<1> HIDE DEF Back
<1> QED BY <1>2, <1>3, <1>4, PTL
=============================================================================

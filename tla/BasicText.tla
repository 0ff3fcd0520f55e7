----------------------------- MODULE BasicText -----------------------------
(***************************************************************************)
(* The two forms of a BASIC line (src/apps/basic/tokenizer.c) and the      *)
(* conversions of numbers. A text is a sequence of lexemes: a keyword, a   *)
(* character, or a whole number, and as wide as its characters; within a   *)
(* string and behind REM each lexeme is a character. A line of tokens is a *)
(* sequence of bytes; the value of a number and the length of a string,    *)
(* which stand in the bytes behind the token, are kept with the token.     *)
(* Upper and lower case are one.                                           *)
(***************************************************************************)
EXTENDS Loops, SequencesExt

CONSTANTS
  IntHalf,   \* 2^31, for an int32_t from -IntHalf on
  TOK_MAX,   \* sizeof(tok_buf)
  Letters,   \* the letters that name variables
  Chars,     \* the characters of a string in the order of their codes
  Codes,     \* token.h: the token or the character that a byte is
  Spell,     \* the characters of the keywords and of <=, >= and <>
  DETOK_MAX  \* the characters of the buffers for detokenize

Quote == "\""
Blank == " "

ASSUME TextAssumption ==
  /\ IntHalf \in Nat \ {0}
  /\ TOK_MAX \in Nat /\ TOK_MAX > 5
  /\ {"-", Blank, "0", "1", "2", "3", "4", "5", "6", "7", "8", "9"} \subseteq ToSet(Chars)

MinInt == -IntHalf
Wrapped(n) == ((n + IntHalf) % (2 * IntHalf)) - IntHalf

Keywords ==
  {"PRINT", "INPUT", "LET", "IF", "THEN", "GOTO", "GOSUB", "RETURN", "FOR", "TO", "STEP",
   "NEXT", "REM", "END", "DIM", "ELSE", "AND", "OR", "NOT", "MOD", "ABS", "RND", "LEN",
   "VAL", "CHR$", "STR$", "LEFT$", "RIGHT$", "MID$", "PEEK", "POKE", "INT", "LOAD", "SAVE",
   "LIST", "RUN", "NEW", "CLR", "CLS"}
Marks == {"=", "<>", "<", ">", "<=", ">=", "+", "-", "*", "/", "(", ")", ",", ";", ":", "$", Quote}
Pairs == {"<=", ">=", "<>"}
Words == Keywords \cup Marks \cup Letters \cup ToSet(Chars) \cup {"digits", "NUM", "STR", "byte"}
ASSUME CharsAssumption == Chars \in Seq(Words)
\* Bound: within a number, the bytes 254 and 255 start no number and no string.
ASSUME CodesAssumption == Codes \in [0 .. 255 -> Words \ {"NUM", "STR"}]
ASSUME SpellAssumption ==
  /\ Spell \in [Keywords \cup Pairs -> Seq(Words \ {"NUM", "STR", "byte"})]
  /\ DETOK_MAX \in Nat

Lex(t) == [t |-> t, n |-> 0]
Digits(n) == [t |-> "digits", n |-> n]  \* a number as it is written
Number(n) == [t |-> "NUM", n |-> n]
Byte(b) == [t |-> Codes[b % 256], n |-> b]   \* a byte behind the token of a number or a string
\* What lines of tokens consist of, a string with its length, and what texts do.
Lexemes == {l \in [t : Words, n : Int] : l.t = "STR" => l.n >= 0}
Spellings == {l \in Lexemes : l.t \notin {"NUM", "STR", "byte"}}

\* At most n elements of s from i on.
Upto(s, i, n) == SubSeq(s, i, Min({Len(s), i + n - 1}))

\* TOK_NUM with four bytes behind it, TOK_STR_LIT with the byte of its length.
ByteOf(v, unit) == Byte((v \div unit) % 256)
NumBytes(v) == <<Number(v), ByteOf(v, 1), ByteOf(v, 256), ByteOf(v, 65536), ByteOf(v, 16777216)>>
StrBytes(len) == <<[t |-> "STR", n |-> len], Byte(len)>>

-----------------------------------------------------------------------------
\* Numbers as strings of characters

CodeOf(c) == CHOOSE i \in 1 .. Len(Chars) : Chars[i] = c
DigitChars == <<"0", "1", "2", "3", "4", "5", "6", "7", "8", "9">>
Digit(d) == DigitChars[d + 1]
is_dig(c) == \E d \in 0 .. 9 : Digit(d) = c
DigitOf(c) == CHOOSE d \in 0 .. 9 : Digit(d) = c

\* Bound: no number has more than ten digits.
Tens == <<1, 10, 100, 1000, 10000, 100000, 1000000, 10000000, 100000000, 1000000000>>
Figures(n) == Min({w \in 1 .. 10 : w = 10 \/ n < Tens[w + 1]})
Decimal(n) == [i \in 1 .. Figures(n) |-> Digit((n \div Tens[Figures(n) - i + 1]) % 10)]

\* The least number has no absolute value: its digits are left out.
i32_to_str(v) ==
  IF v = MinInt THEN <<"-">> ELSE IF v < 0 THEN <<"-">> \o Decimal(-v) ELSE Decimal(v)

\* The value of the digits, in words from low on.
ValueOf(digits, low, size) ==
  LET val[i \in 0 .. Len(digits)] ==
        IF i = 0 THEN 0 ELSE ((val[i - 1] * 10 + DigitOf(digits[i]) - low) % size) + low
  IN val[Len(digits)]
IntOf(digits) == ValueOf(digits, MinInt, 2 * IntHalf)

str_to_i32(s) ==
  LET Skipped(i) == \A j \in 1 .. i - 1 : s[j] = Blank
      first == Max({i \in 1 .. Len(s) + 1 : Skipped(i)})
      neg == first <= Len(s) /\ s[first] = "-"
      from == IF neg THEN first + 1 ELSE first
      to == Max({i \in from - 1 .. Len(s) : \A j \in from .. i : is_dig(s[j])})
      n == IntOf(SubSeq(s, from, to))
  IN IF neg THEN Wrapped(-n) ELSE n

-----------------------------------------------------------------------------
\* Texts as characters

Total(sizes) ==
  LET sum[i \in 0 .. Len(sizes)] == IF i = 0 THEN 0 ELSE sum[i - 1] + sizes[i]
  IN sum[Len(sizes)]

Spread(l) ==
  CASE l.t = "digits" -> [i \in 1 .. Figures(l.n) |-> Lex(Decimal(l.n)[i])]
    [] l.t \in Keywords \cup Pairs -> [i \in 1 .. Len(Spell[l.t]) |-> Lex(Spell[l.t][i])]
    [] OTHER -> <<l>>
Size(l) ==
  CASE l.t = "digits" -> Figures(l.n)
    [] l.t \in Keywords \cup Pairs -> Len(Spell[l.t])
    [] OTHER -> 1
Width(text) == Total([i \in 1 .. Len(text) |-> Size(text[i])])

\* The lexemes that stand whole within the first m characters, and the room
\* behind them.
Whole(text, m) == Max({k \in 0 .. Len(text) : k = 0 \/ Width(SubSeq(text, 1, k)) <= m})
RoomLeft(text, m) == Max({0, m - Width(SubSeq(text, 1, Whole(text, m)))})

\* The first m characters, and those behind them. A lexeme of whole never
\* stands there in part: the next one takes its place.
FrontOf(text, m, whole) ==
  LET k == Whole(text, m)
      parts == {i \in k + 1 .. Len(text) : text[i].t \notin whole}
  IN SubSeq(text, 1, k) \o
       IF parts = {} THEN << >> ELSE Upto(Spread(text[Min(parts)]), 1, RoomLeft(text, m))
BackOf(text, m) ==
  LET k == Whole(text, m)
      next == Spread(text[k + 1])
  IN IF k = Len(text) THEN << >>
     ELSE SubSeq(next, RoomLeft(text, m) + 1, Len(next)) \o SubSeq(text, k + 2, Len(text))

\* How many characters of the text are digits, from its start.
DigitsAhead(text) == Max({k \in 0 .. Len(text) : \A i \in 1 .. k : is_dig(text[i].t)})
CharsUpto(text, n) == [i \in 1 .. n |-> text[i].t]

-----------------------------------------------------------------------------
\* The two loops

\* match_keyword: a keyword is one only in front of a character that continues
\* no name; the texts of this model are split into lexemes accordingly.
Spelled(text) ==
  \A i \in 1 .. Len(text) - 1 :
    text[i].t \in Keywords \ {"CHR$", "STR$", "LEFT$", "RIGHT$", "MID$"}
      => text[i + 1].t \notin Letters \cup Keywords \cup {"digits"}

\* One turn of the loop in tokenize: what is left of the text, and the tokens.
LexStep(s) ==
  LET first == Head(s.text)
      rest == Tail(s.text)
      digits == DigitsAhead(s.text)
      room == TOK_MAX - 1 - Len(s.out)          \* for REM and for a string
      quotes == {i \in DOMAIN rest : rest[i].t = Quote}
      end == IF quotes = {} THEN Len(rest) + 1 ELSE Min(quotes)
      kept == Upto(rest, 1, Min({end - 1, room - 2}))
      past == IF Len(kept) = end - 1 THEN end + 1 ELSE Len(kept) + 1
  IN CASE first.t = "REM" -> [text |-> << >>, out |-> Append(s.out, first) \o Upto(rest, 1, room - 1)]
       [] first.t = "digits" -> [text |-> rest, out |-> s.out \o NumBytes(Wrapped(first.n))]
       [] is_dig(first.t) ->
            [text |-> SubSeq(s.text, digits + 1, Len(s.text)),
             out |-> s.out \o NumBytes(IntOf(CharsUpto(s.text, digits)))]
       [] first.t = Quote -> [text |-> SubSeq(rest, past, Len(rest)),
                              out |-> s.out \o StrBytes(Len(kept)) \o kept]
       [] OTHER -> [text |-> rest, out |-> Append(s.out, first)]

\* A turn takes a lexeme at least, so that the loop ends within Len(source).
LexTurn(s) == IF s.text = << >> \/ Len(s.out) >= TOK_MAX - 5 THEN s ELSE LexStep(s)
tokenize(source) == Times(LexTurn, Len(source), [text |-> source, out |-> << >>]).out

\* int_to_str on the way back
NumberText(v) ==
  IF v = MinInt THEN <<Lex("-")>> ELSE IF v < 0 THEN <<Lex("-"), Digits(-v)>> ELSE <<Digits(v)>>

UnlexStep(s) ==
  LET first == Head(s.toks)
      After(n) == SubSeq(s.toks, n, Len(s.toks))
  IN CASE first.t = "NUM" -> [toks |-> After(6), out |-> s.out \o NumberText(first.n)]
       [] first.t = "STR" -> [toks |-> After(first.n + 3),
                              out |-> s.out \o <<Lex(Quote)>> \o Upto(s.toks, 3, first.n) \o <<Lex(Quote)>>]
       [] first.t = "REM" -> [toks |-> << >>, out |-> s.out \o s.toks]
       [] OTHER -> [toks |-> After(2), out |-> Append(s.out, first)]

UnlexTurn(s) == IF s.toks = << >> THEN s ELSE UnlexStep(s)
Unlexed(tokens) == Times(UnlexTurn, Len(tokens), [toks |-> tokens, out |-> << >>]).out

\* The buffer holds DETOK_MAX characters; <=, >= and <> are never split.
detokenize(tokens) ==
  LET text == Unlexed(tokens)
  IN IF Width(text) <= DETOK_MAX THEN text ELSE FrontOf(text, DETOK_MAX, Pairs)
=============================================================================

------------------------------ MODULE NatLemmas ------------------------------
(***************************************************************************)
(* What the proofs need to know of sets of natural numbers: searches of a  *)
(* table stop at the first hit, and loops are argued about by induction.   *)
(***************************************************************************)
EXTENDS Integers, WellFoundedInduction, TLAPS

\* A search that finds something has a first hit.
LEMMA HasLeast ==
  ASSUME NEW S, S \subseteq Nat, S # {}
  PROVE  \E i \in S : \A j \in S : i <= j
<1> DEFINE R == {ss \in Nat \X Nat : ss[1] < ss[2]}
<1>1. IsWellFoundedOn(R, Nat)
  BY NatLessThanWellFounded, Zenon DEF OpToRel
<1>2. \A x, y \in Nat : y < x => <<y, x>> \in R
  OBVIOUS
<1> HIDE DEF R
<1>3. PICK x \in S : \A y \in S : ~(<<y, x>> \in R)
  BY <1>1, WFMin
<1>4. ASSUME NEW y \in S PROVE x <= y
  <2>1. x \in Nat /\ y \in Nat
    OBVIOUS
  <2>2. ~(y < x)
    BY <1>2, <1>3, <2>1
  <2> QED BY <2>1, <2>2
<1> QED BY <1>3, <1>4

\* Induction, for a claim given as the set of numbers it holds of.
LEMMA InductionOnSets ==
  ASSUME NEW S, 0 \in S, \A n \in Nat : n \in S => n + 1 \in S
  PROVE  Nat \subseteq S
<1> SUFFICES ASSUME NEW k \in Nat, k \notin S PROVE FALSE
  OBVIOUS
<1> DEFINE Missing == Nat \ S
<1>1. PICK n \in Missing : \A j \in Missing : n <= j
  <2>1. Missing \subseteq Nat /\ Missing # {}
    OBVIOUS
  <2> HIDE DEF Missing
  <2> QED BY <2>1, HasLeast
<1>2. n \in Nat /\ n # 0
  OBVIOUS
<1>3. n - 1 \in Nat /\ ~(n <= n - 1)
  BY <1>2
<1>4. n - 1 \in S
  BY <1>1, <1>3
<1>5. (n - 1) + 1 \in S
  BY <1>3, <1>4
<1> QED BY <1>2, <1>5

\* A loop over 1 .. N that updates one value has a course. (The premise and
\* the conclusion have names so that the lemma can be applied as it stands.)
IsUpdate(step, T) == \A k \in Nat : \A t \in T : step[<<k, t>>] \in T

IsCourse(f, T, start, step, N) ==
  /\ f \in [0 .. N -> T] /\ f[0] = start
  /\ \A k \in 1 .. N : f[k] = step[<<k, f[k - 1]>>]

LEMMA Recursion ==
  ASSUME NEW T, NEW start \in T, NEW step, IsUpdate(step, T), NEW N \in Nat
  PROVE  \E f : IsCourse(f, T, start, step, N)
<1> DEFINE Course(f, n) ==
             /\ f \in [0 .. n -> T] /\ f[0] = start
             /\ \A k \in 1 .. n : f[k] = step[<<k, f[k - 1]>>]
           S == {n \in Nat : \E f : Course(f, n)}
<1> USE DEF IsUpdate
<1>1. 0 \in S
  <2>1. Course([k \in 0 .. 0 |-> start], 0)
    OBVIOUS
  <2> QED BY <2>1
<1>2. ASSUME NEW n \in Nat, n \in S PROVE n + 1 \in S
  <2>1. PICK f : Course(f, n)
    BY <1>2
  <2> DEFINE g == [k \in 0 .. n + 1 |-> IF k = n + 1 THEN step[<<n + 1, f[n]>>] ELSE f[k]]
  <2>2. f[n] \in T /\ step[<<n + 1, f[n]>>] \in T
    BY <2>1
  <2>3. g \in [0 .. n + 1 -> T] /\ g[0] = start
    BY <2>1, <2>2
  <2>4. ASSUME NEW k \in 1 .. n + 1 PROVE g[k] = step[<<k, g[k - 1]>>]
    <3>1. CASE k = n + 1
      <4>1. g[k - 1] = f[n] /\ g[k] = step[<<n + 1, f[n]>>]
        BY <3>1
      <4> QED BY <3>1, <4>1
    <3>2. CASE k # n + 1
      <4>1. k \in 1 .. n /\ g[k] = f[k] /\ g[k - 1] = f[k - 1]
        BY <3>2
      <4>2. f[k] = step[<<k, f[k - 1]>>]
        BY <2>1, <4>1
      <4> HIDE DEF g
      <4> QED BY <4>1, <4>2
    <3> QED BY <3>1, <3>2
  <2>5. Course(g, n + 1)
    BY <2>3, <2>4
  <2> HIDE DEF g, Course
  <2>6. n + 1 \in Nat /\ \E h : Course(h, n + 1)
    BY <2>5
  <2> QED BY <2>6
<1>3. Nat \subseteq S
  <2> HIDE DEF S
  <2> QED BY <1>1, <1>2, InductionOnSets
<1>4. PICK f : Course(f, N)
  BY <1>3
<1> QED BY <1>4 DEF IsCourse

\* A loop that starts in a set that its step does not leave ends in it.
StaysIn(it, T, n) == it[0] \in T /\ \A k \in 1 .. n : it[k - 1] \in T => it[k] \in T

LEMMA LoopStays ==
  ASSUME NEW T, NEW n \in Nat, NEW it, StaysIn(it, T, n)
  PROVE  it[n] \in T
<1> DEFINE S == {k \in Nat : k <= n => it[k] \in T}
<1>1. 0 \in S
  BY DEF StaysIn
<1>2. ASSUME NEW k \in Nat, k \in S PROVE k + 1 \in S
  <2>1. k + 1 <= n => k + 1 \in 1 .. n /\ (k + 1) - 1 = k
    OBVIOUS
  <2> QED BY <1>2, <2>1 DEF StaysIn
<1> HIDE DEF S
<1>3. Nat \subseteq S
  BY <1>1, <1>2, InductionOnSets
<1> QED BY <1>3 DEF S

\* Quotient and rest are determined, ...
LEMMA DivUnique ==
  ASSUME NEW b \in Nat, b >= 1, NEW q \in Int, NEW r \in Nat, r < b
  PROVE  (q * b + r) \div b = q
<1>1. q * b \in Int
  OBVIOUS
<1>2. PICK a \in Int : a = q * b + r
  BY <1>1
<1>3. PICK p \in Int : p = a \div b
  OBVIOUS
<1>4. PICK s \in 0 .. b - 1 : a = b * p + s
  BY <1>3
<1>5. p * b + s = q * b + r
  BY <1>2, <1>4
<1>6. ASSUME NEW x \in Int, NEW y \in Int, x < y PROVE x * b + b <= y * b
  <2>1. PICK d \in Nat : y = (x + 1) + d
    BY <1>6
  <2>2. d * b >= 0 /\ d * b \in Nat
    OBVIOUS
  <2>3. y * b = x * b + b + d * b
    BY <2>1
  <2> QED BY <2>2, <2>3
<1>7. p * b \in Int /\ q * b \in Int
  OBVIOUS
<1>8. ~(p < q)
  <2> SUFFICES ASSUME p < q PROVE FALSE
    OBVIOUS
  <2>1. p * b + b <= q * b
    BY <1>6
  <2> QED BY <1>5, <1>7, <2>1
<1>9. ~(q < p)
  <2> SUFFICES ASSUME q < p PROVE FALSE
    OBVIOUS
  <2>1. q * b + b <= p * b
    BY <1>6
  <2> QED BY <1>5, <1>7, <2>1
<1> QED BY <1>2, <1>3, <1>8, <1>9

\* ... so whole multiples come out of a quotient.
LEMMA DivShift ==
  ASSUME NEW b \in Nat, b >= 1, NEW x \in Int, NEW y \in Nat
  PROVE  (x * b + y) \div b = x + y \div b /\ y \div b \in Nat
<1>1. PICK q \in Nat : q = y \div b
  OBVIOUS
<1>2. PICK r \in Nat : r < b /\ y = b * q + r
  <2>1. y % b \in Nat /\ y % b < b /\ y = b * (y \div b) + (y % b)
    OBVIOUS
  <2> QED BY <1>1, <2>1
<1>3. x * b + y = (x + q) * b + r
  BY <1>2
<1>4. x + q \in Int
  OBVIOUS
<1>5. ((x + q) * b + r) \div b = x + q
  BY <1>2, <1>4, DivUnique
<1> QED BY <1>1, <1>3, <1>5
=============================================================================

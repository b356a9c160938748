---------------------------- MODULE Framing_proofs ----------------------------
(***************************************************************************)
(* Theorems about one connection's byte stream, for every size of the       *)
(* buffer, every stream of messages that are what their own bytes say       *)
(* (IsPeer), every way to cut it into receives and whatever the buffers of  *)
(* the pool hold.  First what the parsers read: a decision that is made     *)
(* about a message's first bytes is the same in any buffer that begins with *)
(* them.  Then the stream, as the messages one after the other, and what a  *)
(* turn of the inner loop decides (Decides); then the invariant, step by    *)
(* step, and what it gives: exact packets, no wrong refusal, the body that  *)
(* was sent, and the end of the connection that was asked for.              *)
(***************************************************************************)
EXTENDS FramingInv, SequenceTheorems, WellFoundedInduction, TLAPS

-----------------------------------------------------------------------------
(* Least and greatest numbers, and functions defined step by step. *)

\* A set of numbers that has 0 and with each number the next has them all.
LEMMA NatSetInduction ==
    ASSUME NEW T, 0 \in T, \A n \in Nat : n \in T => n + 1 \in T
    PROVE  Nat \subseteq T
<1> DEFINE R == OpToRel(<, Nat)
           M == Nat \ T
<1>1. IsWellFoundedOn(R, Nat)
  BY NatLessThanWellFounded
<1>2. SUFFICES ASSUME M # {} PROVE FALSE
  OBVIOUS
<1>3. PICK x \in M : \A y \in M : ~(<<y, x>> \in R)
  <2> HIDE DEF R, M
  <2>1. M \subseteq Nat BY DEF M
  <2>2. QED BY <1>1, <1>2, <2>1, WFMin
<1>4. x # 0 /\ x - 1 \in Nat
  OBVIOUS
<1>5. <<x - 1, x>> \in R
  BY <1>4 DEF OpToRel
<1>6. x - 1 \in T
  BY <1>3, <1>4, <1>5
<1>7. QED BY <1>4, <1>6

\* A set of numbers that is not empty has a least one, which Min finds; Least finds it too.
LEMMA MinIsLeast ==
    ASSUME NEW S, S \subseteq Nat, S # {}
    PROVE  Min(S) \in S /\ \A y \in S : Min(S) <= y
<1> DEFINE T == {n \in Nat : \A x \in S : x <= n => \E m \in S : \A y \in S : m <= y}
<1>1. 0 \in T
  OBVIOUS
<1>2. ASSUME NEW n \in Nat, n \in T PROVE n + 1 \in T
  <2> SUFFICES ASSUME NEW x \in S, x <= n + 1 PROVE \E m \in S : \A y \in S : m <= y
    OBVIOUS
  <2>1. CASE \E y \in S : y <= n
    BY <1>2, <2>1
  <2>2. CASE \A y \in S : ~(y <= n)
    <3>1. \A y \in S : x <= y
      BY <2>2
    <3>2. QED BY <3>1
  <2>3. QED BY <2>1, <2>2
<1>3. Nat \subseteq T
  <2> HIDE DEF T
  <2>1. QED BY <1>1, <1>2, NatSetInduction
<1>4. \E m \in S : \A y \in S : m <= y
  <2>1. PICK x \in S : TRUE OBVIOUS
  <2>2. x \in T /\ x <= x BY <2>1, <1>3
  <2>3. QED BY <2>2
<1> HIDE DEF T
<1>5. QED BY <1>4 DEF Min

LEMMA LeastIsLeast ==
    ASSUME NEW S, S \subseteq Nat, NEW none
    PROVE  /\ S = {} => Least(S, none) = none
           /\ S # {} => Least(S, none) \in S /\ \A y \in S : Least(S, none) <= y
BY MinIsLeast DEF Least

LEMMA MinOfTwo ==
    ASSUME NEW a \in Int, NEW b \in Int
    PROVE  Min({a, b}) = IF a <= b THEN a ELSE b
<1>1. \E x \in {a, b} : \A y \in {a, b} : x =< y
  OBVIOUS
<1>2. Min({a, b}) \in {a, b} /\ \A y \in {a, b} : Min({a, b}) =< y
  BY <1>1 DEF Min
<1>3. QED BY <1>2

LEMMA MaxIsGreatest ==
    ASSUME NEW S, NEW n \in Nat, S \subseteq 0..n, S # {}
    PROVE  Max(S) \in S /\ \A y \in S : y <= Max(S)
<1> DEFINE R == {n - x : x \in S}
<1>1. R \subseteq Nat /\ R # {}
  <2>1. \A x \in S : x \in Nat /\ n - x \in Nat
    OBVIOUS
  <2>2. QED BY <2>1
<1>2. Min(R) \in R /\ \A y \in R : Min(R) <= y
  <2> HIDE DEF R
  <2>1. QED BY <1>1, MinIsLeast
<1>3. PICK m \in S : Min(R) = n - m
  BY <1>2
<1>4. ASSUME NEW y \in S PROVE m >= y
  <2>1. n - y \in R
    OBVIOUS
  <2>2. n - m <= n - y
    BY <1>2, <1>3, <2>1
  <2>3. m \in 0..n /\ y \in 0..n
    OBVIOUS
  <2>4. QED BY <2>2, <2>3
<1> HIDE DEF R
<1>5. \E x \in S : \A y \in S : x >= y
  BY <1>4
<1>6. Max(S) \in S /\ \A y \in S : Max(S) >= y
  BY <1>5 DEF Max
<1>7. QED BY <1>6

\* A function defined by its first value and by a step from each value to the next.
Recursive(X, first, step, n) ==
    \E f \in [0..n -> X] : f[0] = first /\ \A k \in 1..n : f[k] = step[k][f[k - 1]]

LEMMA RecursionExists ==
    ASSUME NEW X, NEW first \in X, NEW step \in [Nat -> [X -> X]], NEW n \in Nat
    PROVE  Recursive(X, first, step, n)
<1> DEFINE Solves(f, m) == f[0] = first /\ \A k \in 1..m : f[k] = step[k][f[k - 1]]
           T == {m \in Nat : \E f \in [0..m -> X] : Solves(f, m)}
<1>1. 0 \in T
  <2>1. [i \in 0..0 |-> first] \in [0..0 -> X] /\ Solves([i \in 0..0 |-> first], 0)
    OBVIOUS
  <2>2. QED BY <2>1
<1>2. ASSUME NEW m \in Nat, m \in T PROVE m + 1 \in T
  <2>1. PICK f \in [0..m -> X] : Solves(f, m)
    BY <1>2
  <2> DEFINE g == [i \in 0..(m + 1) |-> IF i = m + 1 THEN step[m + 1][f[m]] ELSE f[i]]
  <2>2. g \in [0..(m + 1) -> X]
    OBVIOUS
  <2>3. g[0] = first
    BY <2>1
  <2>4. ASSUME NEW k \in 1..(m + 1) PROVE g[k] = step[k][g[k - 1]]
    <3>1. CASE k = m + 1
      BY <3>1
    <3>2. CASE k # m + 1
      <4>1. k \in 1..m /\ k - 1 \in 0..m /\ k - 1 # m + 1 /\ k \in 0..(m + 1) /\ k - 1 \in 0..(m + 1)
        BY <3>2
      <4>2. g[k] = f[k] /\ g[k - 1] = f[k - 1]
        BY <3>2, <4>1
      <4>3. QED BY <2>1, <4>1, <4>2
    <3>3. QED BY <3>1, <3>2
  <2>5. Solves(g, m + 1)
    BY <2>3, <2>4
  <2> HIDE DEF g, Solves
  <2>6. QED BY <2>2, <2>5
<1>3. Nat \subseteq T
  <2> HIDE DEF T
  <2>1. QED BY <1>1, <1>2, NatSetInduction
<1>4. n \in T
  <2> HIDE DEF T
  <2>1. QED BY <1>3
<1>5. QED BY <1>4 DEF Recursive

-----------------------------------------------------------------------------
(* What the parser reads: a number, a header. *)

Agree(s, t, n) == n <= Len(s) /\ n <= Len(t) /\ \A i \in 1..n : s[i] = t[i]
Digits == {k \in Token : k.t = "digit"}

LEMMA SameParts ==
    ASSUME NEW s \in Seq(Token), NEW t \in Seq(Token), NEW n \in Nat, Agree(s, t, n),
           NEW from \in 1..(n + 1), NEW to \in Int, to <= n
    PROVE  SubSeq(s, from, to) = SubSeq(t, from, to)
<1>1. \A i \in from..to : s[i] \in Token /\ t[i] \in Token /\ s[i] = t[i]
  <2>1. \A i \in from..to : i \in 1..n
    OBVIOUS
  <2>2. QED BY <2>1 DEF Agree
<1>2. /\ SubSeq(s, from, to) \in Seq(Token) /\ SubSeq(t, from, to) \in Seq(Token)
      /\ Len(SubSeq(s, from, to)) = Len(SubSeq(t, from, to))
      /\ \A i \in 1..(to - from + 1) : /\ SubSeq(s, from, to)[i] = s[from + i - 1]
                                       /\ SubSeq(t, from, to)[i] = t[from + i - 1]
  BY <1>1, SubSeqProperties
<1>3. Len(SubSeq(s, from, to)) = IF from <= to THEN to - from + 1 ELSE 0
  BY <1>1, SubSeqProperties
<1>4. \A i \in 1..Len(SubSeq(s, from, to)) :
          i \in 1..(to - from + 1) /\ from + i - 1 \in from..to
  BY <1>3
<1>5. \A i \in 1..Len(SubSeq(s, from, to)) : SubSeq(s, from, to)[i] = SubSeq(t, from, to)[i]
  BY <1>1, <1>2, <1>4
<1>6. QED BY <1>2, <1>5, SeqEqual

LEMMA NumberRange ==
    ASSUME NEW d \in Seq(Digits)
    PROVE  Number(d) \in 0..IntMax
<1> USE SizeAssumption
<1> DEFINE X == 0..IntMax
           Next10(x, k) == Min({IntMax, 10 * x + d[k].v})
           step == [k \in Nat |-> [x \in X |-> IF k \in 1..Len(d) THEN Next10(x, k) ELSE x]]
           IsValue(f) == f = [k \in 0..Len(d) |-> IF k = 0 THEN 0 ELSE Next10(f[k - 1], k)]
<1>1. ASSUME NEW k \in 1..Len(d), NEW x \in X PROVE Next10(x, k) \in X
  <2>1. d[k].v \in 0..9
    BY DEF Digits, Token
  <2>2. 10 * x + d[k].v \in Nat /\ IntMax \in Nat
    BY <2>1
  <2>3. Next10(x, k) = IF IntMax <= 10 * x + d[k].v THEN IntMax ELSE 10 * x + d[k].v
    BY <2>2, MinOfTwo
  <2> HIDE DEF Next10
  <2>4. QED BY <2>2, <2>3
<1>2. step \in [Nat -> [X -> X]]
  <2> HIDE DEF Next10
  <2>1. QED BY <1>1
<1>3. Len(d) \in Nat /\ 0 \in X
  OBVIOUS
<1>4. PICK f \in [0..Len(d) -> X] : f[0] = 0 /\ \A k \in 1..Len(d) : f[k] = step[k][f[k - 1]]
  <2> HIDE DEF X, step
  <2>1. Recursive(X, 0, step, Len(d))
    BY <1>2, <1>3, RecursionExists
  <2>2. QED BY <2>1 DEF Recursive
<1>5. ASSUME NEW k \in 1..Len(d) PROVE f[k] = Next10(f[k - 1], k)
  <2> HIDE DEF Next10
  <2>1. k - 1 \in 0..Len(d) /\ k \in Nat
    OBVIOUS
  <2>2. QED BY <1>4, <2>1
<1>6. IsValue(f)
  <2> HIDE DEF Next10
  <2>1. \A k \in 0..Len(d) : f[k] = IF k = 0 THEN 0 ELSE Next10(f[k - 1], k)
    BY <1>4, <1>5
  <2>2. QED BY <1>4, <2>1
<1>7. PICK g : IsValue(g) /\ Number(d) = g[Len(d)]
  <2> DEFINE g == CHOOSE g : IsValue(g)
  <2>1. IsValue(g)
    <3> HIDE DEF IsValue
    <3>1. QED BY <1>6
  <2>2. Number(d) = g[Len(d)]
    BY DEF Number
  <2> HIDE DEF g, IsValue
  <2>3. QED BY <2>1, <2>2
<1>8. g[0] = 0 /\ \A k \in 1..Len(d) : g[k] = Next10(g[k - 1], k)
  <2> HIDE DEF Next10
  <2>1. QED BY <1>7
<1> DEFINE T == {k \in Nat : k <= Len(d) => g[k] \in X}
<1>9. 0 \in T
  BY <1>3, <1>8
<1>10. ASSUME NEW k \in Nat, k \in T PROVE k + 1 \in T
  <2> HIDE DEF Next10, X
  <2> SUFFICES ASSUME k + 1 <= Len(d) PROVE g[k + 1] \in X
    OBVIOUS
  <2>1. k + 1 \in 1..Len(d) /\ (k + 1) - 1 = k /\ g[k] \in X
    BY <1>10
  <2>2. g[k + 1] = Next10(g[k], k + 1)
    BY <1>8, <2>1
  <2>3. QED BY <1>1, <2>1, <2>2
<1>11. Nat \subseteq T
  <2> HIDE DEF T
  <2>1. QED BY <1>9, <1>10, NatSetInduction
<1>12. Len(d) \in T
  <2> HIDE DEF T
  <2>1. QED BY <1>3, <1>11
<1>13. QED BY <1>3, <1>7, <1>12

\* Where the number ends that atoi reads, and how it reads it.
AtoiFrom(b, i) == IF Is(b, i, "minus") THEN i + 1 ELSE i
AtoiStops(b, from) == {j \in from..Len(b) : ~Is(b, j, "digit")}
AtoiTo(b, from) == Least(AtoiStops(b, from), Len(b) + 1)

LEMMA AtoiParts ==
    ASSUME NEW b, NEW i
    PROVE  Atoi(b, i) = LET n == Number(SubSeq(b, AtoiFrom(b, i), AtoiTo(b, AtoiFrom(b, i)) - 1))
                        IN  IF Is(b, i, "minus") THEN -n ELSE n
BY DEF Atoi, AtoiFrom, AtoiTo, AtoiStops

LEMMA AtoiStop ==
    ASSUME NEW b \in Seq(Token), NEW from \in 1..(Len(b) + 1)
    PROVE  /\ AtoiTo(b, from) \in from..(Len(b) + 1)
           /\ \A j \in from..(AtoiTo(b, from) - 1) : j \in DOMAIN b /\ b[j].t = "digit"
           /\ AtoiTo(b, from) <= Len(b) => AtoiTo(b, from) \in AtoiStops(b, from)
<1> DEFINE S == AtoiStops(b, from)
<1>1. S \subseteq Nat /\ S \subseteq from..Len(b)
  BY DEF AtoiStops
<1>2. /\ S = {} => AtoiTo(b, from) = Len(b) + 1
      /\ S # {} => AtoiTo(b, from) \in S /\ \A y \in S : AtoiTo(b, from) <= y
  <2> HIDE DEF S
  <2>1. QED BY <1>1, LeastIsLeast DEF AtoiTo, S
<1>3. AtoiTo(b, from) \in from..(Len(b) + 1) /\ (AtoiTo(b, from) <= Len(b) => AtoiTo(b, from) \in S)
  <2> HIDE DEF S
  <2>1. Len(b) \in Nat
    OBVIOUS
  <2>2. CASE S = {}
    BY <1>2, <2>1, <2>2
  <2>3. CASE S # {}
    <3>1. AtoiTo(b, from) \in from..Len(b)
      BY <1>1, <1>2, <2>3
    <3>2. QED BY <1>2, <2>1, <2>3, <3>1
  <2>4. QED BY <2>2, <2>3
<1>4. ASSUME NEW j \in from..(AtoiTo(b, from) - 1) PROVE j \in DOMAIN b /\ b[j].t = "digit"
  <2>1. j \in from..Len(b) /\ ~(AtoiTo(b, from) <= j)
    BY <1>3
  <2>2. j \notin S
    <3> HIDE DEF S
    <3>1. QED BY <1>2, <2>1
  <2>3. QED BY <2>1, <2>2 DEF AtoiStops, Is
<1>5. QED BY <1>3, <1>4

LEMMA AtoiRange ==
    ASSUME NEW b \in Seq(Token), NEW i \in 1..(Len(b) + 1)
    PROVE  Atoi(b, i) \in (-IntMax)..IntMax
<1> DEFINE from == AtoiFrom(b, i)
           to == AtoiTo(b, from)
<1>1. from \in 1..(Len(b) + 1)
  BY DEF AtoiFrom, Is
<1> HIDE DEF from
<1>2. to \in from..(Len(b) + 1) /\ \A j \in from..(to - 1) : j \in DOMAIN b /\ b[j].t = "digit"
  BY <1>1, AtoiStop
<1> HIDE DEF to
<1>3. \A j \in from..(to - 1) : b[j] \in Digits
  BY <1>2 DEF Digits
<1>4. SubSeq(b, from, to - 1) \in Seq(Digits)
  BY <1>1, <1>2, <1>3, SubSeqProperties
<1>5. Number(SubSeq(b, from, to - 1)) \in 0..IntMax
  BY <1>4, NumberRange
<1>6. Atoi(b, i) = LET n == Number(SubSeq(b, from, to - 1)) IN IF Is(b, i, "minus") THEN -n ELSE n
  BY AtoiParts DEF from, to
<1>7. QED BY <1>5, <1>6, SizeAssumption

LEMMA AtoiAgrees ==
    ASSUME NEW s \in Seq(Token), NEW t \in Seq(Token), NEW n \in Nat, Agree(s, t, n),
           Is(s, n, "crlf"), NEW i \in 1..n
    PROVE  Atoi(s, i) = Atoi(t, i)
<1>1. \A j \in 1..n : j \in DOMAIN s /\ j \in DOMAIN t /\ s[j] = t[j]
  BY DEF Agree
<1>2. \A j \in 1..n : \A k : Is(s, j, k) <=> Is(t, j, k)
  BY <1>1 DEF Is
<1> DEFINE from == AtoiFrom(s, i)
<1>3. from = AtoiFrom(t, i) /\ from \in 1..n
  <2>1. Is(s, i, "minus") <=> Is(t, i, "minus")
    BY <1>2
  <2>2. Is(s, i, "minus") => i # n
    BY DEF Is
  <2>3. QED BY <2>1, <2>2 DEF AtoiFrom
<1>4. from \in 1..(Len(s) + 1) /\ from \in 1..(Len(t) + 1) /\ n <= Len(s) /\ n <= Len(t)
  BY <1>3 DEF Agree
<1> HIDE DEF from
<1>5. \A j \in from..n : j \in AtoiStops(s, from) <=> j \in AtoiStops(t, from)
  BY <1>2, <1>3, <1>4 DEF AtoiStops
<1>6. n \in AtoiStops(s, from) /\ n \in AtoiStops(t, from)
  BY <1>3, <1>4, <1>5 DEF AtoiStops, Is
<1>7. AtoiStops(s, from) \subseteq Nat /\ AtoiStops(t, from) \subseteq Nat
  BY <1>3 DEF AtoiStops
<1> DEFINE to == AtoiTo(s, from)
           tt == AtoiTo(t, from)
<1>8. to \in AtoiStops(s, from) /\ \A y \in AtoiStops(s, from) : to <= y
  BY <1>6, <1>7, LeastIsLeast DEF AtoiTo
<1>9. tt \in AtoiStops(t, from) /\ \A y \in AtoiStops(t, from) : tt <= y
  BY <1>6, <1>7, LeastIsLeast DEF AtoiTo
<1> HIDE DEF to, tt
<1>10. to \in from..n /\ tt \in from..n
  BY <1>3, <1>6, <1>8, <1>9 DEF AtoiStops
<1>11. to = tt
  <2>1. to <= tt /\ tt <= to
    BY <1>5, <1>8, <1>9, <1>10
  <2>2. QED BY <1>3, <1>10, <2>1
<1>12. SubSeq(s, from, to - 1) = SubSeq(t, from, to - 1)
  <2>1. from \in 1..(n + 1) /\ to - 1 \in Int /\ to - 1 <= n
    BY <1>3, <1>10
  <2>2. QED BY <2>1, SameParts
<1>13. Is(s, i, "minus") <=> Is(t, i, "minus")
  BY <1>2
<1> DEFINE Signed(n1, minus) == IF minus THEN -n1 ELSE n1
<1>14. Atoi(s, i) = Signed(Number(SubSeq(s, from, to - 1)), Is(s, i, "minus"))
  BY AtoiParts DEF from, to
<1>15. Atoi(t, i) = Signed(Number(SubSeq(t, from, tt - 1)), Is(t, i, "minus"))
  BY <1>3, AtoiParts DEF tt
<1>16. CASE Is(s, i, "minus")
  BY <1>11, <1>12, <1>13, <1>14, <1>15, <1>16
<1>17. CASE ~Is(s, i, "minus")
  BY <1>11, <1>12, <1>13, <1>14, <1>15, <1>17
<1>18. QED BY <1>16, <1>17

\* Where the header of b ends, as strstr and the first NUL have it.
Pair(b, i) == Is(b, i, "crlf") /\ Is(b, i - 1, "crlf")
EndsAt(b, end) ==
    /\ end \in 2..Len(b) /\ Pair(b, end)
    /\ \A i \in 1..end : ~Is(b, i, "nul")
    /\ \A i \in 2..(end - 1) : ~Pair(b, i)

LEMMA HeaderEndIs ==
    ASSUME NEW b \in Seq(Token)
    PROVE  /\ HeaderEnd(b) = 0 \/ EndsAt(b, HeaderEnd(b))
           /\ \A end : EndsAt(b, end) => HeaderEnd(b) = end
<1> DEFINE N == {i \in DOMAIN b : Is(b, i, "nul")}
           S == {i \in 2..(FirstNul(b) - 1) : Is(b, i, "crlf") /\ Is(b, i - 1, "crlf")}
<1>1. N \subseteq 1..Len(b) /\ Len(b) \in Nat /\ N \subseteq Nat
  OBVIOUS
<1>2. /\ N = {} => FirstNul(b) = Len(b) + 1
      /\ N # {} => FirstNul(b) \in N /\ \A y \in N : FirstNul(b) <= y
  <2>1. FirstNul(b) = Least(N, Len(b) + 1)
    BY DEF FirstNul
  <2> HIDE DEF N
  <2>2. N = {} => Least(N, Len(b) + 1) = Len(b) + 1
    BY <1>1, LeastIsLeast
  <2>3. N # {} => Least(N, Len(b) + 1) \in N /\ \A y \in N : Least(N, Len(b) + 1) <= y
    BY <1>1, LeastIsLeast
  <2>4. QED BY <2>1, <2>2, <2>3
<1>3. FirstNul(b) \in 1..(Len(b) + 1)
  <2> HIDE DEF N
  <2>1. CASE N = {}
    BY <1>1, <1>2, <2>1
  <2>2. CASE N # {}
    <3>1. FirstNul(b) \in 1..Len(b)
      BY <1>1, <1>2, <2>2
    <3>2. QED BY <1>1, <3>1
  <2>3. QED BY <2>1, <2>2
<1>4. \A i \in 1..Len(b) : Is(b, i, "nul") => FirstNul(b) <= i
  <2>1. \A i \in 1..Len(b) : Is(b, i, "nul") => i \in N
    BY DEF Is
  <2> HIDE DEF N
  <2>2. QED BY <1>2, <2>1
<1>5. FirstNul(b) <= Len(b) => Is(b, FirstNul(b), "nul")
  BY <1>1, <1>2, <1>3
<1>6. S \subseteq Nat
  BY <1>3
<1>7. /\ S = {} => HeaderEnd(b) = 0
      /\ S # {} => HeaderEnd(b) \in S /\ \A y \in S : HeaderEnd(b) <= y
  <2>1. HeaderEnd(b) = Least(S, 0)
    BY DEF HeaderEnd
  <2> HIDE DEF S
  <2>2. S = {} => Least(S, 0) = 0
    BY <1>6, LeastIsLeast
  <2>3. S # {} => Least(S, 0) \in S /\ \A y \in S : Least(S, 0) <= y
    BY <1>6, LeastIsLeast
  <2>4. QED BY <2>1, <2>2, <2>3
<1>9. ASSUME S # {} PROVE EndsAt(b, HeaderEnd(b))
  <2> DEFINE end == HeaderEnd(b)
  <2>1. end \in 2..(FirstNul(b) - 1) /\ Pair(b, end)
    BY <1>7, <1>9 DEF Pair
  <2> HIDE DEF end
  <2>2. \A i \in 1..end : ~Is(b, i, "nul")
    BY <1>3, <1>4, <2>1
  <2>3. ASSUME NEW i \in 2..(end - 1) PROVE ~Pair(b, i)
    <3>1. i \in 2..(FirstNul(b) - 1) /\ ~(end <= i)
      BY <1>3, <2>1
    <3>2. i \notin S
      <4> HIDE DEF S
      <4>1. QED BY <1>7, <1>9, <3>1 DEF end
    <3>3. QED BY <3>1, <3>2 DEF Pair
  <2>4. end \in 2..Len(b)
    BY <1>1, <1>3, <2>1
  <2>5. EndsAt(b, end)
    BY <2>1, <2>2, <2>3, <2>4 DEF EndsAt
  <2>6. QED BY <2>5 DEF end
<1>10. ASSUME NEW end, EndsAt(b, end) PROVE HeaderEnd(b) = end
  <2>1. end \in 2..Len(b) /\ Pair(b, end)
    BY <1>10 DEF EndsAt
  <2>2. end < FirstNul(b)
    <3>1. ASSUME FirstNul(b) <= end PROVE FALSE
      <4>1. FirstNul(b) \in 1..end /\ FirstNul(b) <= Len(b)
        BY <1>1, <1>3, <2>1, <3>1
      <4>2. QED BY <1>5, <1>10, <4>1 DEF EndsAt
    <3>2. QED BY <1>3, <2>1, <3>1
  <2>3. end \in S
    BY <1>3, <2>1, <2>2 DEF Pair
  <2>4. HeaderEnd(b) \in S /\ HeaderEnd(b) <= end
    <3> HIDE DEF S
    <3>1. QED BY <1>7, <2>3
  <2>5. HeaderEnd(b) \in 2..(FirstNul(b) - 1) /\ Pair(b, HeaderEnd(b))
    BY <2>4 DEF Pair
  <2>6. HeaderEnd(b) \in 2..(end - 1) => ~Pair(b, HeaderEnd(b))
    BY <1>10 DEF EndsAt
  <2>7. QED BY <1>3, <2>1, <2>4, <2>5, <2>6
<1>11. QED BY <1>7, <1>9, <1>10

LEMMA HeaderEndRange ==
    ASSUME NEW b \in Seq(Token)
    PROVE  HeaderEnd(b) \in 0..Len(b) /\ HeaderEnd(b) \in Int
<1>1. CASE HeaderEnd(b) = 0
  BY <1>1
<1>2. CASE EndsAt(b, HeaderEnd(b))
  <2>1. HeaderEnd(b) \in 2..Len(b) /\ Len(b) \in Nat
    BY <1>2 DEF EndsAt
  <2>2. QED BY <2>1
<1>3. QED BY <1>1, <1>2, HeaderEndIs

LEMMA HeaderEndAgrees ==
    ASSUME NEW s \in Seq(Token), NEW t \in Seq(Token), NEW n \in Nat, Agree(s, t, n),
           HeaderEnd(s) \in 1..n
    PROVE  HeaderEnd(t) = HeaderEnd(s)
<1> DEFINE end == HeaderEnd(s)
<1>1. EndsAt(s, end) /\ end \in 1..n
  BY HeaderEndIs
<1> HIDE DEF end
<1>2. \A j \in 1..n : \A k : Is(s, j, k) <=> Is(t, j, k)
  <2>1. \A j \in 1..n : j \in DOMAIN s /\ j \in DOMAIN t /\ s[j] = t[j]
    BY DEF Agree
  <2>2. QED BY <2>1 DEF Is
<1>3. end \in 2..Len(t) /\ end \in 2..n
  <2>1. n <= Len(t) /\ end \in 2..Len(s) /\ Len(t) \in Nat
    BY <1>1 DEF EndsAt, Agree
  <2>2. QED BY <1>1, <2>1
<1>4. ASSUME NEW i \in 2..end PROVE Pair(s, i) <=> Pair(t, i)
  <2>1. i \in 1..n /\ i - 1 \in 1..n
    BY <1>3
  <2>2. QED BY <1>2, <2>1 DEF Pair
<1>5. Pair(t, end)
  BY <1>1, <1>3, <1>4 DEF EndsAt
<1>6. \A i \in 1..end : ~Is(t, i, "nul")
  <2>1. \A i \in 1..end : i \in 1..n
    BY <1>3
  <2>2. QED BY <1>1, <1>2, <2>1 DEF EndsAt
<1>7. \A i \in 2..(end - 1) : ~Pair(t, i)
  <2>1. \A i \in 2..(end - 1) : i \in 2..end
    BY <1>3
  <2>2. QED BY <1>1, <1>4, <2>1 DEF EndsAt
<1>8. EndsAt(t, end)
  BY <1>3, <1>5, <1>6, <1>7 DEF EndsAt
<1>9. QED BY <1>8, HeaderEndIs DEF end

\* The header's lines are those of every sequence that begins with it.
LEMMA LinesAgree ==
    ASSUME NEW s \in Seq(Token), NEW t \in Seq(Token), NEW end \in Nat, Agree(s, t, end), NEW names
    PROVE  HeaderLines(s, end, names) = HeaderLines(t, end, names)
<1>1. \A j \in 1..end : j \in DOMAIN s /\ j \in DOMAIN t /\ s[j] = t[j]
  BY DEF Agree
<1>2. ASSUME NEW i \in 2..(end - 1)
      PROVE  i \in HeaderLines(s, end, names) <=> i \in HeaderLines(t, end, names)
  <2>1. i \in 1..end /\ i - 1 \in 1..end
    OBVIOUS
  <2>2. QED BY <1>1, <2>1 DEF HeaderLines, Is
<1>3. /\ HeaderLines(s, end, names) \subseteq 2..(end - 1)
      /\ HeaderLines(t, end, names) \subseteq 2..(end - 1)
  BY DEF HeaderLines
<1>4. QED BY <1>2, <1>3

LEMMA FirstLine ==
    ASSUME NEW b \in Seq(Token), NEW end \in Int, NEW names, HeaderLines(b, end, names) # {}
    PROVE  /\ Min(HeaderLines(b, end, names)) + 1 \in 1..(Len(b) + 1)
           /\ Min(HeaderLines(b, end, names)) + 1 \in 1..end
<1> DEFINE S == HeaderLines(b, end, names)
<1>1. S \subseteq Nat /\ S \subseteq 1..Len(b) /\ S \subseteq 2..(end - 1)
  BY DEF HeaderLines
<1>2. S # {}
  OBVIOUS
<1> HIDE DEF S
<1>3. PICK m \in S : m = Min(S)
  BY <1>1, <1>2, MinIsLeast
<1>4. m \in 1..Len(b) /\ m \in 2..(end - 1) /\ Len(b) \in Nat
  <2>1. m \in 1..Len(b) /\ m \in 2..(end - 1)
    BY <1>1
  <2>2. QED BY <2>1
<1>5. Min(S) + 1 \in 1..(Len(b) + 1) /\ Min(S) + 1 \in 1..end
  BY <1>3, <1>4
<1>6. QED BY <1>5 DEF S

LEMMA LengthRange ==
    ASSUME NEW b \in Seq(Token), NEW end \in Int, NEW names
    PROVE  LengthOf(b, end, names) \in (-IntMax)..IntMax
<1>1. CASE HeaderLines(b, end, names) = {}
  BY <1>1, SizeAssumption DEF LengthOf
<1>2. CASE HeaderLines(b, end, names) # {}
  <2>1. LengthOf(b, end, names) = Atoi(b, Min(HeaderLines(b, end, names)) + 1)
    BY <1>2 DEF LengthOf
  <2>2. QED BY <1>2, <2>1, FirstLine, AtoiRange
<1>3. QED BY <1>1, <1>2

LEMMA LengthAgrees ==
    ASSUME NEW s \in Seq(Token), NEW t \in Seq(Token), NEW end \in Nat, Agree(s, t, end),
           Is(s, end, "crlf"), NEW names
    PROVE  LengthOf(s, end, names) = LengthOf(t, end, names)
<1>1. HeaderLines(s, end, names) = HeaderLines(t, end, names)
  BY LinesAgree
<1>2. CASE HeaderLines(s, end, names) = {}
  BY <1>1, <1>2 DEF LengthOf
<1>3. CASE HeaderLines(s, end, names) # {}
  <2> DEFINE i == Min(HeaderLines(s, end, names)) + 1
  <2>1. i \in 1..end
    BY <1>3, FirstLine
  <2> HIDE DEF i
  <2>2. Atoi(s, i) = Atoi(t, i)
    BY <2>1, AtoiAgrees
  <2>3. LengthOf(s, end, names) = Atoi(s, i) /\ LengthOf(t, end, names) = Atoi(t, i)
    BY <1>1, <1>3 DEF LengthOf, i
  <2>4. QED BY <2>2, <2>3
<1>4. QED BY <1>2, <1>3

-----------------------------------------------------------------------------
(* The stream: the messages one after the other. *)

Upto(W, n) == FlattenSeq(SubSeq(W, 1, n))
IsFlat(f, W) ==
    /\ f \in [0..Len(W) -> Seq(Token)]
    /\ f[0] = <<>>
    /\ \A k \in 1..Len(W) : f[k] = f[k - 1] \o W[k]

LEMMA FlatExists ==
    ASSUME NEW W \in Seq(Seq(Token))
    PROVE  \E f : IsFlat(f, W)
<1> DEFINE X == Seq(Token)
           step == [k \in Nat |-> [x \in X |-> IF k \in 1..Len(W) THEN x \o W[k] ELSE x]]
<1>1. step \in [Nat -> [X -> X]]
  <2>1. ASSUME NEW k \in 1..Len(W), NEW x \in X PROVE x \o W[k] \in X
    BY ConcatProperties
  <2>2. QED BY <2>1
<1>2. <<>> \in X /\ Len(W) \in Nat
  OBVIOUS
<1>3. PICK f \in [0..Len(W) -> X] : f[0] = <<>> /\ \A k \in 1..Len(W) : f[k] = step[k][f[k - 1]]
  <2> HIDE DEF X, step
  <2>1. Recursive(X, <<>>, step, Len(W))
    BY <1>1, <1>2, RecursionExists
  <2>2. QED BY <2>1 DEF Recursive
<1>4. ASSUME NEW k \in 1..Len(W) PROVE f[k] = f[k - 1] \o W[k]
  <2>1. k - 1 \in 0..Len(W) /\ k \in Nat
    OBVIOUS
  <2>2. f[k - 1] \in X
    BY <2>1
  <2>3. step[k][f[k - 1]] = f[k - 1] \o W[k]
    BY <2>1, <2>2
  <2>4. QED BY <1>3, <2>3
<1>5. QED BY <1>3, <1>4 DEF IsFlat

\* FlattenSeq of the first n messages is the n-th entry.
LEMMA FlatEntry ==
    ASSUME NEW W \in Seq(Seq(Token)), NEW f, IsFlat(f, W), NEW n \in 0..Len(W)
    PROVE  Upto(W, n) = f[n]
<1> DEFINE V == SubSeq(W, 1, n)
           IsFlatten(g) == g = [i \in 1..Len(V) |-> IF i = 1 THEN V[i] ELSE g[i - 1] \o V[i]]
<1>1. Len(V) = n /\ n \in Nat /\ \A i \in 1..n : V[i] = W[i]
  <2>1. \A i \in 1..n : W[i] \in Seq(Token)
    OBVIOUS
  <2>2. /\ Len(V) = IF 1 <= n THEN n - 1 + 1 ELSE 0
        /\ \A i \in 1..(n - 1 + 1) : V[i] = W[1 + i - 1]
    BY <2>1, SubSeqProperties
  <2> HIDE DEF V
  <2>3. QED BY <2>2
<1>2. CASE n = 0
  <2>1. V = <<>>
    BY <1>2, SubSeqEmpty
  <2>2. Upto(W, n) = V
    <3> HIDE DEF V
    <3>1. Len(V) = 0
      BY <1>1, <1>2
    <3>2. FlattenSeq(V) = V
      BY <3>1 DEF FlattenSeq
    <3>3. QED BY <3>2 DEF Upto, V
  <2>3. QED BY <1>2, <2>1, <2>2 DEF IsFlat
<1>3. CASE n # 0
  <2> DEFINE h == [i \in 1..n |-> f[i]]
  <2>1. ASSUME NEW k \in 1..n PROVE f[k] = f[k - 1] \o W[k] /\ f[k] \in Seq(Token)
    <3>1. k \in 1..Len(W) /\ k \in 0..Len(W)
      OBVIOUS
    <3>2. QED BY <3>1 DEF IsFlat
  <2>2. f[1] = W[1]
    <3>1. 1 \in 1..n /\ W[1] \in Seq(Token)
      BY <1>1, <1>3
    <3>2. f[1] = f[0] \o W[1]
      <4>1. 1 - 1 = 0
        OBVIOUS
      <4>2. f[1] = f[1 - 1] \o W[1]
        BY <2>1, <3>1
      <4>3. QED BY <4>1, <4>2
    <3>3. f[0] = <<>>
      BY DEF IsFlat
    <3>4. QED BY <3>1, <3>2, <3>3, ConcatEmptySeq
  <2>3. IsFlatten(h)
    <3> HIDE DEF V
    <3>1. ASSUME NEW i \in 1..n PROVE h[i] = IF i = 1 THEN V[i] ELSE h[i - 1] \o V[i]
      <4>1. CASE i = 1
        BY <1>1, <2>2, <4>1
      <4>2. CASE i # 1
        <5>1. i - 1 \in 1..n
          BY <4>2
        <5>2. h[i] = f[i] /\ h[i - 1] = f[i - 1]
          BY <5>1
        <5>3. QED BY <1>1, <2>1, <4>2, <5>2
      <4>3. QED BY <4>1, <4>2
    <3>2. h = [i \in 1..n |-> h[i]]
      OBVIOUS
    <3> HIDE DEF h
    <3>3. QED BY <1>1, <3>1, <3>2
  <2>4. PICK g : IsFlatten(g) /\ FlattenSeq(V) = g[n]
    <3> DEFINE g == CHOOSE g : IsFlatten(g)
    <3>1. IsFlatten(g)
      <4> HIDE DEF IsFlatten, h
      <4>1. QED BY <2>3
    <3>2. FlattenSeq(V) = g[Len(V)]
      <4>1. Len(V) # 0
        <5> HIDE DEF V
        <5>1. QED BY <1>1, <1>3
      <4> HIDE DEF V
      <4>2. QED BY <4>1 DEF FlattenSeq
    <3> HIDE DEF g, IsFlatten, V
    <3>3. QED BY <1>1, <3>1, <3>2
  <2> HIDE DEF h
  <2>5. ASSUME NEW i \in 1..n PROVE g[i] = IF i = 1 THEN W[i] ELSE g[i - 1] \o W[i]
    <3> HIDE DEF V
    <3>1. g[i] = IF i = 1 THEN V[i] ELSE g[i - 1] \o V[i]
      BY <1>1, <2>4
    <3>2. QED BY <1>1, <3>1
  <2> HIDE DEF IsFlatten, V
  <2> DEFINE T == {i \in Nat : i + 1 <= n => g[i + 1] = f[i + 1]}
  <2>6. 0 \in T
    <3>1. g[1] = W[1]
      BY <1>1, <1>3, <2>5
    <3>2. QED BY <2>2, <3>1
  <2>7. ASSUME NEW i \in Nat, i \in T PROVE i + 1 \in T
    <3> SUFFICES ASSUME (i + 1) + 1 <= n PROVE g[(i + 1) + 1] = f[(i + 1) + 1]
      OBVIOUS
    <3> DEFINE j == (i + 1) + 1
    <3>1. j \in 1..n /\ j # 1 /\ j - 1 = i + 1 /\ g[i + 1] = f[i + 1]
      BY <1>1, <2>7
    <3> HIDE DEF j
    <3>2. g[j] = g[j - 1] \o W[j] /\ f[j] = f[j - 1] \o W[j]
      BY <2>1, <2>5, <3>1
    <3>3. g[j] = f[j]
      BY <3>1, <3>2
    <3>4. QED BY <3>3 DEF j
  <2>8. Nat \subseteq T
    <3> HIDE DEF T
    <3>1. QED BY <2>6, <2>7, NatSetInduction
  <2>9. g[n] = f[n]
    <3>1. n - 1 \in Nat /\ (n - 1) + 1 = n
      BY <1>1, <1>3
    <3> HIDE DEF T
    <3>2. n - 1 \in T
      BY <2>8, <3>1
    <3> USE DEF T
    <3>3. QED BY <1>1, <3>1, <3>2
  <2>10. QED BY <2>4, <2>9 DEF Upto, V
<1>4. QED BY <1>2, <1>3

\* What was put together stays at its place.
LEMMA ConcatPlaces ==
    ASSUME NEW s \in Seq(Token), NEW t \in Seq(Token)
    PROVE  /\ Len(s) \in Nat /\ Len(t) \in Nat /\ Len(s \o t) = Len(s) + Len(t)
           /\ Len(s) <= Len(s \o t)
           /\ \A k \in 1..Len(s) : (s \o t)[k] = s[k]
           /\ \A k \in 1..Len(t) : Len(s) + k \in 1..Len(s \o t) /\ (s \o t)[Len(s) + k] = t[k]
<1>1. PICK m \in Nat, n \in Nat : m = Len(s) /\ n = Len(t)
  OBVIOUS
<1>2. /\ Len(s \o t) = m + n
      /\ \A k \in 1..(m + n) : (s \o t)[k] = IF k <= m THEN s[k] ELSE t[k - m]
  BY <1>1, ConcatProperties
<1>3. \A k \in 1..m : (s \o t)[k] = s[k]
  <2>1. \A k \in 1..m : k \in 1..(m + n) /\ k <= m
    OBVIOUS
  <2>2. QED BY <1>2, <2>1
<1>4. ASSUME NEW k \in 1..n PROVE m + k \in 1..(m + n) /\ (s \o t)[m + k] = t[k]
  <2>1. m + k \in 1..(m + n) /\ ~(m + k <= m) /\ (m + k) - m = k
    OBVIOUS
  <2>2. (s \o t)[m + k] = IF m + k <= m THEN s[m + k] ELSE t[(m + k) - m]
    BY <1>2, <2>1
  <2>3. QED BY <2>1, <2>2
<1>5. m <= m + n
  OBVIOUS
<1>6. QED BY <1>1, <1>2, <1>3, <1>4, <1>5

LEMMA FlatPrefix ==
    ASSUME NEW W \in Seq(Seq(Token)), NEW f, IsFlat(f, W), NEW n \in 0..Len(W), NEW m \in n..Len(W)
    PROVE  Len(f[n]) <= Len(f[m]) /\ \A k \in 1..Len(f[n]) : f[m][k] = f[n][k]
<1> DEFINE Keeps(i) == Len(f[n]) <= Len(f[n + i]) /\ \A k \in 1..Len(f[n]) : f[n + i][k] = f[n][k]
           T == {i \in Nat : n + i <= Len(W) => Keeps(i)}
<1>0. n \in Nat /\ f[n] \in Seq(Token) /\ Len(f[n]) \in Nat
  BY DEF IsFlat
<1>1. 0 \in T
  BY <1>0
<1>2. ASSUME NEW i \in Nat, i \in T PROVE i + 1 \in T
  <2> SUFFICES ASSUME n + (i + 1) <= Len(W) PROVE Keeps(i + 1)
    OBVIOUS
  <2> DEFINE j == n + i
  <2>1. n + (i + 1) = j + 1 /\ j + 1 \in 1..Len(W) /\ j \in 0..Len(W) /\ (j + 1) - 1 = j
    BY <1>0
  <2>2. Keeps(i)
    BY <1>0, <1>2
  <2>3. Len(f[n]) <= Len(f[j]) /\ \A k \in 1..Len(f[n]) : f[j][k] = f[n][k]
    BY <2>2
  <2> HIDE DEF j
  <2>4. f[j] \in Seq(Token) /\ W[j + 1] \in Seq(Token) /\ f[j + 1] = f[j] \o W[j + 1]
    <3>1. f[j + 1] = f[(j + 1) - 1] \o W[j + 1]
      BY <2>1 DEF IsFlat
    <3>2. f[j] \in Seq(Token)
      BY <2>1 DEF IsFlat
    <3>3. QED BY <2>1, <3>1, <3>2
  <2>5. PICK s \in Seq(Token), t \in Seq(Token) : s = f[j] /\ f[j + 1] = s \o t
    BY <2>4
  <2>6. Len(f[n]) <= Len(s \o t)
    <3>0. Len(f[n]) <= Len(s)
      BY <2>3, <2>5
    <3>1. Len(s) \in Nat /\ Len(s \o t) \in Nat /\ Len(s) <= Len(s \o t)
      BY ConcatPlaces
    <3>2. PICK a \in Nat, b \in Nat, c \in Nat : a = Len(f[n]) /\ b = Len(s) /\ c = Len(s \o t)
      BY <1>0, <3>1
    <3>3. a <= b /\ b <= c
      BY <3>0, <3>1, <3>2
    <3>4. a <= c
      BY <3>3
    <3>5. QED BY <3>2, <3>4
  <2>7. ASSUME NEW k \in 1..Len(f[n]) PROVE (s \o t)[k] = f[n][k]
    <3>1. k \in 1..Len(s)
      <4>1. PICK a \in Nat, b \in Nat : a = Len(f[n]) /\ b = Len(s)
        BY <1>0
      <4>2. a <= b /\ k \in 1..a
        BY <2>3, <2>5, <4>1
      <4>3. k \in 1..b
        BY <4>2
      <4>4. QED BY <4>1, <4>3
    <3>2. (s \o t)[k] = s[k]
      BY <3>1, ConcatPlaces
    <3>3. QED BY <2>3, <2>5, <3>2
  <2>8. QED BY <2>1, <2>5, <2>6, <2>7
<1>3. Nat \subseteq T
  <2> HIDE DEF T
  <2>1. QED BY <1>1, <1>2, NatSetInduction
<1>4. m - n \in Nat /\ n + (m - n) = m /\ m <= Len(W)
  BY <1>0
<1>5. m - n \in T
  <2> HIDE DEF T
  <2>1. QED BY <1>3, <1>4
<1>6. Keeps(m - n)
  BY <1>4, <1>5
<1>7. QED BY <1>4, <1>6

LEMMA FlatGrows ==
    ASSUME NEW W \in Seq(Seq(Token)), NEW n \in 0..(Len(W) - 1)
    PROVE  /\ Len(Upto(W, n + 1)) = Len(Upto(W, n)) + Len(W[n + 1])
           /\ \A k \in 1..Len(W[n + 1]) : Upto(W, Len(W))[Len(Upto(W, n)) + k] = W[n + 1][k]
           /\ Len(Upto(W, n)) + Len(W[n + 1]) <= Len(Upto(W, Len(W)))
<1>1. PICK f : IsFlat(f, W)
  BY FlatExists
<1>2. n \in 0..Len(W) /\ n + 1 \in 1..Len(W) /\ n + 1 \in 0..Len(W) /\ (n + 1) - 1 = n
      /\ Len(W) \in 0..Len(W) /\ Len(W) \in (n + 1)..Len(W)
  OBVIOUS
<1>3. Upto(W, n) = f[n] /\ Upto(W, n + 1) = f[n + 1] /\ Upto(W, Len(W)) = f[Len(W)]
  BY <1>1, <1>2, FlatEntry
<1>4. f[n] \in Seq(Token) /\ W[n + 1] \in Seq(Token) /\ f[n + 1] = f[n] \o W[n + 1]
      /\ f[n + 1] \in Seq(Token) /\ f[Len(W)] \in Seq(Token)
  <2>1. f[n + 1] = f[(n + 1) - 1] \o W[n + 1]
    BY <1>1, <1>2 DEF IsFlat
  <2>2. f[n] \in Seq(Token) /\ f[n + 1] \in Seq(Token) /\ f[Len(W)] \in Seq(Token)
    BY <1>1, <1>2 DEF IsFlat
  <2>3. QED BY <1>2, <2>1, <2>2
<1>5. PICK s \in Seq(Token), t \in Seq(Token), all \in Seq(Token) :
          s = f[n] /\ t = W[n + 1] /\ f[n + 1] = s \o t /\ all = f[Len(W)]
  BY <1>4
<1>6. Len(s \o t) <= Len(all) /\ \A k \in 1..Len(s \o t) : all[k] = (s \o t)[k]
  <2>1. PICK p \in 0..Len(W), q \in (n + 1)..Len(W) : p = n + 1 /\ q = Len(W)
    BY <1>2
  <2>2. q \in p..Len(W)
    BY <2>1
  <2>3. Len(f[p]) <= Len(f[q]) /\ \A k \in 1..Len(f[p]) : f[q][k] = f[p][k]
    BY <1>1, <2>2, FlatPrefix
  <2>4. QED BY <1>5, <2>1, <2>3
<1>7. \A k \in 1..Len(t) : all[Len(s) + k] = t[k]
  BY <1>6, ConcatPlaces
<1>8. Len(s \o t) = Len(s) + Len(t)
  BY ConcatPlaces
<1>9. QED BY <1>3, <1>5, <1>6, <1>7, <1>8

\* The peer's messages, and where each of them is in the stream.

LEMMA MessageNotEmpty ==
    ASSUME NEW m \in Message, IsHttpMessage(m) \/ IsTcpMessage(m)
    PROVE  m.bytes \in Seq(Token) /\ Len(m.bytes) > 0
<1>1. m.bytes \in Seq(Token)
  BY DEF Message
<1>2. PICK b \in Seq(Token) : b = m.bytes
  BY <1>1
<1>3. PICK a \in Nat, h \in Int : a = Len(b) /\ h = HeaderEnd(b) /\ h \in 0..a
  BY HeaderEndRange
<1>4. CASE IsTcpMessage(m)
  <2>1. a >= Offset + SizeOfInt
    BY <1>2, <1>3, <1>4 DEF IsTcpMessage
  <2>2. a > 0
    BY <2>1, SizeAssumption
  <2>3. QED BY <1>1, <1>2, <1>3, <2>2
<1>5. CASE IsHttpMessage(m)
  <2>1. h > 0 \/ h \in 1..MaxPacket \/ a > MaxPacket
    BY <1>2, <1>3, <1>5 DEF IsHttpMessage
  <2>2. a > 0
    BY <1>3, <2>1, SizeAssumption
  <2>3. QED BY <1>1, <1>2, <1>3, <2>2
<1>6. QED BY <1>4, <1>5

LEMMA PeerFacts ==
    ASSUME peer \in Connections
    PROVE  /\ IsPeer(peer) /\ Count \in Nat /\ Count > 0
           /\ \A i \in 1..Count : peer.messages[i] \in Message
           /\ DOMAIN peer.messages = 1..Count
           /\ Bytes \in Seq(Seq(Token)) /\ Len(Bytes) = Count /\ DOMAIN Bytes = 1..Count
           /\ \A i \in 1..Count : /\ Bytes[i] = peer.messages[i].bytes
                                  /\ Bytes[i] \in Seq(Token) /\ Len(Bytes[i]) \in Nat
                                  /\ Len(Bytes[i]) > 0
<1>1. IsPeer(peer)
  BY PeerAssumption
<1>2. peer.messages \in Seq(Message) /\ Count \in Nat /\ Count > 0 /\ DOMAIN peer.messages = 1..Count
  BY <1>1 DEF IsPeer, Count
<1>3. \A i \in 1..Count : peer.messages[i] \in Message
  BY <1>2 DEF Count
<1>4. ASSUME NEW i \in 1..Count
      PROVE  peer.messages[i].bytes \in Seq(Token) /\ Len(peer.messages[i].bytes) > 0
  <2> DEFINE m == peer.messages[i]
  <2>1. m \in Message
    BY <1>3
  <2>2. IsHttpMessage(m) \/ IsTcpMessage(m)
    <3>1. i \in DOMAIN peer.messages
      BY <1>2
    <3>2. QED BY <1>1, <3>1 DEF IsPeer
  <2> HIDE DEF m
  <2>3. m.bytes \in Seq(Token) /\ Len(m.bytes) > 0
    BY <2>1, <2>2, MessageNotEmpty
  <2>4. QED BY <2>3 DEF m
<1>5. DOMAIN Bytes = 1..Count /\ \A i \in 1..Count : Bytes[i] = peer.messages[i].bytes
  BY <1>2 DEF Bytes
<1>6. Bytes \in [1..Count -> Seq(Token)]
  <2>1. Bytes = [i \in 1..Count |-> Bytes[i]]
    BY <1>2 DEF Bytes
  <2>2. QED BY <1>4, <1>5, <2>1
<1>7. Bytes \in Seq(Seq(Token)) /\ Len(Bytes) = Count
  BY <1>2, <1>6
<1>8. \A i \in 1..Count : Len(Bytes[i]) \in Nat /\ Bytes[i] \in Seq(Token)
  BY <1>6
<1>9. QED BY <1>1, <1>2, <1>3, <1>4, <1>5, <1>7, <1>8

LEMMA StreamFacts ==
    ASSUME peer \in Connections
    PROVE  /\ Len(Stream) \in Nat /\ Stream \in Seq(Token)
           /\ Ends(0) = 0 /\ Ends(Count) = Len(Stream)
           /\ \A n \in 0..Count : Ends(n) \in Nat
           /\ \A n \in 0..(Count - 1) :
                 /\ Ends(n + 1) = Ends(n) + Len(Bytes[n + 1])
                 /\ Ends(n + 1) <= Len(Stream)
                 /\ \A k \in 1..Len(Bytes[n + 1]) : Stream[Ends(n) + k] = Bytes[n + 1][k]
<1>1. Bytes \in Seq(Seq(Token)) /\ Len(Bytes) = Count /\ Count \in Nat
  BY PeerFacts
<1>2. \A n : Ends(n) = Len(Upto(Bytes, n))
  BY DEF Ends, Upto
<1>3. Stream = Upto(Bytes, Count)
  <2>1. SubSeq(Bytes, 1, Len(Bytes)) = Bytes
    BY <1>1, SubSeqFull
  <2>2. QED BY <1>1, <2>1 DEF Stream, Upto
<1>4. PICK f : IsFlat(f, Bytes)
  BY <1>1, FlatExists
<1>5. \A n \in 0..Count : Upto(Bytes, n) = f[n] /\ f[n] \in Seq(Token)
  BY <1>1, <1>4, FlatEntry DEF IsFlat
<1>6. \A n \in 0..Count : Ends(n) \in Nat
  BY <1>2, <1>5
<1>7. Stream \in Seq(Token) /\ Len(Stream) \in Nat /\ Ends(Count) = Len(Stream)
  BY <1>1, <1>2, <1>3, <1>5
<1>8. Ends(0) = 0
  BY <1>1, <1>2, <1>4, <1>5 DEF IsFlat
<1>9. ASSUME NEW n \in 0..(Count - 1)
      PROVE  /\ Ends(n + 1) = Ends(n) + Len(Bytes[n + 1])
             /\ Ends(n + 1) <= Len(Stream)
             /\ \A k \in 1..Len(Bytes[n + 1]) : Stream[Ends(n) + k] = Bytes[n + 1][k]
  <2>1. /\ Len(Upto(Bytes, n + 1)) = Len(Upto(Bytes, n)) + Len(Bytes[n + 1])
        /\ \A k \in 1..Len(Bytes[n + 1]) :
              Upto(Bytes, Count)[Len(Upto(Bytes, n)) + k] = Bytes[n + 1][k]
        /\ Len(Upto(Bytes, n)) + Len(Bytes[n + 1]) <= Len(Upto(Bytes, Count))
    BY <1>1, FlatGrows
  <2>2. QED BY <1>2, <1>3, <2>1
<1>10. QED BY <1>6, <1>7, <1>8, <1>9

\* Later messages end later.
LEMMA EndsGrow ==
    ASSUME peer \in Connections, NEW n \in 0..Count, NEW m \in 0..Count, n < m
    PROVE  Ends(n) < Ends(m)
<1> DEFINE T == {i \in Nat : n + (i + 1) <= Count => Ends(n) < Ends(n + (i + 1))}
<1>1. Count \in Nat /\ \A i \in 0..Count : Ends(i) \in Nat
  BY PeerFacts, StreamFacts
<1>2. ASSUME NEW j \in 0..(Count - 1) PROVE Ends(j) < Ends(j + 1)
  <2>1. j + 1 \in 1..Count /\ j \in 0..Count
    BY <1>1
  <2>2. Len(Bytes[j + 1]) \in Nat /\ Len(Bytes[j + 1]) > 0 /\ Ends(j + 1) = Ends(j) + Len(Bytes[j + 1])
    BY <2>1, PeerFacts, StreamFacts
  <2>3. QED BY <1>1, <2>1, <2>2
<1>3. 0 \in T
  <2>1. n \in 0..(Count - 1) /\ n + (0 + 1) = n + 1
    BY <1>1
  <2>2. QED BY <1>2, <2>1
<1>4. ASSUME NEW i \in Nat, i \in T PROVE i + 1 \in T
  <2> SUFFICES ASSUME n + ((i + 1) + 1) <= Count PROVE Ends(n) < Ends(n + ((i + 1) + 1))
    OBVIOUS
  <2> DEFINE j == n + (i + 1)
  <2>1. /\ j \in 0..(Count - 1) /\ j + 1 = n + ((i + 1) + 1) /\ j \in 0..Count
        /\ j + 1 \in 0..Count /\ Ends(n) < Ends(j)
    BY <1>1, <1>4
  <2> HIDE DEF j
  <2>2. Ends(j) < Ends(j + 1)
    BY <1>2, <2>1
  <2>3. QED BY <1>1, <2>1, <2>2
<1>5. Nat \subseteq T
  <2> HIDE DEF T
  <2>1. QED BY <1>3, <1>4, NatSetInduction
<1>6. m - n - 1 \in Nat /\ n + ((m - n - 1) + 1) = m /\ m <= Count
  BY <1>1
<1>7. m - n - 1 \in T
  <2> HIDE DEF T
  <2>1. QED BY <1>5, <1>6
<1>8. QED BY <1>6, <1>7

-----------------------------------------------------------------------------
(* What a turn of the splitter's inner loop decides. *)

\* The packet it finds then is the next message, whole and legal; it finds none only
\* while the next message is not there completely, or is illegal, and refuses what is
\* illegal, or what it read beyond mRecvBytes.
DecidesWell(n) ==
    /\ NextPacket \in Int /\ NextPacket >= -1
    /\ NextPacket > 0 =>
          /\ n < Count /\ peer.messages[n + 1].legal
          /\ NextPacket = Len(Bytes[n + 1]) /\ NextPacket <= mRecvBytes
    /\ NextPacket = 0 /\ n < Count => mRecvBytes < Len(Bytes[n + 1])
    /\ NextPacket = -1 \/ (NextPacket = 0 /\ mRecvBytes = MaxPacket) =>
          (n < Count /\ ~peer.messages[n + 1].legal) \/ RanIntoOldBytes

LEMMA BufferNumbers ==
    ASSUME BufferOK
    PROVE  mRecvBytes \in 0..MaxPacket /\ mRecvBytes \in Nat /\ Len(buf) \in 0..MaxPacket
BY SizeAssumption DEF BufferOK

LEMMA FrontExists ==
    ASSUME peer \in Connections, BufferOK, NEW n, Holds(n), mRecvBytes > 0
    PROVE  n < Count /\ n \in 0..(Count - 1)
<1>1. /\ n \in 0..Count /\ Count \in Nat
      /\ Ends(Count) = Len(Stream) /\ Ends(n) + mRecvBytes <= Len(Stream)
  BY PeerFacts, StreamFacts DEF Holds
<1>2. n # Count
  <2>1. ASSUME n = Count PROVE FALSE
    <3>1. Ends(n) + mRecvBytes <= Ends(n) /\ Ends(n) \in Nat /\ mRecvBytes \in Nat
      BY <1>1, <2>1, StreamFacts, BufferNumbers
    <3>2. QED BY <3>1
  <2>2. QED BY <2>1
<1>3. QED BY <1>1, <1>2

LEMMA FrontAgrees ==
    ASSUME peer \in Connections, BufferOK, NEW n \in 0..(Count - 1), Holds(n),
           NEW k \in 0..mRecvBytes, k <= Len(Bytes[n + 1])
    PROVE  Agree(Bytes[n + 1], buf, k) /\ Agree(buf, Bytes[n + 1], k)
<1>1. n + 1 \in 1..Count
  BY PeerFacts
<1>2. PICK b \in Seq(Token) : b = Bytes[n + 1]
  BY <1>1, PeerFacts
<1>3. k <= Len(buf) /\ k <= Len(b) /\ k \in Nat
  <2>1. PICK a \in Nat : a = Len(buf)
    BY DEF BufferOK
  <2>2. k \in 0..mRecvBytes /\ mRecvBytes \in 0..a
    BY <2>1 DEF BufferOK
  <2>3. QED BY <1>2, <2>1, <2>2
<1>4. ASSUME NEW i \in 1..k PROVE b[i] = buf[i]
  <2>1. i \in 1..mRecvBytes
    BY <1>3, BufferNumbers
  <2>2. i \in 1..Len(b)
    <3>1. PICK a \in Nat : a = Len(b)
      BY <1>2
    <3>2. QED BY <1>3, <3>1
  <2>3. Stream[Ends(n) + i] = b[i]
    BY <1>2, <2>2, StreamFacts
  <2>4. QED BY <2>1, <2>3 DEF Holds
<1>5. QED BY <1>2, <1>3, <1>4 DEF Agree

LEMMA NextMessage ==
    ASSUME peer \in Connections, NEW n \in 0..(Count - 1)
    PROVE  /\ n + 1 \in 1..Count /\ n < Count
           /\ Bytes[n + 1] = peer.messages[n + 1].bytes /\ Bytes[n + 1] \in Seq(Token)
           /\ peer.messages[n + 1] \in Message
           /\ Http => IsHttpMessage(peer.messages[n + 1])
           /\ ~Http => IsTcpMessage(peer.messages[n + 1])
<1>1. n + 1 \in 1..Count /\ n < Count /\ n + 1 \in DOMAIN peer.messages
  BY PeerFacts
<1>2. QED BY <1>1, PeerFacts DEF IsPeer, Http

LEMMA TcpDecides ==
    ASSUME peer \in Connections, BufferOK, NEW n, Holds(n), ~Http
    PROVE  DecidesWell(n)
<1> USE SizeAssumption
<1>1. NextPacket = TcpPacketBelow(MaxPacket)
  BY DEF NextPacket, TcpPacket
<1>2. n \in 0..Count /\ Count \in Nat /\ mRecvBytes \in 0..MaxPacket
  BY PeerFacts, BufferNumbers DEF Holds
<1>3. CASE mRecvBytes < Offset + SizeOfInt
  <2>1. NextPacket = 0
    BY <1>1, <1>3 DEF TcpPacketBelow
  <2>2. ASSUME n < Count
        PROVE  /\ mRecvBytes < Len(Bytes[n + 1])
               /\ mRecvBytes = MaxPacket => ~peer.messages[n + 1].legal
    <3>1. n \in 0..(Count - 1)
      BY <1>2, <2>2
    <3>2. PICK m \in Message : m = peer.messages[n + 1] /\ m.bytes = Bytes[n + 1] /\ IsTcpMessage(m)
      BY <3>1, NextMessage
    <3>3. PICK a \in Nat : a = Len(m.bytes)
      BY DEF Message
    <3>4. a >= Offset + SizeOfInt /\ (m.legal => a \in SizeOfInt..MaxPacket)
      BY <3>2, <3>3 DEF IsTcpMessage
    <3>5. mRecvBytes < a /\ (mRecvBytes = MaxPacket => ~m.legal)
      BY <1>2, <1>3, <3>4
    <3>6. QED BY <3>2, <3>3, <3>5
  <2>3. mRecvBytes = MaxPacket => n < Count
    BY <1>2, FrontExists
  <2>4. QED BY <2>1, <2>2, <2>3 DEF DecidesWell
<1>4. CASE ~(mRecvBytes < Offset + SizeOfInt)
  <2>1. n \in 0..(Count - 1)
    BY <1>2, <1>4, FrontExists
  <2>2. PICK m \in Message : m = peer.messages[n + 1] /\ m.bytes = Bytes[n + 1] /\ IsTcpMessage(m)
    BY <2>1, NextMessage
  <2>3. PICK a \in Nat : a = Len(m.bytes)
    BY DEF Message
  <2>4. a >= Offset + SizeOfInt
    BY <2>2, <2>3 DEF IsTcpMessage
  <2>5. buf[Offset + 1] = m.bytes[Offset + 1]
    <3>1. Offset + SizeOfInt \in 0..mRecvBytes /\ Offset + SizeOfInt <= Len(Bytes[n + 1])
          /\ Offset + 1 \in 1..(Offset + SizeOfInt)
      BY <1>2, <1>4, <2>2, <2>3, <2>4
    <3>2. Agree(Bytes[n + 1], buf, Offset + SizeOfInt)
      BY <2>1, <3>1, FrontAgrees
    <3>3. QED BY <2>2, <3>1, <3>2 DEF Agree
  <2>6. PICK size \in Int : size = m.bytes[Offset + 1].v
    <3>1. Offset + 1 \in 1..Len(m.bytes) /\ m.bytes \in Seq(Token)
      BY <2>3, <2>4 DEF Message
    <3>2. m.bytes[Offset + 1] \in Token
      BY <3>1
    <3>3. QED BY <3>2 DEF Token
  <2>7. NextPacket = IF size < SizeOfInt \/ size > MaxPacket THEN -1
                     ELSE IF mRecvBytes < size THEN 0 ELSE size
    BY <1>1, <1>4, <2>5, <2>6 DEF TcpPacketBelow
  <2>8. IF m.legal THEN size = a /\ size \in SizeOfInt..MaxPacket
        ELSE size < SizeOfInt \/ size > MaxPacket
    BY <2>2, <2>3, <2>6 DEF IsTcpMessage
  <2>9. CASE m.legal
    <3>1. size = a /\ size \in SizeOfInt..MaxPacket
      BY <2>8, <2>9
    <3>2. NextPacket = IF mRecvBytes < a THEN 0 ELSE a
      BY <2>7, <3>1
    <3>3. a > 0 /\ n < Count /\ a = Len(Bytes[n + 1])
      BY <1>2, <2>1, <2>2, <2>3, <3>1
    <3>4. /\ NextPacket \in Int /\ NextPacket >= 0 /\ (NextPacket = 0 => mRecvBytes < a)
          /\ (NextPacket > 0 => NextPacket = a /\ NextPacket <= mRecvBytes)
          /\ (mRecvBytes = MaxPacket => NextPacket # 0)
      BY <1>2, <3>1, <3>2, <3>3
    <3>5. QED BY <2>2, <2>9, <3>3, <3>4 DEF DecidesWell
  <2>10. CASE ~m.legal
    <3>1. NextPacket = -1
      BY <2>7, <2>8, <2>10
    <3>2. QED BY <1>2, <2>1, <2>2, <2>10, <3>1 DEF DecidesWell
  <2>11. QED BY <2>9, <2>10
<1>5. QED BY <1>3, <1>4

LEMMA WrapFacts ==
    ASSUME NEW e \in 1..(MaxPacket + 1), NEW c \in 0..IntMax
    PROVE  /\ WrapInt(e + c) \in Int
           /\ e + c <= MaxPacket => WrapInt(e + c) = e + c
           /\ WrapInt(e + c) > 0 => WrapInt(e + c) = e + c
BY SizeAssumption DEF WrapInt

\* What SplitHttpPacket makes of where strstr found the header's end and of the length
\* it read.
LEMMA HttpDecision ==
    ASSUME NEW e, e = HeaderSize(buf), NEW c, c = GetContentLength(buf, e)
    PROVE  HttpPacket = IF e = 0 THEN 0
                        ELSE IF c < 0 \/ WrapInt(e + c) <= 0 \/ WrapInt(e + c) > MaxPacket THEN -1
                        ELSE IF mRecvBytes < WrapInt(e + c) THEN 0 ELSE WrapInt(e + c)
BY DEF HttpPacket

\* A header's end that was received is found.
LEMMA EndFound ==
    ASSUME peer \in Connections, BufferOK, NEW n \in 0..(Count - 1), Holds(n),
           HeaderEnd(Bytes[n + 1]) \in 1..mRecvBytes
    PROVE  HeaderEnd(buf) = HeaderEnd(Bytes[n + 1])
<1>1. PICK b \in Seq(Token) : b = Bytes[n + 1]
  BY NextMessage
<1>2. PICK h \in Int, a \in Nat : h = HeaderEnd(b) /\ a = Len(b) /\ h \in 0..a
  BY HeaderEndRange
<1>3. h \in 1..mRecvBytes /\ h \in 0..mRecvBytes /\ h \in Nat /\ h \in 1..h /\ h <= Len(b)
  BY <1>1, <1>2, BufferNumbers
<1>4. Agree(b, buf, h)
  BY <1>1, <1>3, FrontAgrees
<1>5. QED BY <1>1, <1>2, <1>3, <1>4, HeaderEndAgrees DEF BufferOK

\* The next request: its end and its length, and what being legal means.
LEMMA RequestFacts ==
    ASSUME NEW m \in Message, IsHttpMessage(m)
    PROVE  \E b \in Seq(Token), a \in Nat, h \in Int, c \in Int :
              /\ b = m.bytes /\ a = Len(b) /\ h = HeaderEnd(b) /\ c = GetContentLength(b, h)
              /\ h \in 0..a /\ c \in (-IntMax)..IntMax
              /\ m.legal => /\ h > 0 /\ c >= 0 /\ a = h + c /\ a <= MaxPacket
                            /\ m.close = IsConnectionClose(b, h)
                            /\ m.body = SubSeq(b, h + 1, a)
              /\ ~m.legal => IF h \in 1..MaxPacket THEN c < 0 \/ h + c > MaxPacket
                             ELSE a > MaxPacket
<1>1. PICK b \in Seq(Token) : b = m.bytes
  BY DEF Message
<1>2. PICK a \in Nat, h \in Int : a = Len(b) /\ h = HeaderEnd(b) /\ h \in 0..a
  BY HeaderEndRange
<1>3. PICK c \in Int : c = GetContentLength(b, h) /\ c \in (-IntMax)..IntMax
  BY LengthRange, SizeAssumption DEF GetContentLength
<1>4. m.legal => /\ h > 0 /\ c >= 0 /\ a = h + c /\ a <= MaxPacket
                 /\ m.close = IsConnectionClose(b, h)
                 /\ m.body = SubSeq(b, h + 1, a)
  BY <1>1, <1>2, <1>3 DEF IsHttpMessage
<1>5. ~m.legal => IF h \in 1..MaxPacket THEN c < 0 \/ h + c > MaxPacket ELSE a > MaxPacket
  BY <1>1, <1>2, <1>3 DEF IsHttpMessage
<1>6. QED BY <1>1, <1>2, <1>3, <1>4, <1>5

LEMMA HttpDecides ==
    ASSUME peer \in Connections, BufferOK, NEW n, Holds(n), Http
    PROVE  DecidesWell(n)
<1> USE SizeAssumption
<1>1. NextPacket = HttpPacket
  BY DEF NextPacket
<1>2. n \in 0..Count /\ Count \in Nat /\ mRecvBytes \in 0..MaxPacket
  BY PeerFacts, BufferNumbers DEF Holds
<1>3. PICK r \in Nat : r = mRecvBytes /\ r <= MaxPacket
  BY <1>2
<1>4. PICK e \in Int : e = HeaderSize(buf) /\ e \in 0..(MaxPacket + 1)
                       /\ (e = HeaderEnd(buf) \/ (e = MaxPacket + 1 /\ HeaderEnd(buf) = 0))
  <2>1. buf \in Seq(Token) /\ Len(buf) \in 0..MaxPacket
    BY BufferNumbers DEF BufferOK
  <2>2. PICK d \in Int : d = HeaderEnd(buf) /\ d \in 0..MaxPacket
    <3>1. PICK a \in Nat : a = Len(buf) /\ a <= MaxPacket
      BY <2>1
    <3>2. QED BY <2>1, <3>1, HeaderEndRange
  <2>3. QED BY <2>2 DEF HeaderSize
<1>5. PICK c \in Int : c = GetContentLength(buf, e) /\ c \in (-IntMax)..IntMax
  BY LengthRange DEF GetContentLength, BufferOK
<1>6. NextPacket = IF e = 0 THEN 0
                   ELSE IF c < 0 \/ WrapInt(e + c) <= 0 \/ WrapInt(e + c) > MaxPacket THEN -1
                   ELSE IF r < WrapInt(e + c) THEN 0 ELSE WrapInt(e + c)
  BY <1>1, <1>3, <1>4, <1>5, HttpDecision
<1>7. /\ NextPacket \in Int /\ NextPacket >= -1
      /\ NextPacket # -1 /\ e > 0 => /\ c >= 0 /\ WrapInt(e + c) = e + c
                                     /\ NextPacket = IF r < e + c THEN 0 ELSE e + c
  <2>1. CASE e = 0
    BY <1>6, <2>1
  <2>2. CASE e > 0 /\ c < 0
    BY <1>6, <2>2
  <2>3. CASE e > 0 /\ c >= 0
    <3>1. PICK w \in Int : w = WrapInt(e + c) /\ (w > 0 => w = e + c)
      BY <1>4, <1>5, <2>3, WrapFacts
    <3>2. NextPacket = IF w <= 0 \/ w > MaxPacket THEN -1 ELSE IF r < w THEN 0 ELSE w
      BY <1>6, <2>3, <3>1
    <3>3. QED BY <2>3, <3>1, <3>2
  <2>4. QED BY <1>4, <2>1, <2>2, <2>3
\* The next message, if there is one.
<1>8. ASSUME n < Count
      PROVE  \E m \in Message : /\ m = peer.messages[n + 1] /\ m.bytes = Bytes[n + 1]
                                /\ IsHttpMessage(m) /\ n \in 0..(Count - 1)
  <2>1. n \in 0..(Count - 1)
    BY <1>2, <1>8
  <2>2. QED BY <2>1, NextMessage
<1>9. CASE ~(e \in 1..r)
  <2>1. ASSUME n < Count
        PROVE  /\ r < Len(Bytes[n + 1])
               /\ e = 0 /\ r = MaxPacket => ~peer.messages[n + 1].legal
    <3>1. PICK m \in Message : /\ m = peer.messages[n + 1] /\ m.bytes = Bytes[n + 1]
                               /\ IsHttpMessage(m) /\ n \in 0..(Count - 1)
      BY <1>8, <2>1
    <3>2. PICK b \in Seq(Token), a \in Nat, h \in Int, k \in Int :
              /\ b = m.bytes /\ a = Len(b) /\ h = HeaderEnd(b) /\ k = GetContentLength(b, h)
              /\ h \in 0..a
              /\ m.legal => h > 0 /\ k >= 0 /\ a = h + k /\ a <= MaxPacket
              /\ ~m.legal => IF h \in 1..MaxPacket THEN k < 0 \/ h + k > MaxPacket
                             ELSE a > MaxPacket
      BY <3>1, RequestFacts
    <3>3. ~(h \in 1..r)
      <4>1. ASSUME h \in 1..r PROVE FALSE
        <5>1. HeaderEnd(buf) = h
          BY <1>3, <3>1, <3>2, <4>1, EndFound
        <5>2. h = e
          BY <1>4, <4>1, <5>1
        <5>3. QED BY <1>9, <4>1, <5>2
      <4>2. QED BY <4>1
    <3>4. r < a /\ (r = MaxPacket => ~m.legal)
      <4>1. CASE m.legal
        BY <1>3, <3>2, <3>3, <4>1
      <4>2. CASE ~m.legal
        BY <1>3, <3>2, <3>3, <4>2
      <4>3. QED BY <4>1, <4>2
    <3>5. QED BY <3>1, <3>2, <3>4
  <2>2. e = 0 \/ e > r
    BY <1>4, <1>9
  <2>3. ~(NextPacket > 0)
    <3>1. CASE e = 0
      BY <1>6, <3>1
    <3>2. CASE e > r
      BY <1>3, <1>7, <3>2
    <3>3. QED BY <2>2, <3>1, <3>2
  <2>4. e > r => RanIntoOldBytes
    BY <1>3, <1>4 DEF RanIntoOldBytes
  <2>5. e = 0 => NextPacket = 0
    BY <1>6
  <2>6. r = MaxPacket => n < Count
    BY <1>3, FrontExists
  <2>7. QED BY <1>3, <1>7, <2>1, <2>2, <2>3, <2>4, <2>5, <2>6 DEF DecidesWell
<1>10. CASE e \in 1..r
  <2>1. e = HeaderEnd(buf) /\ r > 0 /\ e <= MaxPacket /\ e > 0
    BY <1>3, <1>4, <1>10
  <2>2. n < Count
    BY <1>3, <2>1, FrontExists
  <2>3. PICK m \in Message : /\ m = peer.messages[n + 1] /\ m.bytes = Bytes[n + 1]
                             /\ IsHttpMessage(m) /\ n \in 0..(Count - 1)
    BY <1>8, <2>2
  <2>4. PICK b \in Seq(Token), a \in Nat, h \in Int, k \in Int :
            /\ b = m.bytes /\ a = Len(b) /\ h = HeaderEnd(b) /\ k = GetContentLength(b, h)
            /\ h \in 0..a
            /\ m.legal => h > 0 /\ k >= 0 /\ a = h + k /\ a <= MaxPacket
            /\ ~m.legal => IF h \in 1..MaxPacket THEN k < 0 \/ h + k > MaxPacket
                           ELSE a > MaxPacket
    BY <2>3, RequestFacts
  <2>5. h \in 1..r => h = e
    BY <1>3, <2>1, <2>3, <2>4, EndFound
  <2>6. e <= a
    <3>1. ASSUME a < e PROVE FALSE
      <4>1. a < r /\ a <= MaxPacket
        BY <1>3, <1>10, <3>1
      <4>2. h \in 1..r
        <5>1. CASE m.legal
          BY <2>4, <4>1, <5>1
        <5>2. CASE ~m.legal
          BY <1>3, <2>4, <4>1, <5>2
        <5>3. QED BY <5>1, <5>2
      <4>3. QED BY <2>4, <2>5, <3>1, <4>2
    <3>2. QED BY <2>1, <2>4, <3>1
  <2>7. Agree(buf, b, e)
    <3>1. e \in 0..mRecvBytes /\ e <= Len(Bytes[n + 1])
      BY <1>3, <1>10, <2>3, <2>4, <2>6
    <3>2. QED BY <2>3, <2>4, <3>1, FrontAgrees
  <2>8. e = h
    <3>1. buf \in Seq(Token) /\ e \in Nat /\ HeaderEnd(buf) \in 1..e
      BY <2>1 DEF BufferOK
    <3>2. QED BY <2>1, <2>4, <2>7, <3>1, HeaderEndAgrees
  <2>9. c = k
    <3>1. buf \in Seq(Token) /\ EndsAt(buf, e)
      BY <2>1, HeaderEndIs DEF BufferOK
    <3>2. Is(buf, e, "crlf")
      BY <3>1 DEF EndsAt, Pair
    <3>3. LengthOf(buf, e, {"Content-Length"}) = LengthOf(b, e, {"Content-Length"})
      <4>1. e \in Nat
        BY <2>1
      <4>2. QED BY <2>7, <3>1, <3>2, <4>1, LengthAgrees
    <3>4. QED BY <1>5, <2>4, <2>8, <3>3 DEF GetContentLength
  <2>10. CASE m.legal
    <3>1. c >= 0 /\ e + c = a /\ a <= MaxPacket /\ a > 0
      BY <2>1, <2>4, <2>8, <2>9, <2>10
    <3>2. WrapInt(e + c) = a
      <4>1. e \in 1..(MaxPacket + 1) /\ c \in 0..IntMax
        BY <1>4, <1>5, <2>1, <3>1
      <4>2. QED BY <3>1, <4>1, WrapFacts
    <3>3. NextPacket = IF r < a THEN 0 ELSE a
      BY <1>6, <2>1, <3>1, <3>2
    <3>4. /\ NextPacket >= 0 /\ (NextPacket = 0 => r < a) /\ (r = MaxPacket => NextPacket # 0)
          /\ (NextPacket > 0 => NextPacket = a /\ NextPacket <= r)
      BY <1>3, <3>1, <3>3
    <3>5. a = Len(Bytes[n + 1])
      BY <2>3, <2>4
    <3>6. QED BY <1>3, <1>7, <2>2, <2>3, <2>10, <3>4, <3>5 DEF DecidesWell
  <2>11. CASE ~m.legal
    <3>1. c < 0 \/ e + c > MaxPacket
      BY <2>1, <2>4, <2>8, <2>9, <2>11
    <3>2. NextPacket = -1
      <4>1. CASE c < 0
        BY <1>6, <2>1, <4>1
      <4>2. CASE c >= 0 /\ e + c > MaxPacket
        <5>1. PICK w \in Int : w = WrapInt(e + c) /\ (w > 0 => w = e + c)
          BY <1>4, <1>5, <2>1, <4>2, WrapFacts
        <5>2. w <= 0 \/ w > MaxPacket
          BY <4>2, <5>1
        <5>3. QED BY <1>6, <2>1, <5>1, <5>2
      <4>3. QED BY <3>1, <4>1, <4>2
    <3>3. QED BY <1>2, <2>2, <2>3, <2>11, <3>2 DEF DecidesWell
  <2>12. QED BY <2>10, <2>11
<1>11. QED BY <1>9, <1>10

LEMMA Decides ==
    ASSUME peer \in Connections, BufferOK, NEW n, Holds(n)
    PROVE  DecidesWell(n)
BY TcpDecides, HttpDecides
-----------------------------------------------------------------------------
(* What a step that leaves the peer or the buffer alone keeps. *)

LEMMA PeerKept ==
    ASSUME UNCHANGED peer
    PROVE  /\ Bytes' = Bytes /\ Stream' = Stream /\ Http' = Http /\ Count' = Count
           /\ \A n : Ends(n)' = Ends(n)
<1>1. Bytes' = Bytes
  BY DEF Bytes
<1>2. Stream' = Stream /\ \A n : Ends(n)' = Ends(n)
  BY <1>1 DEF Stream, Ends
<1>3. QED BY <1>1, <1>2 DEF Http, Count

\* Who leaves the buffer alone changes nothing of what the inner loop finds in it.
LEMMA BufferKept ==
    ASSUME UNCHANGED <<peer, buf, behind, mRecvBytes>>
    PROVE  /\ NextPacket' = NextPacket /\ RanIntoOldBytes' = RanIntoOldBytes
           /\ BufferOK' = BufferOK
           /\ \A n : Holds(n)' = Holds(n)
<1>1. Http' = Http /\ Count' = Count /\ Stream' = Stream /\ \A n : Ends(n)' = Ends(n)
  BY PeerKept
<1>2. HeaderSize(buf)' = HeaderSize(buf)
  BY DEF HeaderSize
<1>3. HttpPacket' = HttpPacket
  BY <1>2 DEF HttpPacket
<1>4. TcpPacket' = TcpPacket
  BY DEF TcpPacket, TcpPacketBelow
<1>5. QED BY <1>1, <1>2, <1>3, <1>4 DEF NextPacket, RanIntoOldBytes, BufferOK, Holds

LEMMA DeliveredKept ==
    ASSUME UNCHANGED <<peer, delivered>>
    PROVE  DeliveredInv' = DeliveredInv
BY PeerKept DEF DeliveredInv

\* A step of the control alone.
LEMMA ControlStep ==
    ASSUME SplitterInv, UNCHANGED <<peer, arrived, leftSize, buf, behind, mRecvBytes, delivered>>,
           splitPC' \in SplitterPCs, splitPC' = "mark" <=> splitPC = "mark", TurnInv'
    PROVE  SplitterInv'
<1>1. Consumed' = Consumed
  BY DEF Consumed
<1>2. /\ Stream' = Stream /\ Ends(Consumed)' = Ends(Consumed)
      /\ BufferOK' = BufferOK /\ Holds(Consumed)' = Holds(Consumed)
  <2>1. Bytes' = Bytes /\ Stream' = Stream
    BY PeerKept
  <2>2. Ends(Consumed)' = Ends(Consumed)
    BY <1>1, <2>1 DEF Ends
  <2>3. Count' = Count
    BY PeerKept
  <2>4. QED BY <1>1, <2>1, <2>2, <2>3, BufferKept DEF Holds
<1>3. PlacesInv'
  BY <1>2 DEF PlacesInv, SplitterInv
<1>4. DeliveredInv'
  BY DeliveredKept DEF SplitterInv
<1>5. QED BY <1>3, <1>4 DEF SplitterInv

LEMMA ConsumedRange ==
    ASSUME SplitterInv
    PROVE  /\ Consumed \in 0..Count /\ Count \in Nat
           /\ splitPC # "mark" => Consumed = Len(delivered)
           /\ splitPC = "mark" => Len(delivered) \in 1..Count /\ Consumed + 1 = Len(delivered)
           /\ DecidesWell(Consumed)
<1>1. PICK d \in Nat, c \in Nat : d = Len(delivered) /\ c = Count /\ d <= c
  <2>1. PICK c \in Nat : c = Count
    BY PeerFacts DEF SplitterInv, PlacesInv
  <2>2. Len(delivered) \in 0..c
    BY <2>1 DEF SplitterInv, DeliveredInv
  <2>3. QED BY <2>1, <2>2
<1>2. Consumed \in 0..Count /\ peer \in Connections /\ BufferOK /\ Holds(Consumed)
  BY DEF SplitterInv, PlacesInv, Holds
<1>3. DecidesWell(Consumed)
  BY <1>2, Decides
<1>4. Consumed = IF splitPC = "mark" THEN d - 1 ELSE d
  BY <1>1 DEF Consumed
<1>5. QED BY <1>1, <1>2, <1>3, <1>4

-----------------------------------------------------------------------------
(* The splitter's steps keep its invariant. *)

\* What a peer may have sent: for one that waits, up to the end of some message, all those
\* before it being answered.
LEMMA MayArriveFacts ==
    ASSUME peer \in Connections
    PROVE  /\ MayArrive \in Nat /\ MayArrive <= Len(Stream)
           /\ ~peer.pipelined =>
                 \E k \in 1..Count : MayArrive = Ends(k) /\ \A i \in 1..(k - 1) : i \in answered
<1>1. CASE peer.pipelined
  BY <1>1, StreamFacts DEF MayArrive
<1>2. CASE ~peer.pipelined
  <2> DEFINE due == {n \in 1..Count : \A i \in 1..(n - 1) : i \in answered}
  <2>1. MayArrive = Ends(Max(due))
    BY <1>2 DEF MayArrive, Count
  <2>2. 1 \in due /\ due \subseteq 0..Count /\ Count \in Nat
    BY PeerFacts
  <2>3. Max(due) \in due
    <3> HIDE DEF due
    <3>1. QED BY <2>2, MaxIsGreatest
  <2>4. PICK k \in 1..Count : k = Max(due) /\ \A i \in 1..(k - 1) : i \in answered
    BY <2>3
  <2>5. Ends(k) \in Nat /\ Ends(k) <= Len(Stream)
    <3>1. k - 1 \in 0..(Count - 1) /\ k \in 0..Count /\ (k - 1) + 1 = k
      BY <2>2
    <3>2. QED BY <3>1, StreamFacts
  <2>6. QED BY <1>2, <2>1, <2>4, <2>5
<1>3. QED BY <1>1, <1>2

LEMMA SplitterRecv ==
    ASSUME SplitterInv, NEW n \in RecvSizes, Recv(n)
    PROVE  SplitterInv'
<1>1. /\ peer \in Connections /\ splitPC = "recv" /\ leftSize = 0 /\ NextPacket = 0
      /\ arrived \in Nat /\ Consumed \in 0..Count
  BY ConsumedRange DEF SplitterInv, PlacesInv, TurnInv, Recv
<1>2. PICK may \in Nat : may = MayArrive /\ may <= Len(Stream) /\ arrived < may
  BY <1>1, MayArriveFacts DEF Recv
<1>3. leftSize' \in Nat /\ arrived' \in Nat /\ arrived' = arrived + leftSize' /\ arrived' <= may
  <2>1. n \in Nat /\ may - arrived \in Nat
    BY <1>1, <1>2, SizeAssumption
  <2>2. leftSize' = IF n <= may - arrived THEN n ELSE may - arrived
    <3>1. Min({n, may - arrived}) = IF n <= may - arrived THEN n ELSE may - arrived
      BY <2>1, MinOfTwo
    <3>2. QED BY <1>2, <3>1 DEF Recv
  <2>3. QED BY <1>1, <1>2, <2>1, <2>2 DEF Recv
<1>4. /\ UNCHANGED <<peer, buf, behind, mRecvBytes, delivered>> /\ splitPC' = "split"
      /\ Consumed' = Consumed
  BY <1>1 DEF Recv, Consumed
<1>5. PICK e \in Nat, r \in Nat, s \in Nat : e = Ends(Consumed) /\ r = mRecvBytes /\ s = Len(Stream)
  BY <1>1, StreamFacts, BufferNumbers DEF SplitterInv, PlacesInv
<1>6. Ends(Consumed)' = Ends(Consumed) /\ Stream' = Stream /\ Count' = Count
  BY <1>4, PeerKept DEF Ends
<1>7. Holds(Consumed)' /\ BufferOK' /\ NextPacket' = 0
  <2>1. BufferOK' = BufferOK /\ NextPacket' = NextPacket
    BY <1>4, BufferKept
  <2>2. Holds(Consumed)'
    BY <1>4, <1>6 DEF Holds, SplitterInv, PlacesInv
  <2>3. QED BY <1>1, <2>1, <2>2 DEF SplitterInv, PlacesInv
<1>8. PlacesInv'
  <2>1. e + r + 0 = arrived /\ may <= s
    BY <1>1, <1>2, <1>5 DEF SplitterInv, PlacesInv
  <2>2. e + r + leftSize' = arrived' /\ arrived' <= s
    <3>1. PICK l \in Nat, a \in Nat : l = leftSize' /\ a = arrived' /\ a = arrived + l /\ a <= may
      BY <1>3
    <3>2. e \in Nat /\ r \in Nat /\ s \in Nat
      OBVIOUS
    <3>3. e + r + l = a /\ a <= s
      BY <2>1, <3>1, <3>2
    <3>4. QED BY <3>1, <3>3
  <2>3. QED BY <1>1, <1>3, <1>4, <1>5, <1>6, <1>7, <2>2 DEF PlacesInv, SplitterPCs
<1>9. DeliveredInv' /\ TurnInv'
  BY <1>4, <1>7, DeliveredKept DEF SplitterInv, TurnInv
<1>10. QED BY <1>8, <1>9 DEF SplitterInv

LEMMA SplitterStops ==
    ASSUME SplitterInv, splitPC \in {"split", "parse"}, splitPC' = "closed",
           UNCHANGED <<peer, arrived, leftSize, buf, behind, mRecvBytes, delivered>>
    PROVE  SplitterInv'
<1>1. TurnInv' /\ splitPC' \in SplitterPCs /\ splitPC # "mark" /\ splitPC' # "mark"
  BY DEF TurnInv, SplitterPCs
<1>2. QED BY <1>1, ControlStep

LEMMA SplitterBreak ==
    ASSUME SplitterInv, Break
    PROVE  SplitterInv'
<1>1. NextPacket' = 0 /\ leftSize \in Nat /\ leftSize' = leftSize
  BY BufferKept DEF Break, SplitterInv, PlacesInv
<1>2. /\ UNCHANGED <<peer, arrived, leftSize, buf, behind, mRecvBytes, delivered>>
      /\ splitPC' \in {"split", "recv", "closed"} /\ splitPC = "parse"
      /\ splitPC' = "recv" => ~(leftSize > 0)
  BY DEF Break
<1>3. TurnInv'
  BY <1>1, <1>2 DEF TurnInv
<1>4. splitPC' \in SplitterPCs /\ splitPC # "mark" /\ splitPC' # "mark"
  BY <1>2 DEF SplitterPCs
<1>5. QED BY <1>2, <1>3, <1>4, ControlStep

LEMMA SplitterServe ==
    ASSUME SplitterInv, NEW i, Serve(i) \/ Answer(i)
    PROVE  SplitterInv'
<1>1. UNCHANGED <<peer, arrived, leftSize, buf, behind, mRecvBytes, delivered, splitPC>>
  BY DEF Serve, Answer, AnswerThen
<1>2. NextPacket' = NextPacket
  BY <1>1, BufferKept
<1>3. TurnInv' /\ splitPC' \in SplitterPCs
  BY <1>1, <1>2 DEF TurnInv, SplitterInv, PlacesInv
<1>4. QED BY <1>1, <1>3, ControlStep

\* Overlay writes s behind the first "at" tokens of b and leaves those alone.
Overlaid(o, b, at, s) ==
    /\ o \in Seq(Token) /\ Len(o) = MaxPacket
    /\ \A i \in 1..at : i <= MaxPacket => o[i] = b[i]
    /\ \A i \in 1..Len(s) : at + i <= MaxPacket => o[at + i] = s[i]

LEMMA OverlayFacts ==
    ASSUME NEW b \in Seq(Token), Len(b) = MaxPacket, NEW s \in Seq(Token), NEW at \in Nat
    PROVE  Overlaid(Overlay(b, at, s), b, at, s)
<1> PICK k \in Nat : k = Len(s)
  OBVIOUS
<1> DEFINE o == Overlay(b, at, s)
<1>1. o = [i \in 1..MaxPacket |-> IF i \in (at + 1)..(at + k) THEN s[i - at] ELSE b[i]]
  BY DEF Overlay
<1>2. ASSUME NEW i \in 1..MaxPacket PROVE o[i] \in Token
  <2>1. CASE i \in (at + 1)..(at + k)
    <3>1. i - at \in 1..k
      BY <2>1
    <3>2. s[i - at] \in Token
      BY <3>1
    <3>3. QED BY <1>1, <2>1, <3>2
  <2>2. CASE i \notin (at + 1)..(at + k)
    <3>1. i \in 1..Len(b)
      OBVIOUS
    <3>2. b[i] \in Token
      BY <3>1, ElementOfSeq
    <3>3. QED BY <1>1, <2>2, <3>2
  <2>3. QED BY <2>1, <2>2
<1>3. o \in [1..MaxPacket -> Token]
  <2> HIDE DEF o
  <2>1. o = [i \in 1..MaxPacket |-> o[i]]
    BY <1>1
  <2>2. QED BY <1>2, <2>1
<1>4. o \in Seq(Token) /\ Len(o) = MaxPacket
  <2> HIDE DEF o
  <2>1. MaxPacket \in Nat
    BY SizeAssumption
  <2>2. QED BY <1>3, <2>1
<1>5. ASSUME NEW i \in 1..at, i <= MaxPacket PROVE o[i] = b[i]
  <2>1. i \in 1..MaxPacket /\ i \notin (at + 1)..(at + k)
    BY SizeAssumption, <1>5
  <2>2. QED BY <1>1, <2>1
<1>6. ASSUME NEW i \in 1..k, at + i <= MaxPacket PROVE o[at + i] = s[i]
  <2>1. at + i \in 1..MaxPacket /\ at + i \in (at + 1)..(at + k) /\ (at + i) - at = i
    BY SizeAssumption, <1>6
  <2>2. QED BY <1>1, <2>1
<1>7. QED BY <1>4, <1>5, <1>6 DEF Overlaid

\* What Copy writes to: the buffer, or one from the pool.
LEMMA CopyTarget ==
    ASSUME BufferOK, NEW old \in IF buf = <<>> THEN OldBuffers ELSE {[bytes |-> buf, behind |-> behind]}
    PROVE  /\ old.bytes \in Seq(Token) /\ Len(old.bytes) = MaxPacket /\ old.behind \in BOOLEAN
           /\ \A k \in 1..mRecvBytes : old.bytes[k] = buf[k]
<1>1. CASE buf = <<>>
  <2>1. mRecvBytes = 0 /\ old \in OldBuffers
    BY <1>1 DEF BufferOK
  <2>2. QED BY <2>1, BufferAssumption
<1>2. CASE buf # <<>>
  <2>1. old = [bytes |-> buf, behind |-> behind]
    BY <1>2
  <2>2. buf \in Seq(Token) /\ behind \in BOOLEAN /\ (Len(buf) = 0 \/ Len(buf) = MaxPacket)
    BY DEF BufferOK
  <2>3. Len(buf) # 0
    BY <1>2, <2>2
  <2>4. QED BY <2>1, <2>2, <2>3
<1>3. QED BY <1>1, <1>2

LEMMA PartFacts ==
    ASSUME NEW s \in Seq(Token), NEW l \in Nat, l = Len(s), NEW from \in Nat, NEW n \in Nat,
           from + n <= l
    PROVE  /\ SubSeq(s, from + 1, from + n) \in Seq(Token)
           /\ Len(SubSeq(s, from + 1, from + n)) = n
           /\ \A j \in 1..n : SubSeq(s, from + 1, from + n)[j] = s[from + j]
<1>1. \A i \in (from + 1)..(from + n) : s[i] \in Token
  <2>1. \A i \in (from + 1)..(from + n) : i \in 1..Len(s)
    OBVIOUS
  <2>2. QED BY <2>1
<1>2. from + 1 \in Int /\ from + n \in Int /\ (from + n) - (from + 1) + 1 = n
  OBVIOUS
<1>3. /\ SubSeq(s, from + 1, from + n) \in Seq(Token)
      /\ Len(SubSeq(s, from + 1, from + n)) =
            IF from + 1 <= from + n THEN (from + n) - (from + 1) + 1 ELSE 0
      /\ \A i \in 1..((from + n) - (from + 1) + 1) :
            SubSeq(s, from + 1, from + n)[i] = s[(from + 1) + i - 1]
  BY <1>1, <1>2, SubSeqProperties
<1>4. Len(SubSeq(s, from + 1, from + n)) = n
  BY <1>3
<1>5. ASSUME NEW j \in 1..n PROVE SubSeq(s, from + 1, from + n)[j] = s[from + j]
  <2>1. (from + 1) + j - 1 = from + j /\ j \in 1..((from + n) - (from + 1) + 1)
    OBVIOUS
  <2>2. QED BY <1>3, <2>1
<1>6. QED BY <1>3, <1>4, <1>5

\* A buffer that begins with n tokens of s.
Shows(b, s, from, n) ==
    b \in Seq(Token) /\ Len(b) = MaxPacket /\ \A k \in 1..n : b[k] = s[from + k]

\* Copying the stream's next n tokens behind the r that are in the buffer.
LEMMA OverlayHolds ==
    ASSUME NEW b, NEW s \in Seq(Token), NEW e \in Nat, NEW r \in Nat, Shows(b, s, e, r),
           NEW n \in Nat, r + n <= MaxPacket, NEW l \in Nat, l = Len(s), e + r + n <= l,
           NEW from \in Nat, from = e + r, NEW m \in Nat, m = r + n
    PROVE  Shows(Overlay(b, r, SubSeq(s, from + 1, from + n)), s, e, m)
<1>1. PICK p : p = SubSeq(s, from + 1, from + n)
  OBVIOUS
<1>2. p \in Seq(Token) /\ n = Len(p) /\ \A j \in 1..n : p[j] = s[from + j]
  <2>1. from + n <= l
    OBVIOUS
  <2>2. QED BY <1>1, <2>1, PartFacts
<1>3. PICK o : o = Overlay(b, r, p)
  OBVIOUS
<1>4. Overlaid(o, b, r, p)
  BY <1>2, <1>3, OverlayFacts DEF Shows
<1>5. ASSUME NEW k \in 1..m PROVE o[k] = s[e + k]
  <2>1. CASE k <= r
    <3>1. k \in 1..r /\ k <= MaxPacket
      BY <2>1, SizeAssumption
    <3>2. o[k] = b[k] /\ b[k] = s[e + k]
      BY <1>4, <3>1 DEF Overlaid, Shows
    <3>3. QED BY <3>2
  <2>2. CASE k > r
    <3>1. PICK i \in 1..n : k = r + i /\ k <= MaxPacket
      <4>1. k - r \in 1..n /\ k = r + (k - r) /\ k <= MaxPacket
        BY <2>2, SizeAssumption
      <4>2. QED BY <4>1
    <3>2. o[r + i] = p[i]
      BY <1>2, <1>4, <3>1 DEF Overlaid
    <3>3. p[i] = s[from + i] /\ from + i = e + k
      BY <1>2, <3>1
    <3>4. QED BY <3>1, <3>2, <3>3
  <2>3. QED BY <2>1, <2>2
<1>6. Shows(o, s, e, m)
  BY <1>4, <1>5 DEF Overlaid, Shows
<1>7. QED BY <1>1, <1>3, <1>6

LEMMA SplitterCopy ==
    ASSUME SplitterInv, Copy
    PROVE  SplitterInv'
<1>1. /\ peer \in Connections /\ splitPC = "split" /\ leftSize > 0 /\ leftSize \in Nat
      /\ arrived \in Nat /\ Consumed \in 0..Count /\ BufferOK
  BY ConsumedRange DEF SplitterInv, PlacesInv, Copy
<1>2. PICK old \in IF buf = <<>> THEN OldBuffers ELSE {[bytes |-> buf, behind |-> behind]} :
          LET n == Min({leftSize, MaxPacket - mRecvBytes})
              from == arrived - leftSize
          IN  IF n <= 0
              THEN /\ ReturnCode("NSE_ILLEGAL_RECV_PACKET")
                   /\ UNCHANGED <<leftSize, buf, behind, mRecvBytes>>
              ELSE /\ buf' = Overlay(old.bytes, mRecvBytes, SubSeq(Stream, from + 1, from + n))
                   /\ behind' = old.behind
                   /\ mRecvBytes' = mRecvBytes + n
                   /\ leftSize' = leftSize - n
                   /\ splitPC' = "parse"
                   /\ UNCHANGED <<error, isConnected>>
  BY DEF Copy
<1>3. PICK r \in Nat, l \in Nat, s \in Nat :
          r = mRecvBytes /\ r <= MaxPacket /\ l = leftSize /\ l > 0 /\ s = Len(Stream)
  BY <1>1, StreamFacts, BufferNumbers
<1>4. PICK n \in Int : /\ n = Min({leftSize, MaxPacket - mRecvBytes})
                       /\ n = IF l <= MaxPacket - r THEN l ELSE MaxPacket - r
  <2>1. MaxPacket - r \in Int /\ l \in Int
    BY SizeAssumption
  <2>2. Min({l, MaxPacket - r}) = IF l <= MaxPacket - r THEN l ELSE MaxPacket - r
    BY <2>1, MinOfTwo
  <2>3. QED BY <1>3, <2>1, <2>2
<1>5. CASE n <= 0
  <2>1. splitPC' = "closed" /\ UNCHANGED <<leftSize, buf, behind, mRecvBytes>>
    BY <1>2, <1>4, <1>5 DEF ReturnCode
  <2>2. UNCHANGED <<peer, arrived, leftSize, buf, behind, mRecvBytes, delivered>>
    BY <2>1 DEF Copy
  <2>3. QED BY <1>1, <2>1, <2>2, SplitterStops
<1>6. CASE n > 0
  <2>1. PICK e \in Nat : e = Ends(Consumed) /\ e + r + l = arrived /\ arrived <= s
    BY <1>1, <1>3, StreamFacts DEF SplitterInv, PlacesInv
  <2>2. n \in Nat /\ n <= l /\ r + n <= MaxPacket /\ arrived - l = e + r /\ e + r + n <= s
    <3>1. PICK a \in Nat, p \in Nat : a = arrived /\ p = MaxPacket
      BY <1>1, SizeAssumption
    <3>2. n = (IF l <= p - r THEN l ELSE p - r) /\ n > 0 /\ r <= p /\ e + r + l = a /\ a <= s
      BY <1>3, <1>4, <1>6, <2>1, <3>1
    <3>3. n \in Nat /\ n <= l /\ r + n <= p /\ a - l = e + r /\ e + r + n <= s
      BY <3>2
    <3>4. QED BY <3>1, <3>3
  <2>3. /\ buf' = Overlay(old.bytes, r, SubSeq(Stream, e + r + 1, e + r + n))
        /\ behind' = old.behind /\ mRecvBytes' = r + n /\ leftSize' = l - n /\ splitPC' = "parse"
    <3>1. LET from == arrived - leftSize
          IN  /\ buf' = Overlay(old.bytes, mRecvBytes, SubSeq(Stream, from + 1, from + n))
              /\ behind' = old.behind
              /\ mRecvBytes' = mRecvBytes + n
              /\ leftSize' = leftSize - n
              /\ splitPC' = "parse"
      <4>1. ~(n <= 0)
        BY <1>6
      <4>2. QED BY <1>2, <1>4, <4>1
    <3>2. arrived - leftSize = e + r
      BY <1>3, <2>2
    <3>3. QED BY <1>3, <3>1, <3>2
  <2>4. /\ old.bytes \in Seq(Token) /\ Len(old.bytes) = MaxPacket /\ old.behind \in BOOLEAN
        /\ \A k \in 1..r : old.bytes[k] = buf[k]
    BY <1>1, <1>3, CopyTarget
  <2>5. \A k \in 1..r : old.bytes[k] = Stream[e + k]
    BY <1>3, <2>1, <2>4 DEF SplitterInv, PlacesInv, Holds
  <2>6. /\ buf' \in Seq(Token) /\ Len(buf') = MaxPacket
        /\ \A k \in 1..(r + n) : buf'[k] = Stream[e + k]
    <3>1. Stream \in Seq(Token)
      BY <1>1, StreamFacts
    <3>2. Shows(old.bytes, Stream, e, r)
      BY <2>4, <2>5 DEF Shows
    <3>3. PICK from \in Nat, m \in Nat : from = e + r /\ m = r + n
      BY <2>2
    <3>4. n \in Nat /\ r + n <= MaxPacket /\ e + r + n <= s /\ s = Len(Stream)
      BY <1>3, <2>2
    <3>5. Shows(Overlay(old.bytes, r, SubSeq(Stream, from + 1, from + n)), Stream, e, m)
      BY <3>1, <3>2, <3>3, <3>4, OverlayHolds
    <3>6. buf' = Overlay(old.bytes, r, SubSeq(Stream, from + 1, from + n))
      BY <2>3, <3>3
    <3>7. QED BY <3>3, <3>5, <3>6 DEF Shows
  <2>7. UNCHANGED <<peer, arrived, delivered>>
    BY DEF Copy
  <2>8. Consumed' = Consumed
    BY <1>1, <2>3, <2>7 DEF Consumed
  <2>9. Ends(Consumed)' = e /\ Stream' = Stream /\ Count' = Count
    BY <2>1, <2>7, <2>8, PeerKept DEF Ends
  <2>10. BufferOK'
    <3>1. mRecvBytes' \in 0..MaxPacket
      BY <2>2, <2>3, SizeAssumption
    <3>2. QED BY <2>3, <2>4, <2>6, <3>1 DEF BufferOK
  <2>11. Holds(Consumed)'
    <3>1. Ends(Consumed)' + mRecvBytes' <= Len(Stream)'
      <4>1. e + (r + n) <= s
        BY <2>2
      <4>2. QED BY <1>3, <2>3, <2>9, <4>1
    <3>2. QED BY <1>1, <2>3, <2>6, <2>8, <2>9, <3>1 DEF Holds
  <2>12. PlacesInv'
    <3>1. e + (r + n) + (l - n) = arrived /\ l - n \in Nat /\ arrived <= s
      BY <2>1, <2>2
    <3>2. Ends(Consumed)' + mRecvBytes' + leftSize' = arrived' /\ leftSize' \in Nat
      BY <2>3, <2>7, <2>9, <3>1
    <3>3. QED BY <1>1, <1>3, <2>3, <2>7, <2>9, <2>10, <2>11, <3>1, <3>2 DEF PlacesInv, SplitterPCs
  <2>13. DeliveredInv' /\ TurnInv'
    BY <2>3, <2>7, DeliveredKept DEF SplitterInv, TurnInv
  <2>14. QED BY <2>12, <2>13 DEF SplitterInv
<1>7. QED BY <1>5, <1>6

\* The packets delivered so far and the next one.
LEMMA OneMoreMessage ==
    ASSUME peer \in Connections, NEW d \in 0..(Count - 1)
    PROVE  /\ Append(SubSeq(Bytes, 1, d), Bytes[d + 1]) = SubSeq(Bytes, 1, d + 1)
           /\ Len(SubSeq(Bytes, 1, d)) = d /\ Len(SubSeq(Bytes, 1, d + 1)) = d + 1
<1>1. PICK c \in Nat : c = Count /\ d + 1 <= c /\ d \in Nat
  BY PeerFacts
<1>2. PICK w \in Seq(Seq(Token)) : w = Bytes /\ Len(w) = c
  BY <1>1, PeerFacts
<1>3. /\ SubSeq(w, 1, d) \in Seq(Seq(Token)) /\ Len(SubSeq(w, 1, d)) = d
      /\ Len(SubSeq(w, 1, d + 1)) = d + 1
  <2>1. /\ \A i \in 1..d : w[i] \in Seq(Token)
        /\ \A i \in 1..(d + 1) : w[i] \in Seq(Token)
    BY <1>1, <1>2, ElementOfSeq
  <2>2. SubSeq(w, 1, d) \in Seq(Seq(Token)) /\ Len(SubSeq(w, 1, d)) = IF 1 <= d THEN d - 1 + 1 ELSE 0
    BY <1>1, <2>1, SubSeqProperties
  <2>3. Len(SubSeq(w, 1, d + 1)) = IF 1 <= d + 1 THEN (d + 1) - 1 + 1 ELSE 0
    BY <1>1, <2>1, SubSeqProperties
  <2>4. QED BY <1>1, <2>2, <2>3
<1>4. SubSeq(w, 1, d + 1) = SubSeq(w, 1, d) \o <<w[d + 1]>>
  <2>1. 1 \in 1..Len(w) /\ d + 1 \in 1..Len(w) /\ (d + 1) - 1 = d
    BY <1>1, <1>2
  <2>2. SubSeq(w, 1, d + 1) = SubSeq(w, 1, (d + 1) - 1) \o <<w[d + 1]>>
    BY <1>1, <2>1, SubSeqRecursiveSecond
  <2>3. QED BY <2>1, <2>2
<1>5. Append(SubSeq(w, 1, d), w[d + 1]) = SubSeq(w, 1, d) \o <<w[d + 1]>>
  <2>1. w[d + 1] \in Seq(Token)
    BY <1>1, <1>2, ElementOfSeq
  <2>2. QED BY <1>3, <2>1, AppendIsConcat
<1>6. QED BY <1>2, <1>3, <1>4, <1>5

LEMMA SplitterDeliver ==
    ASSUME SplitterInv, Deliver
    PROVE  SplitterInv'
<1>1. /\ splitPC = "parse" /\ NextPacket > 0
      /\ UNCHANGED <<peer, arrived, leftSize, buf, behind, mRecvBytes>>
  BY DEF Deliver
<1>2. CASE splitPC' = "closed" /\ UNCHANGED delivered
  BY <1>1, <1>2, SplitterStops
<1>3. CASE delivered' = Append(delivered, SubSeq(buf, 1, NextPacket)) /\ splitPC' = "mark"
  <2>1. PICK d \in Nat, c \in Nat : d = Len(delivered) /\ c = Count /\ d \in 0..c /\ d = Consumed
    <3>1. Len(delivered) \in 0..Count /\ Count \in Nat /\ Len(delivered) = Consumed
      BY <1>1, ConsumedRange
    <3>2. QED BY <3>1
  <2>2. PICK p \in Nat : /\ p = NextPacket /\ d < c /\ peer.messages[d + 1].legal
                         /\ p = Len(Bytes[d + 1]) /\ p <= mRecvBytes /\ p > 0
    BY <1>1, <2>1, ConsumedRange DEF DecidesWell
  <2>3. /\ peer \in Connections /\ BufferOK /\ Holds(d) /\ d \in 0..(Count - 1) /\ p \in 0..mRecvBytes
    BY <2>1, <2>2, BufferNumbers DEF SplitterInv, PlacesInv
  <2>4. SubSeq(buf, 1, p) = Bytes[d + 1]
    <3>1. PICK b \in Seq(Token) : b = Bytes[d + 1] /\ p = Len(b)
      BY <2>2, <2>3, NextMessage
    <3>2. Agree(buf, b, p) /\ buf \in Seq(Token)
      BY <2>3, <3>1, FrontAgrees DEF BufferOK
    <3>3. SubSeq(buf, 1, p) = SubSeq(b, 1, p)
      <4>1. 1 \in 1..(p + 1) /\ p \in Int /\ p <= p
        OBVIOUS
      <4>2. QED BY <3>2, <4>1, SameParts
    <3>4. QED BY <3>1, <3>3, SubSeqFull
  <2>5. delivered' = SubSeq(Bytes, 1, d + 1) /\ Len(delivered') = d + 1
    <3>1. delivered = SubSeq(Bytes, 1, d)
      BY <2>1 DEF SplitterInv, DeliveredInv
    <3>2. delivered' = Append(SubSeq(Bytes, 1, d), Bytes[d + 1])
      BY <1>3, <2>2, <2>4, <3>1
    <3>3. QED BY <2>3, <3>2, OneMoreMessage
  <2>6. DeliveredInv'
    <3>1. Bytes' = Bytes /\ Count' = Count
      BY <1>1, PeerKept
    <3>2. \A i \in 1..(d + 1) : peer.messages[i].legal
      <4>1. \A i \in 1..d : peer.messages[i].legal
        BY <2>1 DEF SplitterInv, DeliveredInv
      <4>2. \A i \in 1..(d + 1) : i \in 1..d \/ i = d + 1
        OBVIOUS
      <4>3. QED BY <2>2, <4>1, <4>2
    <3>3. d + 1 \in 0..c
      BY <2>1, <2>2
    <3>4. QED BY <1>1, <2>1, <2>5, <3>1, <3>2, <3>3 DEF DeliveredInv
  <2>7. Consumed' = Consumed
    BY <1>3, <2>1, <2>5 DEF Consumed
  <2>8. Ends(Consumed)' = Ends(Consumed) /\ Stream' = Stream /\ Holds(Consumed)' /\ BufferOK'
    <3>1. Bytes' = Bytes /\ Stream' = Stream /\ Count' = Count
      BY <1>1, PeerKept
    <3>2. Ends(Consumed)' = Ends(Consumed)
      BY <2>7, <3>1 DEF Ends
    <3>3. BufferOK' = BufferOK
      BY <1>1, BufferKept
    <3>4. Holds(Consumed)'
      BY <1>1, <2>7, <3>1, <3>2 DEF Holds, SplitterInv, PlacesInv
    <3>5. QED BY <3>1, <3>2, <3>3, <3>4 DEF SplitterInv, PlacesInv
  <2>9. PlacesInv'
    BY <1>1, <1>3, <2>8 DEF SplitterInv, PlacesInv, SplitterPCs
  <2>10. TurnInv'
    <3>1. NextPacket' = NextPacket
      BY <1>1, BufferKept
    <3>2. QED BY <1>1, <1>3, <3>1 DEF TurnInv
  <2>11. QED BY <2>6, <2>9, <2>10 DEF SplitterInv
<1>4. QED BY <1>2, <1>3 DEF Deliver, ReturnCode

LEMMA SplitterMark ==
    ASSUME SplitterInv, Mark
    PROVE  SplitterInv'
<1>1. /\ splitPC = "mark" /\ splitPC' = "parse" /\ NextPacket > 0
      /\ UNCHANGED <<peer, arrived, leftSize, behind, delivered>>
      /\ mRecvBytes' = mRecvBytes - NextPacket
      /\ buf' = IF mRecvBytes > NextPacket
                THEN Overlay(buf, 0, SubSeq(buf, NextPacket + 1, mRecvBytes))
                ELSE buf
  BY DEF Mark, MarkThen, ConsumeTo, SplitterInv, TurnInv
<1>2. PICK n \in Nat, d \in Nat, c \in Nat :
          /\ n = Consumed /\ d = Len(delivered) /\ c = Count /\ n + 1 = d /\ d <= c /\ n \in 0..(c - 1)
  <2>1. /\ Count \in Nat /\ Len(delivered) \in 1..Count
        /\ Consumed + 1 = Len(delivered) /\ Consumed \in 0..Count
    BY <1>1, ConsumedRange
  <2>2. QED BY <2>1
<1>3. PICK p \in Nat, r \in Nat : /\ p = NextPacket /\ p > 0 /\ p = Len(Bytes[n + 1]) /\ p <= r
                                  /\ r = mRecvBytes /\ r <= MaxPacket
  <2>1. PICK r \in Nat : r = mRecvBytes /\ r <= MaxPacket
    BY BufferNumbers DEF SplitterInv, PlacesInv
  <2>2. NextPacket \in Int /\ NextPacket = Len(Bytes[n + 1]) /\ NextPacket <= mRecvBytes
    BY <1>1, <1>2, ConsumedRange DEF DecidesWell
  <2>3. QED BY <1>1, <2>1, <2>2
<1>4. /\ peer \in Connections /\ BufferOK /\ Holds(n) /\ n \in 0..(Count - 1)
      /\ buf \in Seq(Token) /\ Len(buf) = MaxPacket
  <2>1. peer \in Connections /\ BufferOK /\ Holds(n) /\ n \in 0..(Count - 1)
    BY <1>2 DEF SplitterInv, PlacesInv
  <2>2. Len(buf) # 0
    BY <1>3, <2>1 DEF BufferOK
  <2>3. QED BY <2>1, <2>2 DEF BufferOK
<1>5. PICK e \in Nat, l \in Nat, s \in Nat, a \in Nat :
          /\ e = Ends(n) /\ l = leftSize /\ s = Len(Stream) /\ a = arrived
          /\ e + r + l = a /\ a <= s /\ Ends(n + 1) = e + p
  <2>1. Ends(n) \in Nat /\ Ends(n + 1) = Ends(n) + Len(Bytes[n + 1]) /\ Len(Stream) \in Nat
    <3>1. n \in 0..Count
      BY <1>2
    <3>2. QED BY <1>4, <3>1, StreamFacts
  <2>2. /\ leftSize \in Nat /\ arrived \in Nat
        /\ Ends(n) + mRecvBytes + leftSize = arrived /\ arrived <= Len(Stream)
    BY <1>2 DEF SplitterInv, PlacesInv
  <2>3. QED BY <1>3, <2>1, <2>2
<1>6. PICK q \in Nat : q = r - p /\ p + q = r /\ q <= MaxPacket
  <2>1. PICK m \in Nat : m = MaxPacket
    BY SizeAssumption
  <2>2. r - p \in Nat /\ p + (r - p) = r /\ r - p <= m
    BY <1>3, <2>1
  <2>3. QED BY <2>1, <2>2
<1>7. \A k \in 1..q : buf[p + k] = Stream[(e + p) + k]
  <2>1. \A k \in 1..r : buf[k] = Stream[e + k]
    BY <1>3, <1>4, <1>5 DEF Holds
  <2>2. \A k \in 1..q : p + k \in 1..r /\ e + (p + k) = (e + p) + k
    BY <1>6
  <2>3. QED BY <2>1, <2>2
<1>8. /\ buf' \in Seq(Token) /\ Len(buf') = MaxPacket
      /\ \A k \in 1..q : buf'[k] = Stream[(e + p) + k]
  <2>1. CASE q = 0
    <3>1. buf' = buf
      BY <1>1, <1>3, <1>6, <2>1
    <3>2. QED BY <1>4, <2>1, <3>1
  <2>2. CASE q > 0
    <3>1. PICK t : t = SubSeq(buf, p + 1, p + q)
      OBVIOUS
    <3>2. t \in Seq(Token) /\ Len(t) = q /\ \A j \in 1..q : t[j] = buf[p + j]
      <4>1. PICK m \in Nat : m = MaxPacket /\ p + q <= m
        BY <1>3, <1>6, SizeAssumption
      <4>2. QED BY <1>4, <3>1, <4>1, PartFacts
    <3>3. buf' = Overlay(buf, 0, t)
      BY <1>1, <1>3, <1>6, <2>2, <3>1
    <3>4. Overlaid(buf', buf, 0, t)
      BY <1>4, <3>2, <3>3, OverlayFacts
    <3>5. ASSUME NEW k \in 1..q PROVE buf'[k] = t[k]
      <4>1. 0 + k = k /\ 0 + k <= MaxPacket /\ k \in 1..Len(t)
        BY <1>6, <3>2, SizeAssumption
      <4>2. buf'[0 + k] = t[k]
        BY <3>4, <4>1 DEF Overlaid
      <4>3. QED BY <4>1, <4>2
    <3>6. QED BY <1>7, <3>2, <3>4, <3>5 DEF Overlaid
  <2>3. QED BY <2>1, <2>2
<1>9. mRecvBytes' = q
  BY <1>1, <1>3, <1>6
<1>10. BufferOK'
  <2>1. q \in 0..MaxPacket
    BY <1>6
  <2>2. QED BY <1>1, <1>4, <1>8, <1>9, <2>1 DEF BufferOK
<1>11. Consumed' = d /\ d = n + 1
  BY <1>1, <1>2 DEF Consumed
<1>12. Ends(Consumed)' = e + p /\ Stream' = Stream /\ Count' = Count
  BY <1>1, <1>5, <1>11, PeerKept DEF Ends
<1>13. Holds(Consumed)'
  <2>1. (e + p) + q <= s /\ d \in 0..c
    <3>1. e + r + l = a /\ a <= s /\ p + q = r /\ d <= c
      BY <1>2, <1>5, <1>6
    <3>2. QED BY <3>1
  <2>2. QED BY <1>2, <1>5, <1>8, <1>9, <1>11, <1>12, <2>1 DEF Holds
<1>14. PlacesInv'
  <2>1. (e + p) + q + l = a
    BY <1>5, <1>6
  <2>2. Ends(Consumed)' + mRecvBytes' + leftSize' = arrived' /\ arrived' <= Len(Stream)'
    BY <1>1, <1>5, <1>9, <1>12, <2>1
  <2>3. QED BY <1>1, <1>4, <1>5, <1>10, <1>13, <2>2 DEF PlacesInv, SplitterPCs
<1>15. DeliveredInv' /\ TurnInv'
  BY <1>1, DeliveredKept DEF SplitterInv, TurnInv
<1>16. QED BY <1>14, <1>15 DEF SplitterInv

\* The first receive finds an empty buffer and nothing in it.
LEMMA SplitterInit ==
    ASSUME FramingInit
    PROVE  SplitterInv
<1>1. /\ peer \in Connections /\ arrived = 0 /\ leftSize = 0 /\ buf = <<>> /\ behind = FALSE
      /\ mRecvBytes = 0 /\ splitPC = "recv" /\ delivered = <<>>
  BY DEF FramingInit
<1>2. Len(delivered) = 0 /\ Consumed = 0 /\ Count \in Nat /\ Ends(0) = 0 /\ Len(Stream) \in Nat
  BY <1>1, PeerFacts, StreamFacts DEF Consumed
<1>3. NextPacket = 0
  <2>1. CASE Http
    <3>1. <<>> \in Seq(Token) /\ Len(<<>>) = 0
      OBVIOUS
    <3>2. HeaderEnd(<<>>) \in 0..0
      BY <3>1, HeaderEndRange
    <3>3. HeaderSize(buf) = 0
      BY <1>1, <3>2 DEF HeaderSize
    <3>4. QED BY <2>1, <3>3 DEF NextPacket, HttpPacket
  <2>2. CASE ~Http
    <3>1. mRecvBytes < Offset + SizeOfInt
      BY <1>1, SizeAssumption
    <3>2. QED BY <2>2, <3>1 DEF NextPacket, TcpPacket, TcpPacketBelow
  <2>3. QED BY <2>1, <2>2
<1>4. BufferOK /\ Holds(Consumed)
  <2>1. <<>> \in Seq(Token) /\ Len(<<>>) = 0
    OBVIOUS
  <2>2. BufferOK
    <3>1. buf \in Seq(Token) /\ Len(buf) = 0 /\ behind \in BOOLEAN
      BY <1>1, <2>1
    <3>2. 0 \in 0..0
      OBVIOUS
    <3>3. mRecvBytes \in 0..Len(buf)
      BY <1>1, <3>1, <3>2
    <3>4. QED BY <3>1, <3>3 DEF BufferOK
  <2>3. Holds(Consumed)
    BY <1>1, <1>2 DEF Holds
  <2>4. QED BY <2>2, <2>3
<1>5. PlacesInv
  BY <1>1, <1>2, <1>4 DEF PlacesInv, SplitterPCs
<1>6. DeliveredInv
  <2>1. SubSeq(Bytes, 1, 0) = <<>>
    BY SubSeqEmpty
  <2>2. QED BY <1>1, <1>2, <2>1 DEF DeliveredInv
<1>7. QED BY <1>1, <1>3, <1>5, <1>6 DEF SplitterInv, TurnInv

LEMMA SplitterStutter ==
    ASSUME SplitterInv, UNCHANGED framingVars
    PROVE  SplitterInv'
<1>1. UNCHANGED <<peer, arrived, leftSize, buf, behind, mRecvBytes, delivered, splitPC>>
  BY DEF framingVars
<1>2. NextPacket' = NextPacket
  BY <1>1, BufferKept
<1>3. TurnInv' /\ splitPC' \in SplitterPCs
  BY <1>1, <1>2 DEF TurnInv, SplitterInv, PlacesInv
<1>4. QED BY <1>1, <1>3, ControlStep

LEMMA SplitterStep ==
    ASSUME SplitterInv, [FramingNext]_framingVars
    PROVE  SplitterInv'
<1>1. CASE \E n \in RecvSizes : Recv(n)
  BY <1>1, SplitterRecv
<1>2. CASE CannotAllocate
  BY <1>2, SplitterStops DEF CannotAllocate, ReturnCode
<1>3. CASE Copy
  BY <1>3, SplitterCopy
<1>4. CASE Break
  BY <1>4, SplitterBreak
<1>5. CASE Illegal
  BY <1>5, SplitterStops DEF Illegal, ReturnCode
<1>6. CASE Deliver
  BY <1>6, SplitterDeliver
<1>7. CASE Mark
  BY <1>7, SplitterMark
<1>8. CASE \E i \in 1..Len(delivered) : Serve(i) \/ Answer(i)
  BY <1>8, SplitterServe
<1>9. CASE UNCHANGED framingVars
  BY <1>9, SplitterStutter
<1>10. QED BY <1>1, <1>2, <1>3, <1>4, <1>5, <1>6, <1>7, <1>8, <1>9 DEF FramingNext

\* What is in the buffer, behind what was delivered, is what arrived of the stream and
\* was not consumed, however it was cut (SplitPacket, SplitHttpPacket).
THEOREM SplitterInvariant == FramingSpec => []SplitterInv
<1>1. FramingInit => SplitterInv
  BY SplitterInit
<1>2. SplitterInv /\ [FramingNext]_framingVars => SplitterInv'
  BY SplitterStep
<1>3. QED BY <1>1, <1>2, PTL DEF FramingSpec

LEMMA DeliveredExactHolds ==
    ASSUME SplitterInv
    PROVE  DeliveredExact
<1>1. PICK d \in Nat, c \in Nat : d = Len(delivered) /\ c = Count /\ d <= c
  <2>1. Len(delivered) \in 0..Count /\ Count \in Nat
    BY PeerFacts DEF SplitterInv, PlacesInv, DeliveredInv
  <2>2. QED BY <2>1
<1>2. /\ peer \in Connections /\ DOMAIN Bytes = 1..c
      /\ delivered = SubSeq(Bytes, 1, d) /\ \A i \in 1..d : peer.messages[i].legal
  BY <1>1, PeerFacts DEF SplitterInv, PlacesInv, DeliveredInv
<1>3. DOMAIN delivered = 1..d
  <2>1. PICK w \in Seq(Seq(Token)) : w = Bytes /\ Len(w) = c
    BY <1>1, <1>2, PeerFacts
  <2>2. \A i \in 1..d : w[i] \in Seq(Token)
    BY <1>1, <2>1, ElementOfSeq
  <2>3. SubSeq(w, 1, d) \in Seq(Seq(Token))
    BY <2>2, SubSeqProperties
  <2>4. QED BY <1>1, <1>2, <2>1, <2>3
<1>4. ASSUME splitPC = "recv", NEW n \in 1..c
      PROVE  Ends(n) <= arrived <=> n <= d
  <2>1. /\ Consumed = d /\ NextPacket = 0 /\ leftSize = 0
        /\ DecidesWell(d) /\ d \in 0..Count /\ n \in 0..Count
    BY <1>1, <1>4, ConsumedRange DEF SplitterInv, TurnInv
  <2>2. PICK e \in Nat, r \in Nat, f \in Nat : /\ e = Ends(d) /\ r = mRecvBytes /\ f = Ends(n)
                                               /\ e + r = arrived
    <3>1. Ends(d) \in Nat /\ Ends(n) \in Nat /\ mRecvBytes \in Nat
      BY <1>2, <2>1, StreamFacts, BufferNumbers DEF SplitterInv, PlacesInv
    <3>2. Ends(d) + mRecvBytes + 0 = arrived
      BY <2>1 DEF SplitterInv, PlacesInv
    <3>3. QED BY <3>1, <3>2
  <2>3. CASE n < d
    <3>1. f < e
      BY <1>2, <2>1, <2>2, <2>3, EndsGrow
    <3>2. QED BY <2>2, <2>3, <3>1
  <2>4. CASE n = d
    BY <2>2, <2>4
  <2>5. CASE n > d
    <3>1. d \in 0..(Count - 1) /\ d + 1 \in 0..Count /\ d + 1 <= n /\ d < Count
      BY <1>1, <2>5
    <3>2. PICK m \in Nat, g \in Nat : m = Len(Bytes[d + 1]) /\ g = Ends(d + 1) /\ g = e + m /\ r < m
      <4>1. Ends(d + 1) \in Nat /\ Ends(d + 1) = Ends(d) + Len(Bytes[d + 1])
        BY <1>2, <3>1, StreamFacts
      <4>2. Len(Bytes[d + 1]) \in Nat
        <5>1. d + 1 \in 1..Count
          BY <1>1, <3>1
        <5>2. QED BY <1>2, <5>1, PeerFacts
      <4>3. r < Len(Bytes[d + 1])
        BY <2>1, <2>2, <3>1 DEF DecidesWell
      <4>4. QED BY <2>2, <4>1, <4>2, <4>3
    <3>3. g <= f
      <4>1. CASE n = d + 1
        BY <2>2, <3>2, <4>1
      <4>2. CASE d + 1 < n
        <5>1. g < f
          BY <1>2, <2>1, <2>2, <3>1, <3>2, <4>2, EndsGrow
        <5>2. QED BY <5>1
      <4>3. QED BY <3>1, <4>1, <4>2
    <3>4. ~(f <= e + r) /\ ~(n <= d)
      BY <2>5, <3>2, <3>3
    <3>5. QED BY <2>2, <3>4
  <2>6. QED BY <2>3, <2>4, <2>5
<1>5. QED BY <1>1, <1>2, <1>3, <1>4 DEF DeliveredExact

\* However the stream is cut into receives, whatever the buffers of the pool held and
\* however long the messages are, what OnReceived is called with are the peer's messages,
\* and none that is complete waits while a receive is posted.
THEOREM FramingDeliversExactly == FramingSpec => []DeliveredExact
<1>1. SplitterInv => DeliveredExact
  BY DeliveredExactHolds
<1>2. QED BY <1>1, SplitterInvariant, PTL

-----------------------------------------------------------------------------
(* A connection refused as illegal. *)

\* What is refused while the splitter looks for the next message is illegal, or a header's
\* end was read beyond what was received.
LEMMA RefusedFor ==
    ASSUME SplitterInv, splitPC # "mark",
           NextPacket = -1 \/ (NextPacket = 0 /\ mRecvBytes = MaxPacket)
    PROVE  ~peer.messages[Len(delivered) + 1].legal \/ RanIntoOldBytes
BY ConsumedRange DEF DecidesWell

LEMMA RefusedKept ==
    ASSUME UNCHANGED <<peer, buf, behind, mRecvBytes, delivered>>, error' = error, LegalAccepted
    PROVE  LegalAccepted'
BY BufferKept DEF LegalAccepted

LEMMA RefusedStep ==
    ASSUME SplitterInv, RefusedInv, [FramingNext]_framingVars
    PROVE  RefusedInv'
<1>1. CASE \E n \in RecvSizes : Recv(n)
  <2>1. error = "none" /\ error' = error
    BY <1>1 DEF Recv, RefusedInv
  <2>2. QED BY <2>1 DEF RefusedInv, LegalAccepted
<1>2. CASE CannotAllocate
  BY <1>2 DEF CannotAllocate, ReturnCode, RefusedInv, LegalAccepted
<1>3. CASE Copy
  <2>1. PICK old \in IF buf = <<>> THEN OldBuffers ELSE {[bytes |-> buf, behind |-> behind]} :
            LET n == Min({leftSize, MaxPacket - mRecvBytes})
                from == arrived - leftSize
            IN  IF n <= 0
                THEN /\ ReturnCode("NSE_ILLEGAL_RECV_PACKET")
                     /\ UNCHANGED <<leftSize, buf, behind, mRecvBytes>>
                ELSE /\ buf' = Overlay(old.bytes, mRecvBytes, SubSeq(Stream, from + 1, from + n))
                     /\ behind' = old.behind
                     /\ mRecvBytes' = mRecvBytes + n
                     /\ leftSize' = leftSize - n
                     /\ splitPC' = "parse"
                     /\ UNCHANGED <<error, isConnected>>
    BY <1>3 DEF Copy
  <2>2. splitPC = "split" /\ error = "none" /\ UNCHANGED <<peer, delivered>>
    BY <1>3 DEF Copy, RefusedInv
  <2>3. CASE Min({leftSize, MaxPacket - mRecvBytes}) <= 0
    <3>1. /\ error' = "NSE_ILLEGAL_RECV_PACKET" /\ splitPC' = "closed"
          /\ UNCHANGED <<buf, behind, mRecvBytes>>
      BY <2>1, <2>3 DEF ReturnCode
    <3>2. mRecvBytes = MaxPacket /\ NextPacket = 0
      <4>1. PICK r \in Nat, l \in Nat, m \in Nat :
                r = mRecvBytes /\ r <= m /\ l = leftSize /\ l > 0 /\ m = MaxPacket
        <5>1. mRecvBytes \in Nat /\ mRecvBytes <= MaxPacket
          BY BufferNumbers, SizeAssumption DEF SplitterInv, PlacesInv
        <5>2. leftSize \in Nat /\ leftSize > 0
          BY <1>3 DEF Copy, SplitterInv, PlacesInv
        <5>3. QED BY <5>1, <5>2, SizeAssumption
      <4>2. m - r \in Int /\ l \in Int
        BY <4>1
      <4>3. Min({l, m - r}) = IF l <= m - r THEN l ELSE m - r
        BY <4>2, MinOfTwo
      <4>4. r = m
        <5>1. (IF l <= m - r THEN l ELSE m - r) <= 0
          BY <2>3, <4>1, <4>3
        <5>2. QED BY <4>1, <5>1
      <4>5. QED BY <2>2, <4>1, <4>4 DEF SplitterInv, TurnInv
    <3>3. ~peer.messages[Len(delivered) + 1].legal \/ RanIntoOldBytes
      BY <2>2, <3>2, RefusedFor
    <3>4. RanIntoOldBytes' = RanIntoOldBytes
      BY <2>2, <3>1, BufferKept
    <3>5. QED BY <2>2, <3>1, <3>3, <3>4 DEF RefusedInv, LegalAccepted
  <2>4. CASE ~(Min({leftSize, MaxPacket - mRecvBytes}) <= 0)
    <3>1. error' = error
      BY <2>1, <2>4
    <3>2. QED BY <2>2, <3>1 DEF RefusedInv, LegalAccepted
  <2>5. QED BY <2>3, <2>4
<1>4. CASE Break
  <2>1. error = "none" /\ error' = error
    BY <1>4 DEF Break, RefusedInv
  <2>2. QED BY <2>1 DEF RefusedInv, LegalAccepted
<1>5. CASE Illegal
  <2>1. /\ UNCHANGED <<peer, buf, behind, mRecvBytes, delivered>>
        /\ splitPC = "parse" /\ splitPC' = "closed" /\ NextPacket = -1
    BY <1>5 DEF Illegal, ReturnCode
  <2>2. ~peer.messages[Len(delivered) + 1].legal \/ RanIntoOldBytes
    BY <2>1, RefusedFor
  <2>3. RanIntoOldBytes' = RanIntoOldBytes
    BY <2>1, BufferKept
  <2>4. QED BY <2>1, <2>2, <2>3 DEF RefusedInv, LegalAccepted
<1>6. CASE Deliver
  <2>1. error = "none"
    BY <1>6 DEF Deliver, RefusedInv
  <2>2. error' = error \/ (error' = "NSE_BE_CLOSED" /\ splitPC' = "closed")
    BY <1>6 DEF Deliver, ReturnCode
  <2>3. QED BY <2>1, <2>2 DEF RefusedInv, LegalAccepted
<1>7. CASE Mark
  <2>1. error = "none" /\ error' = error
    BY <1>7 DEF Mark, MarkThen, RefusedInv
  <2>2. QED BY <2>1 DEF RefusedInv, LegalAccepted
<1>8. CASE (\E i \in 1..Len(delivered) : Serve(i) \/ Answer(i)) \/ UNCHANGED framingVars
  <2>1. UNCHANGED <<peer, buf, behind, mRecvBytes, delivered, splitPC, error>>
    BY <1>8 DEF Serve, Answer, AnswerThen, framingVars
  <2>2. QED BY <2>1, RefusedKept DEF RefusedInv
<1>9. QED BY <1>1, <1>2, <1>3, <1>4, <1>5, <1>6, <1>7, <1>8 DEF FramingNext

\* A connection is refused with NSE_ILLEGAL_RECV_PACKET for a message that is illegal,
\* unless the HTTP parser read a header's end that this peer has not sent.
THEOREM FramingAcceptsLegal == FramingSpec => []LegalAccepted
<1>1. FramingInit => RefusedInv
  BY DEF FramingInit, RefusedInv, LegalAccepted
<1>2. SplitterInv /\ RefusedInv /\ [FramingNext]_framingVars => RefusedInv'
  BY RefusedStep
<1>3. RefusedInv => LegalAccepted
  BY DEF RefusedInv
<1>4. QED BY <1>1, <1>2, <1>3, SplitterInvariant, PTL DEF FramingSpec

-----------------------------------------------------------------------------
(* What the service makes of the packets. *)

\* OnHttpPacket with what strstr and Find gave it; z is the route that is registered.
Served(b, a, h, c, z) ==
    IF b[1].t = "malformed" \/ h = 0 \/ h >= a \/ h + c > a
    THEN [to |-> "nobody", body |-> <<>>]
    ELSE [to |-> IF b[1].t = z THEN "handler" ELSE "notFound", body |-> SubSeq(b, h + 1, h + c)]

LEMMA ServedForm ==
    ASSUME NEW b
    PROVE  \E z : OnHttpPacket(b) =
                      Served(b, Len(b), HeaderSize(b), FindLength(b, HeaderSize(b)), z)
<1>1. OnHttpPacket(b) =
          Served(b, Len(b), HeaderSize(b), FindLength(b, HeaderSize(b)), "POST /route")
  BY Zenon DEF OnHttpPacket, HttpPacketWithin, Served
<1>2. QED BY <1>1, Zenon

LEMMA OutcomeType ==
    ASSUME NEW b \in Seq(Token)
    PROVE  OnHttpPacket(b) \in Outcome
<1>1. PICK a \in Nat, h \in Int, c \in Int :
          a = Len(b) /\ h = HeaderSize(b) /\ c = FindLength(b, h) /\ h >= 0
  <2>1. PICK h \in Int : h = HeaderSize(b) /\ h >= 0
    <3>1. PICK d \in Int : d = HeaderEnd(b) /\ d >= 0
      <4>1. PICK a \in Nat : a = Len(b)
        OBVIOUS
      <4>2. QED BY <4>1, HeaderEndRange
    <3>2. QED BY <3>1, SizeAssumption DEF HeaderSize
  <2>2. PICK c \in Int : c = FindLength(b, h)
    <3>1. LengthOf(b, h, {"Content-Length", "Content"}) \in (-IntMax)..IntMax
      BY LengthRange
    <3>2. LengthOf(b, h, {"Content-Length", "Content"}) \in Int
      BY <3>1, SizeAssumption
    <3>3. QED BY <3>2 DEF FindLength
  <2>3. QED BY <2>1, <2>2
<1>2. PICK z : OnHttpPacket(b) = Served(b, a, h, c, z)
  BY <1>1, ServedForm
<1>3. ASSUME h + c <= a PROVE SubSeq(b, h + 1, h + c) \in Seq(Token)
  <2>1. \A i \in (h + 1)..(h + c) : i \in 1..Len(b)
    BY <1>1, <1>3
  <2>2. \A i \in (h + 1)..(h + c) : b[i] \in Token
    BY <2>1, ElementOfSeq
  <2>3. h + 1 \in Int /\ h + c \in Int
    BY <1>1
  <2>4. QED BY <2>2, <2>3, SubSeqProperties
<1>4. PICK to \in {"handler", "notFound"} : to = IF b[1].t = z THEN "handler" ELSE "notFound"
  OBVIOUS
<1>5. CASE b[1].t = "malformed" \/ h = 0 \/ h >= a \/ h + c > a
  <2>1. Served(b, a, h, c, z) = [to |-> "nobody", body |-> <<>>]
    BY <1>5 DEF Served
  <2>2. <<>> \in Seq(Token)
    OBVIOUS
  <2>3. QED BY <1>2, <2>1, <2>2 DEF Outcome
<1>6. CASE ~(b[1].t = "malformed" \/ h = 0 \/ h >= a \/ h + c > a)
  <2>1. h + c <= a
    BY <1>1, <1>6
  <2>2. PICK x \in Seq(Token) : x = SubSeq(b, h + 1, h + c)
    BY <1>3, <2>1
  <2>3. Served(b, a, h, c, z) = [to |-> to, body |-> x]
    BY <1>4, <1>6, <2>2 DEF Served
  <2>4. QED BY <1>2, <2>3 DEF Outcome
<1>7. QED BY <1>5, <1>6

\* HttpHeaders::Find reads the length the splitter has read, where no header's name is
\* a part of Content-Length.
LEMMA FindsTheLength ==
    ASSUME NEW b \in Seq(Token), NEW h \in Int, \A i \in DOMAIN b : b[i].t # "Content"
    PROVE  FindLength(b, h) = GetContentLength(b, h)
<1>1. HeaderLines(b, h, {"Content-Length", "Content"}) = HeaderLines(b, h, {"Content-Length"})
  BY DEF HeaderLines
<1>2. QED BY <1>1 DEF FindLength, GetContentLength, LengthOf

LEMMA ReadableServed ==
    ASSUME NEW m \in Message, IsHttpMessage(m), m.legal, Readable(m)
    PROVE  OnHttpPacket(m.bytes).to # "nobody" /\ OnHttpPacket(m.bytes).body = m.body
<1>1. PICK b \in Seq(Token), a \in Nat, h \in Int, c \in Int :
          /\ b = m.bytes /\ a = Len(b) /\ h = HeaderEnd(b) /\ c = GetContentLength(b, h)
          /\ h > 0 /\ c >= 0 /\ a = h + c /\ m.body = SubSeq(b, h + 1, a)
  BY RequestFacts
<1>2. h < a
  <2>1. ASSUME h = a PROVE FALSE
    <3>1. SubSeq(b, h + 1, a) = <<>>
      <4>1. h + 1 \in Int /\ a \in Int /\ a < h + 1
        BY <2>1
      <4>2. QED BY <4>1, SubSeqEmpty
    <3>2. QED BY <1>1, <3>1 DEF Readable
  <2>2. QED BY <1>1, <2>1
<1>3. HeaderSize(b) = h
  BY <1>1 DEF HeaderSize
<1>4. FindLength(b, h) = c
  <2>1. \A i \in DOMAIN b : b[i].t # "Content"
    BY <1>1 DEF Readable
  <2>2. QED BY <1>1, <2>1, FindsTheLength
<1>5. b[1].t # "malformed"
  BY <1>1 DEF Readable
<1>6. h # 0 /\ ~(h >= a) /\ ~(h + c > a) /\ h + c = a
  <2>1. h > 0 /\ c >= 0 /\ a = h + c
    BY <1>1
  <2>2. QED BY <1>2, <2>1
<1>7. PICK z : OnHttpPacket(b) = Served(b, a, h, c, z)
  BY <1>1, <1>3, <1>4, ServedForm
<1>8. PICK x : x = SubSeq(b, h + 1, h + c)
  OBVIOUS
<1>9. Served(b, a, h, c, z) = [to |-> IF b[1].t = z THEN "handler" ELSE "notFound", body |-> x]
  BY <1>5, <1>6, <1>8 DEF Served
<1>10. OnHttpPacket(b).to # "nobody" /\ OnHttpPacket(b).body = x
  BY <1>7, <1>9
<1>11. x = m.body
  <2>1. x = SubSeq(b, h + 1, a)
    BY <1>6, <1>8
  <2>2. QED BY <1>1, <2>1
<1>12. QED BY <1>1, <1>10, <1>11

LEMMA DeliveredBytes ==
    ASSUME SplitterInv, NEW i \in 1..Len(delivered)
    PROVE  /\ i \in 1..Count /\ delivered[i] = peer.messages[i].bytes /\ delivered[i] \in Seq(Token)
           /\ peer.messages[i] \in Message /\ peer.messages[i].legal
           /\ Http => IsHttpMessage(peer.messages[i])
<1>1. PICK d \in Nat, c \in Nat : d = Len(delivered) /\ c = Count /\ d <= c /\ i \in 1..d
  <2>1. Len(delivered) \in 0..Count /\ Count \in Nat
    BY PeerFacts DEF SplitterInv, PlacesInv, DeliveredInv
  <2>2. QED BY <2>1
<1>2. peer \in Connections /\ delivered = SubSeq(Bytes, 1, d) /\ peer.messages[i].legal
  BY <1>1 DEF SplitterInv, PlacesInv, DeliveredInv
<1>3. i \in 1..Count /\ i - 1 \in 0..(Count - 1) /\ (i - 1) + 1 = i
  BY <1>1
<1>4. /\ Bytes[i] = peer.messages[i].bytes /\ Bytes[i] \in Seq(Token)
      /\ peer.messages[i] \in Message /\ (Http => IsHttpMessage(peer.messages[i]))
  <2>1. PICK j \in 0..(Count - 1) : j + 1 = i
    BY <1>3
  <2>2. QED BY <1>2, <2>1, NextMessage
<1>5. SubSeq(Bytes, 1, d)[i] = Bytes[i]
  <2>1. PICK w \in Seq(Seq(Token)) : w = Bytes /\ Len(w) = c
    BY <1>1, <1>2, PeerFacts
  <2>2. \A j \in 1..d : w[j] \in Seq(Token)
    BY <1>1, <2>1, ElementOfSeq
  <2>3. \A j \in 1..(d - 1 + 1) : SubSeq(w, 1, d)[j] = w[1 + j - 1]
    BY <2>2, SubSeqProperties
  <2>4. i \in 1..(d - 1 + 1) /\ 1 + i - 1 = i
    BY <1>1
  <2>5. SubSeq(w, 1, d)[i] = w[i]
    BY <2>3, <2>4
  <2>6. QED BY <2>1, <2>5
<1>6. QED BY <1>2, <1>3, <1>4, <1>5

LEMMA DeliveredSeq ==
    ASSUME SplitterInv
    PROVE  delivered \in Seq(Seq(Token))
<1>1. PICK d \in Nat, c \in Nat : d = Len(delivered) /\ c = Count /\ d <= c
  <2>1. Len(delivered) \in 0..Count /\ Count \in Nat
    BY PeerFacts DEF SplitterInv, PlacesInv, DeliveredInv
  <2>2. QED BY <2>1
<1>2. PICK w \in Seq(Seq(Token)) : w = Bytes /\ Len(w) = c
  BY <1>1, PeerFacts DEF SplitterInv, PlacesInv
<1>3. \A j \in 1..d : w[j] \in Seq(Token)
  BY <1>1, <1>2, ElementOfSeq
<1>4. SubSeq(w, 1, d) \in Seq(Seq(Token))
  BY <1>3, SubSeqProperties
<1>5. QED BY <1>1, <1>2, <1>4 DEF SplitterInv, DeliveredInv

LEMMA ServiceServe ==
    ASSUME SplitterInv, ServiceInv, NEW i, Serve(i)
    PROVE  ServiceInv'
<1>1. PICK n \in Nat, d \in Nat : n = Len(served) /\ d = Len(delivered) /\ i = n + 1 /\ i <= d
  <2>1. Len(served) \in Nat /\ Len(delivered) \in Nat
    BY PeerFacts DEF ServiceInv, SplitterInv, PlacesInv, DeliveredInv
  <2>2. QED BY <2>1 DEF Serve
<1>2. /\ Http /\ served' = Append(served, OnHttpPacket(delivered[i]))
      /\ UNCHANGED <<peer, delivered, answered>>
  BY DEF Serve
<1>3. /\ delivered[i] = peer.messages[i].bytes /\ delivered[i] \in Seq(Token)
      /\ peer.messages[i] \in Message /\ peer.messages[i].legal /\ IsHttpMessage(peer.messages[i])
  <2>1. i \in 1..Len(delivered)
    BY <1>1
  <2>2. QED BY <1>2, <2>1, DeliveredBytes
<1>4. PICK o \in Outcome : o = OnHttpPacket(delivered[i])
  BY <1>3, OutcomeType
<1>5. /\ served' \in Seq(Outcome) /\ Len(served') = n + 1
      /\ \A j \in 1..n : served'[j] = served[j]
      /\ served'[n + 1] = o
  <2>1. served \in Seq(Outcome) /\ served' = Append(served, o)
    BY <1>2, <1>4 DEF ServiceInv
  <2>2. QED BY <1>1, <2>1, AppendProperties
<1>6. Readable(peer.messages[i]) => o.to # "nobody" /\ o.body = peer.messages[i].body
  BY <1>3, <1>4, ReadableServed
<1>7. ASSUME NEW j \in 1..(n + 1), Readable(peer.messages[j])
      PROVE  served'[j].to # "nobody" /\ served'[j].body = peer.messages[j].body
  <2>1. CASE j \in 1..n
    <3>1. j \in DOMAIN served
      BY <1>1, <2>1 DEF ServiceInv
    <3>2. QED BY <1>5, <1>7, <2>1, <3>1 DEF ServiceInv, ServedAsFramed
  <2>2. CASE j = n + 1
    BY <1>1, <1>5, <1>6, <1>7, <2>2
  <2>3. QED BY <2>1, <2>2
<1>8. DOMAIN served' = 1..(n + 1)
  BY <1>5
<1>9. ServedAsFramed'
  BY <1>2, <1>7, <1>8 DEF ServedAsFramed, Readable
<1>10. answered' \subseteq 1..(n + 1)
  <2>1. answered \subseteq 1..n
    BY <1>1 DEF ServiceInv
  <2>2. QED BY <1>2, <2>1
<1>11. QED BY <1>1, <1>2, <1>5, <1>9, <1>10 DEF ServiceInv

LEMMA ServiceStep ==
    ASSUME SplitterInv, ServiceInv, [FramingNext]_framingVars
    PROVE  ServiceInv'
<1>1. CASE UNCHANGED <<peer, delivered, served, answered>>
  BY <1>1 DEF ServiceInv, ServedAsFramed
<1>2. CASE Deliver
  <2>1. UNCHANGED <<peer, served, answered>>
    BY <1>2 DEF Deliver
  <2>2. Len(delivered) \in Nat
    BY PeerFacts DEF SplitterInv, PlacesInv, DeliveredInv
  <2>3. Len(delivered') \in Nat /\ Len(delivered') >= Len(delivered)
    <3>1. CASE delivered' = delivered
      BY <2>2, <3>1
    <3>2. CASE delivered' = Append(delivered, SubSeq(buf, 1, NextPacket))
      <4>1. Len(delivered') = Len(delivered) + 1
        <5>1. PICK w : w = SubSeq(buf, 1, NextPacket)
          OBVIOUS
        <5>2. delivered \in Seq(Seq(Token))
          BY DeliveredSeq
        <5>3. delivered \in Seq(Seq(Token) \union {w}) /\ w \in Seq(Token) \union {w}
          BY <5>2
        <5>4. QED BY <3>2, <5>1, <5>3, AppendProperties
      <4>2. QED BY <2>2, <4>1
    <3>3. QED BY <1>2, <3>1, <3>2 DEF Deliver
  <2>4. Len(served) <= Len(delivered')
    <3>1. PICK n \in Nat, d \in Nat, e \in Nat :
              n = Len(served) /\ d = Len(delivered) /\ e = Len(delivered') /\ d <= e /\ n <= d
      BY <2>2, <2>3 DEF ServiceInv
    <3>2. QED BY <3>1
  <2>5. QED BY <2>1, <2>4 DEF ServiceInv, ServedAsFramed
<1>3. CASE \E i \in 1..Len(delivered) : Serve(i)
  BY <1>3, ServiceServe
<1>4. CASE \E i \in 1..Len(delivered) : Answer(i)
  <2>1. PICK i : i \in 1..Len(served) /\ UNCHANGED <<peer, delivered, served>>
                 /\ (answered' = answered \/ answered' = answered \union {i})
    BY <1>4 DEF Answer, AnswerThen
  <2>2. QED BY <2>1 DEF ServiceInv, ServedAsFramed
<1>5. QED
  <2>1. CASE \E n \in RecvSizes : Recv(n)
    BY <1>1, <2>1 DEF Recv
  <2>2. CASE CannotAllocate \/ Copy \/ Break \/ Illegal \/ Mark
    BY <1>1, <2>2 DEF CannotAllocate, Copy, Break, Illegal, Mark, MarkThen
  <2>3. CASE UNCHANGED framingVars
    BY <1>1, <2>3 DEF framingVars
  <2>4. QED BY <1>2, <1>3, <1>4, <2>1, <2>2, <2>3 DEF FramingNext

LEMMA ServiceInit ==
    ASSUME FramingInit
    PROVE  ServiceInv
BY DEF FramingInit, ServiceInv, ServedAsFramed

\* OnHttpPacket reads a request anew: what the splitter framed and the peer meant as its
\* body is what the handler is given, for every request whose names are all whole.
THEOREM ServiceAgreesWithFraming == FramingSpec => []ServedAsFramed
<1>1. FramingInit => ServiceInv
  BY ServiceInit
<1>2. SplitterInv /\ ServiceInv /\ [FramingNext]_framingVars => ServiceInv'
  BY ServiceStep
<1>3. ServiceInv => ServedAsFramed
  BY DEF ServiceInv
<1>4. QED BY <1>1, <1>2, <1>3, SplitterInvariant, PTL DEF FramingSpec

LEMMA TypesHold ==
    ASSUME SplitterInv, ServiceInv
    PROVE  FramingTypeOK
<1>1. mRecvBytes \in 0..MaxPacket /\ (buf = <<>> \/ Len(buf) = MaxPacket)
  BY BufferNumbers DEF SplitterInv, PlacesInv, BufferOK
<1>2. leftSize \in 0..arrived /\ arrived \in 0..Len(Stream)
  <2>1. Consumed \in 0..Count /\ peer \in Connections /\ BufferOK
    BY ConsumedRange DEF SplitterInv, PlacesInv
  <2>2. Ends(Consumed) \in Nat /\ mRecvBytes \in Nat /\ Len(Stream) \in Nat
    BY <2>1, StreamFacts, BufferNumbers
  <2>3. /\ leftSize \in Nat /\ arrived \in Nat /\ arrived <= Len(Stream)
        /\ Ends(Consumed) + mRecvBytes + leftSize = arrived
    BY DEF SplitterInv, PlacesInv
  <2>4. PICK e \in Nat, r \in Nat, l \in Nat, a \in Nat, s \in Nat :
            /\ e = Ends(Consumed) /\ r = mRecvBytes /\ l = leftSize /\ a = arrived
            /\ s = Len(Stream) /\ a <= s /\ e + r + l = a
    BY <2>2, <2>3
  <2>5. l \in 0..a /\ a \in 0..s
    BY <2>4
  <2>6. QED BY <2>4, <2>5
<1>3. QED BY <1>1, <1>2 DEF FramingTypeOK, SplitterInv, PlacesInv, SplitterPCs, ServiceInv

\* The splitter's sizes stay inside the buffer and the stream, and no answer is counted
\* for a request that was not served.
THEOREM FramingTypes == FramingSpec => []FramingTypeOK
<1>1. FramingInit => ServiceInv
  BY ServiceInit
<1>2. SplitterInv /\ ServiceInv /\ [FramingNext]_framingVars => ServiceInv'
  BY ServiceStep
<1>3. SplitterInv /\ ServiceInv => FramingTypeOK
  BY TypesHold
<1>4. QED BY <1>1, <1>2, <1>3, SplitterInvariant, PTL DEF FramingSpec

-----------------------------------------------------------------------------
(* The end of a connection that asked for it. *)

LEMMA CloseLineAgrees ==
    ASSUME NEW s \in Seq(Token), NEW t \in Seq(Token), NEW end \in Nat, Agree(s, t, end)
    PROVE  IsConnectionClose(s, end) = IsConnectionClose(t, end)
<1>1. \A names : HeaderLines(s, end, names) = HeaderLines(t, end, names)
  BY LinesAgree
<1>2. QED BY <1>1, Zenon DEF IsConnectionClose

\* What the splitter reads of the request at the front of its buffer is what it asks for.
LEMMA CloseIsRead ==
    ASSUME SplitterInv, splitPC = "mark", Http
    PROVE  IsConnectionClose(buf, HeaderSize(buf)) = peer.messages[Len(delivered)].close
<1>1. PICK n \in Nat, d \in Nat, c \in Nat :
          /\ n = Consumed /\ d = Len(delivered) /\ c = Count /\ n + 1 = d /\ d <= c
          /\ n \in 0..(c - 1) /\ NextPacket > 0
  <2>1. /\ Count \in Nat /\ Len(delivered) \in 1..Count
        /\ Consumed + 1 = Len(delivered) /\ Consumed \in 0..Count
    BY ConsumedRange
  <2>2. NextPacket > 0
    BY DEF SplitterInv, TurnInv
  <2>3. QED BY <2>1, <2>2
<1>2. /\ peer \in Connections /\ BufferOK /\ Holds(n) /\ n \in 0..(Count - 1) /\ buf \in Seq(Token)
  BY <1>1 DEF SplitterInv, PlacesInv, BufferOK
<1>3. PICK m \in Message : /\ m = peer.messages[d] /\ m.bytes = Bytes[d]
                           /\ IsHttpMessage(m) /\ m.legal
  <2>1. /\ Bytes[n + 1] = peer.messages[n + 1].bytes /\ peer.messages[n + 1] \in Message
        /\ IsHttpMessage(peer.messages[n + 1])
    BY <1>2, NextMessage
  <2>2. peer.messages[n + 1].legal
    BY <1>1, ConsumedRange DEF DecidesWell
  <2>3. QED BY <1>1, <2>1, <2>2
<1>4. PICK b \in Seq(Token), a \in Nat, h \in Int :
          /\ b = m.bytes /\ a = Len(b) /\ h = HeaderEnd(b) /\ h > 0 /\ h <= a
          /\ m.close = IsConnectionClose(b, h)
  <2>1. PICK b \in Seq(Token), a \in Nat, h \in Int, k \in Int :
            /\ b = m.bytes /\ a = Len(b) /\ h = HeaderEnd(b) /\ h \in 0..a
            /\ h > 0 /\ m.close = IsConnectionClose(b, h)
    BY <1>3, RequestFacts
  <2>2. h <= a
    BY <2>1
  <2>3. QED BY <2>1, <2>2
<1>5. PICK r \in Nat : r = mRecvBytes /\ a <= r
  <2>1. NextPacket = Len(Bytes[n + 1]) /\ NextPacket <= mRecvBytes
    BY <1>1, ConsumedRange DEF DecidesWell
  <2>2. mRecvBytes \in Nat /\ a = NextPacket
    BY <1>1, <1>2, <1>3, <1>4, <2>1, BufferNumbers
  <2>3. QED BY <2>1, <2>2
<1>6. h \in 1..r /\ h \in 0..r /\ h \in Nat
  BY <1>4, <1>5
<1>7. HeaderSize(buf) = h
  <2>1. HeaderEnd(Bytes[n + 1]) = h
    BY <1>1, <1>3, <1>4
  <2>2. HeaderEnd(buf) = h
    BY <1>2, <1>5, <1>6, <2>1, EndFound
  <2>3. QED BY <1>4, <2>2 DEF HeaderSize
<1>8. Agree(buf, b, h)
  <2>1. b = Bytes[n + 1] /\ h \in 0..mRecvBytes /\ h <= Len(Bytes[n + 1])
    BY <1>1, <1>3, <1>4, <1>5, <1>6
  <2>2. QED BY <1>2, <2>1, FrontAgrees
<1>9. IsConnectionClose(buf, h) = IsConnectionClose(b, h)
  BY <1>2, <1>6, <1>8, CloseLineAgrees
<1>10. QED BY <1>1, <1>3, <1>4, <1>7, <1>9

\* A step that sends nothing and marks nothing.
LEMMA CloseQuiet ==
    ASSUME CloseInv, UNCHANGED <<peer, arrived, isConnected, mCloseAfterSend, delivered, answered>>,
           error' = error, splitPC' # "mark" => splitPC # "mark"
    PROVE  CloseInv'
<1>1. Http' = Http /\ Count' = Count /\ \A k : Ends(k)' = Ends(k)
  BY PeerKept
<1>2. QED BY <1>1 DEF CloseInv

LEMMA CloseRefused ==
    ASSUME error' # "none"
    PROVE  CloseInv'
BY DEF CloseInv

LEMMA CloseRecv ==
    ASSUME SplitterInv, CloseInv, NEW n \in RecvSizes, Recv(n)
    PROVE  CloseInv'
<1>1. UNCHANGED <<peer, isConnected, mCloseAfterSend, delivered, answered, error>> /\ splitPC = "recv"
  BY DEF Recv
<1>2. Http' = Http /\ Count' = Count /\ \A k : Ends(k)' = Ends(k)
  BY <1>1, PeerKept
<1>3. ASSUME ~peer.pipelined
      PROVE  \E k \in 1..Count : arrived' <= Ends(k) /\ \A i \in 1..(k - 1) : i \in answered
  <2>1. PICK may \in Nat : may = MayArrive /\ arrived < may /\ arrived \in Nat
    BY MayArriveFacts DEF Recv, SplitterInv, PlacesInv
  <2>2. PICK k \in 1..Count : may = Ends(k) /\ \A i \in 1..(k - 1) : i \in answered
    BY <1>3, <2>1, MayArriveFacts DEF SplitterInv, PlacesInv
  <2>3. arrived' <= may
    <3>1. n \in Nat /\ may - arrived \in Nat
      BY <2>1, SizeAssumption
    <3>2. Min({n, may - arrived}) = IF n <= may - arrived THEN n ELSE may - arrived
      BY <3>1, MinOfTwo
    <3>3. arrived' = arrived + (IF n <= may - arrived THEN n ELSE may - arrived)
      BY <2>1, <3>2 DEF Recv
    <3>4. QED BY <2>1, <3>1, <3>3
  <2>4. QED BY <2>2, <2>3
<1>4. QED BY <1>1, <1>2, <1>3 DEF CloseInv

LEMMA CloseMark ==
    ASSUME SplitterInv, CloseInv, Mark
    PROVE  CloseInv'
<1>1. /\ UNCHANGED <<peer, arrived, isConnected, delivered, answered, error>> /\ splitPC = "mark"
      /\ mCloseAfterSend' = (Http /\ IsConnectionClose(buf, HeaderSize(buf)))
  BY DEF Mark, MarkThen
<1>2. Http' = Http /\ Count' = Count /\ \A k : Ends(k)' = Ends(k)
  BY <1>1, PeerKept
<1>3. Http => mCloseAfterSend' = IsConnectionClose(buf, HeaderSize(buf))
  <2>1. IsConnectionClose(buf, HeaderSize(buf)) \in BOOLEAN
    BY Zenon DEF IsConnectionClose
  <2>2. QED BY <1>1, <2>1
<1>4. Http => mCloseAfterSend' = peer.messages[Len(delivered)].close
  BY <1>1, <1>3, CloseIsRead
<1>5. QED BY <1>1, <1>2, <1>4 DEF CloseInv

\* The request an answer goes to is the last one that arrived.
LEMMA AnswersTheLast ==
    ASSUME SplitterInv, ServiceInv, splitPC # "mark", NEW i \in 1..Len(served), i \notin answered,
           NEW k \in 1..Count, arrived <= Ends(k), \A j \in 1..(k - 1) : j \in answered
    PROVE  i = Len(delivered) /\ Len(delivered) > 0
<1>1. PICK n \in Nat, d \in Nat, c \in Nat :
          /\ n = Len(served) /\ d = Len(delivered) /\ c = Count /\ n <= d /\ d <= c /\ d = Consumed
  <2>1. Len(served) \in Nat /\ Count \in Nat /\ Consumed = Len(delivered) /\ Consumed \in 0..Count
    BY ConsumedRange DEF ServiceInv
  <2>2. Len(served) <= Len(delivered)
    BY DEF ServiceInv
  <2>3. QED BY <2>1, <2>2
<1>2. i >= k
  <2>1. i \in Nat /\ k \in Nat /\ i >= 1
    BY <1>1
  <2>2. ASSUME i < k PROVE FALSE
    <3>1. i \in 1..(k - 1)
      BY <2>1, <2>2
    <3>2. QED BY <3>1
  <2>3. QED BY <2>1, <2>2
<1>3. d <= k
  <2>1. peer \in Connections /\ d \in 0..Count /\ k \in 0..Count
    BY <1>1 DEF SplitterInv, PlacesInv
  <2>2. PICK e \in Nat, f \in Nat : e = Ends(d) /\ f = Ends(k) /\ e <= f
    <3>1. Ends(d) \in Nat /\ Ends(k) \in Nat
      BY <2>1, StreamFacts
    <3>2. Ends(d) <= arrived /\ arrived \in Nat
      <4>1. PICK e \in Nat, r \in Nat, l \in Nat : e = Ends(d) /\ r = mRecvBytes /\ l = leftSize
        BY <3>1, BufferNumbers DEF SplitterInv, PlacesInv
      <4>2. e + r + l = arrived /\ arrived \in Nat
        BY <1>1, <4>1 DEF SplitterInv, PlacesInv
      <4>3. QED BY <4>1, <4>2
    <3>3. QED BY <3>1, <3>2
  <2>3. ASSUME k < d PROVE FALSE
    <3>1. f < e
      BY <2>1, <2>2, <2>3, EndsGrow
    <3>2. QED BY <2>2, <3>1
  <2>4. QED BY <1>1, <2>3
<1>4. QED BY <1>1, <1>2, <1>3

LEMMA CloseAnswer ==
    ASSUME SplitterInv, ServiceInv, CloseInv, ~EarlyAnswers, NEW i, Answer(i)
    PROVE  CloseInv'
<1>1. /\ UNCHANGED <<peer, arrived, splitPC, mCloseAfterSend, delivered, error>> /\ splitPC # "mark"
      /\ i \in 1..Len(served) /\ i \notin answered /\ Http /\ isConnected
      /\ \/ answered' = answered \union {i} /\ isConnected' = ~mCloseAfterSend
         \/ UNCHANGED <<answered, isConnected>>
  BY DEF Answer, AnswerThen
<1>2. Http' = Http /\ Count' = Count /\ \A k : Ends(k)' = Ends(k)
  BY <1>1, PeerKept
<1>3. CASE UNCHANGED <<answered, isConnected>>
  BY <1>1, <1>3, CloseQuiet
<1>4. CASE answered' = answered \union {i} /\ isConnected' = ~mCloseAfterSend
  <2> SUFFICES ASSUME ~peer.pipelined, error = "none"
               PROVE  /\ \E k \in 1..Count : arrived <= Ends(k) /\ \A j \in 1..(k - 1) : j \in answered'
                      /\ Len(delivered) > 0 => mCloseAfterSend = peer.messages[Len(delivered)].close
                      /\ ~isConnected' => \E j \in answered' : peer.messages[j].close
                      /\ \A j \in answered' : peer.messages[j].close => ~isConnected'
    BY <1>1, <1>2 DEF CloseInv
  <2>1. PICK k \in 1..Count : arrived <= Ends(k) /\ \A j \in 1..(k - 1) : j \in answered
    BY <1>1 DEF CloseInv
  <2>2. i = Len(delivered) /\ Len(delivered) > 0
    BY <1>1, <2>1, AnswersTheLast
  <2>3. mCloseAfterSend = peer.messages[i].close
    BY <1>1, <2>2 DEF CloseInv
  <2>4. \A j \in answered : ~peer.messages[j].close
    BY <1>1 DEF CloseInv
  <2>5. \A j \in answered' : j \in answered \/ j = i
    BY <1>4
  <2>6. i \in answered' /\ answered \subseteq answered'
    BY <1>4
  <2>7. peer.messages[i].close \in BOOLEAN
    <3>1. i \in 1..Len(delivered)
      <4>1. Len(delivered) \in Nat
        BY ConsumedRange, <1>1
      <4>2. QED BY <2>2, <4>1
    <3>2. QED BY <3>1, DeliveredBytes DEF Message
  <2>8. ~isConnected' => peer.messages[i].close
    BY <1>4, <2>3, <2>7
  <2>9. peer.messages[i].close => ~isConnected'
    BY <1>4, <2>3, <2>7
  <2>10. QED BY <2>1, <2>2, <2>3, <2>4, <2>5, <2>6, <2>8, <2>9
<1>5. QED BY <1>1, <1>3, <1>4

LEMMA CloseStep ==
    ASSUME SplitterInv, ServiceInv, CloseInv, ~EarlyAnswers, [FramingNext]_framingVars
    PROVE  CloseInv'
<1>1. CASE \E n \in RecvSizes : Recv(n)
  BY <1>1, CloseRecv
<1>2. CASE CannotAllocate \/ Illegal
  <2>1. error' # "none"
    BY <1>2 DEF CannotAllocate, Illegal, ReturnCode
  <2>2. QED BY <2>1, CloseRefused
<1>3. CASE Copy
  <2>1. /\ UNCHANGED <<peer, arrived, mCloseAfterSend, delivered, answered>> /\ splitPC = "split"
        /\ error' = "NSE_ILLEGAL_RECV_PACKET" \/ UNCHANGED <<error, isConnected>>
    BY <1>3 DEF Copy, ReturnCode
  <2>2. error' # "none" \/ UNCHANGED <<error, isConnected>>
    BY <2>1
  <2>3. QED BY <2>1, <2>2, CloseRefused, CloseQuiet
<1>4. CASE Break
  BY <1>4, CloseQuiet DEF Break
<1>5. CASE Deliver
  <2>1. UNCHANGED <<peer, arrived, mCloseAfterSend, answered>>
    BY <1>5 DEF Deliver
  <2>2. error' # "none" \/ (splitPC' = "mark" /\ UNCHANGED <<error, isConnected>>)
    BY <1>5 DEF Deliver, ReturnCode
  <2>3. Http' = Http /\ Count' = Count /\ \A k : Ends(k)' = Ends(k)
    BY <2>1, PeerKept
  <2>4. QED BY <2>1, <2>2, <2>3 DEF CloseInv
<1>6. CASE Mark
  BY <1>6, CloseMark
<1>7. CASE \E i \in 1..Len(delivered) : Serve(i) \/ Answer(i)
  <2>1. PICK i \in 1..Len(delivered) : Serve(i) \/ Answer(i)
    BY <1>7
  <2>2. CASE Serve(i)
    BY <2>2, CloseQuiet DEF Serve
  <2>3. CASE Answer(i)
    BY <2>3, CloseAnswer
  <2>4. QED BY <2>1, <2>2, <2>3
<1>8. CASE UNCHANGED framingVars
  BY <1>8, CloseQuiet DEF framingVars
<1>9. QED BY <1>1, <1>2, <1>3, <1>4, <1>5, <1>6, <1>7, <1>8 DEF FramingNext

LEMMA CloseInit ==
    ASSUME FramingInit
    PROVE  CloseInv
<1>1. /\ peer \in Connections /\ arrived = 0 /\ delivered = <<>> /\ answered = {} /\ isConnected = TRUE
  BY DEF FramingInit
<1>2. 1 \in 1..Count /\ 1 \in 0..Count
  BY <1>1, PeerFacts
<1>3. arrived <= Ends(1) /\ \A i \in 1..(1 - 1) : i \in answered
  <2>1. Ends(1) \in Nat
    BY <1>1, <1>2, StreamFacts
  <2>2. QED BY <1>1, <2>1
<1>4. ~(Len(delivered) > 0)
  BY <1>1
<1>5. QED BY <1>1, <1>2, <1>3, <1>4 DEF CloseInv

\* Where no answer overtakes the setting of mCloseAfterSend, a peer that waits for its
\* answers finds the connection closed after the first answer to a request that asked
\* for it and open until then (SplitHttpPacket, OnSendCompletion).
THEOREM FramingClosesAsAsked ==
    ASSUME ~EarlyAnswers
    PROVE  FramingSpec => []CloseAsAsked
<1>1. FramingInit => ServiceInv /\ CloseInv
  BY ServiceInit, CloseInit
<1>2. SplitterInv /\ ServiceInv /\ CloseInv /\ [FramingNext]_framingVars => ServiceInv' /\ CloseInv'
  BY ServiceStep, CloseStep
<1>3. CloseInv => CloseAsAsked
  BY DEF CloseInv, CloseAsAsked
<1>4. QED BY <1>1, <1>2, <1>3, SplitterInvariant, PTL DEF FramingSpec
=============================================================================

----------------------------- MODULE ModuloFacts -----------------------------
(***************************************************************************)
(* Facts about % and \div for a divisor that is not a literal, which the   *)
(* SMT backend cannot derive by itself.                                    *)
(***************************************************************************)
EXTENDS Integers, TLAPS

\* Euclidean division.
LEMMA DivMod ==
  ASSUME NEW N \in Nat \ {0}, NEW a \in Int
  PROVE  /\ a \div N \in Int
         /\ a = N * (a \div N) + (a % N)
         /\ a % N \in 0..(N - 1)
OBVIOUS

\* The quotient of a Euclidean division is unique.
LEMMA QuotientUnique ==
  ASSUME NEW N \in Nat \ {0}, NEW p \in Int, NEW q \in Int,
         NEW r \in 0..(N - 1), NEW s \in 0..(N - 1),
         N * p + r = N * q + s
  PROVE  p = q
<1>1. ASSUME NEW x \in Int, NEW y \in Int, x < y
      PROVE  N * x + N <= N * y
  <2>1. N * (x + 1) <= N * y
    BY <1>1
  <2>2. N * (x + 1) = N * x + N
    OBVIOUS
  <2>3. QED BY <2>1, <2>2
<1>2. CASE p < q
  <2>1. N * p + N <= N * q
    BY <1>1, <1>2
  <2>2. QED BY <2>1
<1>3. CASE q < p
  <2>1. N * q + N <= N * p
    BY <1>1, <1>3
  <2>2. QED BY <2>1
<1>4. QED BY <1>2, <1>3

\* Remainders: a number between 0 and N - 1 away from a multiple of N.
LEMMA RemainderOf ==
  ASSUME NEW N \in Nat \ {0}, NEW q \in Int, NEW r \in 0..(N - 1)
  PROVE  (N * q + r) % N = r
<1> DEFINE a == N * q + r
           d == a \div N
           m == a % N
<1>1. a \in Int /\ N * q \in Int
  OBVIOUS
<1>2. a = N * q + r
  OBVIOUS
<1> HIDE DEF a
<1>3. d \in Int /\ a = N * d + m /\ m \in 0..(N - 1)
  BY <1>1, DivMod
<1> HIDE DEF d, m
<1>4. N * q + r = N * d + m
  BY <1>2, <1>3
<1>5. q = d
  BY <1>3, <1>4, QuotientUnique
<1>6. m = r
  BY <1>1, <1>3, <1>4, <1>5
<1>7. QED BY <1>2, <1>6 DEF m

\* Adding or removing the divisor does not change the remainder.
LEMMA ModShift ==
  ASSUME NEW N \in Nat \ {0}, NEW a \in Int
  PROVE  (a + N) % N = a % N /\ (a - N) % N = a % N
<1> DEFINE q == a \div N
           r == a % N
<1>1. q \in Int /\ r \in 0..(N - 1) /\ a = N * q + r
  BY DivMod
<1> HIDE DEF q, r
<1>2. a + N = N * (q + 1) + r /\ a - N = N * (q - 1) + r
  BY <1>1
<1>3. (N * (q + 1) + r) % N = r /\ (N * (q - 1) + r) % N = r
  BY <1>1, RemainderOf
<1>4. QED BY <1>2, <1>3 DEF r

\* A remainder can be taken before an addition or after it.
LEMMA ModAdd ==
  ASSUME NEW N \in Nat \ {0}, NEW a \in Int, NEW b \in Int
  PROVE  ((a % N) + b) % N = (a + b) % N
<1> DEFINE q == a \div N
           r == a % N
<1>1. q \in Int /\ r \in 0..(N - 1) /\ a = N * q + r
  BY DivMod
<1> HIDE DEF q, r
<1> DEFINE p == (r + b) \div N
           s == (r + b) % N
<1>2. r + b \in Int
  BY <1>1
<1>3. p \in Int /\ s \in 0..(N - 1) /\ r + b = N * p + s
  BY <1>2, DivMod
<1> HIDE DEF p, s
<1>4. N * (q + p) = N * q + N * p /\ N * q \in Int /\ N * p \in Int
  BY <1>1, <1>3
<1>5. a + b = N * (q + p) + s
  BY <1>1, <1>3, <1>4
<1>6. (N * (q + p) + s) % N = s
  BY <1>1, <1>3, RemainderOf
<1>7. QED BY <1>5, <1>6 DEF r, s

\* Division is monotonic.
LEMMA DivMonotonic ==
  ASSUME NEW N \in Nat \ {0}, NEW a \in Int, NEW b \in Int, a <= b
  PROVE  a \div N <= b \div N
<1> DEFINE p == a \div N
           q == b \div N
           r == a % N
           s == b % N
<1>1. /\ p \in Int /\ q \in Int
      /\ r \in 0..(N - 1) /\ s \in 0..(N - 1)
      /\ a = N * p + r /\ b = N * q + s
  BY DivMod
<1> HIDE DEF p, q, r, s
<1>2. SUFFICES ASSUME q < p PROVE FALSE
  BY <1>1 DEF p, q
<1>3. N * (q + 1) <= N * p
  BY <1>1, <1>2
<1>4. N * (q + 1) = N * q + N
  BY <1>1
<1>5. QED BY <1>1, <1>3, <1>4

\* Of two numbers with ordered quotients, ordered remainders order the numbers.
LEMMA OrderByDivMod ==
  ASSUME NEW N \in Nat \ {0}, NEW a \in Int, NEW b \in Int,
         a \div N <= b \div N, a % N <= b % N
  PROVE  a <= b
<1> DEFINE p == a \div N
           q == b \div N
           r == a % N
           s == b % N
<1>1. /\ p \in Int /\ q \in Int
      /\ r \in 0..(N - 1) /\ s \in 0..(N - 1)
      /\ a = N * p + r /\ b = N * q + s
      /\ p <= q /\ r <= s
  BY DivMod
<1> HIDE DEF p, q, r, s
<1>2. N * p <= N * q
  BY <1>1
<1>3. QED BY <1>1, <1>2
=============================================================================

-------------------------- MODULE ModularArithmetic --------------------------
(***************************************************************************)
(* Facts about \div and % with a modulus that is a parameter, which the     *)
(* proofs about wrapping counters and ring indices keep needing: the code's  *)
(* counters are unsigned integers and its rings are indexed modulo a size.   *)
(***************************************************************************)
EXTENDS Integers, TLAPS

\* What \div and % mean.
LEMMA DivMod ==
  ASSUME NEW a \in Int, NEW m \in Nat, m > 0
  PROVE  a \div m \in Int /\ a % m \in 0 .. m - 1 /\ a = (m * (a \div m)) + (a % m)
OBVIOUS

\* A larger factor adds at least one more modulus.
LEMMA ProductStep ==
  ASSUME NEW m \in Nat, NEW x \in Int, NEW y \in Int, x < y
  PROVE  m * x + m <= m * y
<1>1. m * (y - x - 1) \in Nat
  <2>1. y - x - 1 \in Nat
    OBVIOUS
  <2>2. \A u, v \in Nat : u * v \in Nat
    OBVIOUS
  <2> QED BY <2>1, <2>2
<1>2. m * (y - x - 1) = m * y - m * x - m
  OBVIOUS
<1>3. m * y \in Int /\ m * x \in Int
  OBVIOUS
<1> QED BY <1>1, <1>2, <1>3

\* Quotient and remainder are unique.
LEMMA DivUnique ==
  ASSUME NEW m \in Nat, NEW q \in Int, NEW p \in Int,
         NEW r \in 0 .. m - 1, NEW s \in 0 .. m - 1,
         m * q + r = m * p + s
  PROVE  q = p /\ r = s
<1>1. m * q \in Int /\ m * p \in Int
  OBVIOUS
<1>2. ~ (q < p) /\ ~ (p < q)
  BY <1>1, ProductStep
<1>3. q = p
  BY <1>2
<1> QED BY <1>1, <1>3

\* A number written as quotient and remainder.
LEMMA ModIs ==
  ASSUME NEW a \in Int, NEW m \in Nat, m > 0,
         NEW q \in Int, NEW r \in 0 .. m - 1, a = m * q + r
  PROVE  a % m = r /\ a \div m = q
BY DivMod, DivUnique

\* A remainder is its own remainder.
LEMMA ModSmall ==
  ASSUME NEW m \in Nat, NEW a \in 0 .. m - 1
  PROVE  a % m = a /\ a \div m = 0
<1>1. a \in Int /\ m > 0 /\ a = m * 0 + a
  OBVIOUS
<1> QED BY <1>1, ModIs

\* Numbers that differ by a multiple of the modulus have the same remainder.
LEMMA ModShift ==
  ASSUME NEW a \in Int, NEW m \in Nat, m > 0, NEW k \in Int
  PROVE  (a + m * k) % m = a % m
<1>1. a \div m \in Int /\ a % m \in 0 .. m - 1 /\ a = (m * (a \div m)) + (a % m)
  BY DivMod
<1>2. m * ((a \div m) + k) = m * (a \div m) + m * k
  BY <1>1
<1>3. (a \div m) + k \in Int /\ m * (a \div m) \in Int /\ m * k \in Int /\ a + m * k \in Int
  BY <1>1
<1>4. a + m * k = m * ((a \div m) + k) + (a % m)
  BY <1>1, <1>2, <1>3
<1> QED BY <1>1, <1>3, <1>4, ModIs

\* Sums and differences may be reduced before or after.
LEMMA ModSum ==
  ASSUME NEW a \in Int, NEW b \in Int, NEW m \in Nat, m > 0
  PROVE  /\ ((a % m) + b) % m = (a + b) % m
         /\ ((a % m) - (b % m)) % m = (a - b) % m
<1> DEFINE p == a \div m  q == b \div m
<1>1. p \in Int /\ a % m \in 0 .. m - 1 /\ a = (m * p) + (a % m)
  BY DivMod
<1>2. q \in Int /\ b % m \in 0 .. m - 1 /\ b = (m * q) + (b % m)
  BY DivMod
<1> HIDE DEF p, q
<1>3. m * p \in Int /\ m * q \in Int /\ m * (q - p) = m * q - m * p /\ m * (0 - p) = 0 - m * p
  BY <1>1, <1>2
<1>4. (a % m) + b = (a + b) + m * (0 - p)
  BY <1>1, <1>3
<1>5. (a % m) - (b % m) = (a - b) + m * (q - p)
  BY <1>1, <1>2, <1>3
<1>6. a + b \in Int /\ a - b \in Int /\ 0 - p \in Int /\ q - p \in Int
  BY <1>1, <1>2
<1>7. ((a + b) + m * (0 - p)) % m = (a + b) % m
  BY <1>6, ModShift
<1>8. ((a - b) + m * (q - p)) % m = (a - b) % m
  BY <1>6, ModShift
<1> QED BY <1>4, <1>5, <1>7, <1>8

\* Numbers less than a modulus apart have different remainders.
LEMMA ModWindow ==
  ASSUME NEW a \in Int, NEW b \in Int, NEW m \in Nat, a < b, b < a + m
  PROVE  a % m # b % m
<1> DEFINE p == a \div m  q == b \div m
<1>1. p \in Int /\ a % m \in 0 .. m - 1 /\ a = (m * p) + (a % m)
  BY DivMod
<1>2. q \in Int /\ b % m \in 0 .. m - 1 /\ b = (m * q) + (b % m)
  BY DivMod
<1> HIDE DEF p, q
<1>3. m * p \in Int /\ m * q \in Int
  BY <1>1, <1>2
<1>4. ~ (p < q) \/ a % m # b % m
  BY <1>1, <1>2, <1>3, ProductStep
<1>5. ~ (q < p)
  BY <1>1, <1>2, <1>3, ProductStep
<1>6. p = q => a % m # b % m
  BY <1>1, <1>2, <1>3
<1> QED BY <1>1, <1>2, <1>4, <1>5, <1>6

\* Reducing by a multiple of the modulus first changes nothing.
LEMMA ModOfMultiple ==
  ASSUME NEW a \in Int, NEW m \in Nat, m > 0, NEW k \in Nat, k > 0
  PROVE  (a % (m * k)) % m = a % m
<1> DEFINE M == m * k  p == a \div M
<1>1. M \in Nat /\ M > 0
  OBVIOUS
<1>2. p \in Int /\ a % M \in 0 .. M - 1 /\ a = (M * p) + (a % M)
  BY <1>1, DivMod
<1>3. M * p = m * (k * p)
  BY <1>2
<1> HIDE DEF p, M
<1>4. k * p \in Int /\ a % M \in Int /\ m * (k * p) \in Int
  BY <1>1, <1>2
<1>5. a = (a % M) + m * (k * p)
  BY <1>2, <1>3, <1>4
<1>6. ((a % M) + m * (k * p)) % m = (a % M) % m
  BY <1>4, ModShift
<1> QED BY <1>5, <1>6 DEF M
=============================================================================

------------------------------ MODULE Remainders ------------------------------
(***************************************************************************)
(* What the proofs need of %, which stands for registers that wrap around. *)
(***************************************************************************)
EXTENDS Integers, TLAPS

(* The quotient and the remainder.                                         *)
LEMMA ModIs ==
  ASSUME NEW m \in Nat \ {0}, NEW a \in Int
  PROVE  a = m * (a \div m) + (a % m) /\ a % m \in 0..(m - 1) /\ a \div m \in Int
OBVIOUS

(* There is no other.                                                      *)
LEMMA ModUnique ==
  ASSUME NEW m \in Nat \ {0}, NEW q \in Int, NEW r \in 0..(m - 1)
  PROVE  (m * q + r) % m = r
OBVIOUS

(* Wrapping early and wrapping late come to the same.                      *)
LEMMA ModAdd ==
  ASSUME NEW m \in Nat \ {0}, NEW a \in Int, NEW b \in Int
  PROVE  ((a % m) + b) % m = (a + b) % m
<1> DEFINE p == a \div m
           c == (a % m) + b
           q == c \div m
           r == c % m
<1>1. a = m * p + (a % m) /\ p \in Int /\ a % m \in Int  BY ModIs
<1>2. c \in Int  BY <1>1
<1>3. c = m * q + r /\ r \in 0..(m - 1) /\ q \in Int  BY <1>2, ModIs
<1> HIDE DEF p, q, r
<1>4. a + b = m * p + c  BY <1>1
<1>5. a + b = m * (p + q) + r  BY <1>1, <1>3, <1>4
<1>6. p + q \in Int  BY <1>1, <1>3
<1>7. (m * (p + q) + r) % m = r  BY <1>3, <1>6, ModUnique
<1>8. QED BY <1>5, <1>7 DEF r, c

(* Two numbers less than m apart have the same remainder only if equal.    *)
LEMMA ModApart ==
  ASSUME NEW m \in Nat \ {0}, NEW a \in Int, NEW b \in Int,
         a - b < m, b - a < m, a % m = b % m
  PROVE  a = b
<1> DEFINE p == a \div m
           q == b \div m
<1>1. a = m * p + (a % m) /\ p \in Int /\ a % m \in Int  BY ModIs
<1>2. b = m * q + (b % m) /\ q \in Int  BY ModIs
<1> HIDE DEF p, q
<1>3. a - b = m * (p - q)  BY <1>1, <1>2
<1>4. CASE p - q >= 1
  <2>1. m * (p - q) >= m  BY <1>1, <1>2, <1>4
  <2>2. QED BY <1>3, <2>1
<1>5. CASE p - q <= -1
  <2>1. m * (p - q) <= -m  BY <1>1, <1>2, <1>5
  <2>2. QED BY <1>3, <2>1
<1>6. CASE p = q
  BY <1>1, <1>2, <1>6
<1>7. QED BY <1>1, <1>2, <1>4, <1>5, <1>6

(* Two numbers that are at least n apart, both ways round, have remainders  *)
(* at least n apart.                                                       *)
LEMMA ModSpread ==
  ASSUME NEW m \in Nat \ {0}, NEW a \in Int, NEW b \in Int, NEW n \in Nat,
         n <= b - a, b - a <= m - n
  PROVE  (a % m) + n <= b % m \/ (b % m) + n <= a % m
<1> DEFINE p == a \div m
           q == b \div m
           x == a % m
           y == b % m
<1>1. a = m * p + x /\ p \in Int /\ x \in 0..(m - 1)  BY ModIs
<1>2. b = m * q + y /\ q \in Int /\ y \in 0..(m - 1)  BY ModIs
<1> HIDE DEF p, q, x, y
<1>3. y - x = (b - a) - m * (q - p)  BY <1>1, <1>2
<1>4. CASE q - p <= -1
  <2>1. m * (q - p) <= -m  BY <1>1, <1>2, <1>4
  <2>2. QED BY <1>1, <1>2, <1>3, <2>1
<1>5. CASE q - p >= 2
  <2>1. m * (q - p) >= 2 * m  BY <1>1, <1>2, <1>5
  <2>2. QED BY <1>1, <1>2, <1>3, <2>1
<1>6. CASE q - p = 0
  BY <1>1, <1>2, <1>3, <1>6 DEF x, y
<1>7. CASE q - p = 1
  BY <1>1, <1>2, <1>3, <1>7 DEF x, y
<1>8. QED BY <1>1, <1>2, <1>4, <1>5, <1>6, <1>7
===============================================================================

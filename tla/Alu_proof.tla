------------------------------- MODULE Alu_proof -------------------------------
(***************************************************************************)
(* Proofs about Alu: conditional jumps after comparisons and after logic   *)
(* decide rightly, and numbers of two words are added and rotated rightly, *)
(* for bytes of any even size.                                             *)
(***************************************************************************)
EXTENDS Alu, TLAPS

(* Facts about the operators of Rmm.                                       *)

LEMMA SizesAreEven ==
  ASSUME NEW m \in Sizes
  PROVE  /\ m \in Nat /\ m >= 4 /\ m \div 2 \in Nat /\ 2 * (m \div 2) = m
         /\ m * m \in Nat /\ m * m >= 2 * m
<1>1. ByteSize \in Nat /\ ByteSize >= 4 /\ ByteSize % 2 = 0  BY RmmAssumption
<1>2. PICK k \in Nat : ByteSize = 2 * k
  <2>1. ByteSize \div 2 \in Nat /\ ByteSize = 2 * (ByteSize \div 2)  BY <1>1
  <2>2. QED BY <2>1
<1>3. WordSize = 2 * (2 * (k * k)) /\ k * k \in Nat /\ WordSize >= 4
  <2>1. WordSize = (2 * k) * (2 * k)  BY <1>2 DEF WordSize
  <2>2. (2 * k) * (2 * k) = 2 * (2 * (k * k)) /\ k * k \in Nat  OBVIOUS
  <2>3. k >= 2  BY <1>1, <1>2
  <2>4. k * k >= 4  BY <2>3
  <2>5. QED BY <2>1, <2>2, <2>4
<1>4. m \in Nat /\ m >= 4 /\ \E h \in Nat : m = 2 * h
  <2>1. CASE m = ByteSize  BY <1>1, <1>2, <2>1
  <2>2. CASE m = WordSize
    <3>1. WordSize \in Nat /\ 2 * (k * k) \in Nat  BY <1>3
    <3>2. QED BY <1>3, <2>2, <3>1
  <2>3. QED BY <2>1, <2>2 DEF Sizes
<1>5. PICK h \in Nat : m = 2 * h  BY <1>4
<1>6. m \div 2 = h  BY <1>5
<1>7. QED BY <1>4, <1>5, <1>6

LEMMA PszSound ==
  ASSUME NEW m \in Int, NEW v \in Int, NEW f \in Flags
  PROVE  /\ SetPsz(m, v, f) \in Flags
         /\ SetPsz(m, v, f).cf = f.cf /\ SetPsz(m, v, f).of = f.of
         /\ SetPsz(m, v, f).zf = (v = 0) /\ SetPsz(m, v, f).sf = Msb(m, v)
<1> DEFINE even == Ones[v] % 2 = 0
           zero == v = 0
           sign == Msb(m, v)
<1>1. even \in BOOLEAN /\ zero \in BOOLEAN /\ sign \in BOOLEAN  BY DEF Msb
<1>2. SetPsz(m, v, f) = [f EXCEPT !.pf = even, !.zf = zero, !.sf = sign]  BY DEF SetPsz
<1>3. zero = (v = 0) /\ sign = Msb(m, v)  OBVIOUS
<1> HIDE DEF even, zero, sign
<1> DEFINE g == [f EXCEPT !.pf = even, !.zf = zero, !.sf = sign]
<1>4. g \in Flags /\ g.cf = f.cf /\ g.of = f.of /\ g.zf = zero /\ g.sf = sign
  BY <1>1 DEF Flags
<1>5. QED BY <1>2, <1>3, <1>4

LEMMA FromBigSound ==
  ASSUME NEW m \in Sizes, NEW big \in Nat, NEW f \in Flags
  PROVE  LET r == FromBig(m, big, f) IN
         /\ r.v = big % m /\ r.v \in Values(m) /\ r.f \in Flags
         /\ r.f.cf = (big >= m) /\ r.f.zf = (big % m = 0)
<1> DEFINE g == [f EXCEPT !.of = (big >= (m \div 2)), !.cf = (big >= m)]
<1>1. g \in Flags /\ g.cf = (big >= m)
  <2>1. \A o, c \in BOOLEAN :
          LET h == [f EXCEPT !.of = o, !.cf = c] IN h \in Flags /\ h.cf = c
    BY DEF Flags
  <2>2. (big >= (m \div 2)) \in BOOLEAN /\ (big >= m) \in BOOLEAN  BY SizesAreEven
  <2>3. QED BY <2>1, <2>2, Zenon
<1>2. FromBig(m, big, f).v = big % m /\ FromBig(m, big, f).f = SetPsz(m, big % m, g)
  BY DEF FromBig
<1>3. big % m \in Values(m)  BY SizesAreEven DEF Values
<1> HIDE DEF g
<1>4. m \in Int /\ big % m \in Int  BY SizesAreEven
<1>5. QED BY <1>1, <1>2, <1>3, <1>4, PszSound

LEMMA AddSound ==
  ASSUME NEW m \in Sizes, NEW a \in Values(m), NEW b \in Values(m), NEW f \in Flags
  PROVE  LET r == Add(m, a, b, f) IN
         /\ r.v = (a + b) % m /\ r.v \in Values(m) /\ r.f \in Flags
         /\ r.f.cf = (a + b >= m)
<1>1. a + b \in Nat  BY SizesAreEven DEF Values
<1>2. QED BY <1>1, FromBigSound DEF Add

LEMMA SubSound ==
  ASSUME NEW m \in Sizes, NEW a \in Values(m), NEW b \in Values(m), NEW f \in Flags
  PROVE  LET r == Sub(m, a, b, f) IN
         /\ r.v = (a - b) % m /\ r.v \in Values(m) /\ r.f \in Flags
         /\ r.f.cf = (a < b) /\ r.f.zf = (a = b)
<1> DEFINE big == (a - b) % (m * m)
<1>1. m \in Nat /\ m >= 4 /\ m * m \in Nat /\ m * m >= 2 * m  BY SizesAreEven
<1>2. a \in Nat /\ b \in Nat /\ a < m /\ b < m  BY <1>1 DEF Values
<1>3. CASE a >= b
  <2>1. big = a - b /\ (a - b) % m = a - b  BY <1>1, <1>2, <1>3
  <2>2. big \in Nat /\ big < m /\ big % m = a - b  BY <1>1, <1>2, <1>3, <2>1
  <2>3. (big >= m) = (a < b) /\ (big % m = 0) = (a = b)  BY <1>1, <1>2, <1>3, <2>1, <2>2
  <2>4. QED BY <2>1, <2>2, <2>3, FromBigSound DEF Sub
<1>4. CASE a < b
  <2>1. (a - b) % m = a - b + m  BY <1>1, <1>2, <1>4
  <2>2. big = a - b + m * m  BY <1>1, <1>2, <1>4
  <2>3. big \in Nat /\ big >= m  BY <1>1, <1>2, <1>4, <2>2
  <2>4. big = (a - b + m) + (m - 1) * m /\ a - b + m \in 0..(m - 1)
    BY <1>1, <1>2, <1>4, <2>2
  <2>5. big % m = a - b + m
    <3>1. \A x \in 0..(m - 1), k \in Nat : (x + k * m) % m = x  BY <1>1
    <3>2. m - 1 \in Nat  BY <1>1
    <3>3. QED BY <2>4, <3>1, <3>2
  <2>6. (big >= m) = (a < b) /\ (big % m = 0) = (a = b)
    BY <1>1, <1>2, <1>4, <2>3, <2>5
  <2>7. QED BY <2>1, <2>3, <2>5, <2>6, FromBigSound DEF Sub
<1>5. QED BY <1>2, <1>3, <1>4

LEMMA LogicSound ==
  ASSUME NEW m \in Int, NEW v \in Int, NEW f
  PROVE  LET r == Logic(m, v, f) IN
         /\ r.v = v /\ r.f \in Flags /\ ~r.f.cf /\ ~r.f.of
         /\ r.f.zf = (v = 0) /\ r.f.sf = Msb(m, v)
<1>1. NoFlags \in Flags /\ NoFlags.cf = FALSE /\ NoFlags.of = FALSE  BY DEF NoFlags, Flags
<1>2. QED BY <1>1, PszSound DEF Logic, ClearCoa

LEMMA AdcSound ==
  ASSUME NEW m \in Sizes, NEW a \in Values(m), NEW b \in Values(m), NEW f \in Flags,
         NEW c \in {0, 1}, f.cf = (c = 1)
  PROVE  /\ Adc(m, a, b, f).v = (a + b + c) % m /\ Adc(m, a, b, f).v \in Values(m)
         /\ Adc(m, a, b, f).f \in Flags
<1> DEFINE r == Add(m, a, b, f)
<1>1. m \in Nat /\ m >= 4 /\ 1 \in Values(m)  BY SizesAreEven DEF Values
<1>2. a \in 0..(m - 1) /\ b \in 0..(m - 1)  BY DEF Values
<1>3. r.v = (a + b) % m /\ r.v \in Values(m) /\ r.f \in Flags  BY AddSound
<1>4. CASE c = 0
  <2>1. Adc(m, a, b, f) = r
    <3>1. ~(c = 1)  BY <1>4
    <3>2. QED BY <3>1, Zenon DEF Adc
  <2>2. (a + b + c) % m = (a + b) % m  BY <1>1, <1>2, <1>4
  <2>3. QED BY <1>3, <2>1, <2>2
<1>5. CASE c = 1
  <2>1. Adc(m, a, b, f) = Add(m, r.v, 1, r.f)
    <3>1. f.cf = TRUE  BY <1>5
    <3>2. QED BY <3>1, Zenon DEF Adc
  <2>2. /\ Add(m, r.v, 1, r.f).v = (r.v + 1) % m
        /\ Add(m, r.v, 1, r.f).v \in Values(m) /\ Add(m, r.v, 1, r.f).f \in Flags
    BY <1>1, <1>3, AddSound
  <2>3. (((a + b) % m) + 1) % m = (a + b + 1) % m
    <3>1. CASE a + b < m  BY <1>1, <1>2, <3>1
    <3>2. CASE a + b >= m
      <4>1. (a + b) % m = a + b - m /\ a + b - m \in Nat /\ a + b - m + 1 < m
        BY <1>1, <1>2, <3>2
      <4>2. (a + b - m + 1) % m = a + b - m + 1 /\ (a + b + 1) % m = a + b + 1 - m
        BY <1>1, <1>2, <3>2, <4>1
      <4>3. a + b - m + 1 = a + b + 1 - m  BY <1>1, <1>2
      <4>4. QED BY <4>1, <4>2, <4>3, Zenon
    <3>3. QED BY <1>1, <1>2, <3>1, <3>2
  <2>4. QED BY <1>3, <1>5, <2>1, <2>2, <2>3
<1>6. QED BY <1>4, <1>5

LEMMA SbbSound ==
  ASSUME NEW m \in Sizes, NEW a \in Values(m), NEW b \in Values(m), NEW f \in Flags,
         NEW c \in {0, 1}, f.cf = (c = 1)
  PROVE  /\ Sbb(m, a, b, f).v = (a - b - c) % m /\ Sbb(m, a, b, f).v \in Values(m)
         /\ Sbb(m, a, b, f).f \in Flags
<1> DEFINE r == Sub(m, a, b, f)
<1>1. m \in Nat /\ m >= 4 /\ 1 \in Values(m)  BY SizesAreEven DEF Values
<1>2. a \in 0..(m - 1) /\ b \in 0..(m - 1)  BY DEF Values
<1>3. r.v = (a - b) % m /\ r.v \in Values(m) /\ r.f \in Flags  BY SubSound
<1>4. CASE c = 0
  <2>1. Sbb(m, a, b, f) = r
    <3>1. ~(c = 1)  BY <1>4
    <3>2. QED BY <3>1, Zenon DEF Sbb
  <2>2. (a - b - c) % m = (a - b) % m  BY <1>1, <1>2, <1>4
  <2>3. QED BY <1>3, <2>1, <2>2
<1>5. CASE c = 1
  <2>1. Sbb(m, a, b, f) = Sub(m, r.v, 1, r.f)
    <3>1. f.cf = TRUE  BY <1>5
    <3>2. QED BY <3>1, Zenon DEF Sbb
  <2>2. /\ Sub(m, r.v, 1, r.f).v = (r.v - 1) % m
        /\ Sub(m, r.v, 1, r.f).v \in Values(m) /\ Sub(m, r.v, 1, r.f).f \in Flags
    BY <1>1, <1>3, SubSound
  <2>3. (((a - b) % m) - 1) % m = (a - b - 1) % m
    <3>1. CASE a > b  BY <1>1, <1>2, <3>1
    <3>2. CASE a = b  BY <1>1, <1>2, <3>2
    <3>3. CASE a < b
      <4>1. (a - b) % m = a - b + m /\ a - b + m - 1 \in 0..(m - 1)
        BY <1>1, <1>2, <3>3
      <4>2. (a - b + m - 1) % m = a - b + m - 1  BY <1>1, <4>1
      <4>3. (a - b - 1) % m = a - b - 1 + m  BY <1>1, <1>2, <3>3, <4>1
      <4>4. QED BY <1>1, <1>2, <4>1, <4>2, <4>3
    <3>4. QED BY <1>1, <1>2, <3>1, <3>2, <3>3
  <2>4. QED BY <1>3, <1>5, <2>1, <2>2, <2>3
<1>6. QED BY <1>4, <1>5

(* Bits that come in keep an operand within its size.                      *)
LEMMA LeftTyped ==
  ASSUME NEW m \in Sizes, NEW a \in Values(m), NEW p \in Nat \ {0}, NEW s
  PROVE  Left(m, a, p) \in Values(m) /\ WithLsb(Left(m, a, p), s) \in Values(m)
<1> DEFINE l == Left(m, a, p)
<1>1. PICK h \in Nat : m = 2 * h /\ m \in Nat /\ m >= 4  BY SizesAreEven
<1>2. a * p \in Nat  BY <1>1 DEF Values
<1>3. l \in 0..(m - 1)  BY <1>1, <1>2 DEF Left
<1> HIDE DEF l
<1>4. l - (l % 2) + 1 \in 0..(m - 1)  BY <1>1, <1>3
<1>5. QED BY <1>3, <1>4 DEF l, WithLsb, Values

LEMMA RightTyped ==
  ASSUME NEW m \in Sizes, NEW a \in Values(m), NEW p \in Nat \ {0}, NEW s
  PROVE  /\ a \div p \in Values(m) /\ WithMsb(m, a \div p, s) \in Values(m)
         /\ WithMsb(m, (a % (m \div 2)) \div p, s) \in Values(m)
<1> DEFINE h == m \div 2
<1>1. h \in Nat /\ m = 2 * h /\ m \in Nat /\ m >= 4 /\ a \in 0..(m - 1) /\ a % h \in 0..(m - 1)
  BY SizesAreEven DEF Values
<1>2. \A x \in 0..(m - 1) : x \div p \in 0..(m - 1)  BY <1>1
<1>3. \A x \in 0..(m - 1) : (x % h) + h \in 0..(m - 1)  BY <1>1
<1>4. QED BY <1>1, <1>2, <1>3 DEF WithMsb, Values

LEMMA ShiftSound ==
  ASSUME NEW op \in Shifting, NEW m \in Sizes, NEW a \in Values(m), NEW p \in Nat \ {0},
         NEW f \in Flags
  PROVE  LET r == Shift(op, m, a, p, f) IN
         /\ r.v \in Values(m) /\ r.f \in Flags
         /\ r.f.cf = (IF op \in {"shl", "rol", "rcl"} THEN Msb(m, a) ELSE Odd(a))
<1>1. \A v \in Values(m), c \in BOOLEAN :
        LET r == Shifted(m, v, c, f) IN r.v = v /\ r.f \in Flags /\ r.f.cf = c
  <2> TAKE v \in Values(m), c \in BOOLEAN
  <2> DEFINE g == [f EXCEPT !.cf = c]
  <2>1. g \in Flags /\ g.cf = c  BY DEF Flags
  <2>2. m \in Int /\ v \in Int  BY SizesAreEven DEF Values
  <2>3. Shifted(m, v, c, f).v = v /\ Shifted(m, v, c, f).f = SetPsz(m, v, g)
    BY DEF Shifted
  <2> HIDE DEF g
  <2>4. SetPsz(m, v, g) \in Flags /\ SetPsz(m, v, g).cf = g.cf  BY <2>1, <2>2, PszSound
  <2>5. QED BY <2>1, <2>3, <2>4
<1>2. Msb(m, a) \in BOOLEAN /\ Odd(a) \in BOOLEAN  BY DEF Msb, Odd
<1>3. /\ Left(m, a, p) \in Values(m) /\ a \div p \in Values(m)
      /\ \A s : /\ WithLsb(Left(m, a, p), s) \in Values(m)
                /\ WithMsb(m, a \div p, s) \in Values(m)
                /\ WithMsb(m, (a % (m \div 2)) \div p, s) \in Values(m)
  BY LeftTyped, RightTyped
<1>4. CASE op = "shl"  BY <1>1, <1>2, <1>3, <1>4 DEF Shift
<1>5. CASE op = "rol"  BY <1>1, <1>2, <1>3, <1>5 DEF Shift
<1>6. CASE op = "rcl"  BY <1>1, <1>2, <1>3, <1>6 DEF Shift
<1>7. CASE op = "shr"  BY <1>1, <1>2, <1>3, <1>7 DEF Shift
<1>8. CASE op = "ror"  BY <1>1, <1>2, <1>3, <1>8 DEF Shift
<1>9. CASE op = "rcr"  BY <1>1, <1>2, <1>3, <1>9 DEF Shift
<1>10. CASE op = "sar"  BY <1>1, <1>2, <1>3, <1>10 DEF Shift
<1>11. QED BY <1>4, <1>5, <1>6, <1>7, <1>8, <1>9, <1>10 DEF Shifting

LEMMA RotateSound ==
  ASSUME NEW m \in Sizes, NEW a \in Values(m), NEW f \in Flags,
         NEW c \in {0, 1}, f.cf = (c = 1)
  PROVE  /\ Shift("rcl", m, a, 2, f).v = (2 * a + c) % m
         /\ Shift("rcr", m, a, 2, f).v = (a \div 2) + c * (m \div 2)
<1> DEFINE h == m \div 2
<1>1. h \in Nat /\ m = 2 * h /\ m \in Nat /\ m >= 4 /\ a \in 0..(m - 1)
  BY SizesAreEven DEF Values
<1>2. Shift("rcl", m, a, 2, f).v = WithLsb((a * 2) % m, c = 1)  BY DEF Shift, Shifted, Left
<1>3. Shift("rcr", m, a, 2, f).v = WithMsb(m, a \div 2, c = 1)  BY DEF Shift, Shifted
<1>4. WithLsb((a * 2) % m, c = 1) = (2 * a + c) % m
  <2>1. CASE a < h
    <3>1. (a * 2) % m = 2 * a /\ (2 * a) % 2 = 0 /\ (2 * a + c) % m = 2 * a + c
      BY <1>1, <2>1
    <3>2. QED BY <1>1, <3>1 DEF WithLsb
  <2>2. CASE a >= h
    <3>1. (a * 2) % m = 2 * (a - h) /\ (2 * (a - h)) % 2 = 0
      BY <1>1, <2>2
    <3>2. (2 * a + c) % m = 2 * (a - h) + c
      BY <1>1, <2>2
    <3>3. QED BY <1>1, <3>1, <3>2 DEF WithLsb
  <2>3. QED BY <1>1, <2>1, <2>2
<1>5. WithMsb(m, a \div 2, c = 1) = (a \div 2) + c * h
  <2>1. a \div 2 \in 0..(h - 1) /\ (a \div 2) % h = a \div 2  BY <1>1
  <2>2. QED BY <1>1, <2>1 DEF WithMsb
<1>6. QED BY <1>2, <1>3, <1>4, <1>5

-------------------------------------------------------------------------------
(* Operands fit their size.                                                *)

LEMMA BytesAndWords ==
  /\ ByteSize \in Nat /\ ByteSize >= 4 /\ WordSize \in Nat /\ WordSize >= ByteSize
  /\ \A x \in Words : x % ByteSize \in Bytes /\ x \div ByteSize \in Bytes
  /\ \A x \in Words, v \in Bytes :
       /\ x - (x % ByteSize) + v \in Words /\ v * ByteSize + (x % ByteSize) \in Words
<1> DEFINE n == ByteSize
<1>1. n \in Nat /\ n >= 4  BY RmmAssumption
<1>2. n * n \in Nat /\ n * n >= n  BY <1>1
<1>3. ASSUME NEW x \in 0..(n * n - 1)
      PROVE  /\ x % n \in 0..(n - 1) /\ x = n * (x \div n) + (x % n)
             /\ x \div n \in 0..(n - 1)
  <2>1. x % n \in 0..(n - 1) /\ x \div n \in Nat /\ x = n * (x \div n) + (x % n)
    BY <1>1, <1>2
  <2>2. x \div n < n
    <3>1. SUFFICES ASSUME x \div n >= n PROVE FALSE  BY <1>1, <2>1
    <3>2. n * (x \div n) >= n * n  BY <1>1, <2>1, <3>1
    <3>3. QED BY <1>1, <1>2, <2>1, <3>2
  <2>3. QED BY <1>1, <2>1, <2>2
<1>4. ASSUME NEW q \in 0..(n - 1), NEW v \in 0..(n - 1)
      PROVE  n * q + v \in 0..(n * n - 1)
  <2>1. n * q <= n * (n - 1) /\ n * q \in Nat  BY <1>1
  <2>2. n * (n - 1) = n * n - n  BY <1>1
  <2>3. QED BY <1>1, <1>2, <2>1, <2>2
<1>5. ASSUME NEW x \in 0..(n * n - 1), NEW v \in 0..(n - 1)
      PROVE  /\ x - (x % n) + v \in 0..(n * n - 1)
             /\ v * n + (x % n) \in 0..(n * n - 1)
  <2>1. x % n \in 0..(n - 1) /\ x = n * (x \div n) + (x % n) /\ x \div n \in 0..(n - 1)
    BY <1>3
  <2>2. n * (x \div n) + v \in 0..(n * n - 1)  BY <1>4, <2>1
  <2>3. n * v + (x % n) \in 0..(n * n - 1)  BY <1>4, <2>1
  <2>4. v * n = n * v  BY <1>1
  <2> DEFINE q == x \div n
             s == x % n
  <2> HIDE DEF q, s
  <2>5. s \in Int /\ n * q \in Int /\ x = n * q + s  BY <1>1, <2>1 DEF q, s
  <2>6. x - s + v = n * q + v  BY <2>5
  <2>7. QED BY <2>2, <2>3, <2>4, <2>6 DEF q, s
<1>6. QED BY <1>1, <1>2, <1>3, <1>5 DEF WordSize, Words, Bytes, Values

LEMMA OperandsOfSize ==
  ASSUME NEW m \in Sizes, NEW d \in OfSize(m)
  PROVE  d \in Operands /\ Size(d) = m
<1>1. ByteSize # WordSize
  <2>1. ByteSize * ByteSize >= 4 * ByteSize  BY BytesAndWords
  <2>2. QED BY <2>1, BytesAndWords DEF WordSize
<1>2. QED BY <1>1 DEF OfSize, Size, Sizes

LEMMA OperandsTyped ==
  ASSUME regs \in [Places -> Words], NEW d \in Operands
  PROVE  /\ Size(d) \in Sizes /\ Get(d) \in Values(Size(d))
         /\ Sources(Size(d)) \subseteq Values(Size(d))
         /\ \A v \in Values(Size(d)), r \in [Places -> Words] :
              Put(r, d, v) \in [Places -> Words]
<1>1. ASSUME NEW e \in Operands  PROVE Size(e) \in Sizes /\ Get(e) \in Values(Size(e))
  <2>1. regs[e.place] \in Words  BY DEF Operands
  <2>2. CASE e.part = "x"  BY <2>1, <2>2 DEF Size, Get, Sizes, Words
  <2>3. CASE e.part = "l"  BY <2>1, <2>3, BytesAndWords DEF Size, Get, Sizes, Bytes
  <2>4. CASE e.part = "h"  BY <2>1, <2>4, BytesAndWords DEF Size, Get, Sizes, Bytes
  <2>5. QED BY <2>2, <2>3, <2>4 DEF Operands
<1>2. Sources(Size(d)) \subseteq Values(Size(d))
  <2>1. ASSUME NEW e \in OfSize(Size(d))  PROVE Size(e) = Size(d) /\ e \in Operands
    BY <1>1, OperandsOfSize
  <2>2. QED BY <1>1, <2>1 DEF Sources
<1>3. ASSUME NEW v \in Values(Size(d)), NEW r \in [Places -> Words]
      PROVE  Put(r, d, v) \in [Places -> Words]
  <2>1. r[d.place] \in Words /\ d.place \in Places /\ d.part \in {"x", "l", "h"}
    BY DEF Operands
  <2>2. WithPart(r[d.place], d.part, v) \in Words
    <3>1. CASE d.part = "x"  BY <3>1 DEF Size, WithPart, Words
    <3>2. CASE d.part = "l"  BY <2>1, <3>2, BytesAndWords DEF Size, WithPart, Bytes
    <3>3. CASE d.part = "h"  BY <2>1, <3>3, BytesAndWords DEF Size, WithPart, Bytes
    <3>4. QED BY <2>1, <3>1, <3>2, <3>3
  <2>3. QED BY <2>1, <2>2 DEF Put
<1>4. QED BY <1>1, <1>2, <1>3

-------------------------------------------------------------------------------
(* What the flags f are, when they mean t.                                 *)
Meant(f, t) ==
  /\ t # "none" => (f.cf = (CarryOf(t) = 1))
  /\ t \in {"below", "equal", "above"} => (f.zf = (t = "equal"))
  /\ t \in {"negative", "zero", "positive"} =>
       ~f.of /\ (f.zf = (t = "zero")) /\ (f.sf = (t = "negative"))

FlagsMeant == AluTypeOK /\ Meant(flags, means)

LEMMA ComparisonMeant ==
  ASSUME NEW m \in Sizes, NEW a \in Values(m), NEW b \in Values(m), NEW f \in Flags
  PROVE  Order(a, b) \in Meanings /\ Meant(Sub(m, a, b, f).f, Order(a, b))
<1> DEFINE g == Sub(m, a, b, f).f
<1>1. (g.cf = (a < b)) /\ (g.zf = (a = b))  BY SubSound
<1> HIDE DEF g
<1>2. a \in Int /\ b \in Int  BY SizesAreEven DEF Values
<1>3. CASE a < b
  BY <1>1, <1>2, <1>3 DEF Order, Meant, CarryOf, Carried, Meanings, g
<1>4. CASE a = b
  BY <1>1, <1>2, <1>4 DEF Order, Meant, CarryOf, Carried, Meanings, g
<1>5. CASE a > b
  BY <1>1, <1>2, <1>5 DEF Order, Meant, CarryOf, Carried, Meanings, g
<1>6. QED BY <1>2, <1>3, <1>4, <1>5

LEMMA LogicMeant ==
  ASSUME NEW m \in Sizes, NEW v \in Values(m), NEW f
  PROVE  SignOf(m, v) \in Meanings /\ Meant(Logic(m, v, f).f, SignOf(m, v))
<1> DEFINE g == Logic(m, v, f).f
           h == m \div 2
<1>1. m \in Int /\ h \in Nat /\ h > 0 /\ v \in Nat  BY SizesAreEven DEF Values
<1>2. g \in Flags /\ ~g.cf /\ ~g.of /\ (g.zf = (v = 0)) /\ (g.sf = (v >= h))
  BY <1>1, LogicSound DEF Msb
<1>3. SignOf(m, v) = IF v = 0 THEN "zero" ELSE IF v < h THEN "positive" ELSE "negative"
  BY DEF SignOf
<1> HIDE DEF g, h
<1>4. CASE v = 0
  <2>1. SignOf(m, v) = "zero"  BY <1>1, <1>3, <1>4
  <2>2. Meant(g, "zero") /\ "zero" \in Meanings
    BY <1>1, <1>2, <1>4 DEF Meant, CarryOf, Carried, Meanings, Flags
  <2>3. QED BY <2>1, <2>2 DEF g
<1>5. CASE v # 0 /\ v < h
  <2>1. SignOf(m, v) = "positive"  BY <1>1, <1>3, <1>5
  <2>2. Meant(g, "positive") /\ "positive" \in Meanings
    BY <1>1, <1>2, <1>5 DEF Meant, CarryOf, Carried, Meanings, Flags
  <2>3. QED BY <2>1, <2>2 DEF g
<1>6. CASE v # 0 /\ v >= h
  <2>1. SignOf(m, v) = "negative"  BY <1>1, <1>3, <1>6
  <2>2. Meant(g, "negative") /\ "negative" \in Meanings
    BY <1>1, <1>2, <1>6 DEF Meant, CarryOf, Carried, Meanings, Flags
  <2>3. QED BY <2>1, <2>2 DEF g
<1>7. QED BY <1>1, <1>4, <1>5, <1>6

LEMMA CarryMeant ==
  ASSUME NEW f \in Flags, NEW b \in BOOLEAN, f.cf = b
  PROVE  CarryIf(b) \in Meanings /\ Meant(f, CarryIf(b))
<1>1. CASE b = TRUE   BY <1>1 DEF CarryIf, Meant, CarryOf, Carried, Meanings
<1>2. CASE b = FALSE  BY <1>2 DEF CarryIf, Meant, CarryOf, Carried, Meanings
<1>3. QED BY <1>1, <1>2

LEMMA NothingMeant == "none" \in Meanings /\ \A f : Meant(f, "none")
BY DEF Meant, Meanings

(* & | ^ of operands fit their size.                                       *)
LEMMA BitsTyped ==
  ASSUME NEW m \in Sizes, NEW a \in Values(m), NEW b \in Values(m)
  PROVE  /\ BitAnd(a, b) \in Values(m) /\ BitOr(a, b) \in Values(m)
         /\ BitXor(a, b) \in Values(m)
<1>1. m \in Nat /\ a \in 0..(m - 1) /\ b \in 0..(m - 1)  BY SizesAreEven DEF Values
<1>2. /\ BitAnd(a, b) \in Nat /\ BitAnd(a, b) <= a /\ BitAnd(a, b) <= b
      /\ a + b - BitAnd(a, b) < m
  BY BitAndAssumption
<1>3. QED BY <1>1, <1>2 DEF BitOr, BitXor, Values

LEMMA ResultSound ==
  ASSUME NEW op \in Arithmetics, NEW m \in Sizes, NEW a \in Values(m), NEW b \in Values(m),
         NEW f \in Flags
  PROVE  LET r == ResultOf(op, m, a, b, f)
             t == Meaning(op, m, a, b)
         IN r.v \in Values(m) /\ r.f \in Flags /\ t \in Meanings /\ Meant(r.f, t)
<1>1. CASE op = "add"
  <2>1. ResultOf(op, m, a, b, f) = Add(m, a, b, f) /\ Meaning(op, m, a, b) = CarryIf(a + b >= m)
    BY <1>1 DEF ResultOf, Meaning
  <2> DEFINE c == a + b >= m
             r == Add(m, a, b, f)
  <2>2. c \in BOOLEAN /\ r.v \in Values(m) /\ r.f \in Flags /\ r.f.cf = c  BY AddSound
  <2> HIDE DEF c, r
  <2>3. CarryIf(c) \in Meanings /\ Meant(r.f, CarryIf(c))  BY <2>2, CarryMeant
  <2>4. QED BY <2>1, <2>2, <2>3 DEF c, r
<1>2. CASE op \in {"sub", "cmp"}
  <2>1. ResultOf(op, m, a, b, f) = Sub(m, a, b, f) /\ Meaning(op, m, a, b) = Order(a, b)
    BY <1>2 DEF ResultOf, Meaning
  <2>2. QED BY <2>1, SubSound, ComparisonMeant
<1>3. CASE op \in {"and", "or", "xor"}
  <2>1. PICK v \in Values(m) :
          /\ ResultOf(op, m, a, b, f) = Logic(m, v, f)
          /\ Meaning(op, m, a, b) = SignOf(m, v)
    BY <1>3, BitsTyped DEF ResultOf, Meaning
  <2>2. m \in Int /\ v \in Int  BY SizesAreEven DEF Values
  <2>3. QED BY <2>1, <2>2, LogicSound, LogicMeant
<1>4. CASE op \in {"adc", "sbb"}
  <2>1. Meaning(op, m, a, b) = "none"  BY <1>4 DEF Meaning
  <2>2. PICK c \in {0, 1} : f.cf = (c = 1)
    <3>1. CASE f.cf = TRUE
      <4>1. f.cf = (1 = 1)  BY <3>1, Zenon
      <4>2. QED BY <4>1
    <3>2. CASE f.cf = FALSE
      <4>1. ~(0 = 1)  OBVIOUS
      <4>2. f.cf = (0 = 1)  BY <3>2, <4>1, Zenon
      <4>3. QED BY <4>2
    <3>3. QED BY <3>1, <3>2 DEF Flags
  <2>3. ResultOf(op, m, a, b, f).v \in Values(m) /\ ResultOf(op, m, a, b, f).f \in Flags
    BY <1>4, <2>2, AdcSound, SbbSound DEF ResultOf
  <2>4. QED BY <2>1, <2>3, NothingMeant
<1>5. QED BY <1>1, <1>2, <1>3, <1>4 DEF Arithmetics

LEMMA ShiftMeant ==
  ASSUME NEW op \in Shifting, NEW m \in Sizes, NEW a \in Values(m), NEW p \in Nat \ {0},
         NEW f \in Flags
  PROVE  /\ ShiftMeaning(op, m, a, p) \in Meanings
         /\ Meant(Shift(op, m, a, p, f).f, ShiftMeaning(op, m, a, p))
<1> DEFINE c == IF op \in {"shl", "rol", "rcl"} THEN Msb(m, a) ELSE Odd(a)
           g == Shift(op, m, a, p, f).f
<1>1. c \in BOOLEAN
  <2>1. Msb(m, a) \in BOOLEAN /\ Odd(a) \in BOOLEAN  BY DEF Msb, Odd
  <2>2. QED BY <2>1
<1>2. g \in Flags /\ g.cf = c  BY ShiftSound
<1>3. ShiftMeaning(op, m, a, p) = IF p # 2 THEN "none" ELSE CarryIf(c)  BY DEF ShiftMeaning
<1> HIDE DEF c, g
<1>4. CarryIf(c) \in Meanings /\ Meant(g, CarryIf(c))  BY <1>1, <1>2, CarryMeant
<1>5. QED BY <1>3, <1>4, NothingMeant DEF g

(* Replacing cf, of or df makes flags of flags.                            *)
LEMMA FlagsExcept ==
  ASSUME NEW f \in Flags, NEW b \in BOOLEAN
  PROVE  /\ [f EXCEPT !.of = b, !.cf = b] \in Flags
         /\ [f EXCEPT !.cf = b] \in Flags /\ [f EXCEPT !.cf = b].cf = b
         /\ [f EXCEPT !.df = b] \in Flags
         /\ \A t : Meant(f, t) => Meant([f EXCEPT !.df = b], t)
<1>1. /\ [f EXCEPT !.of = b, !.cf = b] \in Flags
      /\ [f EXCEPT !.cf = b] \in Flags /\ [f EXCEPT !.cf = b].cf = b
      /\ [f EXCEPT !.df = b] \in Flags
  BY DEF Flags
<1> DEFINE g == [f EXCEPT !.df = b]
<1>2. g.cf = f.cf /\ g.of = f.of /\ g.zf = f.zf /\ g.sf = f.sf  BY DEF Flags
<1> HIDE DEF g
<1>3. \A t : Meant(f, t) => Meant(g, t)  BY <1>2, Zenon DEF Meant
<1>4. QED BY <1>1, <1>3 DEF g

(* The flags mean what the processor's would, whatever runs.               *)
LEMMA FlagsMeantStep == FlagsMeant /\ [AluNext]_aluVars => FlagsMeant'
<1> SUFFICES ASSUME FlagsMeant, [AluNext]_aluVars  PROVE FlagsMeant'
  OBVIOUS
<1> USE DEF FlagsMeant
<1>1. regs \in [Places -> Words] /\ flags \in Flags /\ means \in Meanings
  BY DEF AluTypeOK
<1>2. ASSUME NEW d \in Operands
      PROVE  /\ Size(d) \in Sizes /\ Get(d) \in Values(Size(d))
             /\ Size(d) \in Int /\ Size(d) >= 4 /\ 1 \in Values(Size(d))
             /\ \A x : x \in Values(Size(d)) <=> x \in Int /\ 0 <= x /\ x < Size(d)
             /\ \A v \in Values(Size(d)), r \in [Places -> Words] :
                  Put(r, d, v) \in [Places -> Words]
  BY <1>1, OperandsTyped, SizesAreEven DEF Values
<1>3. ASSUME NEW d \in Operands, NEW b \in Sources(Size(d)), Test(d, b)
      PROVE  FlagsMeant'
  <2> DEFINE v == BitAnd(Get(d), b)
  <2>1. b \in Values(Size(d))  BY <1>1, OperandsTyped
  <2>2. v \in Values(Size(d)) /\ v \in Int  BY <1>2, <2>1, BitsTyped
  <2>3. Logic(Size(d), v, flags).f \in Flags  BY <1>2, <2>2, LogicSound
  <2>4. QED BY <1>1, <1>2, <1>3, <2>2, <2>3, LogicMeant DEF Test, AluTypeOK
<1>4. ASSUME NEW d \in Operands, NEW b \in Sources(Size(d)), Mov(d, b)
      PROVE  FlagsMeant'
  <2>1. b \in Values(Size(d))  BY <1>1, OperandsTyped
  <2>2. QED BY <1>1, <1>2, <1>4, <2>1 DEF Mov, AluTypeOK
<1>5. ASSUME NEW d \in Operands, NEW b \in Sources(Size(d)), NEW op \in Arithmetics,
             Arithmetic(op, d, b)
      PROVE  FlagsMeant'
  <2> DEFINE r == ResultOf(op, Size(d), Get(d), b, flags)
             t == Meaning(op, Size(d), Get(d), b)
  <2>1. b \in Values(Size(d))  BY <1>1, OperandsTyped
  <2>2. r.v \in Values(Size(d)) /\ r.f \in Flags /\ t \in Meanings /\ Meant(r.f, t)
    BY <1>1, <1>2, <2>1, ResultSound
  <2>3. /\ regs' = IF op = "cmp" THEN regs ELSE Put(regs, d, r.v)
        /\ flags' = r.f /\ means' = t
    BY <1>5 DEF Arithmetic
  <2> HIDE DEF r, t
  <2>4. QED BY <1>1, <1>2, <2>2, <2>3 DEF AluTypeOK
<1>6. ASSUME NEW d \in ByteOperands, NEW s \in ByteOperands, CompareRm8(d, s)
      PROVE  FlagsMeant'
  <2>1. d \in Operands /\ s \in Operands /\ Size(d) = ByteSize /\ Size(s) = ByteSize
    BY OperandsOfSize DEF ByteOperands, Sizes
  <2>2. Sub(ByteSize, Get(s), Get(d), flags).f \in Flags  BY <1>1, <1>2, <2>1, SubSound
  <2>3. QED BY <1>1, <1>6, <2>2, NothingMeant DEF CompareRm8, AluTypeOK
<1>7. ASSUME NEW m \in Sizes, NEW d \in OfSize(m), NEW s \in OfSize(m), Xchg(d, s)
      PROVE  FlagsMeant'
  <2>1. d \in Operands /\ s \in Operands /\ Size(d) = m /\ Size(s) = m  BY OperandsOfSize
  <2>2. Put(regs, d, Get(s)) \in [Places -> Words]  BY <1>1, <1>2, <2>1
  <2>3. Put(Put(regs, d, Get(s)), s, Get(d)) \in [Places -> Words]  BY <1>2, <2>1, <2>2
  <2>4. QED BY <1>1, <1>7, <2>3 DEF Xchg, AluTypeOK
<1>8. ASSUME NEW d \in Operands, Inc(d) \/ Dec(d)  PROVE FlagsMeant'
  <2>1. ASSUME NEW r, r.v \in Values(Size(d)), r.f \in Flags,
               regs' = Put(regs, d, r.v), flags' = r.f, means' = "none"
        PROVE  FlagsMeant'
    BY <1>1, <1>2, <2>1, NothingMeant DEF AluTypeOK
  <2>2. CASE Inc(d)  BY <1>1, <1>2, <2>1, <2>2, AddSound DEF Inc
  <2>3. CASE Dec(d)  BY <1>1, <1>2, <2>1, <2>3, SubSound DEF Dec
  <2>4. QED BY <1>8, <2>2, <2>3
<1>9. ASSUME NEW d \in Operands, Not(d)  PROVE FlagsMeant'
  <2>1. Size(d) - 1 - Get(d) \in Values(Size(d))  BY <1>2
  <2>2. QED BY <1>1, <1>2, <1>9, <2>1 DEF Not, AluTypeOK
<1>10. ASSUME NEW d \in Operands, Negate(d)  PROVE FlagsMeant'
  <2> DEFINE r == Neg(Size(d), Get(d), flags)
  <2>1. Size(d) - Get(d) \in Nat  BY <1>2
  <2>2. r.v \in Values(Size(d)) /\ r.f \in Flags  BY <1>1, <1>2, <2>1, FromBigSound DEF Neg
  <2>3. regs' = Put(regs, d, r.v) /\ flags' = r.f /\ means' = "none"  BY <1>10 DEF Negate
  <2> HIDE DEF r
  <2>4. QED BY <1>1, <1>2, <2>2, <2>3, NothingMeant DEF AluTypeOK
<1>11. ASSUME NEW d \in Operands, NEW op \in Shifting, NEW p \in Factors, ShiftBy(op, d, p)
       PROVE  FlagsMeant'
  <2> DEFINE r == Shift(op, Size(d), Get(d), p, flags)
             t == ShiftMeaning(op, Size(d), Get(d), p)
  <2>1. p \in Nat \ {0}  BY RmmAssumption
  <2>2. r.v \in Values(Size(d)) /\ r.f \in Flags  BY <1>1, <1>2, <2>1, ShiftSound
  <2>3. t \in Meanings /\ Meant(r.f, t)  BY <1>1, <1>2, <2>1, ShiftMeant
  <2>4. regs' = Put(regs, d, r.v) /\ flags' = r.f /\ means' = t  BY <1>11 DEF ShiftBy
  <2> HIDE DEF r, t
  <2>5. QED BY <1>1, <1>2, <2>2, <2>3, <2>4 DEF AluTypeOK
<1>12. ASSUME NEW b \in Immediates \cap Bytes, NEW signed \in BOOLEAN, MulByte(b, signed)
       PROVE  FlagsMeant'
  <2>1. PICK p, o : /\ p = (Get([place |-> "ax", part |-> "l"]) * b) % WordSize
                    /\ o \in BOOLEAN /\ regs' = [regs EXCEPT !["ax"] = p]
                    /\ flags' = [flags EXCEPT !.of = o, !.cf = o] /\ means' = "none"
    BY <1>12, Zenon DEF MulByte
  <2>2. p \in Words
    <3>1. [place |-> "ax", part |-> "l"] \in Operands  BY AluAssumption DEF Operands
    <3>2. Get([place |-> "ax", part |-> "l"]) \in Int  BY <1>2, <3>1
    <3>3. b \in Int /\ WordSize \in Nat /\ WordSize > 0  BY BytesAndWords DEF Bytes, Values
    <3>4. Get([place |-> "ax", part |-> "l"]) * b \in Int  BY <3>2, <3>3
    <3>5. QED BY <2>1, <3>3, <3>4 DEF Words, Values
  <2>3. [flags EXCEPT !.of = o, !.cf = o] \in Flags  BY <1>1, <2>1, FlagsExcept
  <2>4. QED BY <1>1, <2>1, <2>2, <2>3, NothingMeant DEF AluTypeOK
<1>13. CASE MulWord
  <2>1. [flags EXCEPT !.of = FALSE, !.cf = FALSE] \in Flags  BY <1>1, FlagsExcept
  <2>2. 0 \in Words  BY BytesAndWords DEF Words, Values
  <2>3. QED BY <1>1, <1>13, <2>1, <2>2, NothingMeant DEF MulWord, AluTypeOK
<1>14. CASE Cbw
  <2> DEFINE ah == [place |-> "ax", part |-> "h"]
  <2>1. ah \in Operands /\ Size(ah) = ByteSize  BY AluAssumption DEF Operands, Size
  <2>2. PICK v \in Values(ByteSize) : regs' = Put(regs, ah, v)
    BY <1>14, BytesAndWords DEF Cbw, Values
  <2> HIDE DEF ah
  <2>3. QED BY <1>1, <1>2, <1>14, <2>1, <2>2 DEF Cbw, AluTypeOK
<1>15. CASE Cwd
  <2>1. 0 \in Words /\ WordSize - 1 \in Words  BY BytesAndWords DEF Words, Values
  <2> DEFINE v == IF Msb(WordSize, regs["ax"]) THEN WordSize - 1 ELSE 0
  <2>2. v \in Words  BY <2>1
  <2>3. regs' = [regs EXCEPT !["dx"] = v]  BY <1>15 DEF Cwd
  <2> HIDE DEF v
  <2>4. QED BY <1>1, <1>15, <2>2, <2>3 DEF Cwd, AluTypeOK
<1>16. ASSUME NEW b \in BOOLEAN, SetCarry(b)  PROVE FlagsMeant'
  BY <1>1, <1>16, FlagsExcept, CarryMeant DEF SetCarry, AluTypeOK
<1>17. CASE FlipCarry
  <2> DEFINE c == ~flags.cf
             g == [flags EXCEPT !.cf = c]
  <2>1. c \in BOOLEAN /\ g \in Flags /\ g.cf = c  BY <1>1, FlagsExcept
  <2>2. CASE means = "none"
    BY <1>1, <1>17, <2>1, <2>2, NothingMeant DEF FlipCarry, AluTypeOK, Flipped, Carried, NotCarried
  <2>3. CASE means # "none"
    <3>1. Flipped(means) = CarryIf(c)
      BY <1>1, <2>3 DEF Flipped, CarryIf, CarryOf, Carried, NotCarried, Meanings, Meant, Flags
    <3>2. flags' = g /\ means' = Flipped(means) /\ regs' = regs  BY <1>17 DEF FlipCarry
    <3> HIDE DEF c, g
    <3>3. QED BY <1>1, <2>1, <3>1, <3>2, CarryMeant DEF AluTypeOK
  <2>4. QED BY <2>2, <2>3
<1>18. ASSUME NEW b \in BOOLEAN, SetDirection(b)  PROVE FlagsMeant'
  BY <1>1, <1>18, FlagsExcept DEF SetDirection, AluTypeOK
<1>19. CASE UNCHANGED aluVars  BY <1>19 DEF aluVars, AluTypeOK
<1>20. QED
  BY <1>3, <1>4, <1>5, <1>6, <1>7, <1>8, <1>9, <1>10, <1>11, <1>12, <1>13, <1>14,
     <1>15, <1>16, <1>17, <1>18, <1>19 DEF AluNext

LEMMA FlagsAlwaysMeant == AluSpec => []FlagsMeant
<1>1. AluInit => FlagsMeant
  <2>1. NoFlags \in Flags  BY DEF NoFlags, Flags
  <2>2. 0 \in Words  BY BytesAndWords DEF Words, Values
  <2>3. QED BY <2>1, <2>2, NothingMeant DEF AluInit, FlagsMeant, AluTypeOK
<1>2. QED BY <1>1, FlagsMeantStep, PTL DEF AluSpec

-------------------------------------------------------------------------------
(* The jumps after a comparison, and after logic, decide rightly, for all  *)
(* operands of bytes of any size and all sequences of instructions in      *)
(* between (rmm.h 95-192, cpu.cpp 424-451).                                *)
THEOREM JumpsDecide == AluSpec => [](UnsignedJumps /\ JumpsAfterLogic)
<1>1. FlagsMeant => UnsignedJumps
  <2> SUFFICES ASSUME FlagsMeant, means \in {"below", "equal", "above"}
               PROVE  UnsignedJumps
    BY DEF UnsignedJumps
  <2> DEFINE f == flags
  <2>1. f \in Flags /\ f.cf = (CarryOf(means) = 1) /\ f.zf = (means = "equal")
    BY DEF FlagsMeant, AluTypeOK, Meant
  <2>2. CASE means = "below"
    BY <2>1, <2>2 DEF UnsignedJumps, Condition, CarryOf, Carried, Flags
  <2>3. CASE means = "equal"
    BY <2>1, <2>3 DEF UnsignedJumps, Condition, CarryOf, Carried, Flags
  <2>4. CASE means = "above"
    BY <2>1, <2>4 DEF UnsignedJumps, Condition, CarryOf, Carried, Flags
  <2>5. QED BY <2>2, <2>3, <2>4
<1>2. FlagsMeant => JumpsAfterLogic
  <2> SUFFICES ASSUME FlagsMeant, means \in {"negative", "zero", "positive"}
               PROVE  JumpsAfterLogic
    BY DEF JumpsAfterLogic
  <2>1. /\ flags \in Flags /\ ~flags.cf /\ ~flags.of
        /\ flags.zf = (means = "zero") /\ flags.sf = (means = "negative")
    BY DEF FlagsMeant, AluTypeOK, Meant, CarryOf, Carried, Flags
  <2>2. CASE means = "negative"
    BY <2>1, <2>2 DEF JumpsAfterLogic, Condition, Flags
  <2>3. CASE means = "zero"
    BY <2>1, <2>3 DEF JumpsAfterLogic, Condition, Flags
  <2>4. CASE means = "positive"
    BY <2>1, <2>4 DEF JumpsAfterLogic, Condition, Flags
  <2>5. QED BY <2>2, <2>3, <2>4
<1>3. QED BY <1>1, <1>2, FlagsAlwaysMeant, PTL

(* The second half by itself: after AND, OR, XOR and TEST the signed jumps *)
(* are right as well (rmm.h 78-81, 145-181).                               *)
COROLLARY LogicDecides == AluSpec => []JumpsAfterLogic
BY JumpsDecide, PTL

(* Registers, flags and what is meant keep their types.                    *)
COROLLARY AluIsTyped == AluSpec => []AluTypeOK
<1>1. FlagsMeant => AluTypeOK  BY DEF FlagsMeant
<1>2. QED BY <1>1, FlagsAlwaysMeant, PTL

(* ADC, SBB, RCL and RCR take up the carry of the instruction that set it, *)
(* for all operands of bytes of any size (cpu.cpp 95-209, rmm.h 216-256).  *)
THEOREM CarriesAreTakenUp == AluSpec => []TakesUpTheCarry
<1>1. FlagsMeant => TakesUpTheCarry
  <2> SUFFICES ASSUME FlagsMeant, means # "none", NEW d \in Operands
               PROVE
      LET m == Size(d)
          a == Get(d)
          c == CarryOf(means)
      IN /\ \A b \in Sources(m) :
              /\ Adc(m, a, b, flags).v = (a + b + c) % m
              /\ Sbb(m, a, b, flags).v = (a - b - c) % m
         /\ Shift("rcl", m, a, 2, flags).v = (2 * a + c) % m
         /\ Shift("rcr", m, a, 2, flags).v = (a \div 2) + c * (m \div 2)
    BY DEF TakesUpTheCarry
  <2>1. flags \in Flags /\ regs \in [Places -> Words]  BY DEF FlagsMeant, AluTypeOK
  <2>2. Size(d) \in Sizes /\ Get(d) \in Values(Size(d))  BY <2>1, OperandsTyped
  <2>3. CarryOf(means) \in {0, 1} /\ flags.cf = (CarryOf(means) = 1)
    BY DEF FlagsMeant, Meant, CarryOf
  <2>4. \A b \in Sources(Size(d)) : b \in Values(Size(d))  BY <2>1, OperandsTyped
  <2>5. QED BY <2>1, <2>2, <2>3, <2>4, AdcSound, SbbSound, RotateSound
<1>2. QED BY <1>1, FlagsAlwaysMeant, PTL
===============================================================================

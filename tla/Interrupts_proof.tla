--------------------------- MODULE Interrupts_proof ---------------------------
(***************************************************************************)
(* Proofs about Interrupts: whatever is called, interrupted, pushed and    *)
(* returned from, in a stack segment of any size and from any sp, what is  *)
(* on the stack in memory is what was put there.                           *)
(***************************************************************************)
EXTENDS Interrupts, Remainders, TLAPS

-------------------------------------------------------------------------------
(* Where the d-th word of the stack is.                                    *)
Addr(d) == (FirstSp - 2 * d) % Word

LEMMA WordIs ==
  /\ Word \in Nat \ {0} /\ FirstSp \in Nat /\ FirstSp < Word
  /\ Word % 2 = 0 /\ FirstSp % 2 = 0 /\ Words = 0..(Word - 1)
BY InterruptsAssumption DEF Offsets, Words

LEMMA AddrIsOffset ==
  ASSUME NEW d \in Int
  PROVE  Addr(d) \in Offsets /\ Addr(d) \in Int
<1> DEFINE x == FirstSp - 2 * d
           q == x \div Word
           r == x % Word
           h == Word \div 2
           s == FirstSp \div 2
           k == s - d - h * q
<1>1. Word \in Nat \ {0} /\ FirstSp \in Int /\ Word \in Int /\ x \in Int  BY WordIs
<1>2. x = Word * q + r /\ r \in 0..(Word - 1) /\ q \in Int  BY <1>1, ModIs
<1>3. Word = 2 * h + (Word % 2) /\ h \in Int /\ FirstSp = 2 * s + (FirstSp % 2) /\ s \in Int
  BY <1>1, ModIs
<1>4. Word = 2 * h /\ FirstSp = 2 * s  BY <1>1, <1>3, WordIs
<1> HIDE DEF q, r, h, s
<1>5. h * q \in Int /\ Word * q = 2 * (h * q)  BY <1>2, <1>3, <1>4
<1>6. k \in Int /\ r = 2 * k + 0  BY <1>2, <1>3, <1>4, <1>5
<1> HIDE DEF k
<1>7. (2 * k + 0) % 2 = 0  BY <1>6, ModUnique
<1>8. r % 2 = 0 /\ r \in Words  BY <1>2, <1>6, <1>7, WordIs
<1>9. QED BY <1>2, <1>8 DEF Addr, Offsets, r

LEMMA AddrShifts ==
  ASSUME NEW d \in Int, NEW b \in Int
  PROVE  (Addr(d) + 2 * b) % Word = Addr(d - b)
<1> DEFINE a == FirstSp - 2 * d
           c == 2 * b
<1>1. Word \in Nat \ {0} /\ a \in Int /\ c \in Int  BY WordIs
<1>2. a + c = FirstSp - 2 * (d - b)  BY WordIs
<1> HIDE DEF a, c
<1>3. ((a % Word) + c) % Word = (a + c) % Word  BY <1>1, ModAdd
<1>4. QED BY <1>2, <1>3 DEF Addr, a, c

LEMMA AddrDiffers ==
  ASSUME NEW d \in Nat, NEW e \in Nat, d # e, d >= 1, e >= 1, 2 * d <= Word, 2 * e <= Word
  PROVE  Addr(d) # Addr(e)
<1> DEFINE a == FirstSp - 2 * d
           b == FirstSp - 2 * e
<1>1. Word \in Nat \ {0} /\ a \in Int /\ b \in Int /\ a # b /\ a - b < Word /\ b - a < Word
  BY WordIs
<1> HIDE DEF a, b
<1>2. a % Word # b % Word  BY <1>1, ModApart
<1>3. QED BY <1>2 DEF Addr, a, b

-------------------------------------------------------------------------------
(* What push() and pop() do to the words of the stack.                     *)
Memory == [Offsets -> Words \cup {Junk}]

LEMMA FrameIs ==
  ASSUME NEW f \in Frame
  PROVE  /\ f.at \in Nat /\ Size(f) \in Nat /\ Size(f) >= 1
         /\ f.kind \in {"word", "near", "int", "all"}
         /\ \A i \in 1..Size(f) : WordOf(f, i) \in Words
<1>1. CASE f \in [kind : {"word"}, at : Nat, word : Words]
  BY <1>1 DEF Size, WordOf
<1>2. CASE f \in [kind : {"near"}, at : Nat, ip : Words]
  BY <1>2 DEF Size, WordOf
<1>3. CASE f \in [kind : {"int"}, at : Nat, ip : Words, cs : Words, flags : Words]
  BY <1>3 DEF Size, WordOf
<1>4. CASE f \in [kind : {"all"}, at : Nat, regs : [1..NumRegs -> Words], sp : Words]
  <2>1. /\ f.at \in Nat /\ f.kind = "all" /\ Size(f) = 8 /\ f.sp \in Words
        /\ \A r \in 1..7 : f.regs[r] \in Words
    BY <1>4 DEF Size, NumRegs
  <2>2. \A i \in 1..8 : WordOf(f, i) \in Words
    BY <2>1 DEF WordOf, SpSlot
  <2>3. QED BY <2>1, <2>2
<1>5. QED BY <1>1, <1>2, <1>3, <1>4 DEF Frame

LEMMA StoredHolds ==
  ASSUME NEW m \in Memory, NEW s, NEW f \in Frame, NEW d \in Nat, 2 * (d + Size(f)) <= Word,
         \A i \in 1..Size(f) : (s - 2 * i) % Word = Addr(d + i)
  PROVE  /\ Stored(m, s, f) \in Memory
         /\ \A i \in 1..Size(f) : Stored(m, s, f)[Addr(d + i)] = WordOf(f, i)
         /\ \A e \in 1..d : Stored(m, s, f)[Addr(e)] = m[Addr(e)]
<1> DEFINE n == Size(f)
           t == Stored(m, s, f)
<1>1. n \in Nat /\ \A i \in 1..n : WordOf(f, i) \in Words  BY FrameIs
<1>2. \A i \in 1..n : (s - 2 * i) % Word = Addr(d + i)  OBVIOUS
<1>3. \A i \in 1..n : d + i \in Nat /\ d + i >= 1 /\ 2 * (d + i) <= Word
  BY <1>1, WordIs
<1>4. t = [o \in Offsets |->
             IF \E i \in 1..n : o = Addr(d + i)
             THEN WordOf(f, CHOOSE i \in 1..n : o = Addr(d + i)) ELSE m[o]]
  BY <1>2 DEF Stored
<1> HIDE DEF t, n
<1>5. t \in Memory
  <2>1. ASSUME NEW o \in Offsets PROVE t[o] \in Words \cup {Junk}
    <3>1. CASE \E i \in 1..n : o = Addr(d + i)
      <4>1. (CHOOSE i \in 1..n : o = Addr(d + i)) \in 1..n  BY <3>1
      <4>2. t[o] = WordOf(f, CHOOSE i \in 1..n : o = Addr(d + i))  BY <1>4, <2>1, <3>1
      <4>3. QED BY <1>1, <4>1, <4>2
    <3>2. CASE ~ \E i \in 1..n : o = Addr(d + i)
      <4>1. t[o] = m[o]  BY <1>4, <2>1, <3>2
      <4>2. QED BY <2>1, <4>1 DEF Memory
    <3>3. QED BY <3>1, <3>2
  <2>2. QED BY <1>4, <2>1 DEF Memory
<1>6. ASSUME NEW i \in 1..n PROVE t[Addr(d + i)] = WordOf(f, i)
  <2>1. Addr(d + i) \in Offsets  BY <1>3, <1>6, AddrIsOffset
  <2>2. \A j \in 1..n : Addr(d + i) = Addr(d + j) => j = i
    <3>1. SUFFICES ASSUME NEW j \in 1..n, j # i PROVE Addr(d + i) # Addr(d + j)
      OBVIOUS
    <3>2. d + i # d + j  BY <1>1, <1>6, <3>1
    <3>3. QED BY <1>3, <1>6, <3>1, <3>2, AddrDiffers
  <2>3. (CHOOSE j \in 1..n : Addr(d + i) = Addr(d + j)) = i  BY <1>6, <2>2
  <2>4. QED BY <1>4, <1>6, <2>1, <2>3
<1>7. ASSUME NEW e \in 1..d PROVE t[Addr(e)] = m[Addr(e)]
  <2>1. e \in Nat /\ e >= 1 /\ 2 * e <= Word /\ \A i \in 1..n : e # d + i
    BY <1>1, <1>7, WordIs DEF n
  <2>2. Addr(e) \in Offsets  BY <2>1, AddrIsOffset
  <2>3. \A i \in 1..n : Addr(e) # Addr(d + i)  BY <1>3, <2>1, AddrDiffers
  <2>4. QED BY <1>4, <2>2, <2>3
<1>8. QED BY <1>5, <1>6, <1>7 DEF t, n

LEMMA ForgottenKeeps ==
  ASSUME NEW m \in Memory, NEW s, NEW d \in Nat, NEW n \in Nat, 2 * (d + n) <= Word,
         \A i \in 1..n : (s + 2 * (i - 1)) % Word = Addr(d + n + 1 - i)
  PROVE  /\ Forgotten(m, s, n) \in Memory
         /\ \A e \in 1..d : Forgotten(m, s, n)[Addr(e)] = m[Addr(e)]
<1> DEFINE t == Forgotten(m, s, n)
<1>1. t = [o \in Offsets |-> IF \E i \in 1..n : o = Addr(d + n + 1 - i) THEN Junk ELSE m[o]]
  BY DEF Forgotten
<1>2. t \in Memory  BY <1>1 DEF Memory
<1> HIDE DEF t
<1>3. ASSUME NEW e \in 1..d PROVE t[Addr(e)] = m[Addr(e)]
  <2>1. e \in Nat /\ e >= 1 /\ 2 * e <= Word  BY <1>3, WordIs
  <2>2. \A i \in 1..n : /\ d + n + 1 - i \in Nat /\ d + n + 1 - i >= 1 /\ e # d + n + 1 - i
                        /\ 2 * (d + n + 1 - i) <= Word
    BY <1>3, WordIs
  <2>3. Addr(e) \in Offsets  BY <2>1, AddrIsOffset
  <2>4. \A i \in 1..n : Addr(e) # Addr(d + n + 1 - i)  BY <2>1, <2>2, AddrDiffers
  <2>5. QED BY <1>1, <2>3, <2>4
<1>4. QED BY <1>2, <1>3 DEF t

-------------------------------------------------------------------------------
(* Things on the stack, one upon the other.                                *)
EndOf(f) == f.at + Size(f)
DepthOf(s) == IF s = <<>> THEN 0 ELSE EndOf(s[Len(s)])

Stacked(s) ==
  /\ s # <<>> => s[1].at = 0
  /\ \A k \in 1..(Len(s) - 1) : s[k + 1].at = EndOf(s[k])
  /\ \A j, k \in 1..Len(s) : j < k => EndOf(s[j]) <= s[k].at
  /\ \A j, k \in 1..Len(s) :
       j <= k /\ (\A i \in j..(k - 1) : s[i].kind = "word") => s[k].at = s[j].at + (k - j)

(* Each of them is held in memory where it was put.                        *)
Held(m, s) == \A k \in 1..Len(s) : \A i \in 1..Size(s[k]) :
                m[Addr(s[k].at + i)] = WordOf(s[k], i)

LEMMA DepthIs ==
  ASSUME NEW s \in Seq(Frame)
  PROVE  DepthOf(s) \in Nat
<1>1. CASE s = <<>>  BY <1>1 DEF DepthOf
<1>2. CASE s # <<>>
  <2>1. s[Len(s)] \in Frame  BY <1>2
  <2>2. QED BY <1>2, <2>1, FrameIs DEF DepthOf, EndOf
<1>3. QED BY <1>1, <1>2

LEMMA EndsBelow ==
  ASSUME NEW s \in Seq(Frame), Stacked(s), NEW k \in 1..Len(s)
  PROVE  /\ EndOf(s[k]) <= DepthOf(s) /\ s[k].at \in Nat /\ EndOf(s[k]) \in Nat
         /\ \A i \in 1..Size(s[k]) : s[k].at + i \in 1..DepthOf(s)
<1>1. s # <<>> /\ Len(s) \in Nat /\ Len(s) \in 1..Len(s) /\ s[k] \in Frame /\ s[Len(s)] \in Frame
  OBVIOUS
<1>2. /\ s[k].at \in Nat /\ Size(s[k]) \in Nat /\ s[Len(s)].at \in Nat /\ Size(s[Len(s)]) \in Nat
  BY <1>1, FrameIs
<1>3. DepthOf(s) = EndOf(s[Len(s)])  BY <1>1 DEF DepthOf
<1>4. EndOf(s[k]) <= DepthOf(s)
  <2>1. CASE k = Len(s)
    BY <1>2, <1>3, <2>1 DEF EndOf
  <2>2. CASE k < Len(s)
    <3>1. EndOf(s[k]) <= s[Len(s)].at  BY <1>1, <2>2 DEF Stacked
    <3>2. QED BY <1>2, <1>3, <3>1 DEF EndOf
  <2>3. QED BY <1>1, <2>1, <2>2
<1>5. QED BY <1>2, <1>3, <1>4 DEF EndOf

LEMMA EmptyStacked == Stacked(<<>>) /\ DepthOf(<<>>) = 0
BY DEF Stacked, DepthOf

(* What is below the n-th is a stack, with the words beneath its base.     *)
LEMMA PrefixStacked ==
  ASSUME NEW s \in Seq(Frame), Stacked(s), NEW n \in Nat, n < Len(s)
  PROVE  LET p == SubSeq(s, 1, n) IN
         /\ p \in Seq(Frame) /\ Len(p) = n /\ Stacked(p)
         /\ \A k \in 1..n : p[k] = s[k]
         /\ DepthOf(p) = s[n + 1].at
<1> DEFINE p == SubSeq(s, 1, n)
<1>1. /\ p \in Seq(Frame) /\ Len(p) = n /\ Len(s) \in Nat
      /\ \A k \in 1..n : p[k] = s[k] /\ k \in 1..Len(s)
  OBVIOUS
<1> HIDE DEF p
<1>2. Stacked(p)
  <2>1. p # <<>> => p[1].at = 0
    <3>1. SUFFICES ASSUME p # <<>> PROVE p[1].at = 0  OBVIOUS
    <3>2. 1 \in 1..n /\ s # <<>>  BY <1>1, <3>1
    <3>3. QED BY <1>1, <3>2 DEF Stacked
  <2>2. ASSUME NEW k \in 1..(n - 1) PROVE p[k + 1].at = EndOf(p[k])
    <3>1. k \in 1..n /\ k + 1 \in 1..n /\ k \in 1..(Len(s) - 1)  BY <1>1, <2>2
    <3>2. s[k + 1].at = EndOf(s[k])  BY <3>1 DEF Stacked
    <3>3. QED BY <1>1, <3>1, <3>2
  <2>3. \A j, k \in 1..n : j < k => EndOf(p[j]) <= p[k].at
    BY <1>1 DEF Stacked
  <2>4. ASSUME NEW j \in 1..n, NEW k \in 1..n, j <= k, \A i \in j..(k - 1) : p[i].kind = "word"
        PROVE  p[k].at = p[j].at + (k - j)
    <3>1. \A i \in j..(k - 1) : i \in 1..n  BY <1>1
    <3>2. \A i \in j..(k - 1) : s[i].kind = "word"  BY <1>1, <2>4, <3>1
    <3>3. s[k].at = s[j].at + (k - j)  BY <1>1, <2>4, <3>2 DEF Stacked
    <3>4. QED BY <1>1, <3>3
  <2>5. QED BY <1>1, <2>1, <2>2, <2>3, <2>4 DEF Stacked
<1>3. DepthOf(p) = s[n + 1].at
  <2>1. CASE n = 0
    BY <1>1, <2>1 DEF Stacked, DepthOf
  <2>2. CASE n > 0
    <3>1. n \in 1..n /\ n \in 1..(Len(s) - 1) /\ p # <<>>  BY <1>1, <2>2
    <3>2. s[n + 1].at = EndOf(s[n])  BY <3>1 DEF Stacked
    <3>3. QED BY <1>1, <3>1, <3>2 DEF DepthOf
  <2>3. QED BY <2>1, <2>2
<1>4. QED BY <1>1, <1>2, <1>3 DEF p

LEMMA AppendStacked ==
  ASSUME NEW s \in Seq(Frame), Stacked(s), NEW f \in Frame, f.at = DepthOf(s)
  PROVE  LET t == Append(s, f) IN
         /\ t \in Seq(Frame) /\ Len(s) \in Nat /\ Len(t) = Len(s) + 1 /\ Stacked(t)
         /\ \A k \in 1..Len(s) : t[k] = s[k]
         /\ t[Len(s) + 1] = f
         /\ DepthOf(t) = DepthOf(s) + Size(f)
<1> DEFINE t == Append(s, f)
           n == Len(s)
<1>1. /\ t \in Seq(Frame) /\ Len(t) = n + 1 /\ n \in Nat /\ t # <<>>
      /\ (\A k \in 1..n : t[k] = s[k]) /\ t[n + 1] = f
      /\ (s = <<>> <=> n = 0)
  OBVIOUS
<1>2. DepthOf(s) = IF n = 0 THEN 0 ELSE EndOf(s[n])  BY <1>1 DEF DepthOf
<1>3. \A k \in 1..n : /\ EndOf(s[k]) <= DepthOf(s) /\ EndOf(s[k]) \in Nat /\ s[k].at \in Nat
                      /\ Size(s[k]) \in Nat /\ EndOf(s[k]) = s[k].at + Size(s[k])
  <2>1. SUFFICES ASSUME NEW k \in 1..n
                 PROVE  /\ EndOf(s[k]) <= DepthOf(s) /\ EndOf(s[k]) \in Nat /\ s[k].at \in Nat
                        /\ Size(s[k]) \in Nat /\ EndOf(s[k]) = s[k].at + Size(s[k])
    OBVIOUS
  <2>2. s[k] \in Frame  OBVIOUS
  <2>3. QED BY <2>2, EndsBelow, FrameIs DEF EndOf
<1> HIDE DEF t, n
<1>4. Stacked(t)
  <2>1. t[1].at = 0
    <3>1. CASE n = 0  BY <1>1, <1>2, <3>1
    <3>2. CASE n # 0
      <4>1. 1 \in 1..n /\ s # <<>>  BY <1>1, <3>2
      <4>2. QED BY <1>1, <4>1 DEF Stacked
    <3>3. QED BY <3>1, <3>2
  <2>2. ASSUME NEW k \in 1..n PROVE t[k + 1].at = EndOf(t[k])
    <3>1. CASE k = n
      BY <1>1, <1>2, <2>2, <3>1
    <3>2. CASE k # n
      <4>1. k \in 1..(n - 1) /\ k + 1 \in 1..n  BY <1>1, <2>2, <3>2
      <4>2. s[k + 1].at = EndOf(s[k])  BY <4>1 DEF Stacked, n
      <4>3. QED BY <1>1, <2>2, <4>1, <4>2
    <3>3. QED BY <3>1, <3>2
  <2>3. ASSUME NEW j \in 1..(n + 1), NEW k \in 1..(n + 1), j < k
        PROVE  EndOf(t[j]) <= t[k].at
    <3>1. j \in 1..n  BY <1>1, <2>3
    <3>2. CASE k = n + 1
      BY <1>1, <1>3, <3>1, <3>2
    <3>3. CASE k \in 1..n
      <4>1. EndOf(s[j]) <= s[k].at  BY <2>3, <3>1, <3>3 DEF Stacked, n
      <4>2. QED BY <1>1, <3>1, <3>3, <4>1
    <3>4. QED BY <1>1, <3>2, <3>3
  <2>4. ASSUME NEW j \in 1..(n + 1), NEW k \in 1..(n + 1), j <= k,
               \A i \in j..(k - 1) : t[i].kind = "word"
        PROVE  t[k].at = t[j].at + (k - j)
    <3>1. CASE k = n + 1 /\ j = n + 1
      <4>1. t[n + 1].at = f.at /\ DepthOf(s) \in Nat  BY <1>1, DepthIs
      <4>2. QED BY <1>1, <3>1, <4>1
    <3>2. CASE k = n + 1 /\ j \in 1..n
      <4>1. n \in 1..n /\ j <= n /\ n \in j..(k - 1) /\ \A i \in j..(n - 1) : i \in j..(k - 1) /\ i \in 1..n
        BY <1>1, <3>2
      <4>2. \A i \in j..(n - 1) : s[i].kind = "word"  BY <1>1, <2>4, <4>1
      <4>3. s[n].at = s[j].at + (n - j)  BY <3>2, <4>1, <4>2 DEF Stacked, n
      <4>4. s[n].kind = "word"  BY <1>1, <2>4, <4>1
      <4>5. Size(s[n]) = 1  BY <4>4 DEF Size
      <4>6. f.at = s[n].at + 1  BY <1>1, <1>2, <1>3, <3>2, <4>1, <4>5
      <4>7. t[k].at = f.at /\ t[j].at = s[j].at /\ s[j].at \in Nat  BY <1>1, <1>3, <3>2
      <4>8. QED BY <1>1, <3>2, <4>3, <4>6, <4>7
    <3>3. CASE k \in 1..n
      <4>1. j \in 1..n /\ \A i \in j..(k - 1) : i \in 1..n  BY <1>1, <2>4, <3>3
      <4>2. \A i \in j..(k - 1) : s[i].kind = "word"  BY <1>1, <2>4, <4>1
      <4>3. s[k].at = s[j].at + (k - j)  BY <2>4, <3>3, <4>1, <4>2 DEF Stacked, n
      <4>4. QED BY <1>1, <3>3, <4>1, <4>3
    <3>4. QED BY <1>1, <2>4, <3>1, <3>2, <3>3
  <2>5. (n + 1) - 1 = n  BY <1>1
  <2>6. QED BY <1>1, <2>1, <2>2, <2>3, <2>4, <2>5 DEF Stacked
<1>5. DepthOf(t) = DepthOf(s) + Size(f)
  BY <1>1 DEF DepthOf, EndOf
<1>6. QED BY <1>1, <1>4, <1>5 DEF t, n

(* The frames below a change stay held.                                    *)
LEMMA PrefixHeld ==
  ASSUME NEW s \in Seq(Frame), NEW t \in Seq(Frame), Stacked(t), Len(t) <= Len(s),
         \A k \in 1..Len(t) : t[k] = s[k],
         NEW m, NEW w, Held(m, s), \A e \in 1..DepthOf(t) : w[Addr(e)] = m[Addr(e)]
  PROVE  Held(w, t)
<1>1. Len(t) \in Nat /\ Len(s) \in Nat  OBVIOUS
<1>2. SUFFICES ASSUME NEW k \in 1..Len(t), NEW i \in 1..Size(t[k])
               PROVE  w[Addr(t[k].at + i)] = WordOf(t[k], i)
  BY DEF Held
<1>3. t[k].at + i \in 1..DepthOf(t)  BY EndsBelow
<1>4. k \in 1..Len(s) /\ t[k] = s[k]  BY <1>1
<1>5. m[Addr(t[k].at + i)] = WordOf(t[k], i)  BY <1>2, <1>4 DEF Held
<1>6. QED BY <1>3, <1>5

LEMMA AppendHeld ==
  ASSUME NEW s \in Seq(Frame), Stacked(s), NEW f \in Frame, f.at = DepthOf(s),
         NEW m, NEW w, Held(m, s), \A e \in 1..DepthOf(s) : w[Addr(e)] = m[Addr(e)],
         \A i \in 1..Size(f) : w[Addr(DepthOf(s) + i)] = WordOf(f, i)
  PROVE  Held(w, Append(s, f))
<1> DEFINE t == Append(s, f)
           n == Len(s)
<1>1. /\ n \in Nat /\ Len(t) = n + 1 /\ t[n + 1] = f
      /\ \A k \in 1..n : t[k] = s[k]
  OBVIOUS
<1>2. Held(w, s)
  <2>1. SUFFICES ASSUME NEW k \in 1..n, NEW i \in 1..Size(s[k])
                 PROVE  w[Addr(s[k].at + i)] = WordOf(s[k], i)
    BY DEF Held
  <2>2. s[k].at + i \in 1..DepthOf(s)  BY EndsBelow
  <2>3. m[Addr(s[k].at + i)] = WordOf(s[k], i)  BY <2>1 DEF Held
  <2>4. QED BY <2>2, <2>3
<1> HIDE DEF t
<1>3. SUFFICES ASSUME NEW k \in 1..(n + 1), NEW i \in 1..Size(t[k])
               PROVE  w[Addr(t[k].at + i)] = WordOf(t[k], i)
  BY <1>1 DEF Held, t
<1>4. CASE k = n + 1
  BY <1>1, <1>3, <1>4
<1>5. CASE k \in 1..n
  BY <1>1, <1>2, <1>3, <1>5 DEF Held
<1>6. QED BY <1>1, <1>3, <1>4, <1>5

-------------------------------------------------------------------------------
(* The inductive invariant: the frames lie one upon the other from the     *)
(* bottom of the stack to sp, within the segment, and each is held.        *)
StackInv ==
  /\ Stacked(frames) /\ Held(mem, frames)
  /\ sp = Addr(DepthOf(frames)) /\ 2 * DepthOf(frames) <= Word
IntInv == InterruptsTypeOK /\ StackInv

LEMMA DepthIsDepthOf == Depth = DepthOf(frames)
BY DEF Depth, DepthOf, EndOf, Last

LEMMA IntInvGives ==
  ASSUME IntInv
  PROVE  /\ mem \in Memory /\ frames \in Seq(Frame) /\ DepthOf(frames) \in Nat
         /\ Len(frames) \in Nat
BY DepthIs DEF IntInv, InterruptsTypeOK, Memory

(* The stack after a step: what there is to show of it.                    *)
StackTyped ==
  mem \in [Offsets -> Words \cup {Junk}] /\ sp \in Offsets /\ frames \in Seq(Frame)

LEMMA Pushed ==
  ASSUME IntInv, NEW f \in Frame, f.at = Depth, Fits(Size(f)), Push(f)
  PROVE  /\ StackTyped' /\ StackInv'
         /\ Len(frames') = Len(frames) + 1
         /\ frames # <<>> => frames'[Len(frames)] = Last(frames)
<1> DEFINE d == DepthOf(frames)
           n == Size(f)
<1>1. /\ mem \in Memory /\ frames \in Seq(Frame) /\ d \in Nat /\ n \in Nat /\ sp = Addr(d)
      /\ Stacked(frames) /\ Held(mem, frames) /\ Len(frames) \in Nat
  BY IntInvGives, FrameIs DEF IntInv, StackInv
<1>2. f.at = d /\ 2 * (d + n) <= Word  BY DepthIsDepthOf DEF Fits
<1>3. /\ mem' = Stored(mem, sp, f) /\ sp' = (sp - 2 * n) % Word
      /\ frames' = Append(frames, f)
  BY DEF Push
<1>4. Addr(d) \in Int  BY <1>1, AddrIsOffset
<1>5. \A i \in 1..n : (sp - 2 * i) % Word = Addr(d + i)
  <2>1. SUFFICES ASSUME NEW i \in 1..n PROVE (sp - 2 * i) % Word = Addr(d + i)
    OBVIOUS
  <2>2. -i \in Int /\ d \in Int /\ d - (-i) = d + i /\ Addr(d) + 2 * (-i) = Addr(d) - 2 * i
    BY <1>1, <1>4
  <2>3. (Addr(d) + 2 * (-i)) % Word = Addr(d - (-i))  BY ONLY <2>2, AddrShifts
  <2>4. QED BY <1>1, <2>2, <2>3
<1> HIDE DEF d, n
<1>6. /\ mem' \in Memory
      /\ \A i \in 1..n : mem'[Addr(d + i)] = WordOf(f, i)
      /\ \A e \in 1..d : mem'[Addr(e)] = mem[Addr(e)]
  <2>1. /\ mem \in Memory /\ f \in Frame /\ d \in Nat /\ 2 * (d + Size(f)) <= Word
        /\ \A i \in 1..Size(f) : (sp - 2 * i) % Word = Addr(d + i)
    BY <1>1, <1>2, <1>5 DEF n
  <2>2. Stored(mem, sp, f) \in Memory  BY ONLY <2>1, StoredHolds
  <2>3. \A i \in 1..Size(f) : Stored(mem, sp, f)[Addr(d + i)] = WordOf(f, i)
    BY ONLY <2>1, StoredHolds
  <2>4. \A e \in 1..d : Stored(mem, sp, f)[Addr(e)] = mem[Addr(e)]
    BY ONLY <2>1, StoredHolds
  <2>5. QED BY <1>3, <2>2, <2>3, <2>4 DEF n
<1>7. /\ frames' \in Seq(Frame) /\ Len(frames') = Len(frames) + 1 /\ Stacked(frames')
      /\ \A k \in 1..Len(frames) : frames'[k] = frames[k]
      /\ DepthOf(frames') = d + n
  BY <1>1, <1>2, <1>3, AppendStacked DEF d, n
<1>8. Held(mem', frames')
  BY <1>1, <1>2, <1>3, <1>6, AppendHeld DEF d, n
<1>9. sp' = Addr(d + n) /\ sp' \in Offsets
  <2>1. n >= 1 /\ n \in 1..n  BY FrameIs DEF n
  <2>2. sp' = Addr(d + n)  BY <1>3, <1>5, <2>1
  <2>3. QED BY <1>1, <2>2, AddrIsOffset
<1>10. frames # <<>> => frames'[Len(frames)] = Last(frames)
  BY <1>1, <1>7 DEF Last
<1>11. QED
  BY <1>2, <1>6, <1>7, <1>8, <1>9, <1>10 DEF StackTyped, StackInv, Memory

LEMMA LastIs ==
  ASSUME IntInv, frames # <<>>
  PROVE  /\ Last(frames) = frames[Len(frames)] /\ Last(frames) \in Frame
         /\ Len(frames) \in 1..Len(frames) /\ Len(frames) >= 1
         /\ DepthOf(frames) = Last(frames).at + Size(Last(frames))
BY IntInvGives DEF Last, DepthOf, EndOf

(* What pop() finds, from the top.                                         *)
LEMMA TopIsLast ==
  ASSUME IntInv, frames # <<>>, NEW i \in 1..Size(Last(frames))
  PROVE  /\ Top(mem, sp, i) = WordOf(Last(frames), Size(Last(frames)) - i + 1)
         /\ Top(mem, sp, i) \in Words
<1> DEFINE d == DepthOf(frames)
           f == Last(frames)
           n == Size(f)
           j == n - i + 1
<1>1. /\ f \in Frame /\ f = frames[Len(frames)] /\ Len(frames) \in 1..Len(frames)
      /\ f.at \in Nat /\ n \in Nat /\ d = f.at + n /\ d \in Nat /\ sp = Addr(d)
      /\ \A k \in 1..n : WordOf(f, k) \in Words
  BY LastIs, IntInvGives, FrameIs DEF IntInv, StackInv
<1> HIDE DEF d, f, n
<1>2. i \in 1..n  BY DEF f, n
<1>3. j \in 1..n /\ d - (i - 1) = f.at + j  BY <1>1, <1>2
<1>4. mem[Addr(f.at + j)] = WordOf(f, j)
  <2>1. Held(mem, frames)  BY DEF IntInv, StackInv
  <2>2. QED BY <1>1, <1>3, <2>1 DEF Held, n
<1>5. (Addr(d) + 2 * (i - 1)) % Word = Addr(d - (i - 1))
  <2>1. d \in Int /\ i - 1 \in Int  BY <1>1, <1>2
  <2>2. QED BY ONLY <2>1, AddrShifts
<1>6. Top(mem, sp, i) = WordOf(f, j)  BY <1>1, <1>3, <1>4, <1>5 DEF Top
<1>7. QED BY <1>1, <1>3, <1>6 DEF f, n

(* pop(), n times: memory below is as it was.                              *)
LEMMA DropKeeps ==
  ASSUME IntInv, NEW n \in Nat, NEW d \in Nat, DepthOf(frames) = d + n, Drop(n)
  PROVE  /\ mem' \in Memory /\ sp' = Addr(d) /\ sp' \in Offsets /\ 2 * d <= Word
         /\ \A e \in 1..d : mem'[Addr(e)] = mem[Addr(e)]
<1>1. /\ mem \in Memory /\ sp = Addr(d + n) /\ 2 * (d + n) <= Word
      /\ mem' = Forgotten(mem, sp, n) /\ sp' = (sp + 2 * n) % Word
  BY IntInvGives DEF IntInv, StackInv, Drop
<1>2. \A i \in 1..n : (sp + 2 * (i - 1)) % Word = Addr(d + n + 1 - i)
  <2>1. SUFFICES ASSUME NEW i \in 1..n
                 PROVE  (sp + 2 * (i - 1)) % Word = Addr(d + n + 1 - i)
    OBVIOUS
  <2>2. d + n \in Int /\ i - 1 \in Int /\ (d + n) - (i - 1) = d + n + 1 - i  OBVIOUS
  <2>3. (Addr(d + n) + 2 * (i - 1)) % Word = Addr((d + n) - (i - 1))
    BY ONLY <2>2, AddrShifts
  <2>4. QED BY <1>1, <2>2, <2>3
<1>3. /\ mem' \in Memory
      /\ \A e \in 1..d : mem'[Addr(e)] = mem[Addr(e)]
  <2>1. /\ mem \in Memory /\ d \in Nat /\ n \in Nat /\ 2 * (d + n) <= Word
        /\ \A i \in 1..n : (sp + 2 * (i - 1)) % Word = Addr(d + n + 1 - i)
    BY <1>1, <1>2
  <2>2. Forgotten(mem, sp, n) \in Memory  BY ONLY <2>1, ForgottenKeeps
  <2>3. \A e \in 1..d : Forgotten(mem, sp, n)[Addr(e)] = mem[Addr(e)]
    BY ONLY <2>1, ForgottenKeeps
  <2>4. QED BY <1>1, <2>2, <2>3
<1>4. sp' = Addr(d)
  <2>1. d + n \in Int /\ n \in Int /\ (d + n) - n = d  OBVIOUS
  <2>2. (Addr(d + n) + 2 * n) % Word = Addr((d + n) - n)  BY ONLY <2>1, AddrShifts
  <2>3. QED BY <1>1, <2>1, <2>2
<1>5. sp' \in Offsets  BY <1>4, AddrIsOffset
<1>6. 2 * d <= Word  BY <1>1, WordIs
<1>7. QED BY <1>3, <1>4, <1>5, <1>6

(* The frames above the k-th are taken off.                                *)
LEMMA Popped ==
  ASSUME IntInv, NEW k \in Nat, k < Len(frames), NEW n \in Nat,
         DepthOf(frames) = frames[k + 1].at + n, Drop(n),
         frames' = SubSeq(frames, 1, k)
  PROVE  StackTyped' /\ StackInv'
<1>1. frames \in Seq(Frame) /\ Stacked(frames) /\ Held(mem, frames) /\ Len(frames) \in Nat
  BY IntInvGives DEF IntInv, StackInv
<1>2. /\ frames' \in Seq(Frame) /\ Len(frames') = k /\ Stacked(frames')
      /\ \A j \in 1..k : frames'[j] = frames[j]
      /\ DepthOf(frames') = frames[k + 1].at
  BY <1>1, PrefixStacked
<1>3. DepthOf(frames') \in Nat  BY <1>2, DepthIs
<1>4. /\ mem' \in Memory /\ sp' = Addr(DepthOf(frames')) /\ sp' \in Offsets
      /\ 2 * DepthOf(frames') <= Word
      /\ \A e \in 1..DepthOf(frames') : mem'[Addr(e)] = mem[Addr(e)]
  BY <1>2, <1>3, DropKeeps
<1>5. Held(mem', frames')
  <2>1. /\ frames \in Seq(Frame) /\ frames' \in Seq(Frame) /\ Stacked(frames')
        /\ Len(frames') <= Len(frames)
        /\ \A j \in 1..Len(frames') : frames'[j] = frames[j]
        /\ Held(mem, frames)
        /\ \A e \in 1..DepthOf(frames') : mem'[Addr(e)] = mem[Addr(e)]
    BY <1>1, <1>2, <1>4
  <2>2. QED BY ONLY <2>1, PrefixHeld
<1>6. QED BY <1>2, <1>4, <1>5 DEF StackTyped, StackInv, Memory

LEMMA FrontPopped ==
  ASSUME IntInv, frames # <<>>, Drop(Size(Last(frames))), frames' = Front(frames)
  PROVE  StackTyped' /\ StackInv'
<1> DEFINE k == Len(frames) - 1
           n == Size(Last(frames))
<1>1. /\ k \in Nat /\ k < Len(frames) /\ k + 1 = Len(frames)
      /\ Last(frames) = frames[k + 1] /\ n \in Nat /\ DepthOf(frames) = frames[k + 1].at + n
  BY LastIs, IntInvGives, FrameIs
<1>2. frames' = SubSeq(frames, 1, k) /\ Drop(n)  BY DEF Front
<1> HIDE DEF k, n
<1>3. QED BY <1>1, <1>2, Popped

LEMMA RetNearPops ==
  ASSUME IntInv, NEW n \in Nat, RetNear(n)
  PROVE  StackTyped' /\ StackInv'
<1> DEFINE l == Len(frames)
           k == l - 1 - n
<1>1. /\ frames # <<>> /\ Last(frames).kind = "near" /\ n < l
      /\ \A i \in 1..n : frames[l - i].kind = "word"
      /\ Drop(1 + n) /\ frames' = SubSeq(frames, 1, l - 1 - n)
  BY DEF RetNear, TopIs
<1>2. /\ l \in Nat /\ Stacked(frames) /\ frames \in Seq(Frame)
      /\ Last(frames) = frames[l] /\ DepthOf(frames) = frames[l].at + Size(frames[l])
      /\ frames[l].at \in Nat
  BY <1>1, IntInvGives, LastIs, FrameIs DEF IntInv, StackInv
<1> HIDE DEF l
<1>3. k \in Nat /\ k < l /\ k + 1 = l - n /\ k + 1 \in 1..l /\ l \in 1..l /\ k + 1 <= l
  BY <1>1, <1>2
<1>4. \A i \in (k + 1)..(l - 1) : frames[i].kind = "word"
  <2>1. TAKE i \in (k + 1)..(l - 1)
  <2>2. l - i \in 1..n /\ l - (l - i) = i  BY <1>1, <1>2, <1>3
  <2>3. frames[l - (l - i)].kind = "word"  BY <1>1, <2>2
  <2>4. QED BY <2>2, <2>3
<1>5. frames[l].at = frames[k + 1].at + (l - (k + 1))
  BY <1>2, <1>3, <1>4 DEF Stacked, l
<1>6. Size(frames[l]) = 1  BY <1>1, <1>2 DEF Size
<1>7. frames[k + 1].at \in Nat
  <2>1. frames[k + 1] \in Frame  BY <1>2, <1>3 DEF l
  <2>2. QED BY <2>1, FrameIs
<1>8. DepthOf(frames) = frames[k + 1].at + (1 + n)
  BY <1>1, <1>2, <1>3, <1>5, <1>6, <1>7
<1>9. k < Len(frames) /\ 1 + n \in Nat /\ frames' = SubSeq(frames, 1, k)
  BY <1>1, <1>3 DEF l
<1> HIDE DEF k
<1>10. QED BY <1>1, <1>3, <1>8, <1>9, Popped

LEMMA RetFarPops ==
  ASSUME IntInv, RetFar
  PROVE  StackTyped' /\ StackInv'
<1> DEFINE k == Len(frames) - 1
           f == Last(frames)
           g == FlagsOf(f)
           p == Front(frames)
<1>1. /\ frames # <<>> /\ f.kind = "int" /\ Drop(2) /\ frames' = Append(p, g)
  BY DEF RetFar, TopIs
<1>2. /\ k \in Nat /\ k < Len(frames) /\ k + 1 = Len(frames) /\ Len(frames) \in 1..Len(frames)
      /\ f = frames[k + 1] /\ f \in Frame /\ frames \in Seq(Frame)
      /\ DepthOf(frames) = f.at + Size(f)
      /\ Stacked(frames) /\ Held(mem, frames)
  BY <1>1, LastIs, IntInvGives DEF IntInv, StackInv
<1>3. p = SubSeq(frames, 1, k)  BY DEF Front
<1> HIDE DEF p, k, f
<1>4. /\ p \in Seq(Frame) /\ Len(p) = k /\ Stacked(p) /\ DepthOf(p) = f.at
      /\ \A j \in 1..k : p[j] = frames[j]
  BY <1>2, <1>3, PrefixStacked
<1>5. Size(f) = 3 /\ f.at \in Nat /\ f.flags \in Words
  <2>1. f \in [kind : {"int"}, at : Nat, ip : Words, cs : Words, flags : Words]
    BY <1>1, <1>2 DEF Frame
  <2>2. QED BY <2>1 DEF Size
<1>6. g \in Frame /\ g.at = f.at /\ Size(g) = 1 /\ WordOf(g, 1) = f.flags
  BY <1>5 DEF FlagsOf, Frame, Size, WordOf
<1> HIDE DEF g
<1>7. f.at + 1 \in Nat /\ DepthOf(frames) = (f.at + 1) + 2 /\ 2 \in Nat
  BY <1>2, <1>5
<1>8. /\ mem' \in Memory /\ sp' = Addr(f.at + 1) /\ sp' \in Offsets /\ 2 * (f.at + 1) <= Word
      /\ \A e \in 1..(f.at + 1) : mem'[Addr(e)] = mem[Addr(e)]
  BY ONLY <1>1, <1>7, IntInv, DropKeeps
<1>9. /\ frames' \in Seq(Frame) /\ Stacked(frames') /\ DepthOf(frames') = f.at + 1
  BY <1>1, <1>4, <1>6, AppendStacked
<1>10. mem'[Addr(f.at + 1)] = f.flags
  <2>1. mem[Addr(f.at + 1)] = WordOf(f, 1)
    <3>1. 1 \in 1..Size(f)  BY <1>5
    <3>2. QED BY <1>2, <3>1 DEF Held
  <2>2. WordOf(f, 1) = f.flags  BY <1>1 DEF WordOf
  <2>3. f.at + 1 \in 1..(f.at + 1)  BY <1>5
  <2>4. QED BY <1>8, <2>1, <2>2, <2>3
<1>11. Held(mem', frames')
  <2>1. Held(mem, p)
    <3>1. \A j \in 1..k : j \in 1..Len(frames)  BY <1>2
    <3>2. QED BY <1>2, <1>4, <3>1 DEF Held
  <2>2. \A e \in 1..DepthOf(p) : mem'[Addr(e)] = mem[Addr(e)]
    BY <1>4, <1>5, <1>8
  <2>3. \A i \in 1..Size(g) : mem'[Addr(DepthOf(p) + i)] = WordOf(g, i)
    <3>1. \A i \in 1..Size(g) : i = 1  BY <1>6
    <3>2. QED BY <1>4, <1>6, <1>10, <3>1
  <2>4. p \in Seq(Frame) /\ Stacked(p) /\ g \in Frame /\ g.at = DepthOf(p)  BY <1>4, <1>6
  <2>5. Held(mem', Append(p, g))  BY ONLY <2>1, <2>2, <2>3, <2>4, AppendHeld
  <2>6. QED BY <1>1, <2>5
<1>12. QED BY <1>8, <1>9, <1>11 DEF StackTyped, StackInv, Memory

(* What an interrupt that is not the program's does to the stack.          *)
LEMMA PushedAndPoppedBack ==
  ASSUME IntInv, Fits(3), PushedAndPopped
  PROVE  /\ StackTyped' /\ StackInv'
         /\ UNCHANGED <<ip, cs, flags, sp, frames>>
<1> DEFINE d == DepthOf(frames)
           f == AtCall
           m == Stored(mem, sp, f)
<1>1. /\ mem \in Memory /\ frames \in Seq(Frame) /\ d \in Nat /\ sp = Addr(d) /\ sp \in Offsets
      /\ Stacked(frames) /\ Held(mem, frames) /\ 2 * d <= Word
  BY IntInvGives DEF IntInv, StackInv, InterruptsTypeOK
<1>2. /\ f \in Frame /\ Size(f) = 3 /\ WordOf(f, 1) = flags /\ WordOf(f, 2) = cs
      /\ WordOf(f, 3) = ip
  <2>1. ip \in Words /\ cs \in Words /\ flags \in Words /\ Depth \in Nat
    BY <1>1, DepthIsDepthOf DEF IntInv, InterruptsTypeOK
  <2>2. QED BY <2>1 DEF AtCall, Frame, Size, WordOf
<1>3. 2 * (d + 3) <= Word  BY DepthIsDepthOf DEF Fits
<1>4. /\ UNCHANGED <<sp, frames>>
      /\ ip' = Top(m, sp - 6, 1) /\ cs' = Top(m, sp - 6, 2) /\ flags' = Top(m, sp - 6, 3)
      /\ mem' = Forgotten(m, sp - 6, 3)
  BY DEF PushedAndPopped, PopBack
<1> HIDE DEF d, f, m
<1>5. Addr(d) \in Int  BY <1>1, AddrIsOffset
<1>6. \A b \in Int : (sp + 2 * b) % Word = Addr(d - b)
  <2>1. TAKE b \in Int
  <2>2. d \in Int  BY <1>1
  <2>3. (Addr(d) + 2 * b) % Word = Addr(d - b)  BY ONLY <2>2, AddrShifts
  <2>4. QED BY <1>1, <2>3
<1>7. \A i \in 1..3 : (sp - 2 * i) % Word = Addr(d + i)
  <2>1. TAKE i \in 1..3
  <2>2. -i \in Int /\ sp + 2 * (-i) = sp - 2 * i /\ d - (-i) = d + i  BY <1>1, <1>5
  <2>3. (sp + 2 * (-i)) % Word = Addr(d - (-i))  BY ONLY <1>6, <2>2
  <2>4. QED BY <2>2, <2>3
<1>8. \A i \in 1..3 : ((sp - 6) + 2 * (i - 1)) % Word = Addr(d + 3 + 1 - i)
  <2>1. TAKE i \in 1..3
  <2>2. i - 4 \in Int /\ sp + 2 * (i - 4) = (sp - 6) + 2 * (i - 1) /\ d - (i - 4) = d + 3 + 1 - i
    BY <1>1, <1>5
  <2>3. (sp + 2 * (i - 4)) % Word = Addr(d - (i - 4))  BY ONLY <1>6, <2>2
  <2>4. QED BY <2>2, <2>3
<1>9. /\ m \in Memory
      /\ \A i \in 1..3 : m[Addr(d + i)] = WordOf(f, i)
      /\ \A e \in 1..d : m[Addr(e)] = mem[Addr(e)]
  <2>1. /\ mem \in Memory /\ f \in Frame /\ d \in Nat /\ 2 * (d + Size(f)) <= Word
        /\ \A i \in 1..Size(f) : (sp - 2 * i) % Word = Addr(d + i)
    BY <1>1, <1>2, <1>3, <1>7
  <2>2. Stored(mem, sp, f) \in Memory  BY ONLY <2>1, StoredHolds
  <2>3. \A i \in 1..Size(f) : Stored(mem, sp, f)[Addr(d + i)] = WordOf(f, i)
    BY ONLY <2>1, StoredHolds
  <2>4. \A e \in 1..d : Stored(mem, sp, f)[Addr(e)] = mem[Addr(e)]
    BY ONLY <2>1, StoredHolds
  <2>5. QED BY <1>2, <2>2, <2>3, <2>4 DEF m
<1>10. /\ mem' \in Memory
       /\ \A e \in 1..d : mem'[Addr(e)] = m[Addr(e)]
  <2>1. /\ m \in Memory /\ d \in Nat /\ 3 \in Nat /\ 2 * (d + 3) <= Word
        /\ \A i \in 1..3 : ((sp - 6) + 2 * (i - 1)) % Word = Addr(d + 3 + 1 - i)
    BY <1>1, <1>3, <1>8, <1>9
  <2>2. Forgotten(m, sp - 6, 3) \in Memory  BY ONLY <2>1, ForgottenKeeps
  <2>3. \A e \in 1..d : Forgotten(m, sp - 6, 3)[Addr(e)] = m[Addr(e)]
    BY ONLY <2>1, ForgottenKeeps
  <2>4. QED BY <1>4, <2>2, <2>3
<1>11. ip' = ip /\ cs' = cs /\ flags' = flags
  <2>1. ASSUME NEW i \in 1..3 PROVE Top(m, sp - 6, i) = WordOf(f, 4 - i)
    <3>1. 4 - i \in 1..3 /\ d + 3 + 1 - i = d + (4 - i)  BY <1>1, <2>1
    <3>2. Top(m, sp - 6, i) = m[Addr(d + 3 + 1 - i)]  BY <1>8, <2>1 DEF Top
    <3>3. QED BY <1>9, <3>1, <3>2
  <2>2. /\ Top(m, sp - 6, 1) = WordOf(f, 3) /\ Top(m, sp - 6, 2) = WordOf(f, 2)
        /\ Top(m, sp - 6, 3) = WordOf(f, 1)
    <3>1. Top(m, sp - 6, 1) = WordOf(f, 4 - 1)  BY <2>1
    <3>2. Top(m, sp - 6, 2) = WordOf(f, 4 - 2)  BY <2>1
    <3>3. Top(m, sp - 6, 3) = WordOf(f, 4 - 3)  BY <2>1
    <3>4. 4 - 1 = 3 /\ 4 - 2 = 2 /\ 4 - 3 = 1  OBVIOUS
    <3>5. QED BY <3>1, <3>2, <3>3, <3>4
  <2>3. QED BY <1>2, <1>4, <2>2
<1>12. Held(mem', frames')
  <2>1. /\ frames \in Seq(Frame) /\ frames' = frames /\ Stacked(frames) /\ Held(mem, frames)
        /\ \A e \in 1..DepthOf(frames) : mem'[Addr(e)] = mem[Addr(e)]
    BY <1>1, <1>4, <1>9, <1>10 DEF d
  <2>2. Len(frames) <= Len(frames) /\ \A j \in 1..Len(frames) : frames[j] = frames[j]
    BY <2>1
  <2>3. Held(mem', frames)  BY ONLY <2>1, <2>2, PrefixHeld
  <2>4. QED BY <2>1, <2>3
<1>13. QED
  BY <1>1, <1>4, <1>10, <1>11, <1>12 DEF StackTyped, StackInv, Memory, d

-------------------------------------------------------------------------------
(* The steps.                                                              *)
CoreTyped ==
  /\ ip \in Words /\ cs \in Words /\ flags \in Words /\ regs \in [1..NumRegs -> Words]
  /\ ivt \in [Vectors -> [seg : Words, off : Words]]
  /\ running \in BOOLEAN /\ stored \subseteq Vectors

LEMMA TypedParts == InterruptsTypeOK <=> CoreTyped /\ StackTyped
BY DEF InterruptsTypeOK, CoreTyped, StackTyped

LEMMA InitInv == InterruptsInit => IntInv
<1> SUFFICES ASSUME InterruptsInit PROVE IntInv  OBVIOUS
<1> USE DEF InterruptsInit
<1>1. CoreTyped
  <2>1. \A v \in Vectors : Unhooked(v) \in [seg : Words, off : Words]
    BY WordIs, InterruptsAssumption DEF Unhooked
  <2>2. QED BY <2>1, InterruptsAssumption DEF CoreTyped
<1>2. <<>> \in Seq(Frame) /\ Len(<<>>) = 0  OBVIOUS
<1>3. StackTyped
  BY <1>2, InterruptsAssumption DEF StackTyped
<1>4. sp = Addr(0)
  <2>1. Word * 0 + FirstSp = FirstSp - 2 * 0 /\ FirstSp \in 0..(Word - 1)
    BY WordIs
  <2>2. (Word * 0 + FirstSp) % Word = FirstSp
    <3>1. Word \in Nat \ {0} /\ 0 \in Int /\ FirstSp \in 0..(Word - 1)  BY <2>1, WordIs
    <3>2. QED BY ONLY <3>1, ModUnique
  <2>3. QED BY <2>1, <2>2 DEF Addr
<1>5. StackInv
  BY <1>2, <1>4, EmptyStacked, WordIs DEF StackInv, Held
<1>6. QED BY <1>1, <1>3, <1>5, TypedParts DEF IntInv

(* A step that puts something on the stack takes nothing off.              *)
LEMMA PushTakesNothing ==
  ASSUME IntInv, Len(frames') = Len(frames) + 1,
         frames # <<>> => frames'[Len(frames)] = Last(frames)
  PROVE  ~TakenOff
BY IntInvGives DEF TakenOff

LEMMA SameTakesNothing ==
  ASSUME UNCHANGED frames, frames \in Seq(Frame)
  PROVE  ~TakenOff
BY DEF TakenOff, Last

(* Every step keeps the invariant, restores what it takes off, and is      *)
(* transparent if it is an interrupt that no vector leads away.            *)
Good == CoreTyped' /\ StackTyped' /\ StackInv' /\ (TakenOff => Restored(Last(frames)))

LEMMA PushStep ==
  ASSUME IntInv, NEW f \in Frame, f.at = Depth, Fits(Size(f)), Push(f)
  PROVE  StackTyped' /\ StackInv' /\ ~TakenOff
BY Pushed, PushTakesNothing

LEMMA LastKind ==
  ASSUME IntInv, frames # <<>>
  PROVE  /\ Last(frames).kind = "word" => Size(Last(frames)) = 1 /\ Last(frames).word \in Words
         /\ Last(frames).kind = "near" => Size(Last(frames)) = 1 /\ Last(frames).ip \in Words
         /\ Last(frames).kind = "int" => Size(Last(frames)) = 3 /\ Last(frames).ip \in Words
                                         /\ Last(frames).cs \in Words
         /\ Last(frames).kind = "all" => Size(Last(frames)) = 8
                                         /\ Last(frames).regs \in [1..NumRegs -> Words]
<1>1. Last(frames) \in Frame  BY LastIs
<1>2. QED BY <1>1 DEF Frame, Size

LEMMA PopRegGood == ASSUME IntInv, NEW r \in UsedRegs, PopReg(r) PROVE Good
<1> DEFINE f == Last(frames)
<1>1. /\ frames # <<>> /\ f.kind = "word" /\ Size(f) = 1 /\ f.word \in Words
      /\ regs' = [regs EXCEPT ![r] = Top(mem, sp, 1)] /\ Drop(1) /\ frames' = Front(frames)
      /\ UNCHANGED <<ip, cs, flags, ivt, running, stored>>
  BY LastKind DEF PopReg, TopIs
<1>2. Top(mem, sp, 1) = f.word
  <2>1. 1 \in 1..Size(f) /\ Size(f) - 1 + 1 = 1  BY <1>1
  <2>2. Top(mem, sp, 1) = WordOf(f, Size(f) - 1 + 1)  BY <1>1, <2>1, TopIsLast
  <2>3. QED BY <1>1, <2>1, <2>2 DEF WordOf
<1>3. StackTyped' /\ StackInv'  BY <1>1, FrontPopped
<1> HIDE DEF f
<1>4. r \in 1..NumRegs  BY InterruptsAssumption
<1>5. CoreTyped'
  <2>1. CoreTyped  BY TypedParts DEF IntInv
  <2>2. QED BY <1>1, <1>2, <2>1 DEF CoreTyped
<1>6. Restored(f)  BY <1>1, <1>2, <1>4 DEF Restored
<1>7. QED BY <1>3, <1>5, <1>6 DEF Good, f

LEMMA PopFlagsGood == ASSUME IntInv, PopFlags PROVE Good
<1> DEFINE f == Last(frames)
<1>1. /\ frames # <<>> /\ f.kind = "word" /\ Size(f) = 1 /\ f.word \in Words
      /\ flags' = Top(mem, sp, 1) /\ Drop(1) /\ frames' = Front(frames)
      /\ UNCHANGED <<ip, cs, regs, ivt, running, stored>>
  BY LastKind DEF PopFlags, TopIs
<1>2. Top(mem, sp, 1) = f.word
  <2>1. 1 \in 1..Size(f) /\ Size(f) - 1 + 1 = 1  BY <1>1
  <2>2. Top(mem, sp, 1) = WordOf(f, Size(f) - 1 + 1)  BY <1>1, <2>1, TopIsLast
  <2>3. QED BY <1>1, <2>1, <2>2 DEF WordOf
<1>3. StackTyped' /\ StackInv'  BY <1>1, FrontPopped
<1> HIDE DEF f
<1>4. CoreTyped'
  <2>1. CoreTyped  BY TypedParts DEF IntInv
  <2>2. QED BY <1>1, <1>2, <2>1 DEF CoreTyped
<1>5. Restored(f)  BY <1>1, <1>2 DEF Restored
<1>6. QED BY <1>3, <1>4, <1>5 DEF Good, f

LEMMA PopAllGood == ASSUME IntInv, PopAll PROVE Good
<1> DEFINE f == Last(frames)
<1>1. /\ frames # <<>> /\ f.kind = "all" /\ Size(f) = 8 /\ f.regs \in [1..NumRegs -> Words]
      /\ regs' = [r \in 1..NumRegs |->
                    Top(mem, sp, IF r < SpSlot THEN 9 - r ELSE NumRegs + 1 - r)]
      /\ Drop(8) /\ frames' = Front(frames)
      /\ UNCHANGED <<ip, cs, flags, ivt, running, stored>>
  BY LastKind DEF PopAll, TopIs
<1>2. \A i \in 1..8 : Top(mem, sp, i) = WordOf(f, 8 - i + 1)
  BY <1>1, TopIsLast
<1>3. StackTyped' /\ StackInv'  BY <1>1, FrontPopped
<1> HIDE DEF f
<1>4. ASSUME NEW r \in 1..NumRegs PROVE regs'[r] = f.regs[r]
  <2>1. r \in 1..7  BY DEF NumRegs
  <2>2. CASE r < 5
    <3>1. 9 - r \in 1..8 /\ 8 - (9 - r) + 1 = r  BY <2>1, <2>2
    <3>2. Top(mem, sp, 9 - r) = WordOf(f, r)  BY <1>2, <3>1
    <3>3. regs'[r] = Top(mem, sp, 9 - r)  BY <1>1, <1>4, <2>2 DEF SpSlot
    <3>4. WordOf(f, r) = f.regs[r]  BY <1>1, <2>2 DEF WordOf, SpSlot
    <3>5. QED BY <3>2, <3>3, <3>4
  <2>3. CASE ~(r < 5)
    <3>1. 8 - r \in 1..8 /\ 8 - (8 - r) + 1 = r + 1 /\ (r + 1) - 1 = r /\ NumRegs + 1 - r = 8 - r
      BY <2>1, <2>3 DEF NumRegs
    <3>2. Top(mem, sp, 8 - r) = WordOf(f, r + 1)  BY <1>2, <3>1
    <3>3. regs'[r] = Top(mem, sp, 8 - r)  BY <1>1, <1>4, <2>3, <3>1 DEF SpSlot
    <3>4. ~(r + 1 < 5) /\ r + 1 # 5  BY <2>1, <2>3
    <3>5. WordOf(f, r + 1) = f.regs[(r + 1) - 1]  BY <1>1, <3>4 DEF WordOf, SpSlot
    <3>6. QED BY <3>1, <3>2, <3>3, <3>5
  <2>4. QED BY <2>2, <2>3
<1>5. regs' = f.regs
  <2>1. regs' = [r \in 1..NumRegs |-> regs'[r]]  BY <1>1
  <2>2. f.regs = [r \in 1..NumRegs |-> f.regs[r]]  BY <1>1
  <2>3. QED BY <1>4, <2>1, <2>2
<1>6. CoreTyped'
  <2>1. CoreTyped  BY TypedParts DEF IntInv
  <2>2. QED BY <1>1, <1>5, <2>1 DEF CoreTyped
<1>7. Restored(f)  BY <1>1, <1>5 DEF Restored
<1>8. QED BY <1>3, <1>6, <1>7 DEF Good, f

LEMMA RetNearGood == ASSUME IntInv, NEW n \in Nat, RetNear(n) PROVE Good
<1> DEFINE f == Last(frames)
<1>1. /\ frames # <<>> /\ f.kind = "near" /\ Size(f) = 1 /\ f.ip \in Words
      /\ ip' = Top(mem, sp, 1)
      /\ UNCHANGED <<cs, flags, regs, ivt, running, stored>>
  BY LastKind DEF RetNear, TopIs
<1>2. Top(mem, sp, 1) = f.ip
  <2>1. 1 \in 1..Size(f) /\ Size(f) - 1 + 1 = 1  BY <1>1
  <2>2. Top(mem, sp, 1) = WordOf(f, Size(f) - 1 + 1)  BY <1>1, <2>1, TopIsLast
  <2>3. QED BY <1>1, <2>1, <2>2 DEF WordOf
<1>3. StackTyped' /\ StackInv'  BY RetNearPops
<1> HIDE DEF f
<1>4. CoreTyped'
  <2>1. CoreTyped  BY TypedParts DEF IntInv
  <2>2. QED BY <1>1, <1>2, <2>1 DEF CoreTyped
<1>5. Restored(f)  BY <1>1, <1>2 DEF Restored
<1>6. QED BY <1>3, <1>4, <1>5 DEF Good, f

LEMMA RetFarGood == ASSUME IntInv, RetFar PROVE Good
<1> DEFINE f == Last(frames)
<1>1. /\ frames # <<>> /\ f.kind = "int" /\ Size(f) = 3 /\ f.ip \in Words /\ f.cs \in Words
      /\ ip' = Top(mem, sp, 1) /\ cs' = Top(mem, sp, 2)
      /\ UNCHANGED <<flags, regs, ivt, running, stored>>
  BY LastKind DEF RetFar, TopIs
<1>2. \A i \in 1..3 : Top(mem, sp, i) = WordOf(f, 3 - i + 1)
  BY <1>1, TopIsLast
<1>3. StackTyped' /\ StackInv'  BY RetFarPops
<1> HIDE DEF f
<1>4. ip' = f.ip /\ cs' = f.cs
  <2>1. 1 \in 1..3 /\ 3 - 1 + 1 = 3 /\ 2 \in 1..3 /\ 3 - 2 + 1 = 2  OBVIOUS
  <2>2. Top(mem, sp, 1) = WordOf(f, 3 - 1 + 1)  BY <1>2, <2>1
  <2>3. Top(mem, sp, 2) = WordOf(f, 3 - 2 + 1)  BY <1>2, <2>1
  <2>4. WordOf(f, 3) = f.ip /\ WordOf(f, 2) = f.cs  BY <1>1 DEF WordOf
  <2>5. QED BY <1>1, <2>1, <2>2, <2>3, <2>4
<1>5. CoreTyped'
  <2>1. CoreTyped  BY TypedParts DEF IntInv
  <2>2. QED BY <1>1, <1>4, <2>1 DEF CoreTyped
<1>6. Restored(f)  BY <1>1, <1>4 DEF Restored
<1>7. QED BY <1>3, <1>5, <1>6 DEF Good, f

(* A word, a near call, an interrupt or all registers are put on.          *)
LEMMA WordFrame ==
  ASSUME IntInv, NEW w \in Words
  PROVE  LET f == [kind |-> "word", at |-> Depth, word |-> w] IN
         f \in Frame /\ f.at = Depth /\ Size(f) = 1
BY IntInvGives, DepthIsDepthOf DEF Frame, Size

LEMMA PushWordGood == ASSUME IntInv, NEW w \in Words, PushWord(w) PROVE Good
<1> DEFINE f == [kind |-> "word", at |-> Depth, word |-> w]
<1>1. f \in Frame /\ f.at = Depth /\ Size(f) = 1  BY WordFrame
<1>2. /\ Fits(1) /\ Push(f) /\ UNCHANGED <<ip, cs, flags, regs, ivt, running, stored>>
  BY DEF PushWord, Room
<1> HIDE DEF f
<1>3. StackTyped' /\ StackInv' /\ ~TakenOff  BY <1>1, <1>2, PushStep
<1>4. CoreTyped'
  <2>1. CoreTyped  BY TypedParts DEF IntInv
  <2>2. QED BY <1>2, <2>1 DEF CoreTyped
<1>5. QED BY <1>3, <1>4 DEF Good

LEMMA CallNearGood == ASSUME IntInv, CallNear PROVE Good
<1> DEFINE f == [kind |-> "near", at |-> Depth, ip |-> ip]
<1>1. CoreTyped  BY TypedParts DEF IntInv
<1>2. f \in Frame /\ f.at = Depth /\ Size(f) = 1
  BY <1>1, IntInvGives, DepthIsDepthOf DEF Frame, Size, CoreTyped
<1>3. /\ Fits(1) /\ Push(f) /\ ip' \in Words /\ UNCHANGED <<cs, flags, regs, ivt, running, stored>>
  BY InterruptsAssumption DEF CallNear, Room
<1> HIDE DEF f
<1>4. StackTyped' /\ StackInv' /\ ~TakenOff  BY <1>2, <1>3, PushStep
<1>5. CoreTyped'  BY <1>1, <1>3 DEF CoreTyped
<1>6. QED BY <1>4, <1>5 DEF Good

LEMMA PushAllGood == ASSUME IntInv, PushAll PROVE Good
<1> DEFINE f == [kind |-> "all", at |-> Depth, regs |-> regs, sp |-> sp]
<1>1. CoreTyped /\ sp \in Words
  BY TypedParts DEF IntInv, StackTyped, Offsets
<1>2. f \in Frame /\ f.at = Depth /\ Size(f) = 8
  <2>1. Depth \in Nat /\ regs \in [1..NumRegs -> Words] /\ sp \in Words
    BY <1>1, IntInvGives, DepthIsDepthOf DEF CoreTyped
  <2>2. QED BY <2>1 DEF Frame, Size
<1>3. Fits(8) /\ Push(f) /\ UNCHANGED <<ip, cs, flags, regs, ivt, running, stored>>
  BY DEF PushAll, Room
<1> HIDE DEF f
<1>4. StackTyped' /\ StackInv' /\ ~TakenOff  BY <1>2, <1>3, PushStep
<1>5. CoreTyped'  BY <1>1, <1>3 DEF CoreTyped
<1>6. QED BY <1>4, <1>5 DEF Good

LEMMA EnterHandlerGood == ASSUME IntInv, NEW v \in Vectors, EnterHandler(v) PROVE Good
<1> DEFINE f == AtCall
<1>1. CoreTyped  BY TypedParts DEF IntInv
<1>2. f \in Frame /\ f.at = Depth /\ Size(f) = 3
  BY <1>1, IntInvGives, DepthIsDepthOf DEF Frame, Size, CoreTyped, AtCall
<1>3. /\ Fits(3) /\ Push(f) /\ ip' = ivt[v].off /\ cs' = ivt[v].seg
      /\ UNCHANGED <<flags, regs, ivt, running, stored>>
  BY DEF EnterHandler, Room
<1> HIDE DEF f
<1>4. StackTyped' /\ StackInv' /\ ~TakenOff  BY <1>2, <1>3, PushStep
<1>5. CoreTyped'
  <2>1. ivt[v].off \in Words /\ ivt[v].seg \in Words  BY <1>1 DEF CoreTyped
  <2>2. QED BY <1>1, <1>3, <2>1 DEF CoreTyped
<1>6. QED BY <1>4, <1>5 DEF Good

(* Steps that leave the stack alone.                                       *)
LEMMA StackUntouched ==
  ASSUME IntInv, UNCHANGED <<sp, mem, frames>>
  PROVE  StackTyped' /\ StackInv' /\ ~TakenOff
<1>1. StackTyped /\ StackInv /\ frames \in Seq(Frame)
  BY TypedParts, IntInvGives DEF IntInv
<1>2. QED BY <1>1, SameTakesNothing DEF StackTyped, StackInv

LEMMA UnhookedGood ==
  ASSUME IntInv, Fits(3), PushedAndPopped,
         regs' \in [1..NumRegs -> Words], running' \in BOOLEAN,
         ivt' \in [Vectors -> [seg : Words, off : Words]], stored' \subseteq Vectors
  PROVE  Good
<1>1. StackTyped' /\ StackInv' /\ UNCHANGED <<ip, cs, flags, sp, frames>>
  BY PushedAndPoppedBack
<1>2. CoreTyped /\ frames \in Seq(Frame)  BY TypedParts, IntInvGives DEF IntInv
<1>3. CoreTyped'  BY <1>1, <1>2 DEF CoreTyped
<1>4. ~TakenOff  BY <1>1, <1>2, SameTakesNothing
<1>5. QED BY <1>1, <1>3, <1>4 DEF Good

LEMMA StepGood ==
  ASSUME IntInv, [InterruptsNext]_intVars
  PROVE  Good
<1>0. CoreTyped  BY TypedParts DEF IntInv
<1>1. CASE Compute
  <2>1. StackTyped' /\ StackInv' /\ ~TakenOff  BY <1>1, StackUntouched DEF Compute
  <2>2. CoreTyped'  BY <1>0, <1>1, InterruptsAssumption DEF Compute, CoreTyped
  <2>3. QED BY <2>1, <2>2 DEF Good
<1>2. CASE CallNear  BY <1>2, CallNearGood
<1>3. CASE PushFlags
  <2>1. flags \in Words  BY <1>0 DEF CoreTyped
  <2>2. QED BY <1>3, <2>1, PushWordGood DEF PushFlags
<1>4. CASE PopFlags  BY <1>4, PopFlagsGood
<1>5. CASE PushAll  BY <1>5, PushAllGood
<1>6. CASE PopAll  BY <1>6, PopAllGood
<1>7. CASE RetFar  BY <1>7, RetFarGood
<1>8. CASE Iret
  <2>1. StackTyped' /\ StackInv' /\ ~TakenOff  BY <1>8, StackUntouched DEF Iret
  <2>2. CoreTyped'  BY <1>0, <1>8, InterruptsAssumption DEF Iret, CoreTyped
  <2>3. QED BY <2>1, <2>2 DEF Good
<1>9. ASSUME NEW n \in 0..MaxFrames, RetNear(n) PROVE Good
  <2>1. n \in Nat  BY InterruptsAssumption
  <2>2. QED BY <1>9, <2>1, RetNearGood
<1>10. ASSUME NEW r \in UsedRegs, PushReg(r) PROVE Good
  <2>1. regs[r] \in Words  BY <1>0, InterruptsAssumption DEF CoreTyped
  <2>2. QED BY <1>10, <2>1, PushWordGood DEF PushReg
<1>11. ASSUME NEW r \in UsedRegs, PopReg(r) PROVE Good
  BY <1>11, PopRegGood
<1>12. ASSUME NEW v \in Vectors, EnterHandler(v) PROVE Good
  BY <1>12, EnterHandlerGood
<1>13. ASSUME NEW v \in Vectors, Serve(v) \/ Unhandled(v) PROVE Good
  <2>1. /\ Fits(3) /\ PushedAndPopped /\ UNCHANGED <<ivt, stored>>
        /\ regs' \in [1..NumRegs -> Words] /\ running' \in BOOLEAN
    BY <1>0, <1>13, InterruptsAssumption DEF Serve, Unhandled, CoreTyped
  <2>2. /\ ivt' \in [Vectors -> [seg : Words, off : Words]] /\ stored' \subseteq Vectors
    BY <1>0, <2>1 DEF CoreTyped
  <2>3. QED BY <2>1, <2>2, UnhookedGood
<1>14. \A h \in Handlers : h \in [seg : Words, off : Words]
  BY InterruptsAssumption
<1>15. ASSUME NEW v \in Hookable, NEW h \in Handlers, StoreVector(v, h) PROVE Good
  <2>1. StackTyped' /\ StackInv' /\ ~TakenOff  BY <1>15, StackUntouched DEF StoreVector
  <2>2. CoreTyped'
    BY <1>0, <1>14, <1>15, InterruptsAssumption DEF StoreVector, CoreTyped
  <2>3. QED BY <2>1, <2>2 DEF Good
<1>16. ASSUME NEW v \in Vectors, NEW h \in Handlers, NEW w \in Handlers, Int21SetVector(v, h, w)
       PROVE  Good
  <2>1. /\ Fits(3) /\ PushedAndPopped /\ UNCHANGED <<regs, running>>
        /\ ivt' = [ivt EXCEPT ![SetVector] = w] /\ stored' = stored \cup {SetVector}
    BY <1>16 DEF Int21SetVector
  <2>2. /\ ivt' \in [Vectors -> [seg : Words, off : Words]] /\ stored' \subseteq Vectors
        /\ regs' \in [1..NumRegs -> Words] /\ running' \in BOOLEAN
    BY <1>0, <1>14, <2>1, InterruptsAssumption DEF CoreTyped
  <2>3. QED BY <2>1, <2>2, UnhookedGood
<1>17. CASE UNCHANGED intVars
  <2>1. StackTyped' /\ StackInv' /\ ~TakenOff  BY <1>17, StackUntouched DEF intVars
  <2>2. CoreTyped'  BY <1>0, <1>17 DEF intVars, CoreTyped
  <2>3. QED BY <2>1, <2>2 DEF Good
<1>18. QED
  BY <1>1, <1>2, <1>3, <1>4, <1>5, <1>6, <1>7, <1>8, <1>9, <1>10, <1>11, <1>12, <1>13,
     <1>15, <1>16, <1>17 DEF InterruptsNext, Interrupt

LEMMA StepInv ==
  ASSUME IntInv, [InterruptsNext]_intVars
  PROVE  IntInv' /\ (TakenOff => Restored(Last(frames)))
<1>1. Good  BY StepGood
<1>2. InterruptsTypeOK' <=> CoreTyped' /\ StackTyped'
  BY DEF InterruptsTypeOK, CoreTyped, StackTyped
<1>3. QED BY <1>1, <1>2 DEF Good, IntInv

-------------------------------------------------------------------------------
(* Types, for any segment size, code, handlers and vectors.                *)
THEOREM InterruptsAreTyped == InterruptsSpec => []InterruptsTypeOK
<1>1. InterruptsInit => IntInv  BY InitInv
<1>2. IntInv /\ [InterruptsNext]_intVars => IntInv'  BY StepInv
<1>3. IntInv => InterruptsTypeOK  BY DEF IntInv
<1>4. QED BY <1>1, <1>2, <1>3, PTL DEF InterruptsSpec

(* In a stack segment of any even size and from any even sp, also where sp *)
(* wraps around: each word that was put on the stack and not taken off is  *)
(* in memory where it was put, and sp is below the last of them            *)
(* (cpu.cpp 1274-1312, 1399-1417).                                         *)
THEOREM StackIsHeld == InterruptsSpec => []StackHoldsFrames
<1>1. InterruptsInit => IntInv  BY InitInv
<1>2. IntInv /\ [InterruptsNext]_intVars => IntInv'  BY StepInv
<1>3. IntInv => StackHoldsFrames
  <2>1. SUFFICES ASSUME IntInv PROVE StackHoldsFrames  OBVIOUS
  <2>2. sp = (FirstSp - 2 * Depth) % Word
    BY <2>1, DepthIsDepthOf DEF IntInv, StackInv, Addr
  <2>3. frames \in Seq(Frame) /\ Held(mem, frames)
    BY <2>1, IntInvGives DEF IntInv, StackInv
  <2>4. \A k \in DOMAIN frames : \A i \in 1..Size(frames[k]) :
          mem[(FirstSp - 2 * (frames[k].at + i)) % Word] = WordOf(frames[k], i)
    BY <2>3 DEF Held, Addr
  <2>5. QED BY <2>2, <2>4 DEF StackHoldsFrames
<1>4. QED BY <1>1, <1>2, <1>3, PTL DEF InterruptsSpec

(* What is taken off the stack restores what was saved, however deep calls *)
(* and interrupts were nested in between (cpu.cpp 887-947, 403-415).       *)
THEOREM WhatReturnsRestores == InterruptsSpec => ReturnsRestore
<1>1. InterruptsInit => IntInv  BY InitInv
<1>2. IntInv /\ [InterruptsNext]_intVars =>
        IntInv' /\ [TakenOff => Restored(Last(frames))]_intVars
  BY StepInv
<1>3. QED BY <1>1, <1>2, PTL DEF InterruptsSpec, ReturnsRestore

-------------------------------------------------------------------------------
(* A vector that nobody has written is as the constructor left it.         *)
AsSet == \A v \in Vectors \ stored : ivt[v] = Unhooked(v)

LEMMA AsSetStep ==
  ASSUME IntInv, AsSet, [InterruptsNext]_intVars
  PROVE  AsSet'
<1>0. ivt \in [Vectors -> [seg : Words, off : Words]]
  BY DEF IntInv, InterruptsTypeOK
<1>1. ASSUME NEW v \in Vectors, NEW h, ivt' = [ivt EXCEPT ![v] = h], stored' = stored \cup {v}
      PROVE  AsSet'
  BY <1>0, <1>1 DEF AsSet
<1>2. ASSUME UNCHANGED <<ivt, stored>> PROVE AsSet'
  BY <1>2 DEF AsSet
<1>3. ASSUME NEW v \in Hookable, NEW h \in Handlers, StoreVector(v, h) PROVE AsSet'
  BY <1>1, <1>3, InterruptsAssumption DEF StoreVector
<1>4. ASSUME NEW v \in Vectors, NEW h \in Handlers, NEW w \in Handlers, Int21SetVector(v, h, w)
      PROVE  AsSet'
  BY <1>1, <1>4, InterruptsAssumption DEF Int21SetVector
<1>5. CASE Compute \/ CallNear \/ PushFlags \/ PopFlags \/ PushAll \/ PopAll \/ RetFar \/ Iret
           \/ UNCHANGED intVars
  BY <1>2, <1>5 DEF Compute, CallNear, PushFlags, PushWord, PopFlags, PushAll, PopAll, RetFar,
                    Iret, intVars
<1>6. CASE \/ \E n \in 0..MaxFrames : RetNear(n)
           \/ \E r \in UsedRegs : PushReg(r) \/ PopReg(r)
           \/ \E v \in Vectors : Interrupt(v)
  BY <1>2, <1>6 DEF RetNear, PushReg, PushWord, PopReg, Interrupt, EnterHandler, Serve, Unhandled
<1>7. QED BY <1>3, <1>4, <1>5, <1>6 DEF InterruptsNext

(* Unless it is INT FFh, whose vector the constructor does not set up: an  *)
(* interrupt whose vector nobody has written comes back at once, with the  *)
(* flags and the stack as they were (cpu.cpp 1291-1311, dos.cpp 191-202).  *)
THEOREM UnhookedComeBack ==
  ASSUME LastVector \notin Vectors
  PROVE  InterruptsSpec => UnhookedIsTransparent
<1> DEFINE Inv == IntInv /\ AsSet
           Clear == \A v \in Vectors \ stored :
                      Interrupt(v) => UNCHANGED <<ip, cs, flags, sp, frames>>
<1>1. InterruptsInit => Inv
  <2>1. InterruptsInit => AsSet
    <3>1. SUFFICES ASSUME InterruptsInit, NEW v \in Vectors PROVE ivt[v] = Unhooked(v)
      BY DEF AsSet
    <3>2. ivt = [u \in Vectors |-> Unhooked(u)]  BY <3>1 DEF InterruptsInit
    <3>3. QED BY <3>2
  <2>2. QED BY <2>1, InitInv
<1>2. Inv /\ [InterruptsNext]_intVars => Inv' /\ [Clear]_intVars
  <2>1. ASSUME Inv, [InterruptsNext]_intVars PROVE Inv'
    BY <2>1, StepInv, AsSetStep
  <2>2. ASSUME Inv, NEW v \in Vectors \ stored, Interrupt(v)
        PROVE  UNCHANGED <<ip, cs, flags, sp, frames>>
    <3>1. v # LastVector  OBVIOUS
    <3>2. ivt[v] = Unhooked(v)  BY <2>2 DEF AsSet
    <3>3. ~Hooked(v)  BY <3>1, <3>2 DEF Unhooked, Hooked
    <3>4. Fits(3) /\ PushedAndPopped
      BY <2>2, <3>3 DEF Interrupt, EnterHandler, Serve, Unhandled
    <3>5. QED BY <2>2, <3>4, PushedAndPoppedBack
  <2>3. QED BY <2>1, <2>2
<1> HIDE DEF Inv
<1>3. InterruptsSpec => [][Clear]_intVars
  BY <1>1, <1>2, PTL DEF InterruptsSpec
<1>4. QED BY <1>3 DEF UnhookedIsTransparent
===============================================================================

---------------------------- MODULE GdbRemote_proof ----------------------------
(***************************************************************************)
(* Proofs about GdbRemote: what the server handles is what gdb sent, each  *)
(* packet once at most, the replies keep in step with the requests, and a  *)
(* request that is waited for comes closer to its reply with every step.   *)
(* A line of several packets whose sum happens to fit is the exception.    *)
(***************************************************************************)
EXTENDS GdbRemote, SequenceTheorems, FiniteSetTheorems, TLAPS

(* What is on its way to the server is made of whole packets and single    *)
(* acknowledgements: a "#" is followed by digits, and before the next "#"  *)
(* there is a "$".                                                         *)
Digit == Requests \cup {"?"}
Opened(s) == \A k \in DOMAIN s : s[k] = "#" => \E j \in DOMAIN s : j < k /\ s[j] = "$"
Framed(s) ==
  /\ \A i \in DOMAIN s : s[i] = "#" => i + 1 \in DOMAIN s /\ s[i + 1] \in Digit
  /\ \A i, k \in DOMAIN s : i < k /\ s[i] = "#" /\ s[k] = "#" =>
       \E j \in DOMAIN s : i < j /\ j < k /\ s[j] = "$"

LEMMA TailOf ==
  ASSUME NEW S, NEW s \in Seq(S), s # <<>>
  PROVE  /\ Tail(s) \in Seq(S) /\ Len(s) \in Nat /\ DOMAIN s = 1..Len(s)
         /\ Len(s) >= 1 /\ Head(s) = s[1] /\ s[1] \in S
         /\ Len(Tail(s)) = Len(s) - 1 /\ DOMAIN Tail(s) = 1..(Len(s) - 1)
         /\ \A i \in 1..(Len(s) - 1) : Tail(s)[i] = s[i + 1]
<1>1. s \in Seq(S) /\ Len(s) \in Nat /\ DOMAIN s = 1..Len(s) /\ Len(s) >= 1
  OBVIOUS
<1>2. Tail(s) \in Seq(S) /\ Len(Tail(s)) = Len(s) - 1
  BY <1>1
<1>3. \A i \in 1..(Len(s) - 1) : Tail(s)[i] = s[i + 1]
  BY <1>1
<1>4. Head(s) = s[1] /\ s[1] \in S
  BY <1>1
<1>5. DOMAIN Tail(s) = 1..(Len(s) - 1)
  BY <1>1, <1>2
<1>6. QED BY <1>1, <1>2, <1>3, <1>4, <1>5

LEMMA AppendOf ==
  ASSUME NEW S, NEW s \in Seq(S), NEW m \in S
  PROVE  /\ Append(s, m) \in Seq(S) /\ Len(s) \in Nat /\ DOMAIN s = 1..Len(s)
         /\ DOMAIN Append(s, m) = 1..(Len(s) + 1) /\ Len(Append(s, m)) = Len(s) + 1
         /\ \A i \in 1..Len(s) : Append(s, m)[i] = s[i]
         /\ Append(s, m)[Len(s) + 1] = m
OBVIOUS

LEMMA ConcatOf ==
  ASSUME NEW S, NEW a \in Seq(S), NEW b \in Seq(S)
  PROVE  /\ a \o b \in Seq(S) /\ Len(a) \in Nat /\ Len(b) \in Nat
         /\ Len(a \o b) = Len(a) + Len(b)
         /\ DOMAIN (a \o b) = 1..(Len(a) + Len(b))
         /\ \A i \in 1..Len(a) : (a \o b)[i] = a[i]
         /\ \A i \in 1..Len(b) : (a \o b)[Len(a) + i] = b[i]
OBVIOUS

LEMMA PacketIs ==
  ASSUME NEW r \in Requests, NEW d \in Digit
  PROVE  /\ Packet(r, d) \in Seq(Wire) /\ Len(Text[r]) \in Nat
         /\ Len(Packet(r, d)) = Len(Text[r]) + 3
         /\ Packet(r, d)[1] = "$"
         /\ \A i \in 2..(Len(Text[r]) + 1) : Packet(r, d)[i] \notin {"$", "#"}
         /\ Packet(r, d)[Len(Text[r]) + 2] = "#"
         /\ Packet(r, d)[Len(Text[r]) + 3] = d
<1> DEFINE t == Text[r]
           l == Len(t)
           a == <<"$">> \o t
           b == <<"#", d>>
<1>1. t \in Seq(STRING \ {"$", "#"}) /\ l \in Nat /\ DOMAIN t = 1..l
  BY GdbAssumption
<1>2. \A i \in 1..l : t[i] \in Wire /\ t[i] \notin {"$", "#"}
  <2>1. TAKE i \in 1..l
  <2>2. t[i] \in STRING \ {"$", "#"}  BY <1>1
  <2>3. t[i] \in Piece  BY <1>1 DEF Piece
  <2>4. QED BY <2>2, <2>3 DEF Wire
<1>3. t \in Seq(Wire)  BY <1>1, <1>2
<1>4. <<"$">> \in Seq(Wire) /\ b \in Seq(Wire) /\ Len(b) = 2 /\ b[1] = "#" /\ b[2] = d
  BY DEF Wire, Digit
<1> HIDE DEF t, b
<1>5. a \in Seq(Wire) /\ Len(a) = l + 1 /\ a[1] = "$" /\ \A i \in 1..l : a[i + 1] = t[i]
  BY <1>1, <1>3, <1>4 DEF l
<1> HIDE DEF a, l
<1>6. Packet(r, d) = a \o b  BY DEF Packet, a, b, t
<1>7. /\ a \o b \in Seq(Wire) /\ Len(a \o b) = l + 3
      /\ \A i \in 1..(l + 1) : (a \o b)[i] = a[i]
      /\ (a \o b)[l + 2] = "#" /\ (a \o b)[l + 3] = d
  <2>1. a \in Seq(Wire) /\ b \in Seq(Wire)  BY <1>4, <1>5
  <2>2. /\ a \o b \in Seq(Wire) /\ Len(a \o b) = Len(a) + Len(b)
        /\ \A i \in 1..Len(a) : (a \o b)[i] = a[i]
        /\ \A i \in 1..Len(b) : (a \o b)[Len(a) + i] = b[i]
    BY <2>1, ConcatOf
  <2>3. Len(a) = l + 1 /\ Len(b) = 2 /\ b[1] = "#" /\ b[2] = d  BY <1>4, <1>5
  <2>4. (l + 1) + 1 = l + 2 /\ (l + 1) + 2 = l + 3 /\ 1 \in 1..2 /\ 2 \in 1..2  BY <1>1
  <2>5. QED BY <2>2, <2>3, <2>4
<1>8. \A i \in 2..(l + 1) : (a \o b)[i] \notin {"$", "#"}
  <2>1. TAKE i \in 2..(l + 1)
  <2>2. i - 1 \in 1..l /\ (i - 1) + 1 = i /\ i \in 1..(l + 1)  BY <1>1
  <2>3. a[i] = t[i - 1]  BY <1>5, <2>2
  <2>4. QED BY <1>2, <1>7, <2>2, <2>3
<1>9. (a \o b)[1] = "$"  BY <1>1, <1>5, <1>7
<1>10. QED BY <1>1, <1>6, <1>7, <1>8, <1>9 DEF l, t

(* The wire after a packet has been put on it.                             *)
LEMMA Sent ==
  ASSUME NEW s \in Seq(Wire), NEW r \in Requests, NEW d \in Digit
  PROVE  /\ s \o Packet(r, d) \in Seq(Wire)
         /\ Len(s) \in Nat /\ Len(Text[r]) \in Nat /\ DOMAIN s = 1..Len(s)
         /\ Len(s \o Packet(r, d)) = Len(s) + Len(Text[r]) + 3
         /\ DOMAIN (s \o Packet(r, d)) = 1..(Len(s) + Len(Text[r]) + 3)
         /\ \A i \in 1..Len(s) : (s \o Packet(r, d))[i] = s[i]
         /\ (s \o Packet(r, d))[Len(s) + 1] = "$"
         /\ \A i \in (Len(s) + 2)..(Len(s) + Len(Text[r]) + 1) :
              (s \o Packet(r, d))[i] \notin {"$", "#"}
         /\ (s \o Packet(r, d))[Len(s) + Len(Text[r]) + 2] = "#"
         /\ (s \o Packet(r, d))[Len(s) + Len(Text[r]) + 3] = d
<1> DEFINE t == s \o Packet(r, d)
           n == Len(s)
           l == Len(Text[r])
           p == Packet(r, d)
<1>1. /\ p \in Seq(Wire) /\ l \in Nat /\ Len(p) = l + 3 /\ p[1] = "$"
      /\ \A i \in 2..(l + 1) : p[i] \notin {"$", "#"}
      /\ p[l + 2] = "#" /\ p[l + 3] = d
  BY PacketIs
<1>2. s \in Seq(Wire) /\ n \in Nat /\ DOMAIN s = 1..n /\ t = s \o p
  OBVIOUS
<1> HIDE DEF p, t, n, l
<1>3. /\ t \in Seq(Wire) /\ Len(t) = n + Len(p)
      /\ \A i \in 1..n : t[i] = s[i]
      /\ \A i \in 1..Len(p) : t[n + i] = p[i]
  <2>1. /\ s \o p \in Seq(Wire) /\ Len(s \o p) = Len(s) + Len(p)
        /\ \A i \in 1..Len(s) : (s \o p)[i] = s[i]
        /\ \A i \in 1..Len(p) : (s \o p)[Len(s) + i] = p[i]
    <3>1. s \in Seq(Wire) /\ p \in Seq(Wire)  BY <1>1, <1>2
    <3>2. QED BY ONLY <3>1, ConcatOf
  <2>2. QED BY <1>2, <2>1 DEF n
<1>4. Len(t) = n + l + 3 /\ DOMAIN t = 1..(n + l + 3)
  BY <1>1, <1>2, <1>3
<1>5. t[n + 1] = "$" /\ t[n + l + 2] = "#" /\ t[n + l + 3] = d
  <2>1. 1 \in 1..Len(p) /\ l + 2 \in 1..Len(p) /\ l + 3 \in 1..Len(p)
        /\ n + (l + 2) = n + l + 2 /\ n + (l + 3) = n + l + 3
    BY <1>1, <1>2
  <2>2. t[n + 1] = p[1] /\ t[n + (l + 2)] = p[l + 2] /\ t[n + (l + 3)] = p[l + 3]
    BY <1>3, <2>1
  <2>3. QED BY <1>1, <2>1, <2>2
<1>6. \A i \in (n + 2)..(n + l + 1) : t[i] \notin {"$", "#"}
  <2>1. TAKE i \in (n + 2)..(n + l + 1)
  <2>2. i - n \in 2..(l + 1) /\ i - n \in 1..Len(p) /\ n + (i - n) = i
    BY <1>1, <1>2
  <2>3. t[i] = p[i - n]  BY <1>3, <2>2
  <2>4. QED BY <1>1, <2>2, <2>3
<1>7. QED BY <1>1, <1>2, <1>3, <1>4, <1>5, <1>6 DEF t, n, l

-------------------------------------------------------------------------------
LEMMA TailFramed ==
  ASSUME NEW s \in Seq(Wire), s # <<>>, Framed(s)
  PROVE  /\ Framed(Tail(s))
         /\ Head(s) # "$" /\ Opened(s) => Opened(Tail(s))
         /\ Head(s) = "#" => /\ Tail(s) # <<>> /\ Head(Tail(s)) \in Digit
                             /\ Opened(Tail(s))
<1> DEFINE t == Tail(s)
           n == Len(s)
<1>1. /\ t \in Seq(Wire) /\ n \in Nat /\ DOMAIN s = 1..n /\ n >= 1 /\ Head(s) = s[1]
      /\ Len(t) = n - 1 /\ DOMAIN t = 1..(n - 1)
      /\ \A i \in 1..(n - 1) : t[i] = s[i + 1]
  BY TailOf
<1>2. /\ \A i \in 1..n : s[i] = "#" => i + 1 \in 1..n /\ s[i + 1] \in Digit
      /\ \A i, k \in 1..n : i < k /\ s[i] = "#" /\ s[k] = "#" =>
           \E j \in 1..n : i < j /\ j < k /\ s[j] = "$"
  BY <1>1 DEF Framed
<1> HIDE DEF t, n
<1>3. ASSUME NEW i \in 1..n, NEW k \in 1..(n - 1), i <= k,
             s[k + 1] = "#", NEW j \in 1..n, i < j, j < k + 1, s[j] = "$"
      PROVE  j - 1 \in 1..(n - 1) /\ i - 1 < j - 1 /\ j - 1 < k /\ t[j - 1] = "$"
  <2>1. j - 1 \in 1..(n - 1) /\ (j - 1) + 1 = j /\ i - 1 < j - 1 /\ j - 1 < k
    BY <1>1, <1>3
  <2>2. t[j - 1] = s[j]  BY <1>1, <2>1
  <2>3. QED BY <1>3, <2>1, <2>2
<1>4. Framed(t)
  <2>1. ASSUME NEW i \in 1..(n - 1), t[i] = "#"
        PROVE  i + 1 \in 1..(n - 1) /\ t[i + 1] \in Digit
    <3>1. i + 1 \in 1..n /\ s[i + 1] = "#"  BY <1>1, <2>1
    <3>2. (i + 1) + 1 \in 1..n /\ s[(i + 1) + 1] \in Digit  BY <1>2, <3>1
    <3>3. i + 1 \in 1..(n - 1)  BY <1>1, <3>2
    <3>4. QED BY <1>1, <3>2, <3>3
  <2>2. ASSUME NEW i \in 1..(n - 1), NEW k \in 1..(n - 1), i < k, t[i] = "#", t[k] = "#"
        PROVE  \E j \in 1..(n - 1) : i < j /\ j < k /\ t[j] = "$"
    <3>1. i + 1 \in 1..n /\ k + 1 \in 1..n /\ i + 1 < k + 1 /\ i + 1 <= k
          /\ s[i + 1] = "#" /\ s[k + 1] = "#" /\ (i + 1) - 1 = i
      BY <1>1, <2>2
    <3>2. PICK j \in 1..n : i + 1 < j /\ j < k + 1 /\ s[j] = "$"
      BY <1>2, <3>1
    <3>3. j - 1 \in 1..(n - 1) /\ i < j - 1 /\ j - 1 < k /\ t[j - 1] = "$"
      BY <1>3, <3>1, <3>2
    <3>4. QED BY <3>3
  <2>3. ASSUME NEW i \in DOMAIN t, t[i] = "#"
        PROVE  i + 1 \in DOMAIN t /\ t[i + 1] \in Digit
    BY <1>1, <2>1, <2>3
  <2>4. ASSUME NEW i \in DOMAIN t, NEW k \in DOMAIN t, i < k, t[i] = "#", t[k] = "#"
        PROVE  \E j \in DOMAIN t : i < j /\ j < k /\ t[j] = "$"
    BY <1>1, <2>2, <2>4
  <2>5. QED BY <2>3, <2>4 DEF Framed
<1>5. ASSUME Head(s) # "$", Opened(s)
      PROVE  Opened(t)
  <2>1. SUFFICES ASSUME NEW k \in 1..(n - 1), t[k] = "#"
                 PROVE  \E j \in 1..(n - 1) : j < k /\ t[j] = "$"
    BY <1>1 DEF Opened
  <2>2. k + 1 \in 1..n /\ s[k + 1] = "#"  BY <1>1, <2>1
  <2>3. PICK j \in 1..n : j < k + 1 /\ s[j] = "$"
    BY <1>1, <1>5, <2>2 DEF Opened
  <2>4. 1 < j /\ 1 \in 1..n /\ 1 <= k  BY <1>1, <1>5, <2>3
  <2>5. j - 1 \in 1..(n - 1) /\ j - 1 < k /\ t[j - 1] = "$"
    BY <1>3, <2>2, <2>3, <2>4
  <2>6. QED BY <2>5
<1>6. ASSUME Head(s) = "#"
      PROVE  t # <<>> /\ Head(t) \in Digit /\ Opened(t)
  <2>1. 1 \in 1..n /\ s[1] = "#"  BY <1>1, <1>6
  <2>2. 1 + 1 \in 1..n /\ s[1 + 1] \in Digit  BY <1>2, <2>1
  <2>3. 1 \in 1..(n - 1) /\ t[1] \in Digit  BY <1>1, <2>2
  <2>4. t # <<>> /\ Head(t) = t[1]  BY <1>1, <2>3
  <2>5. SUFFICES ASSUME NEW k \in 1..(n - 1), t[k] = "#"
                 PROVE  \E j \in 1..(n - 1) : j < k /\ t[j] = "$"
    BY <1>1, <2>3, <2>4 DEF Opened
  <2>6. k + 1 \in 1..n /\ s[k + 1] = "#" /\ 1 < k + 1 /\ 1 <= k  BY <1>1, <2>5
  <2>7. PICK j \in 1..n : 1 < j /\ j < k + 1 /\ s[j] = "$"
    BY <1>2, <2>1, <2>6
  <2>8. j - 1 \in 1..(n - 1) /\ j - 1 < k /\ t[j - 1] = "$"
    BY <1>3, <2>1, <2>6, <2>7
  <2>9. QED BY <2>8
<1>7. QED BY <1>4, <1>5, <1>6 DEF t

LEMMA AppendFramed ==
  ASSUME NEW s \in Seq(Wire), NEW m \in {"+", "-"}, Framed(s)
  PROVE  /\ Append(s, m) \in Seq(Wire) /\ Framed(Append(s, m))
         /\ Opened(s) => Opened(Append(s, m))
         /\ s # <<>> => Append(s, m) # <<>> /\ Head(Append(s, m)) = Head(s)
<1> DEFINE t == Append(s, m)
           n == Len(s)
<1>1. /\ m \in Wire /\ m # "#" /\ m # "$"  BY DEF Wire
<1>2. /\ t \in Seq(Wire) /\ n \in Nat /\ DOMAIN s = 1..n /\ DOMAIN t = 1..(n + 1)
      /\ \A i \in 1..n : t[i] = s[i]
      /\ t[n + 1] = m
  BY <1>1, AppendOf
<1> HIDE DEF t, n
<1>3. ASSUME NEW k \in 1..(n + 1), t[k] = "#"
      PROVE  k \in 1..n /\ s[k] = "#"
  <2>1. k # n + 1  BY <1>1, <1>2, <1>3
  <2>2. k \in 1..n  BY <1>2, <2>1
  <2>3. QED BY <1>2, <1>3, <2>2
<1>4. \A j \in 1..n : j \in 1..(n + 1)  BY <1>2
<1>5. Framed(t)
  <2>1. ASSUME NEW i \in 1..(n + 1), t[i] = "#"
        PROVE  i + 1 \in 1..(n + 1) /\ t[i + 1] \in Digit
    BY <1>2, <1>3, <1>4, <2>1 DEF Framed
  <2>2. ASSUME NEW i \in 1..(n + 1), NEW k \in 1..(n + 1), i < k, t[i] = "#", t[k] = "#"
        PROVE  \E j \in 1..(n + 1) : i < j /\ j < k /\ t[j] = "$"
    <3>1. i \in 1..n /\ k \in 1..n /\ s[i] = "#" /\ s[k] = "#"  BY <1>3, <2>2
    <3>2. PICK j \in 1..n : i < j /\ j < k /\ s[j] = "$"
      BY <1>2, <2>2, <3>1 DEF Framed
    <3>3. QED BY <1>2, <1>4, <3>2
  <2>3. ASSUME NEW i \in DOMAIN t, t[i] = "#"
        PROVE  i + 1 \in DOMAIN t /\ t[i + 1] \in Digit
    BY <1>2, <2>1, <2>3
  <2>4. ASSUME NEW i \in DOMAIN t, NEW k \in DOMAIN t, i < k, t[i] = "#", t[k] = "#"
        PROVE  \E j \in DOMAIN t : i < j /\ j < k /\ t[j] = "$"
    BY <1>2, <2>2, <2>4
  <2>5. QED BY <2>3, <2>4 DEF Framed
<1>6. Opened(s) => Opened(t)
  BY <1>2, <1>3, <1>4 DEF Opened
<1>7. s # <<>> => t # <<>> /\ Head(t) = Head(s)
  <2>1. SUFFICES ASSUME s # <<>> PROVE t # <<>> /\ Head(t) = Head(s)  OBVIOUS
  <2>2. n >= 1  BY <2>1 DEF n
  <2>3. Head(s) = s[1] /\ 1 \in 1..n /\ t[1] = s[1]  BY <1>2, <2>1, <2>2
  <2>4. t # <<>>  BY <1>2, <2>2
  <2>5. QED BY <1>2, <2>3, <2>4
<1>8. QED BY <1>2, <1>5, <1>6, <1>7 DEF t

LEMMA PacketFramed ==
  ASSUME NEW s \in Seq(Wire), NEW r \in Requests, NEW d \in Digit, Framed(s)
  PROVE  LET t == s \o Packet(r, d) IN
         /\ t \in Seq(Wire) /\ Framed(t)
         /\ Opened(s) => Opened(t)
         /\ s # <<>> => t # <<>> /\ Head(t) = Head(s)
<1> DEFINE t == s \o Packet(r, d)
           n == Len(s)
           l == Len(Text[r])
<1>0. s \in Seq(Wire) /\ r \in Requests /\ d \in Digit
  OBVIOUS
<1>1. /\ t \in Seq(Wire) /\ n \in Nat /\ l \in Nat /\ DOMAIN s = 1..n
      /\ DOMAIN t = 1..(n + l + 3)
      /\ \A i \in 1..n : t[i] = s[i]
      /\ t[n + 1] = "$"
      /\ \A i \in (n + 2)..(n + l + 1) : t[i] \notin {"$", "#"}
      /\ t[n + l + 2] = "#" /\ t[n + l + 3] = d
  <2>1. t \in Seq(Wire)  BY ONLY <1>0, Sent
  <2>2. n \in Nat /\ l \in Nat /\ DOMAIN s = 1..n  BY ONLY <1>0, Sent
  <2>3. DOMAIN t = 1..(n + l + 3)  BY ONLY <1>0, Sent
  <2>4. \A i \in 1..n : t[i] = s[i]  BY ONLY <1>0, Sent
  <2>5. t[n + 1] = "$"  BY ONLY <1>0, Sent
  <2>6. \A i \in (n + 2)..(n + l + 1) : t[i] \notin {"$", "#"}  BY ONLY <1>0, Sent
  <2>7. t[n + l + 2] = "#" /\ t[n + l + 3] = d  BY ONLY <1>0, Sent
  <2> HIDE DEF t, n, l
  <2>8. QED BY <2>1, <2>2, <2>3, <2>4, <2>5, <2>6, <2>7
<1> HIDE DEF t, n, l
<1>2. d # "#"  BY GdbAssumption DEF Digit
<1>3. ASSUME NEW k \in 1..(n + l + 3), t[k] = "#"
      PROVE  (k \in 1..n /\ s[k] = "#") \/ k = n + l + 2
  <2>1. k # n + 1 /\ k \notin (n + 2)..(n + l + 1) /\ k # n + l + 3
    BY <1>1, <1>2, <1>3
  <2>2. k \in 1..n \/ k = n + l + 2  BY <1>1, <2>1
  <2>3. QED BY <1>1, <1>3, <2>2
<1>4. \A j \in 1..n : j \in 1..(n + l + 3) /\ t[j] = s[j]  BY <1>1
<1>5. n + 1 \in 1..(n + l + 3) /\ n + 1 < n + l + 2 /\ \A j \in 1..n : j < n + 1
  BY <1>1
<1>6. Framed(t)
  <2>1. ASSUME NEW i \in 1..(n + l + 3), t[i] = "#"
        PROVE  i + 1 \in 1..(n + l + 3) /\ t[i + 1] \in Digit
    <3>1. CASE i \in 1..n /\ s[i] = "#"
      BY <1>1, <1>4, <3>1 DEF Framed
    <3>2. CASE i = n + l + 2
      <4>1. i + 1 = n + l + 3  BY <1>1, <3>2
      <4>2. QED BY <1>1, <4>1
    <3>3. QED BY <1>3, <2>1, <3>1, <3>2
  <2>2. ASSUME NEW i \in 1..(n + l + 3), NEW k \in 1..(n + l + 3),
               i < k, t[i] = "#", t[k] = "#"
        PROVE  \E j \in 1..(n + l + 3) : i < j /\ j < k /\ t[j] = "$"
    <3>1. CASE k \in 1..n /\ s[k] = "#"
      <4>1. i \in 1..n  BY <1>1, <2>2, <3>1
      <4>2. s[i] = "#"  BY <1>1, <2>2, <4>1
      <4>3. PICK j \in 1..n : i < j /\ j < k /\ s[j] = "$"
        BY <1>1, <2>2, <3>1, <4>1, <4>2 DEF Framed
      <4>4. QED BY <1>4, <4>3
    <3>2. CASE k = n + l + 2
      <4>1. i \in 1..n  BY <1>3, <2>2, <3>2
      <4>2. QED BY <1>1, <1>5, <3>2, <4>1
    <3>3. QED BY <1>3, <2>2, <3>1, <3>2
  <2>3. ASSUME NEW i \in DOMAIN t, t[i] = "#"
        PROVE  i + 1 \in DOMAIN t /\ t[i + 1] \in Digit
    BY <1>1, <2>1, <2>3
  <2>4. ASSUME NEW i \in DOMAIN t, NEW k \in DOMAIN t, i < k, t[i] = "#", t[k] = "#"
        PROVE  \E j \in DOMAIN t : i < j /\ j < k /\ t[j] = "$"
    BY <1>1, <2>2, <2>4
  <2>5. QED BY <2>3, <2>4 DEF Framed
<1>7. ASSUME Opened(s)
      PROVE  Opened(t)
  <2>1. SUFFICES ASSUME NEW k \in 1..(n + l + 3), t[k] = "#"
                 PROVE  \E j \in 1..(n + l + 3) : j < k /\ t[j] = "$"
    BY <1>1 DEF Opened
  <2>2. CASE k \in 1..n /\ s[k] = "#"
    <3>1. PICK j \in 1..n : j < k /\ s[j] = "$"  BY <1>1, <1>7, <2>2 DEF Opened
    <3>2. QED BY <1>4, <3>1
  <2>3. CASE k = n + l + 2
    BY <1>1, <1>5, <2>3
  <2>4. QED BY <1>3, <2>1, <2>2, <2>3
<1>8. s # <<>> => t # <<>> /\ Head(t) = Head(s)
  <2>1. SUFFICES ASSUME s # <<>> PROVE t # <<>> /\ Head(t) = Head(s)  OBVIOUS
  <2>2. n >= 1  BY <2>1 DEF n
  <2>3. Head(s) = s[1] /\ 1 \in 1..n /\ t[1] = s[1]  BY <1>1, <2>1, <2>2
  <2>4. t # <<>>  BY <1>1, <2>2
  <2>5. QED BY <1>1, <2>3, <2>4
<1>9. QED BY <1>1, <1>6, <1>7, <1>8 DEF t

-------------------------------------------------------------------------------
(* What the types leave out: while a reply is on its way there is a        *)
(* request it answers and a try left for it.                               *)
Answering == {"poll", "send", "ack", "sleep"}
Replies ==
  /\ at \in Answering => reply \in Requests
  /\ at \in {"poll", "send"} => count < Retries
  /\ peer \in {"wait ack", "wait reply"} => asking \in Requests
GTyped == GdbTypeOK /\ Replies
Answers == {Ack} \cup {Reply(r) : r \in Requests}

LEMMA GdbInitTyped == GdbInit => GTyped
<1> SUFFICES ASSUME GdbInit PROVE GTyped  OBVIOUS
<1>1. <<>> \in Seq(Wire) /\ <<>> \in Seq(Answers)  OBVIOUS
<1>2. /\ Retries \in Nat /\ MaxAsked \in Nat /\ MaxLate \in Nat
      /\ MaxSpoilt \in Nat /\ MaxRefused \in Nat
  BY GdbAssumption
<1>3. sound \in [Requests -> Nat] /\ handled \in [Requests -> Nat]
  BY DEF GdbInit
<1>4. GdbTypeOK
  <2>1. up \in Seq(Wire) /\ down \in Seq(Answers) /\ line \in Seq(Wire)
    BY <1>1 DEF GdbInit
  <2>2. /\ count \in 0..Retries /\ asked \in 0..MaxAsked /\ late \in 0..MaxLate
        /\ spoilt \in 0..MaxSpoilt /\ refused \in 0..MaxRefused
    BY <1>2 DEF GdbInit
  <2>3. QED BY <1>3, <2>1, <2>2 DEF GdbInit, GdbTypeOK, ServerPlaces, PeerPlaces, Answers
<1>5. Replies
  BY DEF GdbInit, Replies, Answering
<1>6. QED BY <1>4, <1>5 DEF GTyped

LEMMA ReceiveTyped ==
  ASSUME GdbTypeOK, Receive
  PROVE  up' \in Seq(Wire) /\ Head(up) \in Wire
<1>1. up \in Seq(Wire) /\ up # <<>> /\ up' = Tail(up)  BY DEF GdbTypeOK, Receive
<1>2. QED BY <1>1, TailOf

LEMMA SendTyped ==
  ASSUME GdbTypeOK, NEW m \in Answers, Send(m)
  PROVE  down' \in Seq(Answers)
BY DEF GdbTypeOK, Send, Answers

LEMMA TransmitTyped ==
  ASSUME GdbTypeOK, NEW r \in Requests, Transmit(r)
  PROVE  /\ up' \in Seq(Wire) /\ sound' \in [Requests -> Nat] /\ spoilt' \in 0..MaxSpoilt
         /\ \E d \in Digit : up' = up \o Packet(r, d)
<1>1. up \in Seq(Wire) /\ spoilt \in 0..MaxSpoilt /\ MaxSpoilt \in Nat /\ r \in Digit /\ "?" \in Digit
  BY GdbAssumption DEF GdbTypeOK, Digit
<1>2. \E d \in Digit : up' = up \o Packet(r, d)  BY <1>1 DEF Transmit
<1>3. up' \in Seq(Wire)  BY <1>1, <1>2, Sent
<1>4. sound' \in [Requests -> Nat]
  <2>1. /\ sound \in [Requests -> Nat]
        /\ UNCHANGED sound \/ sound' = [sound EXCEPT ![r] = @ + 1]
    BY DEF Transmit, GdbTypeOK
  <2>2. QED BY <2>1
<1>5. spoilt' \in 0..MaxSpoilt  BY <1>1 DEF Transmit
<1>6. QED BY <1>2, <1>3, <1>4, <1>5

LEMMA GdbStepTyped == GTyped /\ [GdbNext]_gdbVars => GTyped'
<1> SUFFICES ASSUME GTyped, [GdbNext]_gdbVars PROVE GTyped'
  OBVIOUS
<1> USE DEF GTyped
<1>0. /\ Retries \in Nat \ {0} /\ MaxAsked \in Nat /\ MaxLate \in Nat
      /\ MaxSpoilt \in Nat /\ MaxRefused \in Nat /\ VPackets \subseteq Requests
  BY GdbAssumption
<1> DEFINE Rest == UNCHANGED <<peer, asking, asked, late, refused, sound>>
<1>1. CASE Select
  BY <1>1 DEF Select, GdbTypeOK, Replies, ServerPlaces, Answering, gdb
<1>2. CASE EndOfRequest
  BY <1>2 DEF EndOfRequest, MeetEnd, GdbTypeOK, Replies, ServerPlaces, Answering, gdb
<1>3. CASE WaitForStart
  <2>1. up' \in Seq(Wire)  BY <1>3, ReceiveTyped DEF WaitForStart
  <2>2. line' \in Seq(Wire)
    <3>1. line \in Seq(Wire) /\ (line' = <<>> \/ UNCHANGED line)
      BY <1>3 DEF WaitForStart, GdbTypeOK
    <3>2. <<>> \in Seq(Wire)  OBVIOUS
    <3>3. QED BY <3>1, <3>2
  <2>3. QED BY <1>3, <2>1, <2>2
              DEF WaitForStart, GdbTypeOK, Replies, ServerPlaces, Answering, gdb
<1>4. CASE ReadLine
  <2>1. up' \in Seq(Wire) /\ Head(up) \in Wire  BY <1>4, ReceiveTyped DEF ReadLine
  <2>2. line' \in Seq(Wire)
    <3>1. line \in Seq(Wire) /\ (line' = Append(line, Head(up)) \/ UNCHANGED line)
      BY <1>4 DEF ReadLine, GdbTypeOK
    <3>2. QED BY <2>1, <3>1
  <2>3. QED BY <1>4, <2>1, <2>2
              DEF ReadLine, GdbTypeOK, Replies, ServerPlaces, Answering, gdb
<1>5. CASE Accept
  <2>1. up' \in Seq(Wire)  BY <1>5, ReceiveTyped DEF Accept
  <2>2. down' \in Seq(Answers)  BY <1>5, SendTyped DEF Accept, Answers
  <2>3. QED BY <1>5, <2>1, <2>2
              DEF Accept, GdbTypeOK, Replies, ServerPlaces, Answering, Answers, gdb
<1>6. CASE Refuse
  <2>1. up' \in Seq(Wire)  BY <1>6, ReceiveTyped DEF Refuse
  <2>2. spoilt' \in 0..MaxSpoilt  BY <1>0, <1>6 DEF Refuse, GdbTypeOK
  <2>3. QED BY <1>6, <2>1, <2>2
              DEF Refuse, GdbTypeOK, Replies, ServerPlaces, Answering, gdb
<1>7. CASE ShortRead
  <2>1. up' \in Seq(Wire)  BY <1>7, ReceiveTyped DEF ShortRead
  <2>2. spoilt' \in 0..MaxSpoilt  BY <1>0, <1>7 DEF ShortRead, GdbTypeOK
  <2>3. QED BY <1>7, <2>1, <2>2
              DEF ShortRead, GdbTypeOK, Replies, ServerPlaces, Answering, gdb
<1>8. CASE Handle
  <2>1. PICK r \in Requests :
          /\ handled' = [handled EXCEPT ![r] = @ + 1]
          /\ reply' = r /\ count' = 0
          /\ at' \in {"poll", "select", "send"}
          /\ UNCHANGED <<up, down, spoilt, sock, line, joined, gdb>>
    BY <1>8 DEF Handle
  <2>2. handled' \in [Requests -> Nat]  BY <2>1 DEF GdbTypeOK
  <2>3. count' \in 0..Retries /\ count' < Retries /\ reply' \in Requests
    BY <1>0, <2>1
  <2>4. at' \in {"poll", "select", "send"}  BY <2>1
  <2>5. QED BY <2>1, <2>2, <2>3, <2>4 DEF GdbTypeOK, Replies, ServerPlaces, Answering, gdb
<1>9. CASE Poll
  BY <1>9 DEF Poll, GdbTypeOK, Replies, ServerPlaces, Answering, gdb
<1>10. CASE SendReply
  <2>1. reply \in Requests /\ count < Retries /\ count \in 0..Retries
    BY <1>10 DEF SendReply, Replies, Answering, GdbTypeOK
  <2>2. down' \in Seq(Answers)
    BY <1>10, <2>1, SendTyped DEF SendReply, Answers, GdbTypeOK
  <2>3. count' \in 0..Retries  BY <1>0, <1>10, <2>1 DEF SendReply
  <2>4. QED BY <1>10, <2>1, <2>2, <2>3
              DEF SendReply, GdbTypeOK, Replies, ServerPlaces, Answering, Answers, gdb
<1>11. CASE WaitForAck
  <2>1. up' \in Seq(Wire)  BY <1>11, ReceiveTyped DEF WaitForAck
  <2>2. QED BY <1>11, <2>1
              DEF WaitForAck, GdbTypeOK, Replies, ServerPlaces, Answering, gdb
<1>12. CASE NoAck
  BY <1>12 DEF NoAck, MeetEnd, GdbTypeOK, Replies, ServerPlaces, Answering, gdb
<1>13. CASE TryAgain
  BY <1>13 DEF TryAgain, GdbTypeOK, Replies, ServerPlaces, Answering, gdb
<1>14. CASE GdbReads
  <2>1. down # <<>> /\ down' = Tail(down) /\ down \in Seq(Answers)
    BY <1>14 DEF GdbReads, TakeAck, TakeReply, RefuseReply, GdbTypeOK, Answers
  <2>2. down' \in Seq(Answers)  BY <2>1, TailOf
  <2>3. up' \in Seq(Wire)
    <3>1. "+" \in Wire /\ "-" \in Wire /\ up \in Seq(Wire)  BY DEF Wire, GdbTypeOK
    <3>2. UNCHANGED up \/ up' = Append(up, "+") \/ up' = Append(up, "-")
      BY <1>14 DEF GdbReads, TakeAck, TakeReply, RefuseReply
    <3>3. QED BY <3>1, <3>2
  <2>4. refused' \in 0..MaxRefused
    <3>1. /\ refused \in 0..MaxRefused
          /\ UNCHANGED refused \/ (refused < MaxRefused /\ refused' = refused + 1)
      BY <1>14 DEF GdbReads, TakeAck, TakeReply, RefuseReply, GdbTypeOK
    <3>2. QED BY <1>0, <3>1
  <2>5. QED BY <1>14, <2>2, <2>3, <2>4
    DEF GdbReads, TakeAck, TakeReply, RefuseReply, GdbTypeOK, Replies, PeerPlaces,
        Answering, Answers, server
<1>15. ASSUME NEW r \in Requests, Ask(r)
       PROVE  GTyped'
  <2>1. up' \in Seq(Wire) /\ sound' \in [Requests -> Nat] /\ spoilt' \in 0..MaxSpoilt
    BY <1>15, TransmitTyped DEF Ask
  <2>2. asked' \in 0..MaxAsked
    <3>1. asked \in 0..MaxAsked /\ asked < MaxAsked /\ asked' = asked + 1
      BY <1>15 DEF Ask, GdbTypeOK
    <3>2. QED BY <1>0, <3>1
  <2>3. QED BY <1>15, <2>1, <2>2
              DEF Ask, GdbTypeOK, Replies, PeerPlaces, Answering, server
<1>16. CASE Repeat
  <2>1. asking \in Requests  BY <1>16 DEF Repeat, Replies
  <2>2. up' \in Seq(Wire) /\ sound' \in [Requests -> Nat] /\ spoilt' \in 0..MaxSpoilt
    BY <1>16, <2>1, TransmitTyped DEF Repeat
  <2>3. late' \in 0..MaxLate
    <3>1. late \in 0..MaxLate /\ late < MaxLate /\ late' = late + 1
      BY <1>16 DEF Repeat, GdbTypeOK
    <3>2. QED BY <1>0, <3>1
  <2>4. QED BY <1>16, <2>2, <2>3 DEF Repeat, GdbTypeOK, Replies, Answering, server
<1>17. CASE GiveUp
  <2>1. late' \in 0..MaxLate
    <3>1. late \in 0..MaxLate /\ late < MaxLate /\ late' = late + 1
      BY <1>17 DEF GiveUp, GdbTypeOK
    <3>2. QED BY <1>0, <3>1
  <2>2. QED BY <1>17, <2>1 DEF GiveUp, GdbTypeOK, Replies, PeerPlaces, Answering, server
<1>18. CASE Leave
  BY <1>18 DEF Leave, GdbTypeOK, Replies, PeerPlaces, Answering, server
<1>19. CASE UNCHANGED gdbVars
  BY <1>19 DEF gdbVars, server, gdb, GdbTypeOK, Replies, Answering
<1>20. QED
  BY <1>1, <1>2, <1>3, <1>4, <1>5, <1>6, <1>7, <1>8, <1>9, <1>10, <1>11, <1>12, <1>13,
     <1>14, <1>15, <1>16, <1>17, <1>18, <1>19 DEF GdbNext, Server, GdbActs

(* Types, for any set of requests and any bounds.                          *)
THEOREM GdbIsTyped == GdbSpec => []GdbTypeOK
<1>1. GTyped => GdbTypeOK  BY DEF GTyped
<1>2. QED BY <1>1, GdbInitTyped, GdbStepTyped, PTL DEF GdbSpec

-------------------------------------------------------------------------------
(* How a step may change what is on its way to the server.                 *)
Puts == \/ \E m \in {"+", "-"} : up' = Append(up, m) /\ UNCHANGED sound
        \/ \E r \in Requests : \E d \in {r, "?"} :
             /\ up' = up \o Packet(r, d)
             /\ sound' = IF d = r THEN [sound EXCEPT ![r] = @ + 1] ELSE sound

LEMMA GdbPuts ==
  ASSUME GTyped, GdbReads \/ GdbActs \/ UNCHANGED gdbVars
  PROVE  UNCHANGED server /\ (UNCHANGED <<up, sound>> \/ Puts)
<1>1. ASSUME NEW r \in Requests, Transmit(r)
      PROVE  Puts
  <2>1. r \in Digit /\ "?" \in Digit /\ "?" # r  BY GdbAssumption DEF Digit
  <2>2. CASE up' = up \o Packet(r, r) /\ sound' = [sound EXCEPT ![r] = @ + 1]
    BY <2>1, <2>2 DEF Puts
  <2>3. CASE up' = up \o Packet(r, "?") /\ UNCHANGED sound
    BY <2>1, <2>3 DEF Puts
  <2>4. QED BY <1>1, <2>2, <2>3 DEF Transmit
<1>2. CASE GdbReads
  BY <1>2 DEF GdbReads, TakeAck, TakeReply, RefuseReply, Puts
<1>3. ASSUME NEW r \in Requests, Ask(r)
      PROVE  UNCHANGED server /\ Puts
  BY <1>1, <1>3 DEF Ask
<1>4. CASE Repeat
  BY <1>1, <1>4 DEF Repeat, GTyped, Replies
<1>5. CASE GiveUp \/ Leave \/ UNCHANGED gdbVars
  BY <1>5 DEF GiveUp, Leave, gdbVars, gdb
<1>6. QED BY <1>2, <1>3, <1>4, <1>5 DEF GdbActs

LEMMA PutsFramed ==
  ASSUME GTyped, Framed(up), Puts
  PROVE  /\ Framed(up') /\ (Opened(up) => Opened(up'))
         /\ up # <<>> => up' # <<>> /\ Head(up') = Head(up)
<1>1. up \in Seq(Wire)  BY DEF GTyped, GdbTypeOK
<1>2. ASSUME NEW m \in {"+", "-"}, up' = Append(up, m)
      PROVE  /\ Framed(up') /\ (Opened(up) => Opened(up'))
             /\ up # <<>> => up' # <<>> /\ Head(up') = Head(up)
  BY <1>1, <1>2, AppendFramed
<1>3. ASSUME NEW r \in Requests, NEW d \in {r, "?"}, up' = up \o Packet(r, d)
      PROVE  /\ Framed(up') /\ (Opened(up) => Opened(up'))
             /\ up # <<>> => up' # <<>> /\ Head(up') = Head(up)
  <2>1. d \in Digit  BY DEF Digit
  <2>2. QED BY <1>1, <1>3, <2>1, PacketFramed
<1>4. QED BY <1>2, <1>3 DEF Puts

(* The server takes the digits of a checksum where they are.               *)
Wired ==
  /\ Framed(up)
  /\ at = "digits" => up # <<>> /\ Head(up) \in Digit /\ Opened(up)

LEMMA ReceiveFramed ==
  ASSUME GTyped, Wired, Receive
  PROVE  /\ Framed(up') /\ (Head(up) # "$" /\ Opened(up) => Opened(up'))
         /\ Head(up) = "#" => up' # <<>> /\ Head(up') \in Digit /\ Opened(up')
<1>1. up \in Seq(Wire) /\ up # <<>> /\ up' = Tail(up) /\ Framed(up)
  BY DEF GTyped, GdbTypeOK, Receive, Wired
<1>2. QED BY <1>1, TailFramed

LEMMA WiredStep == GTyped /\ Wired /\ [GdbNext]_gdbVars => Wired'
<1> SUFFICES ASSUME GTyped, Wired, [GdbNext]_gdbVars PROVE Wired'
  OBVIOUS
<1>1. CASE Select \/ EndOfRequest \/ Handle \/ Poll \/ SendReply \/ NoAck \/ TryAgain
  <2>1. UNCHANGED up /\ at' # "digits"
    BY <1>1 DEF Select, EndOfRequest, MeetEnd, Handle, Poll, SendReply, NoAck, TryAgain
  <2>2. QED BY <2>1 DEF Wired
<1>2. CASE ReadLine
  <2>1. Receive /\ (Head(up) = "#" \/ at' # "digits")  BY <1>2 DEF ReadLine
  <2>2. QED BY <2>1, ReceiveFramed DEF Wired
<1>3. CASE WaitForStart \/ Accept \/ Refuse \/ ShortRead \/ WaitForAck
  <2>1. Receive /\ at' # "digits"
    BY <1>3 DEF WaitForStart, Accept, Refuse, ShortRead, WaitForAck
  <2>2. QED BY <2>1, ReceiveFramed DEF Wired
<1>4. CASE GdbReads \/ GdbActs \/ UNCHANGED gdbVars
  <2>1. UNCHANGED at /\ (UNCHANGED up \/ Puts)  BY <1>4, GdbPuts DEF server
  <2>2. CASE UNCHANGED up  BY <2>1, <2>2 DEF Wired
  <2>3. CASE Puts  BY <2>1, <2>3, PutsFramed DEF Wired
  <2>4. QED BY <2>1, <2>2, <2>3
<1>5. QED BY <1>1, <1>2, <1>3, <1>4 DEF GdbNext, Server

LEMMA GdbInitWired == GdbInit => Wired
BY DEF GdbInit, Wired, Framed

-------------------------------------------------------------------------------
(* Where no line of several packets is accepted, what the server has in    *)
(* hand is the text of a request, and that of one only.                    *)
InHandIsRequest == at = "handle" => \E r \in Requests : line = Text[r]
Plainly == InHandIsRequest /\ ~joined'

LEMMA AcceptIs ==
  ASSUME ~joined', Accept
  PROVE  Head(up) \in Requests /\ line = Text[Head(up)]
BY DEF Accept, Validates

LEMMA TakenForIs ==
  ASSUME NEW r \in Requests, NEW q \in Requests, line = Text[q]
  PROVE  TakenFor(r) <=> r = q
<1>1. Text[r] \in Seq(STRING \ {"$", "#"}) /\ Text[q] \in Seq(STRING \ {"$", "#"})
  BY GdbAssumption
<1> DEFINE s == Text[r]
           t == Text[q]
<1>2. /\ s \in Seq(STRING) /\ Len(s) \in Nat /\ SubSeq(s, 1, Len(s)) = s
      /\ t \in Seq(STRING) /\ Len(t) \in Nat /\ SubSeq(t, 1, Len(t)) = t
  BY <1>1
<1>3. ASSUME TakenFor(r) PROVE r = q
  <2>1. IsPrefix(s, t) /\ (IsPrefix(t, t) => Len(t) <= Len(s))  BY <1>3 DEF TakenFor
  <2> HIDE DEF s, t
  <2>2. IsPrefix(t, t)  BY <1>2 DEF IsPrefix
  <2>3. Len(s) <= Len(t) /\ SubSeq(s, 1, Len(s)) = SubSeq(t, 1, Len(s))
    BY <2>1 DEF IsPrefix
  <2>4. Len(s) = Len(t)
    <3>1. Len(s) <= Len(t) /\ Len(t) <= Len(s) /\ Len(s) \in Nat /\ Len(t) \in Nat
      BY <1>2, <2>1, <2>2, <2>3
    <3>2. QED BY ONLY <3>1
  <2>5. s = t  BY <1>2, <2>3, <2>4
  <2>6. QED BY <2>5, GdbAssumption DEF s, t
<1>4. TakenFor(q)
  <2>1. IsPrefix(t, line)  BY <1>2 DEF IsPrefix
  <2>2. \A p \in Requests : IsPrefix(Text[p], line) => Len(Text[p]) <= Len(Text[q])
    BY DEF IsPrefix
  <2>3. QED BY <2>1, <2>2 DEF TakenFor
<1>5. QED BY <1>3, <1>4

LEMMA HandleIs ==
  ASSUME Plainly, NEW r \in Requests, at = "handle", TakenFor(r)
  PROVE  line = Text[r]
BY TakenForIs DEF Plainly, InHandIsRequest

LEMMA InHandStep == InHandIsRequest /\ ~joined' /\ [GdbNext]_gdbVars => InHandIsRequest'
<1> SUFFICES ASSUME InHandIsRequest, ~joined', [GdbNext]_gdbVars PROVE InHandIsRequest'
  OBVIOUS
<1>1. CASE Accept
  <2>1. Head(up) \in Requests /\ line = Text[Head(up)] /\ UNCHANGED line
    BY <1>1, AcceptIs DEF Accept
  <2>2. QED BY <2>1 DEF InHandIsRequest
<1>2. CASE Server /\ ~Accept
  <2>1. at' # "handle"
    BY <1>2 DEF Server, Select, EndOfRequest, WaitForStart, ReadLine, Refuse,
         ShortRead, Handle, Poll, SendReply, WaitForAck, NoAck, TryAgain
  <2>2. QED BY <2>1 DEF InHandIsRequest
<1>3. CASE GdbReads \/ GdbActs \/ UNCHANGED gdbVars
  BY <1>3 DEF GdbReads, TakeAck, TakeReply, RefuseReply, GdbActs, Ask, Repeat, GiveUp, Leave,
       gdbVars, server, InHandIsRequest
<1>4. QED BY <1>1, <1>2, <1>3 DEF GdbNext

(* Once such a line has been accepted, that stays so.                      *)
LEMMA JoinedStays == joined /\ [GdbNext]_gdbVars => joined'
<1>1. CASE Server
  BY <1>1 DEF Server, Select, EndOfRequest, WaitForStart, ReadLine, Accept, Refuse,
       ShortRead, Handle, Poll, SendReply, WaitForAck, NoAck, TryAgain
<1>2. CASE GdbReads \/ GdbActs \/ UNCHANGED gdbVars
  BY <1>2 DEF GdbReads, TakeAck, TakeReply, RefuseReply, GdbActs, Ask, Repeat, GiveUp, Leave,
       gdbVars, server
<1>3. QED BY <1>1, <1>2 DEF GdbNext

-------------------------------------------------------------------------------
(* Counting.  Where the digits of r are on their way, and whether the      *)
(* server is about to handle r.                                            *)
Dues(s, r) == {i \in 2..Len(s) : s[i - 1] = "#" /\ s[i] = r}
Coming(s, r) == Cardinality(Dues(s, r))
AtHead(r) == IF at = "digits" /\ Head(up) = r THEN 1 ELSE 0
InHand(r) == IF at = "handle" /\ line = Text[r] THEN 1 ELSE 0
Counted ==
  \A r \in Requests : handled[r] + InHand(r) + AtHead(r) + Coming(up, r) <= sound[r]

LEMMA DuesFinite ==
  ASSUME NEW s \in Seq(Wire), NEW r
  PROVE  IsFiniteSet(Dues(s, r)) /\ Coming(s, r) \in Nat
<1>1. IsFiniteSet(2..Len(s))  BY FS_Interval
<1>2. Dues(s, r) \subseteq 2..Len(s)  BY DEF Dues
<1>3. IsFiniteSet(Dues(s, r))  BY <1>1, <1>2, FS_Subset
<1>4. QED BY <1>3, FS_CardinalityType DEF Coming

(* Reading something takes away at most one, and that at the head.         *)
LEMMA ComingTail ==
  ASSUME NEW s \in Seq(Wire), s # <<>>, NEW r
  PROVE  /\ Coming(Tail(s), r) <= Coming(s, r)
         /\ Head(s) = "#" /\ Tail(s) # <<>> /\ Head(Tail(s)) = r =>
              Coming(Tail(s), r) + 1 <= Coming(s, r)
<1> DEFINE t == Tail(s)
           n == Len(s)
           D == Dues(s, r) \ {2}
           E == Dues(t, r)
           f == [i \in E |-> i + 1]
<1>1. /\ t \in Seq(Wire) /\ n \in Nat /\ n >= 1 /\ DOMAIN s = 1..n /\ Head(s) = s[1]
      /\ Len(t) = n - 1 /\ \A i \in 1..(n - 1) : t[i] = s[i + 1]
  BY TailOf
<1>2. /\ IsFiniteSet(Dues(s, r)) /\ Coming(s, r) \in Nat
      /\ IsFiniteSet(E) /\ Coming(t, r) \in Nat
  BY <1>1, DuesFinite
<1> HIDE DEF t
<1>3. ASSUME NEW i \in E
      PROVE  i \in Int /\ i + 1 \in D
  <2>1. i \in 2..(n - 1) /\ t[i - 1] = "#" /\ t[i] = r  BY <1>1 DEF Dues
  <2>2. i - 1 \in 1..(n - 1) /\ i \in 1..(n - 1) /\ (i - 1) + 1 = i /\ (i + 1) - 1 = i
        /\ i + 1 \in 2..n /\ i + 1 # 2 /\ i \in Int
    BY <1>1, <2>1
  <2>3. s[i] = "#" /\ s[i + 1] = r  BY <1>1, <2>1, <2>2
  <2>4. QED BY <2>2, <2>3 DEF Dues
<1>4. f \in Injection(E, D)
  <2>1. f \in [E -> D]  BY <1>3
  <2>2. ASSUME NEW i \in E, NEW j \in E, f[i] = f[j] PROVE i = j
    BY <1>3, <2>2
  <2>3. QED BY <2>1, <2>2 DEF Injection, IsInjective
<1>5. IsFiniteSet(D) /\ Cardinality(D) = Coming(s, r) - (IF 2 \in Dues(s, r) THEN 1 ELSE 0)
  BY <1>2, FS_RemoveElement DEF Coming
<1>6. Coming(t, r) <= Cardinality(D)
  BY <1>4, <1>5, FS_Injection DEF Coming
<1>7. ASSUME Head(s) = "#", t # <<>>, Head(t) = r
      PROVE  2 \in Dues(s, r)
  <2>1. n - 1 >= 1 /\ t[1] = r  BY <1>1, <1>7
  <2>2. 2 \in 2..n /\ s[2 - 1] = "#" /\ s[2] = r  BY <1>1, <1>7, <2>1
  <2>3. QED BY <2>2 DEF Dues
<1> HIDE DEF D, E
<1>8. Coming(t, r) <= Coming(s, r)  BY <1>2, <1>5, <1>6
<1>9. 2 \in Dues(s, r) => Coming(t, r) + 1 <= Coming(s, r)  BY <1>2, <1>5, <1>6
<1>10. QED BY <1>7, <1>8, <1>9 DEF t

LEMMA ComingAppend ==
  ASSUME NEW s \in Seq(Wire), NEW m \in {"+", "-"}, NEW r \in Requests
  PROVE  Coming(Append(s, m), r) <= Coming(s, r)
<1> DEFINE t == Append(s, m)
           n == Len(s)
<1>1. m \in Wire /\ m # r  BY GdbAssumption DEF Wire
<1>2. /\ t \in Seq(Wire) /\ n \in Nat /\ Len(t) = n + 1
      /\ \A i \in 1..n : t[i] = s[i]
      /\ t[n + 1] = m
  BY <1>1, AppendOf
<1> HIDE DEF t
<1>3. Dues(t, r) \subseteq Dues(s, r)
  <2>1. SUFFICES ASSUME NEW i \in Dues(t, r) PROVE i \in Dues(s, r)  OBVIOUS
  <2>2. i \in 2..(n + 1) /\ t[i - 1] = "#" /\ t[i] = r  BY <1>2 DEF Dues
  <2>3. i # n + 1  BY <1>1, <1>2, <2>2
  <2>4. i \in 2..n /\ i \in 1..n /\ i - 1 \in 1..n  BY <1>2, <2>2, <2>3
  <2>5. QED BY <1>2, <2>2, <2>4 DEF Dues
<1>4. QED BY <1>3, DuesFinite, FS_Subset DEF Coming, t

LEMMA ComingPacket ==
  ASSUME NEW s \in Seq(Wire), NEW q \in Requests, NEW d \in Digit, NEW r \in Requests,
         Framed(s)
  PROVE  Coming(s \o Packet(q, d), r) <= Coming(s, r) + (IF d = r THEN 1 ELSE 0)
<1> DEFINE t == s \o Packet(q, d)
           n == Len(s)
           l == Len(Text[q])
           x == n + l + 3
<1>0. s \in Seq(Wire) /\ q \in Requests /\ d \in Digit
  OBVIOUS
<1>1. /\ n \in Nat /\ l \in Nat /\ Len(t) = n + l + 3 /\ DOMAIN s = 1..n
      /\ \A i \in 1..n : t[i] = s[i]
      /\ t[n + 1] = "$"
      /\ \A i \in (n + 2)..(n + l + 1) : t[i] \notin {"$", "#"}
      /\ t[n + l + 2] = "#" /\ t[n + l + 3] = d
  <2>1. n \in Nat /\ l \in Nat /\ DOMAIN s = 1..n  BY ONLY <1>0, Sent
  <2>2. Len(t) = n + l + 3  BY ONLY <1>0, Sent
  <2>3. \A i \in 1..n : t[i] = s[i]  BY ONLY <1>0, Sent
  <2>4. t[n + 1] = "$"  BY ONLY <1>0, Sent
  <2>5. \A i \in (n + 2)..(n + l + 1) : t[i] \notin {"$", "#"}  BY ONLY <1>0, Sent
  <2>6. t[n + l + 2] = "#"  BY ONLY <1>0, Sent
  <2>7. t[n + l + 3] = d  BY ONLY <1>0, Sent
  <2> HIDE DEF t, n, l
  <2>8. QED BY <2>1, <2>2, <2>3, <2>4, <2>5, <2>6, <2>7
<1> HIDE DEF t, l
<1>2. "#" # r  BY GdbAssumption
<1>3. Dues(t, r) \subseteq Dues(s, r) \cup (IF d = r THEN {x} ELSE {})
  <2>1. SUFFICES ASSUME NEW i \in Dues(t, r), i # x \/ d # r
                 PROVE  i \in Dues(s, r)
    OBVIOUS
  <2>2. i \in 2..x /\ t[i - 1] = "#" /\ t[i] = r  BY <1>1 DEF Dues
  <2>3. i # x  BY <1>1, <2>1, <2>2
  <2>4. i - 1 # n + 1 /\ i - 1 \notin (n + 2)..(n + l + 1) /\ i # n + l + 2
    BY <1>1, <1>2, <2>2
  <2>5. i - 1 \in 1..n  BY <1>1, <2>2, <2>3, <2>4
  <2>6. s[i - 1] = "#"  BY <1>1, <2>2, <2>5
  <2>7. i \in 1..n
    <3>1. (i - 1) + 1 \in 1..n  BY <1>1, <2>5, <2>6 DEF Framed
    <3>2. QED BY <1>1, <2>2, <3>1
  <2>8. i \in 2..n /\ s[i] = r  BY <1>1, <2>2, <2>7
  <2>9. QED BY <2>6, <2>8 DEF Dues
<1>4. IsFiniteSet(Dues(s, r)) /\ Coming(s, r) \in Nat  BY DuesFinite
<1>5. CASE d = r
  <2>1. /\ IsFiniteSet(Dues(s, r) \cup {x})
        /\ Cardinality(Dues(s, r) \cup {x}) <= Coming(s, r) + 1
    <3>1. /\ IsFiniteSet(Dues(s, r) \cup {x})
          /\ Cardinality(Dues(s, r) \cup {x}) =
               IF x \in Dues(s, r) THEN Cardinality(Dues(s, r)) ELSE Cardinality(Dues(s, r)) + 1
      BY <1>4, FS_AddElement
    <3>2. QED BY <1>4, <3>1 DEF Coming
  <2>2. Coming(t, r) <= Cardinality(Dues(s, r) \cup {x})
    BY <1>3, <1>5, <2>1, FS_Subset DEF Coming
  <2>3. Coming(t, r) \in Nat /\ Cardinality(Dues(s, r) \cup {x}) \in Nat
    <3>1. IsFiniteSet(Dues(t, r))  BY <1>3, <1>5, <2>1, FS_Subset
    <3>2. QED BY <2>1, <3>1, FS_CardinalityType DEF Coming
  <2> HIDE DEF x
  <2>4. Coming(t, r) <= Coming(s, r) + 1  BY <1>4, <2>1, <2>2, <2>3
  <2>5. QED BY <1>5, <2>4 DEF t
<1>6. CASE d # r
  <2>1. Dues(t, r) \subseteq Dues(s, r)  BY <1>3, <1>6
  <2>2. Coming(t, r) <= Coming(s, r)  BY <1>4, <2>1, FS_Subset DEF Coming
  <2>3. QED BY <1>4, <1>6, <2>2 DEF t
<1>7. QED BY <1>5, <1>6

LEMMA HandOf ==
  ASSUME GTyped, NEW r \in Requests
  PROVE  /\ InHand(r) \in {0, 1} /\ AtHead(r) \in {0, 1}
         /\ Coming(up, r) \in Nat /\ handled[r] \in Nat /\ sound[r] \in Nat
<1>1. up \in Seq(Wire) /\ handled \in [Requests -> Nat] /\ sound \in [Requests -> Nat]
  BY DEF GTyped, GdbTypeOK
<1>2. QED BY <1>1, DuesFinite DEF InHand, AtHead

LEMMA CountedStep ==
  ASSUME GTyped, Wired, Counted, Plainly, [GdbNext]_gdbVars
  PROVE  Counted'
<1>0. GTyped'
  BY GdbStepTyped
<1> SUFFICES ASSUME NEW r \in Requests
             PROVE  handled'[r] + InHand(r)' + AtHead(r)' + Coming(up', r) <= sound'[r]
  BY DEF Counted
<1>1. /\ InHand(r) \in {0, 1} /\ AtHead(r) \in {0, 1}
      /\ Coming(up, r) \in Nat /\ handled[r] \in Nat /\ sound[r] \in Nat
  BY HandOf
<1>2. /\ InHand(r)' \in {0, 1} /\ AtHead(r)' \in {0, 1} /\ Coming(up', r) \in Nat
  <2>1. up' \in Seq(Wire)  BY <1>0 DEF GTyped, GdbTypeOK
  <2>2. QED BY <2>1, DuesFinite DEF InHand, AtHead
<1>3. handled[r] + InHand(r) + AtHead(r) + Coming(up, r) <= sound[r]
  BY DEF Counted
<1>4. ASSUME Receive
      PROVE  /\ Coming(up', r) <= Coming(up, r)
             /\ Head(up) = "#" /\ Head(up') = r => Coming(up', r) + 1 <= Coming(up, r)
  <2>1. up \in Seq(Wire) /\ up # <<>> /\ up' = Tail(up)
    BY <1>4 DEF GTyped, GdbTypeOK, Receive
  <2>2. Head(up) = "#" => up' # <<>>  BY <1>4, ReceiveFramed
  <2>3. /\ Coming(Tail(up), r) <= Coming(up, r)
        /\ Head(up) = "#" /\ Tail(up) # <<>> /\ Head(Tail(up)) = r =>
             Coming(Tail(up), r) + 1 <= Coming(up, r)
    BY ONLY <2>1, ComingTail
  <2>4. QED BY <2>1, <2>2, <2>3
<1>5. CASE Select \/ EndOfRequest \/ Poll \/ SendReply \/ NoAck \/ TryAgain
  <2>1. UNCHANGED <<up, handled, sound>> /\ at' \notin {"digits", "handle"}
    BY <1>5 DEF Select, EndOfRequest, MeetEnd, Poll, SendReply, NoAck, TryAgain, gdb
  <2>2. InHand(r)' = 0 /\ AtHead(r)' = 0  BY <2>1 DEF InHand, AtHead
  <2>3. QED BY <1>1, <1>3, <2>1, <2>2
<1>6. CASE WaitForStart \/ Refuse \/ ShortRead \/ WaitForAck
  <2>1. Receive /\ UNCHANGED <<handled, sound>> /\ at' \notin {"digits", "handle"}
    BY <1>6 DEF WaitForStart, Refuse, ShortRead, WaitForAck, gdb
  <2>2. InHand(r)' = 0 /\ AtHead(r)' = 0  BY <2>1 DEF InHand, AtHead
  <2>3. Coming(up', r) <= Coming(up, r)  BY <1>4, <2>1
  <2>4. QED BY <1>1, <1>2, <1>3, <2>1, <2>2, <2>3
<1>7. CASE ReadLine
  <2>1. Receive /\ UNCHANGED <<handled, sound>> /\ at' # "handle"
        /\ (at' = "digits" => Head(up) = "#")
    BY <1>7 DEF ReadLine, gdb
  <2>2. InHand(r)' = 0  BY <2>1 DEF InHand
  <2>3. Coming(up', r) <= Coming(up, r)
        /\ (Head(up) = "#" /\ Head(up') = r => Coming(up', r) + 1 <= Coming(up, r))
    BY <1>4, <2>1
  <2>4. AtHead(r)' = 0 \/ Coming(up', r) + 1 <= Coming(up, r)
    BY <2>1, <2>3 DEF AtHead
  <2>5. QED BY <1>1, <1>2, <1>3, <2>1, <2>2, <2>3, <2>4
<1>8. CASE Accept
  <2>1. Receive /\ UNCHANGED <<line, handled, sound>> /\ at = "digits" /\ at' # "digits"
        /\ Head(up) \in Requests /\ line = Text[Head(up)]
    BY <1>8, AcceptIs DEF Accept, Plainly, gdb
  <2>2. line = Text[r] => Head(up) = r  BY <2>1, GdbAssumption
  <2>3. AtHead(r)' = 0  BY <2>1 DEF AtHead
  <2>4. InHand(r)' <= AtHead(r)  BY <2>1, <2>2 DEF InHand, AtHead
  <2>5. Coming(up', r) <= Coming(up, r)  BY <1>4, <2>1
  <2>6. QED BY <1>1, <1>2, <1>3, <2>1, <2>3, <2>4, <2>5
<1>9. CASE Handle
  <2>1. PICK q \in Requests :
          /\ at = "handle" /\ line = Text[q]
          /\ handled' = [handled EXCEPT ![q] = @ + 1]
          /\ at' \in {"poll", "select", "send"}
          /\ UNCHANGED <<up, line, sound>>
    BY <1>9, HandleIs DEF Handle, gdb
  <2>2. at' \notin {"digits", "handle"}  BY <2>1
  <2>3. InHand(r)' = 0 /\ AtHead(r)' = 0  BY <2>2 DEF InHand, AtHead
  <2>4. handled'[r] <= handled[r] + InHand(r)
    <3>1. handled \in [Requests -> Nat]  BY DEF GTyped, GdbTypeOK
    <3>2. CASE q = r
      <4>1. InHand(r) = 1  BY <2>1, <3>2 DEF InHand
      <4>2. handled'[r] = handled[r] + 1  BY <2>1, <3>1, <3>2
      <4>3. QED BY <1>1, <4>1, <4>2
    <3>3. CASE q # r
      <4>1. handled'[r] = handled[r]  BY <2>1, <3>1, <3>3
      <4>2. QED BY <1>1, <4>1
    <3>4. QED BY <3>2, <3>3
  <2>5. handled'[r] \in Nat /\ up' = up /\ sound' = sound
    BY <1>0, <2>1 DEF GTyped, GdbTypeOK
  <2>6. QED BY <1>1, <1>2, <1>3, <2>3, <2>4, <2>5
<1>10. CASE GdbReads \/ GdbActs \/ UNCHANGED gdbVars
  <2>1. UNCHANGED <<at, line, handled>> /\ (UNCHANGED <<up, sound>> \/ Puts)
    BY <1>10, GdbPuts DEF server
  <2>2. InHand(r)' = InHand(r)  BY <2>1 DEF InHand
  <2>3. CASE UNCHANGED <<up, sound>>
    <3>1. AtHead(r)' = AtHead(r)  BY <2>1, <2>3 DEF AtHead
    <3>2. QED BY <1>3, <2>1, <2>2, <2>3, <3>1
  <2>4. CASE Puts
    <3>1. AtHead(r)' = AtHead(r)
      <4>1. at = "digits" => up # <<>>  BY DEF Wired
      <4>2. up # <<>> => Head(up') = Head(up)  BY <2>4, PutsFramed DEF Wired
      <4>3. QED BY <2>1, <4>1, <4>2 DEF AtHead
    <3>2. up \in Seq(Wire) /\ Framed(up) /\ sound \in [Requests -> Nat]
      BY DEF GTyped, GdbTypeOK, Wired
    <3>3. ASSUME NEW m \in {"+", "-"}, up' = Append(up, m), UNCHANGED sound
          PROVE  Coming(up', r) <= Coming(up, r) /\ sound'[r] = sound[r]
      BY <3>2, <3>3, ComingAppend
    <3>4. ASSUME NEW q \in Requests, NEW d \in {q, "?"}, up' = up \o Packet(q, d),
                 sound' = IF d = q THEN [sound EXCEPT ![q] = @ + 1] ELSE sound
          PROVE  \/ Coming(up', r) <= Coming(up, r) /\ sound[r] <= sound'[r]
                 \/ Coming(up', r) <= Coming(up, r) + 1 /\ sound'[r] = sound[r] + 1
      <4>1. q \in Requests /\ d \in Digit /\ r \in Requests  BY DEF Digit
      <4>2. Coming(up', r) <= Coming(up, r) + (IF d = r THEN 1 ELSE 0)
        <5>1. Coming(up \o Packet(q, d), r) <= Coming(up, r) + (IF d = r THEN 1 ELSE 0)
          BY ONLY <3>2, <4>1, ComingPacket
        <5>2. QED BY <3>4, <5>1
      <4>3. sound'[r] = IF d = q /\ q = r THEN sound[r] + 1 ELSE sound[r]
        BY <1>1, <3>2, <3>4
      <4>4. CASE d = r /\ q = r
        BY <4>2, <4>3, <4>4
      <4>5. d = r => q = r
        <5>1. r # "?"  BY GdbAssumption
        <5>2. QED BY <5>1
      <4>6. CASE d # r
        <5>1. Coming(up', r) <= Coming(up, r)  BY <1>1, <4>2, <4>6
        <5>2. sound'[r] = sound[r]  BY <4>3, <4>6
        <5>3. QED BY <1>1, <5>1, <5>2
      <4>7. QED BY <4>4, <4>5, <4>6
    <3>5. \/ Coming(up', r) <= Coming(up, r) /\ sound[r] <= sound'[r]
          \/ Coming(up', r) <= Coming(up, r) + 1 /\ sound'[r] = sound[r] + 1
      <4>1. CASE \E m \in {"+", "-"} : up' = Append(up, m) /\ UNCHANGED sound
        <5>1. Coming(up', r) <= Coming(up, r) /\ sound'[r] = sound[r]  BY <3>3, <4>1
        <5>2. QED BY <1>1, <5>1
      <4>2. ASSUME NEW q \in Requests, NEW d \in {q, "?"}, up' = up \o Packet(q, d),
                   sound' = IF d = q THEN [sound EXCEPT ![q] = @ + 1] ELSE sound
            PROVE  \/ Coming(up', r) <= Coming(up, r) /\ sound[r] <= sound'[r]
                   \/ Coming(up', r) <= Coming(up, r) + 1 /\ sound'[r] = sound[r] + 1
        BY <3>4, <4>2
      <4>3. QED BY <2>4, <4>1, <4>2 DEF Puts
    <3>6. sound'[r] \in Nat /\ handled' = handled
      BY <1>0, <2>1 DEF GTyped, GdbTypeOK
    <3>7. QED BY <1>1, <1>2, <1>3, <2>1, <2>2, <3>1, <3>5, <3>6
  <2>5. QED BY <2>1, <2>3, <2>4
<1>11. QED BY <1>5, <1>6, <1>7, <1>8, <1>9, <1>10 DEF GdbNext, Server

(* However packets and acknowledgements overtake each other: no request is *)
(* handled more often than it was sent undamaged, so that none that gdb    *)
(* does not repeat is carried out twice (gdb_debugger.cpp 105-178).        *)
THEOREM HandledOnlyWhatWasSent == GdbSpec => []HandledWasSent
<1> DEFINE Inv == GTyped /\ Wired /\ (~joined => InHandIsRequest /\ Counted)
<1>1. GdbInit => Inv
  <2>1. SUFFICES ASSUME GdbInit, NEW r \in Requests
                 PROVE  handled[r] + InHand(r) + AtHead(r) + Coming(up, r) <= sound[r]
    BY GdbInitTyped, GdbInitWired DEF Counted, GdbInit, InHandIsRequest
  <2>2. handled[r] = 0 /\ sound[r] = 0 /\ InHand(r) = 0 /\ AtHead(r) = 0
    BY <2>1 DEF GdbInit, InHand, AtHead
  <2>3. Dues(up, r) = {}  BY <2>1 DEF GdbInit, Dues
  <2>4. Coming(up, r) = 0  BY <2>3, FS_EmptySet DEF Coming
  <2>5. QED BY <2>2, <2>4
<1>2. Inv /\ [GdbNext]_gdbVars => Inv'
  <2>1. SUFFICES ASSUME Inv, [GdbNext]_gdbVars PROVE Inv'
    OBVIOUS
  <2>2. GTyped' /\ Wired'  BY <2>1, GdbStepTyped, WiredStep
  <2>3. ASSUME ~joined' PROVE InHandIsRequest' /\ Counted'
    <3>1. ~joined  BY <2>1, <2>3, JoinedStays
    <3>2. InHandIsRequest /\ Counted /\ Plainly  BY <2>1, <2>3, <3>1 DEF Plainly
    <3>3. QED BY <2>1, <2>3, <3>2, InHandStep, CountedStep
  <2>4. QED BY <2>2, <2>3
<1>3. Inv => HandledWasSent
  <2>1. SUFFICES ASSUME GTyped, ~joined => Counted, ~joined, NEW r \in Requests
                 PROVE  handled[r] <= sound[r]
    BY DEF HandledWasSent
  <2>2. QED BY <2>1, HandOf DEF Counted
<1> HIDE DEF Inv
<1>4. QED BY <1>1, <1>2, <1>3, PTL DEF GdbSpec

-------------------------------------------------------------------------------
(* The two sides keep in step.  A packet is live while the server may still  *)
(* read it as one: wait_ack_or_nak() reads on to the next sign and swallows  *)
(* every packet before it.                                                 *)
Signs == {"+", "-"}
Live(s, a) ==
  {i \in DOMAIN s : s[i] = "$" /\ (a = "ack" => \E j \in DOMAIN s : j < i /\ s[j] \in Signs)}
Reading == {"read", "digits"}
NothingLive == Live(up, at) = {} /\ at \notin Reading

(* The packets that the server may accept have the checksum of q.          *)
Names(s, a, q) ==
  \A k \in DOMAIN s :
    s[k] = "#" /\ (a \in Reading \/ \E i \in Live(s, a) : i < k) => s[k + 1] \in {q, "?"}

(* A server that waits for an acknowledgement swallows all packets of s.   *)
Covered(s) == \A i, j \in DOMAIN s : i < j /\ s[i] \in Signs => s[j] # "$"
CoveredAfter(s) ==
  \A h, i, j \in DOMAIN s : h < i /\ i < j /\ s[h] = "#" /\ s[i] \in Signs => s[j] # "$"

LEMMA TailLive ==
  ASSUME NEW s \in Seq(Wire), s # <<>>, NEW a, NEW b,
         a = "ack" => b = "ack" \/ Head(s) \in Signs
  PROVE  \A i \in Live(Tail(s), b) : i + 1 \in Live(s, a)
<1> DEFINE t == Tail(s)
           n == Len(s)
<1>1. /\ n \in Nat /\ DOMAIN s = 1..n /\ n >= 1 /\ Head(s) = s[1]
      /\ DOMAIN t = 1..(n - 1) /\ \A i \in 1..(n - 1) : t[i] = s[i + 1]
  BY TailOf
<1> HIDE DEF t, n
<1>2. SUFFICES ASSUME NEW i \in Live(t, b) PROVE i + 1 \in Live(s, a)
  BY DEF t
<1>3. i \in 1..(n - 1) /\ t[i] = "$"  BY <1>1 DEF Live
<1>4. i + 1 \in 1..n /\ s[i + 1] = "$"  BY <1>1, <1>3
<1>5. CASE a # "ack"  BY <1>1, <1>4, <1>5 DEF Live
<1>6. CASE Head(s) \in Signs
  <2>1. 1 \in 1..n /\ 1 < i + 1 /\ s[1] \in Signs  BY <1>1, <1>3, <1>6
  <2>2. QED BY <1>1, <1>4, <2>1 DEF Live
<1>7. CASE b = "ack"
  <2>1. PICK j \in 1..(n - 1) : j < i /\ t[j] \in Signs  BY <1>1, <1>7 DEF Live
  <2>2. j + 1 \in 1..n /\ j + 1 < i + 1 /\ s[j + 1] \in Signs  BY <1>1, <1>3, <2>1
  <2>3. QED BY <1>1, <1>4, <2>2 DEF Live
<1>8. QED BY <1>5, <1>6, <1>7

LEMMA AppendLive ==
  ASSUME NEW s \in Seq(Wire), NEW m \in Signs, NEW a
  PROVE  Live(Append(s, m), a) = Live(s, a)
<1> DEFINE t == Append(s, m)
           n == Len(s)
<1>1. m \in Wire /\ m # "$"  BY DEF Wire, Signs
<1>2. /\ n \in Nat /\ DOMAIN s = 1..n /\ DOMAIN t = 1..(n + 1)
      /\ \A i \in 1..n : t[i] = s[i]
      /\ t[n + 1] = m
  BY <1>1, AppendOf
<1> HIDE DEF t, n
<1>3. ASSUME NEW i \in Live(s, a) PROVE i \in Live(t, a)
  <2>1. i \in 1..n /\ i \in 1..(n + 1) /\ t[i] = "$"  BY <1>2 DEF Live
  <2>2. ASSUME a = "ack" PROVE \E j \in 1..(n + 1) : j < i /\ t[j] \in Signs
    <3>1. PICK j \in 1..n : j < i /\ s[j] \in Signs  BY <1>2, <2>2 DEF Live
    <3>2. j \in 1..(n + 1) /\ t[j] \in Signs  BY <1>2, <3>1
    <3>3. QED BY <3>1, <3>2
  <2>3. QED BY <1>2, <2>1, <2>2 DEF Live
<1>4. ASSUME NEW i \in Live(t, a) PROVE i \in Live(s, a)
  <2>1. i \in 1..(n + 1) /\ t[i] = "$"  BY <1>2 DEF Live
  <2>2. i \in 1..n /\ s[i] = "$"  BY <1>1, <1>2, <2>1
  <2>3. ASSUME a = "ack" PROVE \E j \in 1..n : j < i /\ s[j] \in Signs
    <3>1. PICK j \in 1..(n + 1) : j < i /\ t[j] \in Signs  BY <1>2, <2>3 DEF Live
    <3>2. j \in 1..n /\ s[j] \in Signs  BY <1>2, <2>2, <3>1
    <3>3. QED BY <3>1, <3>2
  <2>4. QED BY <1>2, <2>2, <2>3 DEF Live
<1>5. QED BY <1>3, <1>4 DEF t

LEMMA PacketLive ==
  ASSUME NEW s \in Seq(Wire), NEW r \in Requests, NEW d \in Digit, NEW a
  PROVE  Live(s \o Packet(r, d), a) \subseteq Live(s, a) \cup {Len(s) + 1}
<1> DEFINE t == s \o Packet(r, d)
           n == Len(s)
           l == Len(Text[r])
<1>0. s \in Seq(Wire) /\ r \in Requests /\ d \in Digit
  OBVIOUS
<1>1. n \in Nat /\ l \in Nat /\ DOMAIN s = 1..n  BY ONLY <1>0, Sent
<1>2. DOMAIN t = 1..(n + l + 3)  BY ONLY <1>0, Sent
<1>3. \A i \in 1..n : t[i] = s[i]  BY ONLY <1>0, Sent
<1>4. \A i \in (n + 2)..(n + l + 1) : t[i] \notin {"$", "#"}  BY ONLY <1>0, Sent
<1>5. t[n + l + 2] = "#" /\ t[n + l + 3] = d  BY ONLY <1>0, Sent
<1> HIDE DEF t, n, l
<1>6. d # "$"  BY GdbAssumption DEF Digit
<1>7. SUFFICES ASSUME NEW i \in Live(t, a), i # n + 1 PROVE i \in Live(s, a)
  BY DEF t, n
<1>8. i \in 1..(n + l + 3) /\ t[i] = "$"  BY <1>2 DEF Live
<1>9. i \notin (n + 2)..(n + l + 1) /\ i # n + l + 2 /\ i # n + l + 3
  BY <1>4, <1>5, <1>6, <1>8
<1>10. i \in 1..n  BY <1>1, <1>7, <1>8, <1>9
<1>11. ASSUME a = "ack" PROVE \E j \in 1..n : j < i /\ s[j] \in Signs
  <2>1. PICK j \in 1..(n + l + 3) : j < i /\ t[j] \in Signs  BY <1>2, <1>11 DEF Live
  <2>2. j \in 1..n /\ s[j] \in Signs  BY <1>1, <1>3, <1>10, <2>1
  <2>3. QED BY <2>1, <2>2
<1>12. QED BY <1>1, <1>3, <1>8, <1>10, <1>11 DEF Live

-------------------------------------------------------------------------------
LEMMA TailNames ==
  ASSUME NEW s \in Seq(Wire), s # <<>>, Framed(s), NEW a, NEW b, NEW q,
         a = "ack" => b = "ack" \/ Head(s) \in Signs,
         b \in Reading => a \in Reading \/ (Head(s) = "$" /\ a # "ack"),
         Names(s, a, q)
  PROVE  Names(Tail(s), b, q)
<1> DEFINE t == Tail(s)
           n == Len(s)
<1>1. /\ n \in Nat /\ DOMAIN s = 1..n /\ n >= 1 /\ Head(s) = s[1]
      /\ DOMAIN t = 1..(n - 1) /\ \A i \in 1..(n - 1) : t[i] = s[i + 1]
  BY TailOf
<1>2. \A i \in Live(t, b) : i + 1 \in Live(s, a)  BY TailLive
<1> HIDE DEF t, n
<1>3. SUFFICES ASSUME NEW k \in 1..(n - 1), t[k] = "#",
                      b \in Reading \/ \E i \in Live(t, b) : i < k
               PROVE  t[k + 1] \in {q, "?"}
  BY <1>1 DEF Names, t
<1>4. k + 1 \in 1..n /\ s[k + 1] = "#"  BY <1>1, <1>3
<1>5. a \in Reading \/ \E i \in Live(s, a) : i < k + 1
  <2>1. CASE b \in Reading /\ a \notin Reading
    <3>1. 1 \in DOMAIN s /\ s[1] = "$" /\ a # "ack"  BY <1>1, <2>1
    <3>2. 1 \in Live(s, a)  BY <3>1 DEF Live
    <3>3. 1 < k + 1  BY <1>1, <1>3
    <3>4. QED BY <3>2, <3>3
  <2>2. ASSUME NEW i \in Live(t, b), i < k PROVE \E j \in Live(s, a) : j < k + 1
    <3>1. i \in 1..(n - 1)  BY <1>1 DEF Live
    <3>2. i + 1 < k + 1  BY <1>1, <1>3, <2>2, <3>1
    <3>3. QED BY <1>2, <3>2
  <2>3. QED BY <1>3, <2>1, <2>2
<1>6. s[(k + 1) + 1] \in {q, "?"}  BY <1>1, <1>4, <1>5 DEF Names
<1>7. (k + 1) + 1 \in 1..n  BY <1>1, <1>4 DEF Framed
<1>8. k + 1 \in 1..(n - 1)  BY <1>1, <1>3, <1>7
<1>9. QED BY <1>1, <1>6, <1>8

LEMMA AppendNames ==
  ASSUME NEW s \in Seq(Wire), NEW m \in Signs, Framed(s), NEW a, NEW q, Names(s, a, q)
  PROVE  Names(Append(s, m), a, q)
<1> DEFINE t == Append(s, m)
           n == Len(s)
<1>1. m \in Wire /\ m # "#"  BY DEF Wire, Signs
<1>2. /\ n \in Nat /\ DOMAIN s = 1..n /\ DOMAIN t = 1..(n + 1)
      /\ \A i \in 1..n : t[i] = s[i]
      /\ t[n + 1] = m
  BY <1>1, AppendOf
<1>3. Live(t, a) = Live(s, a)  BY AppendLive
<1> HIDE DEF t, n
<1>4. SUFFICES ASSUME NEW k \in 1..(n + 1), t[k] = "#",
                      a \in Reading \/ \E i \in Live(s, a) : i < k
               PROVE  t[k + 1] \in {q, "?"}
  BY <1>2, <1>3 DEF Names, t
<1>5. k \in 1..n /\ s[k] = "#"  BY <1>1, <1>2, <1>4
<1>6. k + 1 \in 1..n  BY <1>2, <1>5 DEF Framed
<1>7. s[k + 1] \in {q, "?"}  BY <1>2, <1>4, <1>5 DEF Names
<1>8. QED BY <1>2, <1>6, <1>7

(* Where a packet has its "#", and with which digits behind it.            *)
LEMMA PacketHash ==
  ASSUME NEW s \in Seq(Wire), NEW r \in Requests, NEW d \in Digit, Framed(s),
         NEW k \in DOMAIN (s \o Packet(r, d)), (s \o Packet(r, d))[k] = "#"
  PROVE  \/ /\ k \in DOMAIN s /\ s[k] = "#" /\ k <= Len(s)
            /\ (s \o Packet(r, d))[k + 1] = s[k + 1]
         \/ /\ k = Len(s) + Len(Text[r]) + 2
            /\ (s \o Packet(r, d))[k + 1] = d
<1> DEFINE t == s \o Packet(r, d)
           n == Len(s)
           l == Len(Text[r])
<1>0. s \in Seq(Wire) /\ r \in Requests /\ d \in Digit
  OBVIOUS
<1>1. n \in Nat /\ l \in Nat /\ DOMAIN s = 1..n  BY ONLY <1>0, Sent
<1>2. DOMAIN t = 1..(n + l + 3)  BY ONLY <1>0, Sent
<1>3. \A i \in 1..n : t[i] = s[i]  BY ONLY <1>0, Sent
<1>4. t[n + 1] = "$" /\ \A i \in (n + 2)..(n + l + 1) : t[i] \notin {"$", "#"}
  <2>1. t[n + 1] = "$"  BY ONLY <1>0, Sent
  <2>2. \A i \in (n + 2)..(n + l + 1) : t[i] \notin {"$", "#"}  BY ONLY <1>0, Sent
  <2> HIDE DEF t, n, l
  <2>3. QED BY <2>1, <2>2
<1>5. t[n + l + 3] = d  BY ONLY <1>0, Sent
<1>6. k \in DOMAIN t /\ t[k] = "#"  OBVIOUS
<1> HIDE DEF t, n, l
<1>7. d # "#"  BY GdbAssumption DEF Digit
<1>8. k # n + 1 /\ k \notin (n + 2)..(n + l + 1) /\ k # n + l + 3
  BY <1>4, <1>5, <1>6, <1>7
<1>9. k \in 1..n \/ k = n + l + 2  BY <1>1, <1>2, <1>6, <1>8
<1>10. CASE k \in 1..n
  <2>1. s[k] = "#" /\ k <= n  BY <1>1, <1>3, <1>6, <1>10
  <2>2. k + 1 \in 1..n  BY <1>1, <1>10, <2>1 DEF Framed
  <2>3. QED BY <1>1, <1>3, <1>10, <2>1, <2>2 DEF t, n
<1>11. CASE k = n + l + 2
  <2>1. k + 1 = n + l + 3  BY <1>1, <1>11
  <2>2. QED BY <1>5, <1>11, <2>1 DEF t, n, l
<1>12. QED BY <1>9, <1>10, <1>11

LEMMA PacketNames ==
  ASSUME NEW s \in Seq(Wire), NEW q \in Requests, NEW d \in {q, "?"}, Framed(s), NEW a,
         Names(s, a, q) \/ (Live(s, a) = {} /\ a \notin Reading)
  PROVE  Names(s \o Packet(q, d), a, q)
<1> DEFINE t == s \o Packet(q, d)
<1>1. d \in Digit  BY DEF Digit
<1>2. Live(t, a) \subseteq Live(s, a) \cup {Len(s) + 1}  BY <1>1, PacketLive
<1>3. SUFFICES ASSUME NEW k \in DOMAIN t, t[k] = "#",
                      a \in Reading \/ \E i \in Live(t, a) : i < k
               PROVE  t[k + 1] \in {q, "?"}
  BY DEF Names
<1>4. \/ k \in DOMAIN s /\ s[k] = "#" /\ k <= Len(s) /\ t[k + 1] = s[k + 1]
      \/ t[k + 1] = d
  BY <1>1, <1>3, PacketHash
<1>5. Len(s) \in Nat /\ DOMAIN s = 1..Len(s)  OBVIOUS
<1> HIDE DEF t
<1>6. CASE k \in DOMAIN s /\ s[k] = "#" /\ k <= Len(s) /\ t[k + 1] = s[k + 1]
  <2>1. ~(Len(s) + 1 < k)  BY <1>5, <1>6
  <2>2. a \in Reading \/ \E i \in Live(s, a) : i < k  BY <1>2, <1>3, <2>1
  <2>3. Names(s, a, q)  BY <2>2
  <2>4. QED BY <1>6, <2>2, <2>3 DEF Names
<1>7. QED BY <1>4, <1>6

-------------------------------------------------------------------------------
LEMMA TailCovered ==
  ASSUME NEW s \in Seq(Wire), s # <<>>
  PROVE  /\ Covered(s) => Covered(Tail(s))
         /\ CoveredAfter(s) => CoveredAfter(Tail(s))
         /\ CoveredAfter(s) /\ Head(s) = "#" => Covered(Tail(s))
<1> DEFINE t == Tail(s)
           n == Len(s)
<1>1. /\ n \in Nat /\ DOMAIN s = 1..n /\ n >= 1 /\ Head(s) = s[1]
      /\ DOMAIN t = 1..(n - 1) /\ \A i \in 1..(n - 1) : t[i] = s[i + 1]
  BY TailOf
<1> HIDE DEF t, n
<1>2. \A i \in 1..(n - 1) : i + 1 \in 1..n /\ 1 < i + 1  BY <1>1
<1>3. \A i, j \in 1..(n - 1) : i < j => i + 1 < j + 1  BY <1>1
<1>4. 1 \in 1..n  BY <1>1
<1>5. Covered(s) => Covered(t)  BY <1>1, <1>2, <1>3 DEF Covered
<1>6. CoveredAfter(s) => CoveredAfter(t)
  <2>1. SUFFICES ASSUME CoveredAfter(s), NEW h \in 1..(n - 1), NEW i \in 1..(n - 1),
                        NEW j \in 1..(n - 1), h < i, i < j, t[h] = "#", t[i] \in Signs
                 PROVE  t[j] # "$"
    BY <1>1 DEF CoveredAfter
  <2>2. /\ h + 1 \in 1..n /\ i + 1 \in 1..n /\ j + 1 \in 1..n
        /\ h + 1 < i + 1 /\ i + 1 < j + 1
    BY <1>2, <1>3, <2>1
  <2>3. s[h + 1] = "#" /\ s[i + 1] \in Signs /\ s[j + 1] = t[j]  BY <1>1, <2>1
  <2>4. QED BY <1>1, <2>1, <2>2, <2>3 DEF CoveredAfter
<1>7. CoveredAfter(s) /\ Head(s) = "#" => Covered(t)
  BY <1>1, <1>2, <1>3, <1>4 DEF Covered, CoveredAfter
<1>8. QED BY <1>5, <1>6, <1>7 DEF t

LEMMA AppendCovered ==
  ASSUME NEW s \in Seq(Wire), NEW m \in Signs
  PROVE  /\ Covered(s) => Covered(Append(s, m))
         /\ CoveredAfter(s) => CoveredAfter(Append(s, m))
<1> DEFINE t == Append(s, m)
           n == Len(s)
<1>1. m \in Wire /\ m # "$"  BY DEF Wire, Signs
<1>2. /\ n \in Nat /\ DOMAIN s = 1..n /\ DOMAIN t = 1..(n + 1)
      /\ \A i \in 1..n : t[i] = s[i]
      /\ t[n + 1] = m
  BY <1>1, AppendOf
<1> HIDE DEF t, n
<1>3. \A i, j \in 1..(n + 1) : i < j /\ t[j] = "$" =>
        i \in 1..n /\ j \in 1..n /\ s[i] = t[i] /\ s[j] = "$"
  <2>1. SUFFICES ASSUME NEW i \in 1..(n + 1), NEW j \in 1..(n + 1), i < j, t[j] = "$"
                 PROVE  i \in 1..n /\ j \in 1..n /\ s[i] = t[i] /\ s[j] = "$"
    OBVIOUS
  <2>2. j # n + 1  BY <1>1, <1>2, <2>1
  <2>3. j \in 1..n /\ i \in 1..n  BY <1>2, <2>1, <2>2
  <2>4. QED BY <1>2, <2>1, <2>3
<1>4. Covered(s) => Covered(t)  BY <1>2, <1>3 DEF Covered
<1>5. CoveredAfter(s) => CoveredAfter(t)
  <2>1. SUFFICES ASSUME CoveredAfter(s), NEW h \in 1..(n + 1), NEW i \in 1..(n + 1),
                        NEW j \in 1..(n + 1), h < i, i < j, t[h] = "#", t[i] \in Signs,
                        t[j] = "$"
                 PROVE  FALSE
    BY <1>2 DEF CoveredAfter
  <2>2. h < j  BY <1>2, <2>1
  <2>3. h \in 1..n /\ i \in 1..n /\ j \in 1..n /\ s[h] = "#" /\ s[i] \in Signs /\ s[j] = "$"
    BY <1>3, <2>1, <2>2
  <2>4. QED BY <1>2, <2>1, <2>3 DEF CoveredAfter
<1>6. QED BY <1>4, <1>5 DEF t

LEMMA CoveredIs ==
  ASSUME NEW s
  PROVE  /\ Covered(s) => CoveredAfter(s) /\ Live(s, "ack") = {}
         /\ s = <<>> => Covered(s) /\ \A a, q : Live(s, a) = {} /\ Names(s, a, q)
BY DEF Covered, CoveredAfter, Live, Names

-------------------------------------------------------------------------------
(* The server's socket is invalid only once gdb has left.                  *)
SockOpen == ~sock => peer = "left"

LEMMA SockStep == SockOpen /\ [GdbNext]_gdbVars => SockOpen'
BY DEF SockOpen, GdbNext, Server, Select, EndOfRequest, WaitForStart, ReadLine, Accept, Refuse,
       ShortRead, Handle, Poll, SendReply, WaitForAck, NoAck, MeetEnd, TryAgain, GdbReads,
       TakeAck, TakeReply, RefuseReply, GdbActs, Ask, Repeat, GiveUp, Leave, gdbVars, server, gdb

(* How a step of the server moves on: it reads, or it stays outside of     *)
(* request() and wait_ack_or_nak().                                        *)
ReadsOn ==
  /\ Receive
  /\ at = "ack" => at' = "ack" \/ Head(up) \in Signs
  /\ at' \in Reading => at \in Reading \/ (Head(up) = "$" /\ at # "ack")
StaysOut == UNCHANGED up /\ at # "ack" /\ at' \notin Reading

LEMMA ServerMoves ==
  ASSUME SockOpen, peer # "left", Server
  PROVE  (ReadsOn \/ StaysOut) /\ UNCHANGED gdb
<1>1. CASE Select \/ EndOfRequest \/ Handle \/ Poll \/ SendReply \/ NoAck \/ TryAgain
  <2>1. ~NoAck /\ ~EndOfRequest  BY DEF NoAck, EndOfRequest, MeetEnd, SockOpen
  <2>2. StaysOut /\ UNCHANGED gdb
    BY <1>1, <2>1 DEF Select, Handle, Poll, SendReply, TryAgain, StaysOut, Reading
  <2>3. QED BY <2>2
<1>2. CASE WaitForStart \/ ReadLine \/ Accept \/ Refuse \/ ShortRead \/ WaitForAck
  <2>1. ReadsOn /\ UNCHANGED gdb
    BY <1>2 DEF WaitForStart, ReadLine, Accept, Refuse, ShortRead, WaitForAck, ReadsOn,
                Reading, Signs
  <2>2. QED BY <2>1
<1>3. QED BY <1>1, <1>2 DEF Server

LEMMA MovesLive ==
  ASSUME GTyped, ReadsOn \/ StaysOut
  PROVE  /\ ReadsOn => up \in Seq(Wire) /\ up # <<>> /\ up' = Tail(up)
                       /\ \A i \in Live(up', at') : i + 1 \in Live(up, at)
         /\ StaysOut => Live(up', at') \subseteq Live(up, at)
         /\ NothingLive => NothingLive'
<1>1. ASSUME ReadsOn
      PROVE  up \in Seq(Wire) /\ up # <<>> /\ up' = Tail(up)
             /\ \A i \in Live(up', at') : i + 1 \in Live(up, at)
  <2>1. up \in Seq(Wire) /\ up # <<>> /\ up' = Tail(up)
    BY <1>1 DEF ReadsOn, Receive, GTyped, GdbTypeOK
  <2>2. \A i \in Live(Tail(up), at') : i + 1 \in Live(up, at)
    BY <1>1, <2>1, TailLive DEF ReadsOn
  <2>3. QED BY <2>1, <2>2
<1>2. StaysOut => Live(up', at') \subseteq Live(up, at)
  BY DEF StaysOut, Live
<1>3. ASSUME NothingLive PROVE NothingLive'
  <2>1. Live(up', at') = {}  BY <1>1, <1>2, <1>3 DEF NothingLive
  <2>2. at' \notin Reading
    <3>1. CASE StaysOut  BY <3>1 DEF StaysOut
    <3>2. CASE ReadsOn
      <4>1. SUFFICES ASSUME at' \in Reading PROVE FALSE  OBVIOUS
      <4>2. Head(up) = "$" /\ at # "ack"  BY <1>3, <3>2, <4>1 DEF ReadsOn, NothingLive
      <4>3. 1 \in DOMAIN up /\ up[1] = "$"  BY <1>1, <3>2, <4>2, TailOf
      <4>4. 1 \in Live(up, at)  BY <4>2, <4>3 DEF Live
      <4>5. QED BY <1>3, <4>4 DEF NothingLive
    <3>3. QED BY <3>1, <3>2
  <2>3. QED BY <2>1, <2>2 DEF NothingLive
<1>4. QED BY <1>1, <1>2, <1>3

LEMMA MovesNames ==
  ASSUME GTyped, Wired, ReadsOn \/ StaysOut, NEW q, Names(up, at, q)
  PROVE  Names(up', at', q)
<1>1. CASE ReadsOn
  <2>1. up \in Seq(Wire) /\ up # <<>> /\ up' = Tail(up) /\ Framed(up)
    BY <1>1, MovesLive DEF Wired
  <2>2. Names(Tail(up), at', q)  BY <1>1, <2>1, TailNames DEF ReadsOn
  <2>3. QED BY <2>1, <2>2
<1>2. CASE StaysOut
  BY <1>2, MovesLive DEF StaysOut, Names
<1>3. QED BY <1>1, <1>2

(* Within a packet, "#" is followed by digits.                             *)
LEMMA HashThenDigits ==
  ASSUME GTyped, Wired, ReadLine, Head(up) = "#", NEW q, Names(up, at, q)
  PROVE  Head(up') \in {q, "?"}
<1>1. up \in Seq(Wire) /\ up # <<>> /\ up' = Tail(up) /\ at = "read" /\ Framed(up)
  BY DEF ReadLine, Receive, GTyped, GdbTypeOK, Wired
<1>2. /\ Len(up) \in Nat /\ DOMAIN up = 1..Len(up) /\ Len(up) >= 1 /\ up[1] = "#"
      /\ \A i \in 1..(Len(up) - 1) : Tail(up)[i] = up[i + 1]
  BY <1>1, TailOf
<1>3. 1 \in DOMAIN up  BY <1>2
<1>4. up[1 + 1] \in {q, "?"}  BY <1>1, <1>2, <1>3 DEF Names, Reading
<1>5. 1 + 1 \in DOMAIN up  BY <1>2, <1>3, <1>1 DEF Framed
<1>6. 1 \in 1..(Len(up) - 1)  BY <1>2, <1>5
<1>7. Tail(up)[1] = up[1 + 1]  BY <1>2, <1>6
<1>8. Tail(up) # <<>>  BY <1>1, TailFramed
<1>9. Head(Tail(up)) = Tail(up)[1]  BY <1>1, <1>8
<1>10. QED BY <1>1, <1>4, <1>7, <1>9

-------------------------------------------------------------------------------
(* What is on its way to gdb.                                              *)
Unacked(s) == \A i \in DOMAIN s : s[i] # Ack
Only(s, M) == \A i \in DOMAIN s : s[i] \in M
AckedFor(s, q) ==
  \E a \in DOMAIN s :
    /\ s[a] = Ack
    /\ \A i \in DOMAIN s : (i # a => s[i] # Ack) /\ (i > a => s[i] = Reply(q))
RepliesLast(s) == \A i, j \in DOMAIN s : i < j /\ s[i] # Ack => s[j] # Ack

LEMMA ReplyIsNoAck == \A r : Reply(r) # Ack
BY DEF Reply, Ack

LEMMA AppendDown ==
  ASSUME NEW s \in Seq(Answers), NEW m \in Answers, NEW q, NEW M
  PROVE  /\ Unacked(s) /\ m # Ack => Unacked(Append(s, m))
         /\ Unacked(s) /\ m = Ack => AckedFor(Append(s, m), q)
         /\ AckedFor(s, q) /\ m = Reply(q) => AckedFor(Append(s, m), q)
         /\ Only(s, M) /\ m \in M => Only(Append(s, m), M)
         /\ RepliesLast(s) /\ m # Ack => RepliesLast(Append(s, m))
         /\ Only(s, {Ack}) => RepliesLast(s)
<1> DEFINE t == Append(s, m)
           n == Len(s)
<1>1. /\ n \in Nat /\ DOMAIN s = 1..n /\ DOMAIN t = 1..(n + 1)
      /\ \A i \in 1..n : t[i] = s[i]
      /\ t[n + 1] = m
  BY AppendOf
<1> HIDE DEF t, n
<1>2. \A i \in 1..(n + 1) : i \in 1..n \/ i = n + 1  BY <1>1
<1>3. n + 1 \in 1..(n + 1) /\ \A i \in 1..n : i \in 1..(n + 1) /\ i # n + 1 /\ ~(i > n + 1)
  BY <1>1
<1>4. Unacked(s) /\ m # Ack => Unacked(t)
  BY <1>1, <1>2 DEF Unacked
<1>5. Unacked(s) /\ m = Ack => AckedFor(t, q)
  <2>1. SUFFICES ASSUME Unacked(s), m = Ack PROVE AckedFor(t, q)  OBVIOUS
  <2>2. \A i \in 1..(n + 1) : (i # n + 1 => t[i] # Ack) /\ ~(i > n + 1)
    BY <1>1, <1>2, <1>3, <2>1 DEF Unacked
  <2>3. QED BY <1>1, <1>3, <2>1, <2>2 DEF AckedFor
<1>6. AckedFor(s, q) /\ m = Reply(q) => AckedFor(t, q)
  <2>1. SUFFICES ASSUME AckedFor(s, q), m = Reply(q) PROVE AckedFor(t, q)  OBVIOUS
  <2>2. PICK a \in 1..n : /\ s[a] = Ack
                          /\ \A i \in 1..n : (i # a => s[i] # Ack) /\ (i > a => s[i] = Reply(q))
    BY <1>1, <2>1 DEF AckedFor
  <2>3. a \in 1..(n + 1) /\ t[a] = Ack  BY <1>1, <1>3, <2>2
  <2>4. \A i \in 1..(n + 1) : (i # a => t[i] # Ack) /\ (i > a => t[i] = Reply(q))
    BY <1>1, <1>2, <2>1, <2>2, ReplyIsNoAck
  <2>5. QED BY <1>1, <2>3, <2>4 DEF AckedFor
<1>7. Only(s, M) /\ m \in M => Only(t, M)
  BY <1>1, <1>2 DEF Only
<1>8. RepliesLast(s) /\ m # Ack => RepliesLast(t)
  <2>1. SUFFICES ASSUME RepliesLast(s), m # Ack, NEW i \in 1..(n + 1), NEW j \in 1..(n + 1),
                        i < j, t[i] # Ack
                 PROVE  t[j] # Ack
    BY <1>1 DEF RepliesLast
  <2>2. CASE j = n + 1  BY <1>1, <2>1, <2>2
  <2>3. CASE j \in 1..n
    <3>1. i \in 1..n  BY <1>1, <2>1, <2>3
    <3>2. QED BY <1>1, <2>1, <2>3, <3>1 DEF RepliesLast
  <2>4. QED BY <1>2, <2>2, <2>3
<1>9. Only(s, {Ack}) => RepliesLast(s)
  BY DEF Only, RepliesLast
<1>10. QED BY <1>4, <1>5, <1>6, <1>7, <1>8, <1>9 DEF t

LEMMA TailDown ==
  ASSUME NEW s \in Seq(Answers), s # <<>>, NEW q, NEW M
  PROVE  /\ Unacked(s) => Unacked(Tail(s)) /\ Head(s) # Ack
         /\ AckedFor(s, q) /\ Head(s) = Ack => Only(Tail(s), {Reply(q)})
         /\ AckedFor(s, q) /\ Head(s) # Ack => AckedFor(Tail(s), q)
         /\ Only(s, M) => Only(Tail(s), M) /\ Head(s) \in M
         /\ RepliesLast(s) => RepliesLast(Tail(s))
         /\ RepliesLast(s) /\ Head(s) # Ack => Unacked(Tail(s))
         /\ Only(s, {Ack}) => Only(Tail(s), {Ack}) /\ Head(s) = Ack
<1> DEFINE t == Tail(s)
           n == Len(s)
<1>1. /\ n \in Nat /\ DOMAIN s = 1..n /\ n >= 1 /\ Head(s) = s[1]
      /\ DOMAIN t = 1..(n - 1) /\ \A i \in 1..(n - 1) : t[i] = s[i + 1]
  BY TailOf
<1> HIDE DEF t, n
<1>2. \A i \in 1..(n - 1) : i + 1 \in 1..n /\ i + 1 # 1 /\ 1 < i + 1  BY <1>1
<1>3. 1 \in 1..n  BY <1>1
<1>4. Unacked(s) => Unacked(t) /\ Head(s) # Ack
  BY <1>1, <1>2, <1>3 DEF Unacked
<1>5. AckedFor(s, q) => IF Head(s) = Ack THEN Only(t, {Reply(q)}) ELSE AckedFor(t, q)
  <2>1. SUFFICES ASSUME AckedFor(s, q)
                 PROVE  IF Head(s) = Ack THEN Only(t, {Reply(q)}) ELSE AckedFor(t, q)
    OBVIOUS
  <2>2. PICK a \in 1..n : /\ s[a] = Ack
                          /\ \A i \in 1..n : (i # a => s[i] # Ack) /\ (i > a => s[i] = Reply(q))
    BY <1>1, <2>1 DEF AckedFor
  <2>3. CASE Head(s) = Ack
    <3>1. a = 1  BY <1>1, <1>3, <2>2, <2>3
    <3>2. \A i \in 1..(n - 1) : t[i] = Reply(q)  BY <1>1, <1>2, <2>2, <3>1
    <3>3. QED BY <1>1, <2>3, <3>2 DEF Only
  <2>4. CASE Head(s) # Ack
    <3>1. a # 1  BY <1>1, <2>2, <2>4
    <3>2. a - 1 \in 1..(n - 1) /\ (a - 1) + 1 = a  BY <1>1, <2>2, <3>1
    <3>3. t[a - 1] = Ack  BY <1>1, <2>2, <3>2
    <3>4. ASSUME NEW i \in 1..(n - 1)
          PROVE  (i # a - 1 => t[i] # Ack) /\ (i > a - 1 => t[i] = Reply(q))
      <4>1. i + 1 \in 1..n /\ t[i] = s[i + 1]  BY <1>1, <1>2
      <4>2. (i # a - 1 => i + 1 # a) /\ (i > a - 1 => i + 1 > a)  BY <1>1, <2>2
      <4>3. QED BY <2>2, <4>1, <4>2
    <3>5. QED BY <1>1, <2>4, <3>2, <3>3, <3>4 DEF AckedFor
  <2>5. QED BY <2>3, <2>4
<1>6. Only(s, M) => Only(t, M) /\ Head(s) \in M
  BY <1>1, <1>2, <1>3 DEF Only
<1>7. RepliesLast(s) => RepliesLast(t)
  <2>1. \A i, j \in 1..(n - 1) : i < j => i + 1 < j + 1  BY <1>1
  <2>2. QED BY <1>1, <1>2, <2>1 DEF RepliesLast
<1>8. RepliesLast(s) /\ Head(s) # Ack => Unacked(t)
  BY <1>1, <1>2, <1>3 DEF RepliesLast, Unacked
<1>9. Only(s, {Ack}) => Only(t, {Ack}) /\ Head(s) = Ack
  BY <1>1, <1>2, <1>3 DEF Only
<1>10. QED BY <1>4, <1>5, <1>6, <1>7, <1>8, <1>9 DEF t

-------------------------------------------------------------------------------
(* What the server has in hand, if anything, is the request gdb is at.     *)
OnAsking ==
  /\ at = "handle" => line = Text[asking]
  /\ at \in Answering => reply = asking
DigitsFit == at = "digits" => Head(up) \in {asking, "?"}

(* Until gdb repeats a request there is one packet at most that may still  *)
(* be acknowledged, and nothing on its way that answers an earlier one.    *)
ToCome ==
  /\ Unacked(down)
  /\ \A i, j \in Live(up, at) : i = j
  /\ at \in Reading => Live(up, at) = {}
  /\ Names(up, at, asking) /\ DigitsFit
HasCome == AckedFor(down, asking) /\ NothingLive /\ OnAsking
Normal ==
  /\ peer = "idle" => NothingLive /\ Unacked(down)
  /\ peer = "wait ack" => ToCome \/ HasCome
  /\ peer = "wait reply" => NothingLive /\ OnAsking /\ Only(down, {Reply(asking)})

(* What the server says, and what it has in hand afterwards.               *)
SaysAck ==
  /\ down' = Append(down, Ack) /\ at = "digits" /\ at' \in {"handle", "gone"}
  /\ Head(up) \in Requests /\ line' = Text[Head(up)]
SaysReply ==
  /\ down' = Append(down, Reply(reply)) /\ at = "send" /\ at' = "ack" /\ UNCHANGED reply

LEMMA ServerSays ==
  ASSUME GTyped, Wired, SockOpen, peer # "left", Plainly, Server
  PROVE  /\ SaysAck \/ (at' # "handle" /\ (SaysReply \/ UNCHANGED down))
         /\ peer \in {"wait ack", "wait reply"} /\ OnAsking /\ ~SaysAck => OnAsking'
         /\ SaysAck /\ asking \in Requests /\ DigitsFit => OnAsking'
         /\ \A q : at' = "digits" /\ Names(up, at, q) => Head(up') \in {q, "?"}
<1>1. UNCHANGED gdb  BY ServerMoves
<1>2. CASE Accept
  <2>1. SaysAck  BY <1>2, AcceptIs DEF Accept, Send, Plainly, SaysAck
  <2>2. asking \in Requests /\ DigitsFit => OnAsking'
    <3>1. SUFFICES ASSUME asking \in Requests, DigitsFit PROVE OnAsking'  OBVIOUS
    <3>2. Head(up) \in {asking, "?"} /\ Head(up) \in Requests  BY <2>1, <3>1 DEF SaysAck, DigitsFit
    <3>3. Head(up) = asking  BY <3>2, GdbAssumption
    <3>4. QED BY <1>1, <2>1, <3>3 DEF SaysAck, OnAsking, Answering, gdb
  <2>3. at' # "digits"  BY <2>1 DEF SaysAck
  <2>4. QED BY <2>1, <2>2, <2>3
<1>3. CASE SendReply
  <2>1. SaysReply /\ ~SaysAck /\ at' = "ack"
    BY <1>3 DEF SendReply, SockOpen, Send, SaysReply, SaysAck
  <2>2. OnAsking => OnAsking'
    BY <1>1, <2>1 DEF SaysReply, OnAsking, Answering, gdb
  <2>3. QED BY <2>1, <2>2
<1>4. CASE Handle
  <2>1. PICK r \in Requests :
          /\ at = "handle" /\ line = Text[r] /\ reply' = r
          /\ at' \in {"poll", "select", "send"}
          /\ UNCHANGED down
    BY <1>4, HandleIs DEF Handle
  <2>2. at' \in {"poll", "select", "send"} /\ ~SaysAck  BY <2>1 DEF SaysAck
  <2>3. peer \in {"wait ack", "wait reply"} /\ OnAsking => OnAsking'
    <3>1. SUFFICES ASSUME peer \in {"wait ack", "wait reply"}, OnAsking PROVE OnAsking'
      OBVIOUS
    <3>2. asking \in Requests /\ line = Text[asking]
      BY <2>1, <3>1 DEF GTyped, Replies, OnAsking
    <3>3. r = asking  BY <2>1, <3>2, GdbAssumption
    <3>4. QED BY <1>1, <2>1, <2>2, <3>3 DEF OnAsking, gdb
  <2>4. QED BY <2>1, <2>2, <2>3
<1>5. CASE ReadLine
  <2>1. at = "read" /\ UNCHANGED down /\ at' \in Reading /\ (at' = "digits" => Head(up) = "#")
    BY <1>5 DEF ReadLine, Reading
  <2>2. OnAsking' /\ ~SaysAck /\ at' # "handle"
    BY <2>1 DEF OnAsking, Reading, Answering, SaysAck
  <2>3. \A q : at' = "digits" /\ Names(up, at, q) => Head(up') \in {q, "?"}
    BY <1>5, <2>1, HashThenDigits
  <2>4. QED BY <2>1, <2>2, <2>3
<1>6. CASE WaitForStart \/ Refuse \/ ShortRead
  <2>1. UNCHANGED down /\ at' \in {"start", "read", "gone"}
    BY <1>6 DEF WaitForStart, Refuse, ShortRead
  <2>2. OnAsking' /\ ~SaysAck /\ at' # "handle" /\ at' # "digits"
    BY <2>1 DEF OnAsking, Answering, SaysAck
  <2>3. QED BY <2>1, <2>2
<1>7. CASE Select \/ EndOfRequest \/ Poll \/ WaitForAck \/ NoAck \/ TryAgain
  <2>1. /\ UNCHANGED <<down, reply>>
        /\ \/ at \in Answering /\ at' \in Answering \cup {"select"}
           \/ at' \in {"start", "gone"}
    BY <1>7 DEF Select, EndOfRequest, Poll, WaitForAck, NoAck, TryAgain, Answering
  <2>2. ~SaysAck /\ at' # "handle" /\ at' # "digits"  BY <2>1 DEF Answering, SaysAck
  <2>3. OnAsking => OnAsking'  BY <1>1, <2>1, <2>2 DEF OnAsking, Answering, gdb
  <2>4. QED BY <2>1, <2>2, <2>3
<1>8. QED BY <1>2, <1>3, <1>4, <1>5, <1>6, <1>7 DEF Server

LEMMA NormalServer ==
  ASSUME GTyped, Wired, SockOpen, peer # "left", Plainly, Server, Normal
  PROVE  Normal'
<1> DEFINE Says == SaysAck \/ (at' # "handle" /\ (SaysReply \/ UNCHANGED down))
<1>1. (ReadsOn \/ StaysOut) /\ UNCHANGED <<peer, asking>>  BY ServerMoves DEF gdb
<1>2. NothingLive => NothingLive' /\ ~SaysAck
  BY <1>1, MovesLive DEF NothingLive, Reading, SaysAck
<1>3. Says  BY ServerSays
<1>4. down \in Seq(Answers)  BY DEF GTyped, GdbTypeOK, Answers
<1>5. /\ SaysAck => down' = Append(down, Ack) /\ Ack \in Answers
      /\ SaysReply => down' = Append(down, Reply(reply)) /\ Reply(reply) \in Answers
                      /\ (OnAsking => reply = asking)
  BY DEF SaysAck, SaysReply, Answers, GTyped, Replies, Answering, OnAsking
<1>6. Unacked(down) /\ ~SaysAck => Unacked(down')
  BY <1>3, <1>4, <1>5, AppendDown, ReplyIsNoAck DEF Unacked
<1>7. CASE peer = "idle"
  <2>1. NothingLive /\ Unacked(down)  BY <1>7 DEF Normal
  <2>2. NothingLive' /\ Unacked(down')  BY <1>2, <1>6, <2>1
  <2>3. QED BY <1>1, <1>7, <2>2 DEF Normal
<1>8. CASE peer = "wait reply"
  <2>1. NothingLive /\ OnAsking /\ Only(down, {Reply(asking)})  BY <1>8 DEF Normal
  <2>2. NothingLive' /\ ~SaysAck  BY <1>2, <2>1
  <2>3. OnAsking'  BY <1>8, <2>1, <2>2, ServerSays
  <2>4. Only(down', {Reply(asking)})
    <3>1. CASE SaysReply
      <4>1. Reply(reply) \in {Reply(asking)}  BY <1>5, <2>1, <3>1
      <4>2. QED BY <1>4, <1>5, <2>1, <3>1, <4>1, AppendDown
    <3>2. CASE UNCHANGED down  BY <2>1, <3>2
    <3>3. QED BY <1>3, <2>2, <3>1, <3>2
  <2>5. QED BY <1>1, <1>8, <2>2, <2>3, <2>4 DEF Normal
<1>9. CASE peer = "wait ack" /\ HasCome
  <2>1. NothingLive /\ OnAsking /\ AckedFor(down, asking)  BY <1>9 DEF HasCome
  <2>2. NothingLive' /\ ~SaysAck  BY <1>2, <2>1
  <2>3. OnAsking'  BY <1>9, <2>1, <2>2, ServerSays
  <2>4. AckedFor(down', asking)
    <3>1. CASE SaysReply
      <4>1. Reply(reply) = Reply(asking)  BY <1>5, <2>1, <3>1
      <4>2. QED BY <1>4, <1>5, <2>1, <3>1, <4>1, AppendDown
    <3>2. CASE UNCHANGED down  BY <2>1, <3>2
    <3>3. QED BY <1>3, <2>2, <3>1, <3>2
  <2>5. HasCome'  BY <1>1, <2>2, <2>3, <2>4 DEF HasCome
  <2>6. QED BY <1>1, <1>9, <2>5 DEF Normal
<1>10. CASE peer = "wait ack" /\ ToCome
  <2>1. asking \in Requests  BY <1>10 DEF GTyped, Replies
  <2>2. CASE SaysAck
    <3>1. at \in Reading /\ at' \notin Reading  BY <2>2 DEF SaysAck, Reading
    <3>2. Live(up, at) = {}  BY <1>10, <3>1 DEF ToCome
    <3>3. Live(up', at') = {}  BY <1>1, <3>2, MovesLive
    <3>4. OnAsking'  BY <1>10, <2>1, <2>2, ServerSays DEF ToCome
    <3>5. AckedFor(down', asking)  BY <1>4, <1>5, <1>10, <2>2, AppendDown DEF ToCome
    <3>6. HasCome'  BY <1>1, <3>1, <3>3, <3>4, <3>5 DEF HasCome, NothingLive
    <3>7. QED BY <1>1, <1>10, <3>6 DEF Normal
  <2>3. CASE ~SaysAck
    <3>1. Unacked(down')  BY <1>6, <1>10, <2>3 DEF ToCome
    <3>2. ASSUME NEW i \in Live(up', at'), NEW j \in Live(up', at') PROVE i = j
      <4>1. CASE ReadsOn
        <5>1. i + 1 \in Live(up, at) /\ j + 1 \in Live(up, at)  BY <4>1, MovesLive
        <5>2. i + 1 = j + 1  BY <1>10, <5>1 DEF ToCome
        <5>3. up' \in Seq(Wire)  BY <4>1, MovesLive, TailOf
        <5>4. i \in Nat /\ j \in Nat  BY <5>3 DEF Live
        <5>5. QED BY <5>2, <5>4
      <4>2. CASE StaysOut
        <5>1. i \in Live(up, at) /\ j \in Live(up, at)  BY <4>2, MovesLive
        <5>2. QED BY <1>10, <5>1 DEF ToCome
      <4>3. QED BY <1>1, <4>1, <4>2
    <3>3. ASSUME at' \in Reading PROVE Live(up', at') = {}
      <4>1. ReadsOn  BY <1>1, <3>3 DEF StaysOut
      <4>2. CASE at \in Reading
        <5>1. Live(up, at) = {}  BY <1>10, <4>2 DEF ToCome
        <5>2. QED BY <4>1, <5>1, MovesLive
      <4>3. CASE Head(up) = "$" /\ at # "ack"
        <5>1. /\ up \in Seq(Wire) /\ up # <<>> /\ up' = Tail(up)
              /\ \A i \in Live(up', at') : i + 1 \in Live(up, at)
          BY <4>1, MovesLive
        <5>2. 1 \in DOMAIN up /\ up[1] = "$"  BY <4>3, <5>1, TailOf
        <5>3. 1 \in Live(up, at)  BY <4>3, <5>2 DEF Live
        <5>4. SUFFICES ASSUME NEW i \in Live(up', at') PROVE FALSE  OBVIOUS
        <5>5. i + 1 = 1  BY <1>10, <5>1, <5>3 DEF ToCome
        <5>6. i \in 1..(Len(up) - 1) /\ Len(up) \in Nat  BY <5>1, TailOf DEF Live
        <5>7. QED BY <5>5, <5>6
      <4>4. QED BY <3>3, <4>1, <4>2, <4>3 DEF ReadsOn
    <3>4. Names(up, at, asking)  BY <1>10 DEF ToCome
    <3>5. Names(up', at', asking)  BY <1>1, <3>4, MovesNames
    <3>6. DigitsFit'  BY <1>1, <3>4, ServerSays DEF DigitsFit
    <3>7. ToCome'  BY <1>1, <3>1, <3>2, <3>3, <3>5, <3>6 DEF ToCome
    <3>8. QED BY <1>1, <1>10, <3>7 DEF Normal
  <2>4. QED BY <2>2, <2>3
<1>11. QED BY <1>7, <1>8, <1>9, <1>10 DEF Normal, GTyped, GdbTypeOK, PeerPlaces

-------------------------------------------------------------------------------
LEMMA SignPut ==
  ASSUME GTyped, Wired, NEW m \in Signs, up' = Append(up, m), UNCHANGED <<at, line, reply, asking>>
  PROVE  /\ Live(up', at') = Live(up, at)
         /\ NothingLive => NothingLive'
         /\ \A a : Names(up, a, asking) => Names(up', a, asking')
         /\ DigitsFit => DigitsFit'
         /\ OnAsking => OnAsking'
<1>1. up \in Seq(Wire) /\ Framed(up)  BY DEF GTyped, GdbTypeOK, Wired
<1>2. Live(up', at') = Live(up, at)  BY <1>1, AppendLive
<1>3. \A a : Names(up, a, asking) => Names(up', a, asking')  BY <1>1, AppendNames
<1>4. DigitsFit => DigitsFit'
  <2>1. at = "digits" => up # <<>>  BY DEF Wired
  <2>2. up # <<>> => Head(up') = Head(up)  BY <1>1, AppendFramed DEF Signs
  <2>3. QED BY <2>1, <2>2 DEF DigitsFit
<1>5. QED BY <1>2, <1>3, <1>4 DEF NothingLive, OnAsking

LEMMA NormalGdb ==
  ASSUME GTyped, Wired, Normal, GdbReads \/ GdbActs \/ UNCHANGED gdbVars, ~Repeat,
         peer' # "left"
  PROVE  Normal'
<1>1. /\ up \in Seq(Wire) /\ Framed(up)
      /\ down \in Seq(Answers)
      /\ peer \in {"wait ack", "wait reply"} => asking \in Requests
  BY DEF GTyped, GdbTypeOK, Wired, Answers, Replies
<1>2. Only(down, {Reply(asking)}) => Unacked(down)
  BY ReplyIsNoAck DEF Only, Unacked
<1>3. CASE TakeAck
  <2>1. peer = "wait ack" /\ down # <<>> /\ down' = Tail(down) /\ UNCHANGED <<server, asking>>
    BY <1>3 DEF TakeAck
  <2>2. ToCome \/ HasCome  BY <2>1 DEF Normal
  <2>3. CASE Head(down) = Ack
    <3>1. UNCHANGED up /\ peer' = "wait reply"  BY <1>3, <2>3 DEF TakeAck
    <3>2. HasCome  BY <1>1, <2>1, <2>2, <2>3, TailDown DEF ToCome
    <3>3. Only(down', {Reply(asking)})  BY <1>1, <2>1, <2>3, <3>2, TailDown DEF HasCome
    <3>4. NothingLive' /\ OnAsking'
      BY <2>1, <3>1, <3>2 DEF HasCome, NothingLive, OnAsking, server
    <3>5. QED BY <2>1, <3>1, <3>3, <3>4 DEF Normal
  <2>4. CASE Head(down) # Ack
    <3>1. up' = Append(up, "+") /\ UNCHANGED peer  BY <1>3, <2>4 DEF TakeAck
    <3>2. "+" \in Signs /\ UNCHANGED <<at, line, reply, asking>>  BY <2>1 DEF Signs, server
    <3>3. ASSUME ToCome PROVE ToCome'
      <4>1. Unacked(down')  BY <1>1, <2>1, <3>3, TailDown DEF ToCome
      <4>2. Live(up', at') = Live(up, at) /\ Names(up', at', asking') /\ DigitsFit'
        BY <3>1, <3>2, <3>3, SignPut DEF ToCome
      <4>3. QED BY <3>2, <3>3, <4>1, <4>2 DEF ToCome
    <3>4. ASSUME HasCome PROVE HasCome'
      <4>1. AckedFor(down', asking)  BY <1>1, <2>1, <2>4, <3>4, TailDown DEF HasCome
      <4>2. NothingLive' /\ OnAsking'  BY <3>1, <3>2, <3>4, SignPut DEF HasCome
      <4>3. QED BY <3>2, <4>1, <4>2 DEF HasCome
    <3>5. QED BY <2>1, <2>2, <3>1, <3>3, <3>4 DEF Normal
  <2>5. QED BY <2>3, <2>4
<1>4. CASE TakeReply \/ RefuseReply
  <2>1. peer = "wait reply" /\ down # <<>> /\ down' = Tail(down) /\ UNCHANGED <<server, asking>>
    BY <1>4 DEF TakeReply, RefuseReply
  <2>2. NothingLive /\ OnAsking /\ Only(down, {Reply(asking)})  BY <2>1 DEF Normal
  <2>3. Head(down) # Ack /\ Only(down', {Reply(asking)}) /\ Unacked(down')
    BY <1>1, <1>2, <2>1, <2>2, TailDown
  <2>4. PICK m \in Signs : up' = Append(up, m)
    BY <1>4, <2>3 DEF TakeReply, RefuseReply, Signs
  <2>5. peer' \in {"idle", "wait reply"}
    BY <1>4, <2>1 DEF TakeReply, RefuseReply
  <2>6. UNCHANGED <<at, line, reply, asking>>  BY <2>1 DEF server
  <2>7. NothingLive' /\ OnAsking'  BY <2>2, <2>4, <2>6, SignPut
  <2>8. QED BY <2>3, <2>5, <2>6, <2>7 DEF Normal
<1>5. ASSUME NEW r \in Requests, Ask(r) PROVE Normal'
  <2>1. /\ peer = "idle" /\ peer' = "wait ack" /\ asking' = r /\ UNCHANGED <<down, at>>
        /\ Transmit(r)
    BY <1>5 DEF Ask, server
  <2>2. NothingLive /\ Unacked(down)  BY <2>1 DEF Normal
  <2>3. PICK d \in {r, "?"} : up' = up \o Packet(r, d)  BY <2>1 DEF Transmit
  <2>4. Live(up', at) \subseteq Live(up, at) \cup {Len(up) + 1}
    BY <1>1, <2>3, PacketLive DEF Digit
  <2>5. Names(up', at, r)  BY <1>1, <2>2, <2>3, PacketNames DEF NothingLive
  <2>6. \A i, j \in Live(up', at) : i = j  BY <2>2, <2>4 DEF NothingLive
  <2>7. at \notin Reading  BY <2>2 DEF NothingLive
  <2>8. ToCome'  BY <2>1, <2>2, <2>5, <2>6, <2>7 DEF ToCome, DigitsFit, Reading
  <2>9. QED BY <2>1, <2>8 DEF Normal
<1>6. CASE GiveUp
  <2>1. peer = "wait reply" /\ peer' = "idle" /\ UNCHANGED <<up, down, at, asking>>
    BY <1>6 DEF GiveUp, server
  <2>2. NothingLive /\ Unacked(down)  BY <1>2, <2>1 DEF Normal
  <2>3. QED BY <2>1, <2>2 DEF Normal, NothingLive
<1>7. CASE Leave
  BY <1>7 DEF Leave
<1>8. CASE UNCHANGED gdbVars
  BY <1>8 DEF gdbVars, server, gdb, Normal, ToCome, HasCome, NothingLive, OnAsking, DigitsFit
<1>9. QED BY <1>3, <1>4, <1>5, <1>6, <1>7, <1>8 DEF GdbReads, GdbActs

(* gdb keeps in step as long as it does not repeat a request.              *)
LEMMA NormalStep ==
  ASSUME GTyped, Wired, SockOpen, Normal, Plainly, [GdbNext]_gdbVars, ~Repeat, peer' # "left"
  PROVE  Normal'
<1>1. CASE Server
  <2>1. peer # "left"
    BY <1>1 DEF Server, Select, EndOfRequest, WaitForStart, ReadLine, Accept, Refuse, ShortRead,
                Handle, Poll, SendReply, WaitForAck, NoAck, TryAgain, gdb
  <2>2. QED BY <1>1, <2>1, NormalServer
<1>2. CASE GdbReads \/ GdbActs \/ UNCHANGED gdbVars
  BY <1>2, NormalGdb
<1>3. QED BY <1>1, <1>2 DEF GdbNext

LEMMA NormalTakes ==
  ASSUME GTyped, Normal, TakesReply, [GdbNext]_gdbVars
  PROVE  Head(down).to = asking
<1>1. Only(down, {Reply(asking)})  BY DEF TakesReply, Normal
<1>2. down \in Seq(Answers)  BY DEF GTyped, GdbTypeOK, Answers
<1>3. down # <<>>
  <2>1. CASE Server
    BY <2>1 DEF TakesReply, Server, Select, EndOfRequest, WaitForStart, ReadLine, Accept, Refuse,
                ShortRead, Handle, Poll, SendReply, WaitForAck, NoAck, TryAgain, gdb
  <2>2. CASE GdbReads
    BY <2>2 DEF GdbReads, TakeAck, TakeReply, RefuseReply
  <2>3. CASE GdbActs \/ UNCHANGED gdbVars
    BY <2>3 DEF TakesReply, GdbActs, Repeat, GiveUp, Leave, Ask, gdbVars
  <2>4. QED BY <2>1, <2>2, <2>3 DEF GdbNext
<1>4. Head(down) = Reply(asking)  BY <1>1, <1>2, <1>3, TailDown
<1>5. QED BY <1>4 DEF Reply

-------------------------------------------------------------------------------
(* Once gdb has repeated a request, two copies of it may be under way, and *)
(* the server acknowledges each.  But then no packet is behind a sign that *)
(* the server will read as the acknowledgement of a reply: it swallows the *)
(* copies that it has not read when it replies, so that no acknowledgement *)
(* comes after the reply.  It may still wait for the acknowledgement of    *)
(* the reply before, which is then the first thing it reads.               *)
Before == at = "ack" /\ up # <<>> /\ Head(up) = "+"
Copied ==
  /\ peer \in {"wait ack", "wait reply"}
  /\ Only(down, {Ack, Reply(asking)}) /\ RepliesLast(down)
  /\ Only(down, {Ack}) \/ NothingLive
  /\ Names(up, "read", asking) /\ DigitsFit
  /\ CoveredAfter(up)
  /\ \/ OnAsking /\ (at \in {"digits", "handle"} \cup Answering => Covered(up))
     \/ Before /\ Only(down, {Ack})

LEMMA CopiedServer ==
  ASSUME GTyped, Wired, SockOpen, peer # "left", Plainly, Server, Copied
  PROVE  Copied'
<1>1. (ReadsOn \/ StaysOut) /\ UNCHANGED <<peer, asking>>  BY ServerMoves DEF gdb
<1>2. SaysAck \/ SaysReply \/ UNCHANGED down  BY ServerSays
<1>3. /\ down \in Seq(Answers) /\ up \in Seq(Wire) /\ Framed(up)
      /\ peer \in {"wait ack", "wait reply"} /\ asking \in Requests
  BY DEF GTyped, GdbTypeOK, Answers, Wired, Copied, Replies
<1>4. Only(down, {Ack, Reply(asking)}) /\ RepliesLast(down) /\ (Only(down, {Ack}) \/ NothingLive)
      /\ Names(up, "read", asking) /\ DigitsFit /\ CoveredAfter(up)
  BY DEF Copied
<1>5. Names(up', "read", asking)
  <2>1. CASE ReadsOn
    <3>1. up # <<>> /\ up' = Tail(up)  BY <2>1, MovesLive
    <3>2. QED BY <1>3, <1>4, <3>1, TailNames DEF Reading
  <2>2. CASE StaysOut  BY <1>4, <2>2 DEF StaysOut
  <2>3. QED BY <1>1, <2>1, <2>2
<1>6. DigitsFit'
  <2>1. Names(up, at, asking)  BY <1>4 DEF Names, Reading
  <2>2. QED BY <1>1, <2>1, ServerSays DEF DigitsFit
<1>7. CoveredAfter(up') /\ (Covered(up) => Covered(up'))
  <2>1. CASE ReadsOn
    <3>1. up # <<>> /\ up' = Tail(up)  BY <2>1, MovesLive
    <3>2. QED BY <1>3, <1>4, <3>1, TailCovered
  <2>2. CASE StaysOut  BY <1>4, <2>2 DEF StaysOut
  <2>3. QED BY <1>1, <2>1, <2>2
<1>8. CASE OnAsking /\ (at \in {"digits", "handle"} \cup Answering => Covered(up))
  <2>1. OnAsking'  BY <1>3, <1>4, <1>8, ServerSays
  <2>2. ASSUME at' \in {"digits", "handle"} \cup Answering PROVE Covered(up')
    <3>1. CASE at \in {"digits", "handle"} \cup Answering  BY <1>7, <1>8, <3>1
    <3>2. CASE at \notin {"digits", "handle"} \cup Answering
      <4>1. ReadLine /\ Head(up) = "#"
        BY <2>2, <3>2 DEF Answering, Server, Select, EndOfRequest, WaitForStart, ReadLine, Accept,
             Refuse, ShortRead, Handle, Poll, SendReply, WaitForAck, NoAck, TryAgain
      <4>2. up # <<>> /\ up' = Tail(up)  BY <4>1 DEF ReadLine, Receive
      <4>3. QED BY <1>3, <1>4, <4>1, <4>2, TailCovered
    <3>3. QED BY <3>1, <3>2
  <2>3. CASE SaysAck
    <3>1. ~NothingLive /\ down' = Append(down, Ack) /\ Ack \in Answers
      BY <2>3 DEF SaysAck, NothingLive, Reading, Answers
    <3>2. Only(down, {Ack})  BY <1>4, <3>1
    <3>3. Only(down', {Ack})  BY <1>3, <3>1, <3>2, AppendDown
    <3>5. RepliesLast(down') /\ Only(down', {Ack, Reply(asking)})
      BY <3>3 DEF RepliesLast, Only
    <3>6. QED BY <1>1, <1>3, <1>5, <1>6, <1>7, <2>1, <2>2, <3>3, <3>5 DEF Copied
  <2>4. CASE SaysReply
    <3>1. /\ down' = Append(down, Reply(reply)) /\ at = "send" /\ at' = "ack" /\ reply = asking
          /\ Reply(reply) \in Answers /\ Reply(reply) # Ack
      BY <1>3, <1>8, <2>4, ReplyIsNoAck DEF SaysReply, OnAsking, Answering, Answers
    <3>2. RepliesLast(down')  BY <1>3, <1>4, <3>1, AppendDown
    <3>3. Only(down', {Ack, Reply(asking)})
      <4>1. Reply(reply) \in {Ack, Reply(asking)}  BY <3>1
      <4>2. QED BY <1>3, <1>4, <3>1, <4>1, AppendDown
    <3>4. Live(up', at') = {}
      <4>1. Covered(up')  BY <2>2, <3>1 DEF Answering
      <4>2. QED BY <3>1, <4>1, CoveredIs
    <3>5. NothingLive'  BY <3>1, <3>4 DEF NothingLive, Reading
    <3>6. QED BY <1>1, <1>3, <1>5, <1>6, <1>7, <2>1, <2>2, <3>2, <3>3, <3>5 DEF Copied
  <2>5. CASE UNCHANGED down
    <3>1. (Only(down, {Ack}) \/ NothingLive)'  BY <1>1, <1>4, <2>5, MovesLive
    <3>2. QED BY <1>1, <1>3, <1>4, <1>5, <1>6, <1>7, <2>1, <2>2, <2>5, <3>1 DEF Copied
  <2>6. QED BY <1>2, <2>3, <2>4, <2>5
<1>9. CASE Before /\ Only(down, {Ack})
  <2>1. WaitForAck
    BY <1>9 DEF Before, SockOpen, MeetEnd, Server, Select, EndOfRequest, WaitForStart, ReadLine,
         Accept, Refuse, ShortRead, Handle, Poll, SendReply, NoAck, TryAgain
  <2>2. at' = "select" /\ UNCHANGED down  BY <1>9, <2>1 DEF WaitForAck, Before
  <2>3. OnAsking' /\ at' \notin {"digits", "handle"} \cup Answering
    BY <2>2 DEF OnAsking, Answering
  <2>4. QED BY <1>1, <1>3, <1>4, <1>5, <1>6, <1>7, <1>9, <2>2, <2>3 DEF Copied
<1>10. QED BY <1>8, <1>9 DEF Copied

LEMMA CopiedGdb ==
  ASSUME GTyped, Wired, Copied, GdbReads \/ GdbActs \/ UNCHANGED gdbVars, ~Repeat, ~GiveUp,
         peer' # "left"
  PROVE  Normal' \/ Copied'
<1>1. /\ down \in Seq(Answers) /\ up \in Seq(Wire)
      /\ peer \in {"wait ack", "wait reply"} /\ asking \in Requests
  BY DEF GTyped, GdbTypeOK, Answers, Copied, Replies
<1>2. Only(down, {Ack, Reply(asking)}) /\ RepliesLast(down) /\ (Only(down, {Ack}) \/ NothingLive)
      /\ Names(up, "read", asking) /\ DigitsFit /\ CoveredAfter(up)
  BY DEF Copied
<1> DEFINE Stands ==
             \/ OnAsking /\ (at \in {"digits", "handle"} \cup Answering => Covered(up))
             \/ Before /\ Only(down, {Ack})
<1>3. Stands  BY DEF Copied
<1>4. CASE GdbReads
  <2>1. down # <<>> /\ down' = Tail(down) /\ UNCHANGED <<server, asking>>
    BY <1>4 DEF GdbReads, TakeAck, TakeReply, RefuseReply
  <2>2. UNCHANGED <<at, line, reply, asking>>  BY <2>1 DEF server
  <2>3. Only(down', {Ack, Reply(asking)}) /\ RepliesLast(down')
        /\ (Only(down, {Ack}) => Only(down', {Ack}))
    BY <1>1, <1>2, <2>1, TailDown
  <2>4. CASE Head(down) = Ack
    <3>1. UNCHANGED up /\ peer' \in {"wait ack", "wait reply"}
      BY <1>4, <2>4 DEF GdbReads, TakeAck, TakeReply, RefuseReply
    <3>2. Stands'  BY <1>3, <2>2, <2>3, <3>1 DEF OnAsking, Before
    <3>3. (Only(down, {Ack}) \/ NothingLive)'  BY <1>2, <2>2, <2>3, <3>1 DEF NothingLive
    <3>4. QED BY <1>2, <2>2, <2>3, <3>1, <3>2, <3>3 DEF Copied, DigitsFit
  <2>5. CASE Head(down) # Ack
    <3>1. ~Only(down, {Ack}) /\ Unacked(down')  BY <1>1, <1>2, <2>1, <2>5, TailDown
    <3>2. NothingLive /\ OnAsking /\ (at \in {"digits", "handle"} \cup Answering => Covered(up))
      BY <1>2, <1>3, <3>1
    <3>3. PICK m \in Signs : up' = Append(up, m)
      BY <1>4, <2>5 DEF GdbReads, TakeAck, TakeReply, RefuseReply, Signs
    <3>4. peer' \in {"idle", "wait ack", "wait reply"}
      BY <1>4, <1>1 DEF GdbReads, TakeAck, TakeReply, RefuseReply
    <3>5. NothingLive' /\ Names(up', "read", asking') /\ DigitsFit' /\ OnAsking'
      BY <1>2, <2>2, <3>2, <3>3, SignPut
    <3>6. CoveredAfter(up') /\ (Covered(up) => Covered(up'))
      BY <1>1, <1>2, <3>3, AppendCovered
    <3>7. CASE peer' = "idle"  BY <3>1, <3>5, <3>7 DEF Normal
    <3>8. CASE peer' # "idle"
      BY <2>2, <2>3, <3>2, <3>4, <3>5, <3>6, <3>8 DEF Copied
    <3>9. QED BY <3>7, <3>8
  <2>6. QED BY <2>4, <2>5
<1>5. CASE GdbActs
  BY <1>1, <1>5 DEF GdbActs, Ask, Leave
<1>6. CASE UNCHANGED gdbVars
  BY <1>6 DEF gdbVars, server, gdb, Copied, NothingLive, OnAsking, DigitsFit, Before
<1>7. QED BY <1>4, <1>5, <1>6

LEMMA CopiedStep ==
  ASSUME GTyped, Wired, SockOpen, Copied, Plainly, [GdbNext]_gdbVars, ~Repeat, ~GiveUp,
         peer' # "left"
  PROVE  Normal' \/ Copied'
<1>1. CASE Server
  <2>1. peer # "left"  BY DEF Copied
  <2>2. QED BY <1>1, <2>1, CopiedServer
<1>2. CASE GdbReads \/ GdbActs \/ UNCHANGED gdbVars
  BY <1>2, CopiedGdb
<1>3. QED BY <1>1, <1>2 DEF GdbNext

LEMMA CopiedTakes ==
  ASSUME GTyped, Copied, TakesReply, [GdbNext]_gdbVars, ~GiveUp
  PROVE  Head(down).to = asking
<1>1. TakeReply /\ Head(down) # Ack
  <2>1. CASE Server
    BY <2>1 DEF TakesReply, Server, Select, EndOfRequest, WaitForStart, ReadLine, Accept, Refuse,
                ShortRead, Handle, Poll, SendReply, WaitForAck, NoAck, TryAgain, gdb
  <2>2. CASE GdbReads
    BY <2>2 DEF TakesReply, GdbReads, TakeAck, TakeReply, RefuseReply
  <2>3. CASE GdbActs \/ UNCHANGED gdbVars
    BY <2>3 DEF TakesReply, GdbActs, Repeat, GiveUp, Leave, Ask, gdbVars
  <2>4. QED BY <2>1, <2>2, <2>3 DEF GdbNext
<1>2. down \in Seq(Answers) /\ down # <<>> /\ Only(down, {Ack, Reply(asking)})
  BY <1>1 DEF GTyped, GdbTypeOK, Answers, Copied, TakeReply
<1>3. Head(down) = Reply(asking)  BY <1>1, <1>2, TailDown
<1>4. QED BY <1>3 DEF Reply

-------------------------------------------------------------------------------
(* Until then the two sides take turns.                                    *)
EndsWith(s, q) == \A k \in DOMAIN s : s[k] = "#" => k = Len(s) - 1 /\ s[k + 1] \in {q, "?"}
AtRest ==
  /\ peer = "idle" /\ down = <<>>
  /\ \/ at = "ack" /\ up = <<"+">>
     \/ at \in {"select", "start"} /\ up = <<>>
OnItsWay ==
  /\ peer = "wait ack" /\ down = <<>>
  /\ at \in {"ack", "select", "start", "read", "digits", "gone"}
  /\ at = "ack" => up # <<>> /\ Head(up) = "+"
  /\ at = "digits" => Len(up) = 1
  /\ EndsWith(up, asking)
Taken ==
  /\ peer = "wait ack" /\ down = <<Ack>> /\ up = <<>>
  /\ at \in {"handle", "poll", "send", "select", "start", "gone"} /\ OnAsking
Told ==
  /\ peer = "wait ack" /\ down = <<Ack, Reply(asking)>> /\ up = <<>>
  /\ at = "ack" /\ OnAsking
Acked ==
  /\ peer = "wait reply" /\ down = <<>> /\ OnAsking
  /\ \/ up = <<>> /\ at \in {"handle", "poll", "send", "sleep", "select", "start", "gone"}
     \/ up = <<"-">> /\ at = "ack"
Replied ==
  /\ peer = "wait reply" /\ down = <<Reply(asking)>> /\ up = <<>>
  /\ at = "ack" /\ OnAsking
Turns == AtRest \/ OnItsWay \/ Taken \/ Told \/ Acked \/ Replied

LEMMA TailEnds ==
  ASSUME NEW s \in Seq(Wire), s # <<>>, NEW q, EndsWith(s, q)
  PROVE  EndsWith(Tail(s), q) /\ (Head(s) = "#" => Len(Tail(s)) = 1)
<1> DEFINE t == Tail(s)
           n == Len(s)
<1>1. /\ n \in Nat /\ DOMAIN s = 1..n /\ n >= 1 /\ Head(s) = s[1] /\ Len(t) = n - 1
      /\ DOMAIN t = 1..(n - 1) /\ \A i \in 1..(n - 1) : t[i] = s[i + 1]
  BY TailOf
<1>2. \A k \in 1..n : s[k] = "#" => k = n - 1 /\ s[k + 1] \in {q, "?"}
  BY <1>1 DEF EndsWith
<1> HIDE DEF t, n
<1>3. ASSUME NEW k \in 1..(n - 1), t[k] = "#" PROVE k = (n - 1) - 1 /\ t[k + 1] \in {q, "?"}
  <2>1. k + 1 \in 1..n /\ s[k + 1] = "#"  BY <1>1, <1>3
  <2>2. k + 1 = n - 1 /\ s[(k + 1) + 1] \in {q, "?"}  BY <1>2, <2>1
  <2>3. k + 1 \in 1..(n - 1)  BY <1>1, <1>3, <2>2
  <2>4. QED BY <1>1, <2>2, <2>3
<1>4. Head(s) = "#" => n - 1 = 1  BY <1>1, <1>2
<1>5. EndsWith(t, q)  BY <1>1, <1>3 DEF EndsWith
<1>6. QED BY <1>1, <1>4, <1>5 DEF t

LEMMA PacketEnds ==
  ASSUME NEW s \in Seq(Wire), Framed(s), NEW q \in Requests, NEW d \in {q, "?"},
         \A k \in DOMAIN s : s[k] # "#"
  PROVE  EndsWith(s \o Packet(q, d), q)
<1> DEFINE t == s \o Packet(q, d)
<1>1. d \in Digit  BY DEF Digit
<1>2. /\ Len(t) = Len(s) + Len(Text[q]) + 3 /\ Len(s) \in Nat /\ Len(Text[q]) \in Nat
  BY <1>1, Sent
<1>3. ASSUME NEW k \in DOMAIN t, t[k] = "#"
      PROVE  k = Len(s) + Len(Text[q]) + 2 /\ t[k + 1] = d
  BY <1>1, <1>3, PacketHash
<1> HIDE DEF t
<1>4. QED BY <1>2, <1>3 DEF EndsWith, t

(* In front of the packet that is put on the wire, and behind it, there is *)
(* nothing that a sign could cover but the packet itself.                  *)
LEMMA PacketCovered ==
  ASSUME NEW s \in Seq(Wire), NEW q \in Requests, NEW d \in {q, "?"}
  PROVE  /\ (\A k \in DOMAIN s : s[k] \notin Signs) => Covered(s \o Packet(q, d))
         /\ EndsWith(s, q) => CoveredAfter(s \o Packet(q, d))
<1> DEFINE t == s \o Packet(q, d)
           n == Len(s)
           l == Len(Text[q])
<1>0. s \in Seq(Wire) /\ q \in Requests /\ d \in Digit
  BY DEF Digit
<1>1. n \in Nat /\ l \in Nat /\ DOMAIN s = 1..n  BY ONLY <1>0, Sent
<1>2. DOMAIN t = 1..(n + l + 3)  BY ONLY <1>0, Sent
<1>3. \A i \in 1..n : t[i] = s[i]  BY ONLY <1>0, Sent
<1>4. \A i \in (n + 2)..(n + l + 1) : t[i] \notin {"$", "#"}  BY ONLY <1>0, Sent
<1>5. t[n + l + 2] = "#" /\ t[n + l + 3] = d  BY ONLY <1>0, Sent
<1> HIDE DEF t, n, l
<1>6. d # "$"  BY GdbAssumption
<1>7. ASSUME NEW j \in 1..(n + l + 3), t[j] = "$" PROVE j <= n + 1
  BY <1>1, <1>4, <1>5, <1>6, <1>7
<1>8. ASSUME \A k \in 1..n : s[k] \notin Signs PROVE Covered(t)
  <2>1. SUFFICES ASSUME NEW i \in 1..(n + l + 3), NEW j \in 1..(n + l + 3), i < j,
                        t[i] \in Signs, t[j] = "$"
                 PROVE  FALSE
    BY <1>2 DEF Covered
  <2>2. i \in 1..n  BY <1>1, <1>7, <2>1
  <2>3. QED BY <1>3, <1>8, <2>1, <2>2
<1>9. ASSUME EndsWith(s, q) PROVE CoveredAfter(t)
  <2>1. SUFFICES ASSUME NEW h \in 1..(n + l + 3), NEW i \in 1..(n + l + 3),
                        NEW j \in 1..(n + l + 3), h < i, i < j,
                        t[h] = "#", t[i] \in Signs, t[j] = "$"
                 PROVE  FALSE
    BY <1>2 DEF CoveredAfter
  <2>2. h \in 1..n /\ i \in 1..n /\ i <= n  BY <1>1, <1>7, <2>1
  <2>3. h = n - 1 /\ s[h + 1] \in {q, "?"}  BY <1>1, <1>3, <1>9, <2>1, <2>2 DEF EndsWith, n
  <2>4. i = h + 1  BY <1>1, <2>1, <2>2, <2>3
  <2>5. s[i] \in Signs  BY <1>3, <2>1, <2>2
  <2>6. QED BY <2>3, <2>4, <2>5, GdbAssumption DEF Signs
<1>10. QED BY <1>1, <1>8, <1>9 DEF t

LEMMA AppendOne ==
  ASSUME NEW S, NEW x \in S, NEW y \in S
  PROVE  Append(<<x>>, y) = <<x, y>>
<1> DEFINE s == Append(<<x>>, y)
           t == <<x, y>>
<1>1. <<x>> \in Seq(S) /\ Len(<<x>>) = 1 /\ <<x>>[1] = x  OBVIOUS
<1>2. s \in Seq(S) /\ Len(s) = 2 /\ s[1] = x /\ s[2] = y  BY <1>1
<1>3. t \in Seq(S) /\ Len(t) = 2 /\ t[1] = x /\ t[2] = y  OBVIOUS
<1> HIDE DEF s, t
<1>4. Len(s) = Len(t) /\ \A i \in 1..Len(s) : s[i] = t[i]  BY <1>2, <1>3
<1>5. s = t  BY <1>2, <1>3, <1>4, SeqEqual
<1>6. QED BY <1>5 DEF s, t

LEMMA TurnsServer ==
  ASSUME GTyped, Wired, SockOpen, peer # "left", Plainly, Server, Normal, Turns
  PROVE  Turns'
<1>1. UNCHANGED <<peer, asking>>  BY ServerMoves DEF gdb
<1>2. SaysAck \/ (at' # "handle" /\ (SaysReply \/ UNCHANGED down))  BY ServerSays
<1>3. up \in Seq(Wire)  BY DEF GTyped, GdbTypeOK
<1>4. sock  BY DEF SockOpen
<1>5. peer \in {"wait ack", "wait reply"} => asking \in Requests  BY DEF GTyped, Replies
<1>6. CASE AtRest
  <2>1. at = "ack" /\ up = <<"+">>
    BY <1>4, <1>6 DEF AtRest, Server, Select, EndOfRequest, MeetEnd, Receive, WaitForStart, ReadLine,
         Accept, Refuse, ShortRead, Handle, Poll, SendReply, WaitForAck, NoAck, TryAgain
  <2>2. WaitForAck
    BY <1>4, <1>6, <2>1 DEF AtRest, Server, Select, EndOfRequest, MeetEnd, Receive, WaitForStart,
         ReadLine, Accept, Refuse, ShortRead, Handle, Poll, SendReply, NoAck, TryAgain
  <2>3. Head(up) = "+" /\ Tail(up) = <<>>  BY <2>1
  <2>4. at' = "select" /\ up' = <<>> /\ UNCHANGED down  BY <2>2, <2>3 DEF WaitForAck, Receive
  <2>5. AtRest'  BY <1>1, <1>6, <2>4 DEF AtRest
  <2>6. QED BY <2>5 DEF Turns
<1>7. CASE OnItsWay
  <2>1. CASE Accept
    <3>1. SaysAck /\ down' = <<Ack>> /\ at' \in {"handle", "gone"}
      <4>1. at = "digits" /\ at' \in {"handle", "gone"} /\ down = <<>>
            /\ down' = Append(down, Ack) /\ UNCHANGED line
        BY <1>7, <2>1 DEF Accept, Send, OnItsWay
      <4>2. Head(up) \in Requests /\ line = Text[Head(up)]  BY <2>1, AcceptIs DEF Plainly
      <4>3. \A x : Append(<<>>, x) = <<x>>  OBVIOUS
      <4>4. QED BY <4>1, <4>2, <4>3 DEF SaysAck
    <3>2. Len(up) = 1 /\ up' = Tail(up) /\ up # <<>>
      BY <1>7, <2>1 DEF OnItsWay, Accept, Receive
    <3>3. up' = <<>>  BY <1>3, <3>2
    <3>4. DigitsFit
      <4>1. ~AckedFor(<<>>, asking)  BY DEF AckedFor
      <4>2. QED BY <1>7, <4>1 DEF OnItsWay, Normal, ToCome, HasCome
    <3>5. OnAsking'  BY <1>5, <1>7, <3>1, <3>4, ServerSays DEF OnItsWay
    <3>6. Taken'  BY <1>1, <1>7, <3>1, <3>3, <3>5 DEF Taken, OnItsWay
    <3>7. QED BY <3>6 DEF Turns
  <2>2. CASE ~Accept
    <3>1. /\ UNCHANGED <<up, down>> /\ at = "select" /\ at' = "start"
          \/ /\ up # <<>> /\ up' = Tail(up) /\ UNCHANGED down
             /\ at' \in {"select", "start", "read", "digits", "gone"}
             /\ at' = "digits" => Head(up) = "#"
      BY <1>4, <1>7, <2>2 DEF OnItsWay, Server, Select, EndOfRequest, MeetEnd, Receive, WaitForStart,
         ReadLine, Accept, Refuse, ShortRead, Handle, Poll, SendReply, WaitForAck, NoAck, TryAgain
    <3>2. EndsWith(up, asking)  BY <1>7 DEF OnItsWay
    <3>3. up # <<>> => EndsWith(Tail(up), asking) /\ (Head(up) = "#" => Len(Tail(up)) = 1)
      BY <1>3, <3>2, TailEnds
    <3>4. OnItsWay'  BY <1>1, <1>7, <3>1, <3>2, <3>3 DEF OnItsWay
    <3>5. QED BY <3>4 DEF Turns
  <2>3. QED BY <2>1, <2>2
<1>8. CASE Taken
  <2>1. ~SaysAck /\ OnAsking /\ peer = "wait ack"  BY <1>8 DEF Taken, SaysAck
  <2>2. OnAsking'  BY <2>1, ServerSays
  <2>3. /\ UNCHANGED up
        /\ \/ SendReply
           \/ UNCHANGED down /\ at' \in {"poll", "send", "select", "start"}
    BY <1>4, <1>8 DEF Taken, Server, Select, EndOfRequest, MeetEnd, Receive, WaitForStart, ReadLine,
         Accept, Refuse, ShortRead, Handle, Poll, SendReply, WaitForAck, NoAck, TryAgain
  <2>4. CASE SendReply
    <3>1. at = "send" /\ at' = "ack" /\ down' = Append(down, Reply(reply)) /\ reply = asking
      BY <2>1, <2>4, <1>4 DEF SendReply, Send, OnAsking, Answering
    <3>2. down' = Append(<<Ack>>, Reply(asking))  BY <1>8, <3>1 DEF Taken
    <3>3. down' = <<Ack, Reply(asking)>>
      <4>1. Ack \in Answers /\ Reply(asking) \in Answers
        BY <1>5, <2>1 DEF Answers
      <4>2. QED BY <3>2, <4>1, AppendOne
    <3>4. Told'  BY <1>1, <1>8, <2>2, <2>3, <3>1, <3>3 DEF Told, Taken
    <3>5. QED BY <3>4 DEF Turns
  <2>5. CASE UNCHANGED down /\ at' \in {"poll", "send", "select", "start"}
    BY <1>1, <1>8, <2>2, <2>3, <2>5 DEF Taken, Turns
  <2>6. QED BY <2>3, <2>4, <2>5
<1>9. CASE Told \/ Replied
  BY <1>4, <1>9 DEF Told, Replied, Server, Select, EndOfRequest, MeetEnd, Receive, WaitForStart,
         ReadLine, Accept, Refuse, ShortRead, Handle, Poll, SendReply, WaitForAck, NoAck, TryAgain
<1>10. CASE Acked
  <2>1. ~SaysAck /\ OnAsking /\ peer = "wait reply"  BY <1>10 DEF Acked, SaysAck
  <2>2. OnAsking'  BY <2>1, ServerSays
  <2>3. CASE at = "ack"
    <3>1. up = <<"-">> /\ WaitForAck
      BY <1>4, <1>10, <2>3 DEF Acked, Server, Select, EndOfRequest, MeetEnd, Receive, WaitForStart,
         ReadLine, Accept, Refuse, ShortRead, Handle, Poll, SendReply, NoAck, TryAgain
    <3>2. Head(up) = "-" /\ Tail(up) = <<>>  BY <3>1
    <3>3. at' = "sleep" /\ up' = <<>> /\ UNCHANGED down  BY <3>1, <3>2 DEF WaitForAck, Receive
    <3>4. QED BY <1>1, <1>10, <2>2, <3>3 DEF Acked, Turns
  <2>4. CASE at # "ack"
    <3>1. /\ UNCHANGED up /\ up = <<>>
          /\ \/ SendReply
             \/ UNCHANGED down /\ at' \in {"poll", "send", "select", "start"}
      BY <1>4, <1>10, <2>4 DEF Acked, Server, Select, EndOfRequest, MeetEnd, Receive, WaitForStart, ReadLine,
         Accept, Refuse, ShortRead, Handle, Poll, SendReply, WaitForAck, NoAck, TryAgain
    <3>2. CASE SendReply
      <4>1. at = "send" /\ at' = "ack" /\ down' = Append(down, Reply(reply)) /\ reply = asking
        BY <2>1, <3>2, <1>4 DEF SendReply, Send, OnAsking, Answering
      <4>2. down' = <<Reply(asking)>>
        <5>1. \A x : Append(<<>>, x) = <<x>>  OBVIOUS
        <5>2. QED BY <1>10, <4>1, <5>1 DEF Acked
      <4>3. QED BY <1>1, <2>1, <2>2, <3>1, <4>1, <4>2 DEF Replied, Turns
    <3>3. CASE UNCHANGED down /\ at' \in {"poll", "send", "select", "start"}
      BY <1>1, <1>10, <2>2, <3>1, <3>3 DEF Acked, Turns
    <3>4. QED BY <3>1, <3>2, <3>3
  <2>5. QED BY <2>3, <2>4
<1>11. QED BY <1>6, <1>7, <1>8, <1>9, <1>10 DEF Turns

-------------------------------------------------------------------------------
LEMMA TurnsGdb ==
  ASSUME GTyped, Wired, Turns, GdbReads \/ GdbActs \/ UNCHANGED gdbVars, ~Repeat, ~GiveUp,
         peer' # "left"
  PROVE  Turns'
<1>1. up \in Seq(Wire) /\ Framed(up)  BY DEF GTyped, GdbTypeOK, Wired
<1>2. \A x : Append(<<>>, x) = <<x>> /\ Head(<<x>>) = x /\ Tail(<<x>>) = <<>>
             /\ <<x>> # <<>>
  OBVIOUS
<1>3. CASE UNCHANGED gdbVars
  BY <1>3 DEF gdbVars, server, gdb, Turns, AtRest, OnItsWay, Taken, Told, Acked, Replied, OnAsking
<1>4. CASE AtRest /\ (GdbReads \/ GdbActs)
  <2>1. PICK r \in Requests : Ask(r)
    BY <1>4 DEF AtRest, GdbReads, TakeAck, TakeReply, RefuseReply, GdbActs, Leave
  <2>2. peer' = "wait ack" /\ asking' = r /\ UNCHANGED <<down, at>> /\ Transmit(r)
    BY <2>1 DEF Ask, server
  <2>3. PICK d \in {r, "?"} : up' = up \o Packet(r, d)  BY <2>2 DEF Transmit
  <2>4. \A k \in DOMAIN up : up[k] # "#"
    <3>1. CASE up = <<>>  BY <3>1
    <3>2. CASE up = <<"+">>  BY <3>2
    <3>3. QED BY <1>4, <3>1, <3>2 DEF AtRest
  <2>5. EndsWith(up', r)  BY <1>1, <2>3, <2>4, PacketEnds
  <2>6. at = "ack" => up' # <<>> /\ Head(up') = "+"
    <3>1. at = "ack" => up # <<>> /\ Head(up) = "+"  BY <1>2, <1>4 DEF AtRest
    <3>2. up # <<>> => up' # <<>> /\ Head(up') = Head(up)
      BY <1>1, <2>3, PacketFramed DEF Digit
    <3>3. QED BY <3>1, <3>2
  <2>7. OnItsWay'  BY <1>4, <2>2, <2>5, <2>6 DEF AtRest, OnItsWay
  <2>8. QED BY <2>7 DEF Turns
<1>5. CASE (OnItsWay \/ Acked) /\ (GdbReads \/ GdbActs)
  BY <1>5 DEF OnItsWay, Acked, GdbReads, TakeAck, TakeReply, RefuseReply, GdbActs, Ask, Leave
<1>6. CASE (Taken \/ Told) /\ (GdbReads \/ GdbActs)
  <2>1. TakeAck
    BY <1>6 DEF Taken, Told, GdbReads, TakeReply, RefuseReply, GdbActs, Ask, Leave
  <2>2. Head(down) = Ack /\ (Taken => Tail(down) = <<>>)
        /\ (Told => Tail(down) = <<Reply(asking)>>)
    <3>1. Head(<<Ack, Reply(asking)>>) = Ack
          /\ Tail(<<Ack, Reply(asking)>>) = <<Reply(asking)>>
      OBVIOUS
    <3>2. QED BY <1>2, <1>6, <3>1 DEF Taken, Told
  <2>3. peer' = "wait reply" /\ down' = Tail(down) /\ UNCHANGED <<up, at, line, reply, asking>>
    BY <2>1, <2>2 DEF TakeAck, server
  <2>4. CASE Taken
    <3>1. Acked'  BY <2>2, <2>3, <2>4 DEF Taken, Acked, OnAsking
    <3>2. QED BY <3>1 DEF Turns
  <2>5. CASE Told
    <3>1. Replied'  BY <2>2, <2>3, <2>5 DEF Told, Replied, OnAsking
    <3>2. QED BY <3>1 DEF Turns
  <2>6. QED BY <1>6, <2>4, <2>5
<1>7. CASE Replied /\ (GdbReads \/ GdbActs)
  <2>1. TakeReply \/ RefuseReply
    BY <1>7 DEF Replied, GdbReads, TakeAck, GdbActs, Ask, Leave
  <2>2. Head(down) # Ack /\ Tail(down) = <<>>
    BY <1>2, <1>7, ReplyIsNoAck DEF Replied
  <2>3. down' = <<>> /\ UNCHANGED <<at, line, reply, asking>>
    BY <2>1, <2>2 DEF TakeReply, RefuseReply, server
  <2>4. CASE TakeReply
    <3>1. up' = <<"+">> /\ peer' = "idle"
      BY <1>2, <1>7, <2>2, <2>4 DEF TakeReply, Replied
    <3>2. at' = "ack"  BY <1>7, <2>3 DEF Replied
    <3>3. peer' = "idle" /\ down' = <<>> /\ at' = "ack" /\ up' = <<"+">>
      BY <2>3, <3>1, <3>2
    <3>4. AtRest'  BY <3>3, Zenon DEF AtRest
    <3>5. QED BY <3>4 DEF Turns
  <2>5. CASE RefuseReply
    <3>1. up' = <<"-">> /\ peer' = "wait reply"
      BY <1>2, <1>7, <2>5 DEF RefuseReply, Replied
    <3>2. Acked'  BY <1>7, <2>3, <3>1 DEF Replied, Acked, OnAsking
    <3>3. QED BY <3>2 DEF Turns
  <2>6. QED BY <2>1, <2>4, <2>5
<1>8. QED BY <1>3, <1>4, <1>5, <1>6, <1>7 DEF Turns

(* The first time that gdb repeats its request.                            *)
LEMMA FirstRepeat ==
  ASSUME GTyped, Wired, Normal, Turns, Repeat
  PROVE  Copied'
<1>1. /\ up \in Seq(Wire) /\ Framed(up) /\ asking \in Requests /\ peer = "wait ack"
      /\ UNCHANGED <<down, at, line, reply, peer, asking>> /\ Transmit(asking)
  BY DEF GTyped, GdbTypeOK, Wired, Replies, Repeat, server
<1>2. PICK d \in {asking, "?"} : up' = up \o Packet(asking, d)  BY <1>1 DEF Transmit
<1>3. up # <<>> => up' # <<>> /\ Head(up') = Head(up)
  BY <1>1, <1>2, PacketFramed DEF Digit
<1>4. OnAsking => OnAsking'  BY <1>1 DEF OnAsking
<1>5. CASE OnItsWay
  <2>1. EndsWith(up, asking) /\ down = <<>>  BY <1>5 DEF OnItsWay
  <2>2. Names(up, "read", asking)  BY <2>1 DEF EndsWith, Names
  <2>3. Names(up', "read", asking)  BY <1>1, <1>2, <2>2, PacketNames
  <2>4. CoveredAfter(up')  BY <1>1, <1>2, <2>1, PacketCovered
  <2>5. at = "digits" => Head(up) \in {asking, "?"} /\ up # <<>>
    <3>1. ~AckedFor(<<>>, asking)  BY DEF AckedFor
    <3>2. QED BY <1>5, <3>1 DEF OnItsWay, Normal, ToCome, HasCome, DigitsFit, Wired
  <2>6. DigitsFit'  BY <1>1, <1>3, <2>5 DEF DigitsFit
  <2>7. \A M : Only(down', M) /\ RepliesLast(down')
    <3>1. \A M : Only(<<>>, M) /\ RepliesLast(<<>>)  BY DEF Only, RepliesLast
    <3>2. down' = <<>>  BY <1>1, <2>1
    <3>3. QED BY <3>1, <3>2
  <2>8. CASE at = "ack"
    <3>1. Before'  BY <1>1, <1>3, <1>5, <2>8 DEF OnItsWay, Before
    <3>2. QED BY <1>1, <2>3, <2>4, <2>6, <2>7, <3>1 DEF Copied
  <2>9. CASE at # "ack"
    <3>1. OnAsking' /\ at' \notin {"handle"} \cup Answering
      BY <1>1, <1>5, <2>9 DEF OnItsWay, OnAsking, Answering
    <3>2. ASSUME at = "digits" PROVE Covered(up')
      <4>1. Len(up) = 1 /\ up[1] \in {asking, "?"} /\ DOMAIN up = 1..1
        <5>1. Len(up) = 1 /\ up # <<>> /\ Head(up) \in {asking, "?"}
          BY <1>5, <2>5, <3>2 DEF OnItsWay
        <5>2. DOMAIN up = 1..Len(up) /\ Head(up) = up[1]  BY <1>1, <5>1, TailOf
        <5>3. QED BY <5>1, <5>2
      <4>2. \A k \in DOMAIN up : up[k] \notin Signs
        <5>1. asking \notin Signs /\ "?" \notin Signs  BY <1>1, GdbAssumption DEF Signs
        <5>2. \A k \in 1..1 : k = 1  OBVIOUS
        <5>3. QED BY <4>1, <5>1, <5>2
      <4>3. QED BY <1>1, <1>2, <4>2, PacketCovered
    <3>3. QED BY <1>1, <2>3, <2>4, <2>6, <2>7, <3>1, <3>2 DEF Copied
  <2>10. QED BY <2>8, <2>9
<1>6. CASE Taken \/ Told
  <2>1. up = <<>> /\ OnAsking /\ at # "digits"  BY <1>6 DEF Taken, Told
  <2>2. \A k \in DOMAIN up : up[k] \notin Signs  BY <2>1
  <2>3. Covered(up')  BY <1>1, <1>2, <2>2, PacketCovered
  <2>4. CoveredAfter(up') /\ Live(up', "ack") = {}  BY <2>3, CoveredIs
  <2>5. Names(up, "read", asking)  BY <2>1, CoveredIs
  <2>6. Names(up', "read", asking)  BY <1>1, <1>2, <2>5, PacketNames
  <2>7. Only(down, {Ack, Reply(asking)}) /\ RepliesLast(down)
        /\ (Only(down, {Ack}) \/ Told)
    <3>1. CASE Taken
      <4>1. Only(<<Ack>>, {Ack}) /\ Only(<<Ack>>, {Ack, Reply(asking)}) /\ RepliesLast(<<Ack>>)
        BY DEF Only, RepliesLast
      <4>2. QED BY <3>1, <4>1 DEF Taken
    <3>2. CASE Told
      <4>1. DOMAIN <<Ack, Reply(asking)>> = 1..2 /\ <<Ack, Reply(asking)>>[1] = Ack
            /\ <<Ack, Reply(asking)>>[2] = Reply(asking)
        OBVIOUS
      <4>2. Only(<<Ack, Reply(asking)>>, {Ack, Reply(asking)})
        BY <4>1 DEF Only
      <4>3. RepliesLast(<<Ack, Reply(asking)>>)
        <5> DEFINE s == <<Ack, Reply(asking)>>
        <5>1. DOMAIN s = 1..2 /\ s[1] = Ack  BY <4>1
        <5> HIDE DEF s
        <5>2. \A i, j \in 1..2 : i < j => i = 1  OBVIOUS
        <5>3. RepliesLast(s)  BY <5>1, <5>2 DEF RepliesLast
        <5>4. QED BY <5>3 DEF s
      <4>4. QED BY <3>2, <4>2, <4>3 DEF Told
    <3>3. QED BY <1>6, <3>1, <3>2
  <2>8. Told => NothingLive'
    BY <1>1, <2>4 DEF Told, NothingLive, Reading
  <2>9. (Only(down, {Ack}) \/ NothingLive)'  BY <1>1, <2>7, <2>8
  <2>10. DigitsFit'  BY <1>1, <2>1 DEF DigitsFit
  <2>11. QED BY <1>1, <1>4, <2>1, <2>3, <2>4, <2>6, <2>7, <2>9, <2>10 DEF Copied
<1>7. QED BY <1>1, <1>5, <1>6 DEF Turns, AtRest, Acked, Replied

StepInv == peer # "left" =>
  /\ late <= 1 => Normal \/ Copied
  /\ late = 0 => Normal /\ Turns

LEMMA LateStep ==
  ASSUME GTyped, [GdbNext]_gdbVars
  PROVE  /\ late \in Nat
         /\ Repeat \/ GiveUp => late' = late + 1
         /\ ~Repeat /\ ~GiveUp => UNCHANGED late
         /\ peer' # "left" => peer # "left"
<1>1. late \in Nat  BY GdbAssumption DEF GTyped, GdbTypeOK
<1>2. Repeat \/ GiveUp => late' = late + 1  BY DEF Repeat, GiveUp
<1>3. CASE Server
  <2>1. UNCHANGED gdb
    BY <1>3 DEF Server, Select, EndOfRequest, WaitForStart, ReadLine, Accept, Refuse, ShortRead,
                Handle, Poll, SendReply, WaitForAck, NoAck, TryAgain
  <2>2. QED BY <1>1, <1>2, <2>1 DEF gdb
<1>4. CASE GdbReads \/ GdbActs \/ UNCHANGED gdbVars
  BY <1>1, <1>2, <1>4 DEF GdbReads, TakeAck, TakeReply, RefuseReply, GdbActs, Ask, Repeat, GiveUp,
                    Leave, gdbVars, gdb
<1>5. QED BY <1>3, <1>4 DEF GdbNext

LEMMA StepStep ==
  ASSUME GTyped, Wired, SockOpen, StepInv, Plainly, [GdbNext]_gdbVars
  PROVE  StepInv'
<1>1. SUFFICES ASSUME peer' # "left", late' <= 1
               PROVE  (Normal' \/ Copied') /\ (late' = 0 => Normal' /\ Turns')
  BY DEF StepInv
<1>2. late \in Nat /\ peer # "left" /\ late <= 1 /\ (late' = 0 => late = 0)
      /\ (Repeat \/ GiveUp => late = 0 /\ late' = 1)
  BY <1>1, LateStep
<1>3. (Normal \/ Copied) /\ (late = 0 => Normal /\ Turns)  BY <1>2 DEF StepInv
<1>4. CASE Repeat
  <2>1. Copied'  BY <1>2, <1>3, <1>4, FirstRepeat
  <2>2. QED BY <1>2, <1>4, <2>1
<1>5. CASE GiveUp
  <2>1. Normal /\ ~Repeat  BY <1>2, <1>3, <1>5 DEF GiveUp, Repeat
  <2>2. Normal'  BY <1>1, <2>1, NormalStep
  <2>3. QED BY <1>2, <1>5, <2>2
<1>6. CASE ~Repeat /\ ~GiveUp
  <2>1. Normal => Normal'  BY <1>1, <1>6, NormalStep
  <2>2. Copied => Normal' \/ Copied'  BY <1>1, <1>6, CopiedStep
  <2>3. Normal /\ Turns => Turns'
    <3>1. CASE Server  BY <1>2, <3>1, TurnsServer
    <3>2. CASE GdbReads \/ GdbActs \/ UNCHANGED gdbVars  BY <1>1, <1>6, <3>2, TurnsGdb
    <3>3. QED BY <3>1, <3>2 DEF GdbNext
  <2>4. QED BY <1>2, <1>3, <2>1, <2>2, <2>3
<1>7. QED BY <1>4, <1>5, <1>6

LEMMA StepTakes ==
  ASSUME GTyped, StepInv, [GdbNext]_gdbVars, late <= 1, TakesReply
  PROVE  Head(down).to = asking
<1>1. Normal \/ Copied  BY DEF StepInv, TakesReply
<1>2. ~GiveUp  BY DEF GiveUp, TakesReply
<1>3. QED BY <1>1, <1>2, NormalTakes, CopiedTakes

LEMMA InitNormal == GdbInit => SockOpen /\ Normal /\ StepInv
<1>1. SUFFICES ASSUME GdbInit PROVE SockOpen /\ Normal /\ Turns
  BY DEF StepInv
<1>2. up = <<>> /\ down = <<>> /\ at = "select" /\ sock /\ peer = "idle"  BY <1>1 DEF GdbInit
<1>3. NothingLive /\ Unacked(down)
  <2>1. Live(<<>>, at) = {} /\ Unacked(<<>>)  BY DEF Live, Unacked
  <2>2. QED BY <1>2, <2>1 DEF NothingLive, Reading
<1>4. Normal  BY <1>2, <1>3 DEF Normal
<1>5. Turns  BY <1>2 DEF Turns, AtRest
<1>6. QED BY <1>2, <1>4, <1>5 DEF SockOpen

(* As long as gdb repeats or does without one request at most, and no line *)
(* of several packets is accepted, the reply that it takes for the request *)
(* it is at is the reply to that request, whatever is damaged, swallowed   *)
(* by wait_ack_or_nak() or read half way (gdb_debugger.cpp 38-78).         *)
THEOREM KeepsInStepWithGdb == GdbSpec /\ []~joined => AnswersTheRequest
<1> DEFINE Inv == GTyped /\ Wired /\ SockOpen /\ StepInv /\ InHandIsRequest
<1>1. GdbInit => Inv
  BY GdbInitTyped, GdbInitWired, InitNormal DEF GdbInit, InHandIsRequest
<1>2. Inv /\ ~joined' /\ [GdbNext]_gdbVars =>
        Inv' /\ [late <= 1 /\ TakesReply => Head(down).to = asking]_gdbVars
  BY GdbStepTyped, WiredStep, SockStep, InHandStep, StepStep, StepTakes DEF Plainly
<1> HIDE DEF Inv
<1>3. QED BY <1>1, <1>2, PTL DEF GdbSpec, AnswersTheRequest

(* A gdb that waits for its acknowledgements is never answered out of      *)
(* step, however often it does without a reply: a late one arrives before  *)
(* the acknowledgement of the next request, and is ignored                 *)
(* (gdb_debugger.cpp 38-78).                                               *)
PatientSpec == GdbInit /\ [][GdbNext /\ ~Repeat]_gdbVars
THEOREM InStepWithoutRepeats ==
  PatientSpec /\ []~joined => [][TakesReply => Head(down).to = asking]_gdbVars
<1> DEFINE Inv == GTyped /\ Wired /\ SockOpen /\ InHandIsRequest /\ (peer # "left" => Normal)
<1>1. GdbInit => Inv
  BY GdbInitTyped, GdbInitWired, InitNormal DEF GdbInit, InHandIsRequest
<1>2. Inv /\ ~joined' /\ [GdbNext /\ ~Repeat]_gdbVars =>
        Inv' /\ [TakesReply => Head(down).to = asking]_gdbVars
  <2>1. SUFFICES ASSUME Inv, ~joined', [GdbNext /\ ~Repeat]_gdbVars
                 PROVE  Inv' /\ [TakesReply => Head(down).to = asking]_gdbVars
    OBVIOUS
  <2>2. [GdbNext]_gdbVars /\ Plainly  BY <2>1 DEF Plainly
  <2>3. GTyped' /\ Wired' /\ SockOpen' /\ InHandIsRequest'
    BY <2>1, <2>2, GdbStepTyped, WiredStep, SockStep, InHandStep
  <2>4. ASSUME peer' # "left" PROVE Normal'
    <3>1. Normal  BY <2>1, <2>2, <2>4, LateStep
    <3>2. CASE ~Repeat  BY <2>1, <2>2, <2>4, <3>1, <3>2, NormalStep
    <3>3. CASE UNCHANGED gdbVars
      BY <3>1, <3>3 DEF gdbVars, server, gdb, Normal, ToCome, HasCome, NothingLive, OnAsking, DigitsFit
    <3>4. QED BY <2>1, <3>2, <3>3
  <2>5. ASSUME TakesReply PROVE Head(down).to = asking
    <3>1. Normal  BY <2>1, <2>5 DEF TakesReply
    <3>2. QED BY <2>1, <2>2, <2>5, <3>1, NormalTakes
  <2>6. QED BY <2>3, <2>4, <2>5
<1> HIDE DEF Inv
<1>3. QED BY <1>1, <1>2, PTL DEF PatientSpec

-------------------------------------------------------------------------------
(* What follows the "$" of a packet that is not damaged.                   *)
Rest(q) == Text[q] \o <<"#", q>>

LEMMA HeadOf ==
  ASSUME NEW S, NEW x \in S, NEW s \in Seq(S)
  PROVE  /\ <<x>> \o s \in Seq(S) /\ <<x>> \o s # <<>> /\ Len(<<x>> \o s) = Len(s) + 1
         /\ Head(<<x>> \o s) = x /\ Tail(<<x>> \o s) = s
<1> DEFINE t == <<x>> \o s
           u == Tail(t)
<1>1. <<x>> \in Seq(S) /\ Len(<<x>>) = 1 /\ <<x>>[1] = x /\ Len(s) \in Nat
  OBVIOUS
<1>2. /\ t \in Seq(S) /\ Len(t) = Len(s) + 1 /\ t[1] = x
      /\ \A i \in 1..Len(s) : t[i + 1] = s[i]
  BY <1>1
<1> HIDE DEF t
<1>3. t # <<>>  BY <1>1, <1>2
<1>4. /\ Head(t) = x /\ u \in Seq(S) /\ Len(u) = Len(s)
      /\ \A i \in 1..Len(s) : u[i] = s[i]
  BY <1>1, <1>2, <1>3, TailOf
<1> HIDE DEF u
<1>5. u = s  BY <1>4, SeqEqual
<1>6. QED BY <1>2, <1>3, <1>4, <1>5 DEF t, u

LEMMA RestIs ==
  ASSUME NEW q \in Requests
  PROVE  /\ Text[q] \in Seq(Wire) /\ Len(Text[q]) \in Nat
         /\ Rest(q) \in Seq(Wire) /\ Len(Rest(q)) = Len(Text[q]) + 2
         /\ \A i \in 1..Len(Text[q]) : Rest(q)[i] = Text[q][i] /\ Rest(q)[i] # "#"
         /\ Rest(q)[Len(Text[q]) + 1] = "#" /\ Rest(q)[Len(Text[q]) + 2] = q
         /\ Packet(q, q) = <<"$">> \o Rest(q)
<1> DEFINE t == Text[q]
           n == Len(t)
           b == <<"#", q>>
<1>1. t \in Seq(STRING \ {"$", "#"}) /\ n \in Nat /\ DOMAIN t = 1..n
  BY GdbAssumption
<1>2. \A i \in 1..n : t[i] \in Wire /\ t[i] # "#"
  <2>1. TAKE i \in 1..n
  <2>2. t[i] \in STRING \ {"$", "#"}  BY <1>1
  <2>3. t[i] \in Piece  BY <1>1 DEF Piece
  <2>4. QED BY <2>2, <2>3 DEF Wire
<1>3. t \in Seq(Wire)  BY <1>1, <1>2
<1>4. /\ <<"$">> \in Seq(Wire) /\ b \in Seq(Wire) /\ Len(b) = 2 /\ b[1] = "#" /\ b[2] = q
      /\ 1 \in 1..2 /\ 2 \in 1..2
  BY DEF Wire
<1>5. Packet(q, q) = (<<"$">> \o t) \o b /\ Rest(q) = t \o b
  BY DEF Packet, Rest
<1> HIDE DEF t, b
<1>6. (<<"$">> \o t) \o b = <<"$">> \o (t \o b)
  BY <1>3, <1>4, ConcatAssociative
<1>7. /\ t \o b \in Seq(Wire) /\ Len(t \o b) = Len(t) + Len(b)
      /\ \A i \in 1..Len(t) : (t \o b)[i] = t[i]
      /\ \A i \in 1..Len(b) : (t \o b)[Len(t) + i] = b[i]
  <2>1. t \in Seq(Wire) /\ b \in Seq(Wire)  BY <1>3, <1>4
  <2>2. QED BY ONLY <2>1, ConcatOf
<1>8. (t \o b)[n + 1] = "#" /\ (t \o b)[n + 2] = q  BY <1>4, <1>7
<1>9. Rest(q) \in Seq(Wire) /\ Len(Rest(q)) = n + 2  BY <1>1, <1>4, <1>5, <1>7
<1>10. \A i \in 1..n : Rest(q)[i] = t[i] /\ Rest(q)[i] # "#"  BY <1>2, <1>5, <1>7
<1>11. Rest(q)[n + 1] = "#" /\ Rest(q)[n + 2] = q  BY <1>5, <1>8
<1>12. Packet(q, q) = <<"$">> \o Rest(q)  BY <1>5, <1>6
<1>13. QED BY <1>1, <1>3, <1>9, <1>10, <1>11, <1>12 DEF t

LEMMA FirstOf ==
  ASSUME NEW q \in Requests
  PROVE  /\ Packet(q, q) # <<>> /\ Head(Packet(q, q)) = "$" /\ Tail(Packet(q, q)) = Rest(q)
         /\ <<"+">> \o Packet(q, q) # <<>> /\ Head(<<"+">> \o Packet(q, q)) = "+"
         /\ Tail(<<"+">> \o Packet(q, q)) = Packet(q, q)
         /\ <<>> \o Rest(q) = Rest(q) /\ Rest(q) \in Seq(Wire) /\ Len(Rest(q)) >= 2
<1> DEFINE p == Packet(q, q)
           r == Rest(q)
           n == Len(Text[q])
           m == Len(r)
<1>1. p \in Seq(Wire) /\ r \in Seq(Wire) /\ p = <<"$">> \o r /\ n \in Nat /\ m = n + 2
  BY PacketIs, RestIs DEF Digit
<1>2. "+" \in Wire /\ "$" \in Wire  BY DEF Wire
<1> HIDE DEF p, r, n, m
<1>3. p # <<>> /\ Head(p) = "$" /\ Tail(p) = r  BY <1>1, <1>2, HeadOf
<1>4. <<"+">> \o p # <<>> /\ Head(<<"+">> \o p) = "+" /\ Tail(<<"+">> \o p) = p
  BY <1>1, <1>2, HeadOf
<1>5. <<>> \o r = r  BY <1>1, ConcatEmptySeq
<1>6. m >= 2  BY <1>1
<1>7. QED BY <1>1, <1>3, <1>4, <1>5, <1>6 DEF p, r, m

(* request() on its way through a packet: line is what has been read of it *)
(* and up what is to come, until the "#" is met.                           *)
LEMMA ReadGoesOn ==
  ASSUME NEW q \in Requests, NEW l \in Seq(Wire), NEW s \in Seq(Wire), Len(s) >= 2,
         l \o s = Rest(q)
  PROVE  /\ s # <<>>
         /\ Head(s) # "#" => Append(l, Head(s)) \o Tail(s) = Rest(q) /\ Len(Tail(s)) >= 2
         /\ Head(s) = "#" => l = Text[q] /\ Tail(s) = <<q>>
<1> DEFINE t == Text[q]
           n == Len(t)
           a == Len(l)
           h == Head(s)
           u == Tail(s)
           m == Append(l, h)
           R == Rest(q)
<1>1. /\ t \in Seq(Wire) /\ n \in Nat /\ R \in Seq(Wire) /\ Len(R) = n + 2
      /\ \A i \in 1..n : R[i] = t[i] /\ R[i] # "#"
      /\ R[n + 1] = "#" /\ R[n + 2] = q
  BY RestIs
<1>2. /\ a \in Nat /\ Len(s) \in Nat /\ Len(R) = a + Len(s)
      /\ \A i \in 1..a : R[i] = l[i]
      /\ \A i \in 1..Len(s) : R[a + i] = s[i]
  BY ConcatOf
<1>3. s # <<>> /\ Len(s) >= 2  OBVIOUS
<1>4. /\ u \in Seq(Wire) /\ h = s[1] /\ h \in Wire /\ Len(u) = Len(s) - 1
      /\ \A i \in 1..(Len(s) - 1) : u[i] = s[i + 1]
  BY <1>3, TailOf
<1>5. l \in Seq(Wire) /\ s \in Seq(Wire)  OBVIOUS
<1> HIDE DEF t, n, a, h, u, R
<1>6. /\ m \in Seq(Wire) /\ Len(m) = a + 1 /\ m[a + 1] = h
      /\ \A i \in 1..a : m[i] = l[i]
  BY <1>4, <1>5 DEF a
<1> HIDE DEF m
<1>7. h = R[a + 1] /\ a <= n
  <2>1. 1 \in 1..Len(s) /\ a + 1 \in 1..(n + 1)  BY <1>1, <1>2, <1>3
  <2>2. QED BY <1>1, <1>2, <1>4, <2>1
<1>8. ASSUME h # "#" PROVE m \o u = R /\ Len(u) >= 2
  <2>1. a < n  BY <1>1, <1>2, <1>7, <1>8
  <2>2. Len(u) >= 2  BY <1>1, <1>2, <1>3, <1>4, <2>1
  <2>3. /\ m \o u \in Seq(Wire) /\ Len(m \o u) = Len(m) + Len(u)
        /\ \A i \in 1..Len(m) : (m \o u)[i] = m[i]
        /\ \A i \in 1..Len(u) : (m \o u)[Len(m) + i] = u[i]
    <3>1. m \in Seq(Wire) /\ u \in Seq(Wire)  BY <1>4, <1>6
    <3>2. QED BY ONLY <3>1, ConcatOf
  <2>4. Len(m \o u) = Len(R)  BY <1>2, <1>4, <1>6, <2>3
  <2>5. ASSUME NEW i \in 1..Len(R) PROVE (m \o u)[i] = R[i]
    <3>1. CASE i <= a
      <4>1. i \in 1..a /\ i \in 1..Len(m)  BY <1>2, <1>6, <3>1
      <4>2. QED BY <1>2, <1>6, <2>3, <4>1
    <3>2. CASE i = a + 1
      <4>1. i \in 1..Len(m)  BY <1>2, <1>6, <3>2
      <4>2. QED BY <1>6, <1>7, <2>3, <3>2, <4>1
    <3>3. CASE i > a + 1
      <4> DEFINE k == i - (a + 1)
      <4>1. k \in 1..Len(u) /\ k \in 1..(Len(s) - 1) /\ k + 1 \in 1..Len(s)
            /\ i = Len(m) + k /\ i = a + (k + 1)
        BY <1>2, <1>3, <1>4, <1>6, <3>3
      <4> HIDE DEF k
      <4>2. (m \o u)[i] = u[k] /\ R[i] = s[k + 1] /\ u[k] = s[k + 1]
        BY <1>2, <1>4, <2>3, <4>1
      <4>3. QED BY <4>2
    <3>4. i \in Int /\ a \in Int
      <4>1. Len(R) \in Int  BY <1>1
      <4>2. QED BY <1>2, <4>1
    <3> DEFINE Same == (m \o u)[i] = R[i]
    <3>5. (i <= a => Same) /\ (i = a + 1 => Same) /\ (i > a + 1 => Same)
      BY <3>1, <3>2, <3>3
    <3> HIDE DEF Same
    <3>6. Same  BY <3>4, <3>5
    <3>7. QED BY <3>6 DEF Same
  <2>6. m \o u = R  BY <1>1, <2>3, <2>4, <2>5, SeqEqual
  <2>7. QED BY <2>2, <2>6
<1>9. ASSUME h = "#" PROVE l = t /\ u = <<q>>
  <2>1. a = n
    <3>1. ~(a + 1 \in 1..n)  BY <1>1, <1>7, <1>9
    <3>2. QED BY <1>1, <1>2, <1>7, <3>1
  <2>2. l = t
    <3>1. Len(l) = Len(t) /\ \A i \in 1..Len(l) : l[i] = t[i]
      BY <1>1, <1>2, <2>1 DEF a, n
    <3>2. QED BY <1>1, <1>5, <3>1, SeqEqual
  <2>3. Len(s) = 2 /\ Len(u) = 1
    <3> DEFINE k == Len(s)
    <3>1. n + 2 = n + k /\ n \in Nat /\ k \in Nat  BY <1>1, <1>2, <2>1
    <3> HIDE DEF k
    <3>2. k = 2  BY <3>1
    <3>3. QED BY <1>4, <3>2 DEF k
  <2>4. u[1] = q
    <3>1. 1 \in 1..(Len(s) - 1) /\ 1 + 1 = 2 /\ 2 \in 1..Len(s)  BY <2>3
    <3>2. u[1] = s[2] /\ s[2] = R[a + 2]  BY <1>2, <1>4, <3>1
    <3>3. QED BY <1>1, <2>1, <3>2
  <2>5. u = <<q>>
    <3>1. <<q>> \in Seq(Wire) /\ Len(<<q>>) = 1 /\ <<q>>[1] = q  BY DEF Wire
    <3> DEFINE v == <<q>>
    <3>2. v \in Seq(Wire) /\ Len(v) = 1 /\ v[1] = q  BY <3>1
    <3> HIDE DEF v
    <3>3. Len(u) = Len(v) /\ \A i \in 1..Len(u) : u[i] = v[i]
      <4>1. \A i \in 1..1 : i = 1  OBVIOUS
      <4>2. QED BY <2>3, <2>4, <3>2, <4>1
    <3>4. u = v  BY <1>4, <3>2, <3>3, SeqEqual
    <3>5. QED BY <3>4 DEF v
  <2>6. QED BY <2>2, <2>5
<1>10. QED BY <1>3, <1>8, <1>9 DEF h, u, m, R, t

(* An undamaged request on its way: gdb has sent it and the server has not *)
(* accepted it yet.                                                        *)
Arriving ==
  \/ at = "ack" /\ up = <<"+">> \o Packet(asking, asking)
  \/ at \in {"select", "start"} /\ up = Packet(asking, asking)
  \/ at = "read" /\ Len(up) >= 2 /\ line \o up = Rest(asking)
  \/ at = "digits" /\ line = Text[asking] /\ up = <<asking>>

(* How often response() has sent a reply, by the replies gdb refused.      *)
Tries ==
  /\ at \in {"poll", "send", "sleep"} => count <= refused
  /\ at = "ack" => count <= refused + 1
  /\ at = "ack" /\ peer = "wait reply" /\ down = <<>> => count <= refused

Waiting == peer \in {"wait ack", "wait reply"} /\ asking \in Answered
Clean == late = 0 /\ spoilt = 0
Flowing == Clean /\ peer # "left" =>
  /\ Tries
  /\ peer = "wait ack" /\ down = <<>> => Arriving
  /\ Waiting /\ refused < Retries /\ ~(peer = "wait ack" /\ down = <<>>) =>
       at \in {"handle", "send", "ack", "sleep"}

(* A measure of what is left of a request: the tries that response() has,  *)
(* what is under way and where the server is.                              *)
StageOf(a, u) ==
  CASE a = "ack" -> IF u = <<>> THEN 1 ELSE IF Head(u) = "-" THEN 5 ELSE 9
    [] a = "select" -> 8
    [] a \in {"start", "read", "digits"} -> 7
    [] a \in {"handle", "sleep"} -> 4
    [] OTHER -> 3
ToGo == 10 * (Retries - refused) + Len(up) + Len(down) + StageOf(at, up)

(* A request that is waited for, and that RequestIsAnswered promises a     *)
(* reply.                                                                  *)
Pending == Waiting /\ Clean /\ refused < Retries

(* Something to do for the server or for gdb's read.                       *)
MayMove ==
  \/ down # <<>>
  \/ at \in {"send", "sleep"}
  \/ at = "handle" /\ TakenFor(asking)
  \/ at \in {"select", "start", "read", "ack"} /\ up # <<>>
  \/ at = "digits" /\ up # <<>> /\ Validates

(* A step that leaves it waiting leaves less to be done.                   *)
Closer == Pending /\ Pending' => ToGo \in Nat /\ ToGo' < ToGo

LEMMA CleanStep ==
  ASSUME GTyped, [GdbNext]_gdbVars, Clean'
  PROVE  /\ Clean /\ ~Repeat /\ ~GiveUp /\ ~ShortRead /\ UNCHANGED spoilt
         /\ Refuse => ~Validates
         /\ \A r \in Requests : Transmit(r) => up' = up \o Packet(r, r)
         /\ refused \in Nat /\ refused' \in Nat /\ count \in Nat /\ Retries \in Nat
<1>1. late \in Nat /\ spoilt \in Nat /\ refused \in Nat /\ count \in Nat /\ Retries \in Nat
  BY GdbAssumption DEF GTyped, GdbTypeOK
<1>2. late' = 0 /\ spoilt' = 0  BY DEF Clean
<1>3. refused' \in Nat
  <2>1. GTyped'  BY GdbStepTyped
  <2>2. QED BY <2>1, GdbAssumption DEF GTyped, GdbTypeOK
<1>4. late = 0 /\ ~Repeat /\ ~GiveUp  BY <1>1, <1>2, LateStep
<1>5. ~ShortRead  BY <1>1, <1>2 DEF ShortRead
<1>6. ASSUME NEW r \in Requests, Transmit(r)
      PROVE  up' = up \o Packet(r, r) /\ UNCHANGED spoilt
  BY <1>1, <1>2, <1>6 DEF Transmit
<1>7. ASSUME Refuse PROVE ~Validates /\ UNCHANGED spoilt
  BY <1>1, <1>2, <1>7 DEF Refuse
<1>8. UNCHANGED spoilt
  <2>1. CASE Server
    BY <1>5, <1>7, <2>1 DEF Server, Select, EndOfRequest, WaitForStart, ReadLine, Accept, Handle,
                            Poll, SendReply, WaitForAck, NoAck, TryAgain
  <2>2. CASE \E r \in Requests : Ask(r)
    BY <1>6, <2>2 DEF Ask
  <2>3. CASE GdbReads \/ Leave \/ UNCHANGED gdbVars
    BY <2>3 DEF GdbReads, TakeAck, TakeReply, RefuseReply, Leave, gdbVars
  <2>4. QED BY <1>4, <2>1, <2>2, <2>3 DEF GdbNext, GdbActs
<1>9. QED BY <1>1, <1>2, <1>3, <1>4, <1>5, <1>6, <1>7, <1>8 DEF Clean

LEMMA StageIs ==
  ASSUME NEW u
  PROVE  /\ StageOf("ack", u) = IF u = <<>> THEN 1 ELSE IF Head(u) = "-" THEN 5 ELSE 9
         /\ StageOf("select", u) = 8
         /\ StageOf("start", u) = 7 /\ StageOf("read", u) = 7 /\ StageOf("digits", u) = 7
         /\ StageOf("handle", u) = 4 /\ StageOf("sleep", u) = 4 /\ StageOf("send", u) = 3
<1>1. StageOf("ack", u) = IF u = <<>> THEN 1 ELSE IF Head(u) = "-" THEN 5 ELSE 9
  BY DEF StageOf
<1>2. StageOf("select", u) = 8  BY DEF StageOf
<1>3. StageOf("start", u) = 7 /\ StageOf("read", u) = 7 /\ StageOf("digits", u) = 7
  BY DEF StageOf
<1>4. StageOf("handle", u) = 4 /\ StageOf("sleep", u) = 4 /\ StageOf("send", u) = 3
  BY DEF StageOf
<1>5. QED BY <1>1, <1>2, <1>3, <1>4

LEMMA ComesCloser ==
  ASSUME GTyped, GTyped', StageOf(at, up) \in Nat, StageOf(at', up') \in Nat,
         \/ /\ refused' = refused
            /\ Len(up') + Len(down') + StageOf(at', up') < Len(up) + Len(down) + StageOf(at, up)
         \/ /\ refused' = refused + 1
            /\ Len(up') + Len(down') + StageOf(at', up') < Len(up) + Len(down) + StageOf(at, up) + 10
  PROVE  Closer
<1>0. SUFFICES ASSUME refused < Retries PROVE ToGo \in Nat /\ ToGo' < ToGo
  BY DEF Closer, Pending
<1>1. up \in Seq(Wire) /\ down \in Seq(Answers) /\ up' \in Seq(Wire) /\ down' \in Seq(Answers)
  BY DEF GTyped, GdbTypeOK, Answers, Wire, Piece, Ack, Reply
<1>2. /\ Len(up) \in Nat /\ Len(down) \in Nat /\ Len(up') \in Nat /\ Len(down') \in Nat
      /\ refused \in Nat /\ Retries \in Nat
  <2>1. Len(up) \in Nat /\ Len(down) \in Nat /\ Len(up') \in Nat /\ Len(down') \in Nat
    BY <1>1, LenProperties
  <2>2. refused \in Nat /\ Retries \in Nat
    BY GdbAssumption DEF GTyped, GdbTypeOK
  <2>3. QED BY <2>1, <2>2
<1> DEFINE a == Len(up)
           b == Len(down)
           c == StageOf(at, up)
           d == Len(up')
           e == Len(down')
           f == StageOf(at', up')
           g == refused'
<1>3. /\ a \in Nat /\ b \in Nat /\ c \in Nat /\ d \in Nat /\ e \in Nat /\ f \in Nat
      /\ \/ g = refused /\ d + e + f < a + b + c
         \/ g = refused + 1 /\ d + e + f < a + b + c + 10
  BY <1>2
<1>4. ToGo = 10 * (Retries - refused) + a + b + c /\ ToGo' = 10 * (Retries - g) + d + e + f
  BY DEF ToGo, StageOf
<1> HIDE DEF a, b, c, d, e, f, g
<1>5. /\ 10 * (Retries - refused) + a + b + c \in Nat
      /\ 10 * (Retries - g) + d + e + f < 10 * (Retries - refused) + a + b + c
  BY <1>0, <1>2, <1>3
<1>6. QED BY <1>4, <1>5

LEMMA NotPending == (~Waiting \/ ~Waiting') => Closer
BY DEF Closer, Pending

(* The server takes in an undamaged request piece by piece.                *)
LEMMA ArrivingServer ==
  ASSUME GTyped, GTyped', SockOpen, peer = "wait ack", down = <<>>, Arriving, Server,
         ~ShortRead, Refuse => ~Validates
  PROVE  /\ Closer /\ UNCHANGED peer
         /\ \/ Arriving' /\ UNCHANGED <<down, count, refused>>
            \/ /\ at' \in {"handle", "gone"} /\ down' # <<>>
               /\ Waiting => at' = "handle"
<1>1. /\ UNCHANGED <<peer, asking, refused>> /\ sock /\ peer # "left"
      /\ up \in Seq(Wire) /\ line \in Seq(Wire) /\ asking \in Requests
  BY ServerMoves DEF gdb, SockOpen, GTyped, GdbTypeOK, Replies
<1>2. /\ Packet(asking, asking) \in Seq(Wire) /\ Rest(asking) \in Seq(Wire)
      /\ Packet(asking, asking) = <<"$">> \o Rest(asking)
      /\ "+" \in Wire /\ "$" \in Wire
  BY <1>1, PacketIs, RestIs DEF Digit, Wire
<1>3. /\ Len(up) \in Nat /\ (up # <<>> => Len(Tail(up)) = Len(up) - 1)
      /\ down = <<>> /\ Len(down) = 0
  BY <1>1, LenProperties, TailOf
<1> DEFINE a == Len(up)
           d == Len(up')
           e == Len(down')
           x == StageOf(at, up)
           y == StageOf(at', up')
<1>c. ASSUME x \in Nat, y \in Nat, d + e + y < a + 0 + x PROVE Closer
  BY <1>1, <1>3, <1>c, ComesCloser
<1>t. up # <<>> /\ up' = Tail(up) => a \in Nat /\ d = a - 1
  BY <1>3
<1>s. UNCHANGED up => a \in Nat /\ d = a
  BY <1>3
<1>e. UNCHANGED down => e = 0
  BY <1>3
<1> HIDE DEF a, d, e, x, y
<1>4. CASE at = "ack"
  <2>1. up = <<"+">> \o Packet(asking, asking)  BY <1>4 DEF Arriving
  <2>2. up # <<>> /\ Head(up) = "+" /\ Tail(up) = Packet(asking, asking)
    BY <1>1, <2>1, FirstOf
  <2>3. WaitForAck
    BY <1>1, <1>4, <2>2 DEF Server, Select, EndOfRequest, MeetEnd, WaitForStart, ReadLine,
         Accept, Refuse, ShortRead, Handle, Poll, SendReply, NoAck, TryAgain
  <2>4. at' = "select" /\ up' = Tail(up) /\ UNCHANGED <<down, count>>
    BY <2>2, <2>3 DEF WaitForAck, Receive
  <2>5. Arriving'  BY <1>1, <2>2, <2>4 DEF Arriving, Packet
  <2>6. x = 9 /\ y = 8  BY <1>4, <2>2, <2>4, StageIs DEF x, y
  <2>7. d + e + y < a + 0 + x
    <3>1. a \in Nat /\ d = a - 1 /\ e = 0  BY <1>t, <1>s, <1>e, <2>2, <2>4
    <3>2. QED BY ONLY <2>6, <3>1
  <2>8. Closer  BY <1>c, <2>6, <2>7
  <2>9. QED BY <1>1, <2>4, <2>5, <2>8
<1>5. CASE at = "select"
  <2>1. up = Packet(asking, asking)  BY <1>5 DEF Arriving
  <2>2. Select
    BY <1>5 DEF Server, EndOfRequest, WaitForStart, ReadLine,
         Accept, Refuse, ShortRead, Handle, Poll, SendReply, WaitForAck, NoAck, TryAgain
  <2>3. at' = "start" /\ UNCHANGED <<up, down, count>>  BY <1>1, <2>2 DEF Select
  <2>4. Arriving'  BY <1>1, <2>1, <2>3 DEF Arriving, Packet
  <2>5. x = 8 /\ y = 7  BY <1>5, <2>3, StageIs DEF x, y
  <2>6. d + e + y < a + 0 + x
    <3>1. a \in Nat /\ d = a /\ e = 0  BY <1>t, <1>s, <1>e, <2>3
    <3>2. QED BY ONLY <2>5, <3>1
  <2>7. Closer  BY <1>c, <2>5, <2>6
  <2>8. QED BY <1>1, <2>3, <2>4, <2>7
<1>6. CASE at = "start"
  <2>1. up = Packet(asking, asking)  BY <1>6 DEF Arriving
  <2>2. up # <<>> /\ Head(up) = "$" /\ Tail(up) = Rest(asking)
    BY <1>1, <2>1, FirstOf
  <2>3. WaitForStart
    BY <1>1, <1>6, <2>2 DEF Server, Select, EndOfRequest, MeetEnd, ReadLine,
         Accept, Refuse, ShortRead, Handle, Poll, SendReply, WaitForAck, NoAck, TryAgain
  <2>4. at' = "read" /\ line' = <<>> /\ up' = Tail(up) /\ UNCHANGED <<down, count>>
    BY <2>2, <2>3 DEF WaitForStart, Receive
  <2>5. line' \o up' = Rest(asking) /\ Len(up') >= 2
    BY <1>1, <2>2, <2>4, FirstOf
  <2>6. Arriving'  BY <1>1, <2>4, <2>5 DEF Arriving, Rest
  <2>7. x = 7 /\ y = 7  BY <1>6, <2>4, StageIs DEF x, y
  <2>8. d + e + y < a + 0 + x
    <3>1. a \in Nat /\ d = a - 1 /\ e = 0  BY <1>t, <1>s, <1>e, <2>2, <2>4
    <3>2. QED BY ONLY <2>7, <3>1
  <2>9. Closer  BY <1>c, <2>7, <2>8
  <2>10. QED BY <1>1, <2>4, <2>6, <2>9
<1>7. CASE at = "read"
  <2>1. Len(up) >= 2 /\ line \o up = Rest(asking)  BY <1>7 DEF Arriving
  <2>2. /\ up # <<>>
        /\ Head(up) # "#" => Append(line, Head(up)) \o Tail(up) = Rest(asking) /\ Len(Tail(up)) >= 2
        /\ Head(up) = "#" => line = Text[asking] /\ Tail(up) = <<asking>>
    BY <1>1, <2>1, ReadGoesOn
  <2>3. ReadLine
    BY <1>1, <1>7, <2>2 DEF Server, Select, EndOfRequest, MeetEnd, WaitForStart,
         Accept, Refuse, ShortRead, Handle, Poll, SendReply, WaitForAck, NoAck, TryAgain
  <2>4. /\ up' = Tail(up) /\ UNCHANGED <<down, count>>
        /\ IF Head(up) = "#" THEN at' = "digits" /\ line' = line
                             ELSE at' = "read" /\ line' = Append(line, Head(up))
    BY <1>7, <2>3 DEF ReadLine, Receive
  <2>5. Arriving'
    <3>1. CASE Head(up) = "#"  BY <1>1, <2>2, <2>4, <3>1 DEF Arriving
    <3>2. CASE Head(up) # "#"
      <4>1. at' = "read" /\ line' \o up' = Rest(asking) /\ Len(up') >= 2
        BY <2>2, <2>4, <3>2
      <4>2. QED BY <1>1, <4>1 DEF Arriving, Rest
    <3>3. QED BY <3>1, <3>2
  <2>6. x = 7 /\ y = 7  BY <1>7, <2>4, StageIs DEF x, y
  <2>7. d + e + y < a + 0 + x
    <3>1. a \in Nat /\ d = a - 1 /\ e = 0  BY <1>t, <1>s, <1>e, <2>2, <2>4
    <3>2. QED BY ONLY <2>6, <3>1
  <2>8. Closer  BY <1>c, <2>6, <2>7
  <2>9. QED BY <1>1, <2>4, <2>5, <2>8
<1>8. CASE at = "digits"
  <2>1. line = Text[asking] /\ up = <<asking>>  BY <1>8 DEF Arriving
  <2>2. up # <<>> /\ Head(up) = asking /\ Tail(up) = <<>> /\ a = 1
    <3>1. up # <<>> /\ Head(up) = asking /\ Tail(up) = <<>>  BY ONLY <2>1
    <3>2. Len(up) = 1  BY ONLY <2>1
    <3>3. QED BY ONLY <3>1, <3>2 DEF a
  <2>3. Validates  BY <1>1, <2>1, <2>2 DEF Validates
  <2>4. Accept
    BY <1>1, <1>8, <2>2, <2>3 DEF Server, Select, EndOfRequest, MeetEnd, WaitForStart, ReadLine,
         Handle, Poll, SendReply, WaitForAck, NoAck, TryAgain
  <2>5. /\ at' = (IF line = <<>> THEN "gone" ELSE "handle")
        /\ up' = <<>> /\ down' = Append(<<>>, Ack)
    BY <1>1, <2>2, <2>4 DEF Accept, Receive, Send
  <2>6. down' # <<>> /\ d = 0 /\ e = 1
    <3>1. down' = <<Ack>>  BY ONLY <2>5
    <3>2. down' # <<>> /\ Len(down') = 1 /\ Len(up') = 0  BY ONLY <2>5, <3>1
    <3>3. QED BY ONLY <3>2 DEF d, e
  <2>7. CASE line # <<>>
    <3>1. at' = "handle"  BY <2>5, <2>7
    <3>2. x = 7 /\ y = 4  BY <1>8, <3>1, StageIs DEF x, y
    <3>3. d + e + y < a + 0 + x  BY ONLY <2>2, <2>6, <3>2
    <3>4. Closer  BY <1>c, <3>2, <3>3
    <3>5. QED BY <1>1, <2>6, <3>1, <3>4
  <2>8. CASE line = <<>>
    <3>1. at' = "gone" /\ ~Waiting  BY <2>1, <2>5, <2>8 DEF Waiting, Answered
    <3>2. QED BY <1>1, <2>6, <3>1, NotPending
  <2>9. QED BY <2>7, <2>8
<1>9. QED BY <1>4, <1>5, <1>6, <1>7, <1>8 DEF Arriving

(* The server has taken the request in, or gdb its acknowledgement.        *)
LEMMA FlowAnswer ==
  ASSUME GTyped, GTyped', Wired, SockOpen, Plainly, Server, Taken \/ Acked, Clean, Flowing
  PROVE  Flowing' /\ Closer
<1>1. /\ UNCHANGED <<peer, asking, refused>> /\ sock /\ peer \in {"wait ack", "wait reply"}
      /\ OnAsking /\ asking \in Requests
  BY ServerMoves DEF gdb, SockOpen, Taken, Acked, GTyped, Replies
<1>2. /\ \/ peer = "wait ack" /\ down = <<Ack>>
         \/ peer = "wait reply" /\ down = <<>>
      /\ at # "ack" => up = <<>>
      /\ at = "ack" => up = <<"-">> /\ down = <<>> /\ peer = "wait reply"
  BY DEF Taken, Acked
<1>3. Tries /\ (Waiting /\ refused < Retries => at \in {"handle", "send", "ack", "sleep"})
  <2>1. down = <<Ack>> => down # <<>>  OBVIOUS
  <2>2. QED BY <1>1, <1>2, <2>1 DEF Flowing
<1>4. Waiting' <=> Waiting  BY <1>1 DEF Waiting
<1>5. /\ up \in Seq(Wire) /\ down \in Seq(Answers)
      /\ count \in Nat /\ refused \in Nat /\ Retries \in Nat
  BY GdbAssumption DEF GTyped, GdbTypeOK, Answers
<1>6. Len(up) \in Nat /\ Len(down) \in Nat  BY <1>5, LenProperties
<1> DEFINE Goes == Waiting /\ refused < Retries => at' \in {"handle", "send", "ack", "sleep"}
           a == Len(up)
           b == Len(down)
           d == Len(up')
           e == Len(down')
           x == StageOf(at, up)
           y == StageOf(at', up')
<1>c. ASSUME x \in Nat, y \in Nat, d + e + y < a + b + x PROVE Closer
  BY <1>1, <1>c, ComesCloser
<1>u. UNCHANGED <<up, down>> => a \in Nat /\ b \in Nat /\ d = a /\ e = b
  BY <1>6
<1>f. ASSUME Tries', Goes, UNCHANGED down \/ down' # <<>> PROVE Flowing'
  <2>1. ~(peer' = "wait ack" /\ down' = <<>>)
    <3>1. down = <<Ack>> => down # <<>>  OBVIOUS
    <3>2. QED BY <1>1, <1>2, <1>f, <3>1
  <2>2. QED BY <1>1, <1>4, <1>f, <2>1 DEF Flowing
<1> HIDE DEF a, b, d, e, x, y
<1>7. CASE Handle
  <2>1. PICK r \in Requests :
          /\ at = "handle" /\ line = Text[r] /\ count' = 0 /\ UNCHANGED <<up, down>>
          /\ at' = (IF PollsFirst(r) THEN "poll" ELSE IF r \in Malformed THEN "select" ELSE "send")
    BY <1>7, HandleIs DEF Handle
  <2>2. r = asking  BY <1>1, <2>1, GdbAssumption DEF OnAsking
  <2>3. at' \in {"poll", "select", "send"} /\ (asking \in Answered => at' = "send")
    BY <2>1, <2>2 DEF Answered, PollsFirst
  <2>4. Tries'
    <3>1. count' = 0 /\ refused' = refused /\ refused \in Nat  BY <1>1, <1>5, <2>1
    <3>2. count' <= refused'  BY ONLY <3>1
    <3>3. QED BY <2>3, <3>2 DEF Tries
  <2>5. Goes  BY <2>3 DEF Waiting
  <2>6. Flowing'  BY <1>f, <2>1, <2>4, <2>5
  <2>7. ASSUME Pending PROVE Closer
    <3>1. at' = "send"  BY <2>3, <2>7 DEF Pending, Waiting
    <3>2. x = 4 /\ y = 3  BY <2>1, <3>1, StageIs DEF x, y
    <3>3. a \in Nat /\ b \in Nat /\ d = a /\ e = b  BY <1>u, <2>1
    <3>4. d + e + y < a + b + x  BY ONLY <3>2, <3>3
    <3>5. QED BY <1>c, <3>2, <3>4
  <2>8. Closer  BY <2>7 DEF Closer
  <2>9. QED BY <2>6, <2>8
<1>8. CASE Poll
  <2>1. at = "poll" /\ at' \in {"send", "select"} /\ UNCHANGED <<up, down, count>>
    BY <1>8 DEF Poll
  <2>2. Tries' /\ Goes  BY <1>1, <1>3, <2>1 DEF Tries
  <2>3. Closer  BY <1>3, <2>1 DEF Closer, Pending
  <2>4. QED BY <1>f, <2>1, <2>2, <2>3
<1>9. CASE SendReply
  <2>1. /\ at = "send" /\ at' = "ack" /\ count' = count + 1 /\ UNCHANGED up
        /\ down' = Append(down, Reply(reply)) /\ up = <<>>
    BY <1>1, <1>2, <1>9 DEF SendReply, Send
  <2>2. down' # <<>> /\ e = b + 1 /\ b \in Nat
    <3>1. reply \in Requests  BY <2>1, <1>1 DEF OnAsking, Answering
    <3>2. Reply(reply) \in Answers  BY <3>1 DEF Answers
    <3>3. QED BY ONLY <1>5, <2>1, <3>2 DEF b, e
  <2>3. Tries'
    <3>1. count <= refused /\ count' = count + 1 /\ refused' = refused
          /\ count \in Nat /\ refused \in Nat
      BY <1>1, <1>3, <1>5, <2>1 DEF Tries
    <3>2. count' <= refused' + 1  BY ONLY <3>1
    <3>3. QED BY <2>1, <2>2, <3>2 DEF Tries
  <2>4. Flowing'  BY <1>f, <2>1, <2>2, <2>3
  <2>5. x = 3 /\ y = 1  BY <2>1, StageIs DEF x, y
  <2>6. a \in Nat /\ d = a  BY <1>6, <2>1 DEF a, d
  <2>7. d + e + y < a + b + x  BY ONLY <2>2, <2>5, <2>6
  <2>8. QED BY <1>c, <2>4, <2>5, <2>7
<1>10. CASE TryAgain
  <2>1. /\ at = "sleep" /\ UNCHANGED <<up, down, count>>
        /\ at' = (IF count < Retries THEN "send" ELSE "select")
    BY <1>10 DEF TryAgain
  <2>2. count <= refused  BY <1>3, <2>1 DEF Tries
  <2>3. refused < Retries => at' = "send"  BY <1>5, <2>1, <2>2
  <2>4. Tries' /\ Goes
    <3>1. count' <= refused' /\ at' \in {"send", "select"}  BY <1>1, <2>1, <2>2
    <3>2. QED BY <2>3, <3>1 DEF Tries
  <2>5. Flowing'  BY <1>f, <2>1, <2>4
  <2>6. ASSUME Pending PROVE Closer
    <3>1. at' = "send"  BY <2>3, <2>6 DEF Pending
    <3>2. x = 4 /\ y = 3  BY <2>1, <3>1, StageIs DEF x, y
    <3>3. a \in Nat /\ b \in Nat /\ d = a /\ e = b  BY <1>u, <2>1
    <3>4. d + e + y < a + b + x  BY ONLY <3>2, <3>3
    <3>5. QED BY <1>c, <3>2, <3>4
  <2>7. Closer  BY <2>6 DEF Closer
  <2>8. QED BY <2>5, <2>7
<1>11. CASE WaitForAck
  <2>1. at = "ack" /\ up = <<"-">> /\ down = <<>> /\ peer = "wait reply"
    BY <1>2, <1>11 DEF WaitForAck
  <2>2. Head(up) = "-" /\ Tail(up) = <<>> /\ up # <<>> /\ Len(up) = 1
    <3>0. \A z : Head(<<z>>) = z /\ Tail(<<z>>) = <<>> /\ <<z>> # <<>>  OBVIOUS
    <3>1. Head(up) = "-" /\ Tail(up) = <<>> /\ up # <<>>  BY <2>1, <3>0
    <3>2. Len(up) = 1  BY ONLY <2>1
    <3>3. QED BY ONLY <3>1, <3>2
  <2>3. at' = "sleep" /\ up' = <<>> /\ UNCHANGED <<down, count>>
    BY <1>11, <2>2 DEF WaitForAck, Receive
  <2>4. Tries' /\ Goes
    <3>1. count' <= refused'  BY <1>1, <1>3, <2>1, <2>3 DEF Tries
    <3>2. QED BY <2>3, <3>1 DEF Tries
  <2>5. Flowing'  BY <1>f, <2>3, <2>4
  <2>6. x = 5 /\ y = 4  BY <2>1, <2>2, <2>3, StageIs DEF x, y
  <2>7. a = 1 /\ d = 0
    <3>1. Len(up') = 0  BY ONLY <2>3
    <3>2. QED BY ONLY <2>2, <3>1 DEF a, d
  <2>8. b \in Nat /\ e = b  BY <1>6, <2>3 DEF b, e
  <2>9. d + e + y < a + b + x  BY ONLY <2>6, <2>7, <2>8
  <2>10. QED BY <1>c, <2>5, <2>6, <2>9
<1>12. QED
  <2>1. at \in {"handle", "poll", "send", "sleep", "select", "start", "gone", "ack"}
    BY DEF Taken, Acked
  <2>2. at \in {"select", "start"} => up = <<>> /\ peer # "left"  BY <1>1, <1>2
  <2>3. at = "ack" => up # <<>>
    <3>1. <<"-">> # <<>>  OBVIOUS
    <3>2. QED BY <1>2, <3>1
  <2>4. Handle \/ Poll \/ SendReply \/ TryAgain \/ WaitForAck
    BY <1>1, <2>1, <2>2, <2>3 DEF Server, Select, EndOfRequest, MeetEnd, Receive, WaitForStart,
         ReadLine, Accept, Refuse, ShortRead, NoAck
  <2>5. QED BY <1>7, <1>8, <1>9, <1>10, <1>11, <2>4

LEMMA FlowServer ==
  ASSUME GTyped, GTyped', Wired, SockOpen, peer # "left", Plainly, Server, Turns, Clean, Flowing,
         ~ShortRead, Refuse => ~Validates
  PROVE  Flowing' /\ Closer
<1>1. UNCHANGED <<peer, asking, refused>> /\ sock  BY ServerMoves DEF gdb, SockOpen
<1>2. CASE AtRest
  <2>1. at' \notin {"poll", "send", "sleep", "ack"}
    <3>1. at = "ack" /\ up = <<"+">>
      BY <1>1, <1>2 DEF AtRest, Server, Select, EndOfRequest, MeetEnd, Receive, WaitForStart,
           ReadLine, Accept, Refuse, ShortRead, Handle, Poll, SendReply, WaitForAck, NoAck, TryAgain
    <3>2. Head(up) = "+"  BY <3>1
    <3>3. at' = "select"
      BY <1>1, <3>1, <3>2 DEF Server, Select, EndOfRequest, MeetEnd, Receive, WaitForStart,
           ReadLine, Accept, Refuse, ShortRead, Handle, Poll, SendReply, WaitForAck, NoAck, TryAgain
    <3>4. QED BY <3>3
  <2>2. Tries'  BY <2>1 DEF Tries
  <2>3. peer' = "idle" /\ ~Waiting /\ ~Waiting'  BY <1>1, <1>2 DEF AtRest, Waiting
  <2>4. QED BY <2>2, <2>3, NotPending DEF Flowing
<1>3. CASE OnItsWay
  <2>1. peer = "wait ack" /\ down = <<>>  BY <1>3 DEF OnItsWay
  <2>2. Arriving /\ Tries  BY <2>1 DEF Flowing
  <2>3. /\ Closer
        /\ \/ Arriving' /\ UNCHANGED <<down, count, refused>>
           \/ /\ at' \in {"handle", "gone"} /\ down' # <<>>
              /\ Waiting => at' = "handle"
    BY <2>1, <2>2, ArrivingServer
  <2>4. CASE Arriving' /\ UNCHANGED <<down, count, refused>>
    <3>1. at' = "ack" => at = "ack"
      BY <2>2 DEF Arriving, Server, Select, EndOfRequest, WaitForStart,
           ReadLine, Accept, Refuse, ShortRead, Handle, Poll, SendReply, WaitForAck, NoAck, TryAgain
    <3>2. at' \in {"ack", "select", "start", "read", "digits"}  BY <2>4 DEF Arriving
    <3>3. Tries'  BY <1>1, <2>1, <2>2, <2>4, <3>1, <3>2 DEF Tries
    <3>4. peer' = "wait ack" /\ down' = <<>>  BY <1>1, <2>1, <2>4
    <3>5. QED BY <2>3, <2>4, <3>3, <3>4 DEF Flowing
  <2>5. CASE at' \in {"handle", "gone"} /\ down' # <<>> /\ (Waiting => at' = "handle")
    <3>1. Waiting' => Waiting  BY <1>1 DEF Waiting
    <3>2. QED BY <2>3, <2>5, <3>1 DEF Flowing, Tries
  <2>6. QED BY <2>3, <2>4, <2>5
<1>4. CASE Taken \/ Acked  BY <1>4, FlowAnswer
<1>5. CASE Told \/ Replied
  <2>1. at = "ack" /\ up = <<>>  BY <1>5 DEF Told, Replied
  <2>2. FALSE
    BY <1>1, <2>1 DEF Server, Select, EndOfRequest, MeetEnd, Receive, WaitForStart,
         ReadLine, Accept, Refuse, ShortRead, Handle, Poll, SendReply, WaitForAck, NoAck, TryAgain
  <2>3. QED BY <2>2
<1>6. QED BY <1>2, <1>3, <1>4, <1>5 DEF Turns

LEMMA FlowGdb ==
  ASSUME GTyped, GTyped', Turns, Clean, Flowing, GdbReads \/ GdbActs, ~Repeat, ~GiveUp, peer' # "left",
         \A r \in Requests : Transmit(r) => up' = up \o Packet(r, r)
  PROVE  Flowing' /\ Closer
<1>1. /\ up \in Seq(Wire) /\ down \in Seq(Answers)
      /\ count \in Nat /\ refused \in Nat /\ Retries \in Nat
  BY GdbAssumption DEF GTyped, GdbTypeOK, Answers
<1>2. \A z : Append(<<>>, z) = <<z>> /\ Head(<<z>>) = z /\ Tail(<<z>>) = <<>>
             /\ <<z>> # <<>>
  OBVIOUS
<1>3. Len(up) \in Nat /\ Len(down) \in Nat  BY <1>1, LenProperties
<1> DEFINE a == Len(up)
           b == Len(down)
           d == Len(up')
           e == Len(down')
           x == StageOf(at, up)
           y == StageOf(at', up')
<1>c. ASSUME x \in Nat, y \in Nat, UNCHANGED refused, d + e + y < a + b + x PROVE Closer
  BY <1>c, ComesCloser
<1>d. ASSUME x \in Nat, y \in Nat, refused' = refused + 1, d + e + y < a + b + x + 10 PROVE Closer
  BY <1>d, ComesCloser
<1> HIDE DEF a, b, d, e, x, y
<1>4. CASE AtRest
  <2>1. PICK r \in Requests : Ask(r)
    BY <1>4 DEF AtRest, GdbReads, TakeAck, TakeReply, RefuseReply, GdbActs, Leave
  <2>2. /\ peer' = "wait ack" /\ asking' = r /\ down' = <<>> /\ UNCHANGED <<at, count, refused>>
        /\ up' = up \o Packet(r, r)
    BY <1>4, <2>1 DEF Ask, server, AtRest
  <2>3. Packet(r, r) \in Seq(Wire)  BY PacketIs DEF Digit
  <2>4. <<>> \o Packet(r, r) = Packet(r, r)  BY <2>3, ConcatEmptySeq
  <2>5. Arriving'
    <3>1. CASE at = "ack" /\ up = <<"+">>
      BY <2>2, <3>1 DEF Arriving, Packet
    <3>2. CASE at \in {"select", "start"} /\ up = <<>>
      <4>1. at' \in {"select", "start"} /\ up' = Packet(asking', asking')
        BY <2>2, <2>4, <3>2
      <4>2. QED BY <4>1 DEF Arriving, Packet
    <3>3. QED BY <1>4, <3>1, <3>2 DEF AtRest
  <2>6. Tries'
    <3>1. Tries /\ at \in {"ack", "select", "start"}
      BY <1>4 DEF Flowing, AtRest
    <3>2. QED BY <2>2, <3>1 DEF Tries
  <2>7. ~Waiting  BY <1>4 DEF AtRest, Waiting
  <2>8. QED BY <2>2, <2>5, <2>6, <2>7, NotPending DEF Flowing
<1>5. CASE OnItsWay \/ Acked
  BY <1>5 DEF OnItsWay, Acked, GdbReads, TakeAck, TakeReply, RefuseReply, GdbActs, Ask, Leave
<1>6. CASE Taken \/ Told
  <2>1. TakeAck
    BY <1>6 DEF Taken, Told, GdbReads, TakeReply, RefuseReply, GdbActs, Ask, Leave
  <2>2. Head(down) = Ack /\ down # <<>> /\ (Told => Tail(down) # <<>>)
    <3>1. Head(<<Ack, Reply(asking)>>) = Ack
          /\ Tail(<<Ack, Reply(asking)>>) = <<Reply(asking)>>
          /\ <<Ack, Reply(asking)>> # <<>>
      OBVIOUS
    <3>2. QED BY <1>2, <1>6, <3>1 DEF Taken, Told
  <2>3. /\ peer = "wait ack" /\ peer' = "wait reply" /\ down' = Tail(down)
        /\ UNCHANGED <<up, at, count, asking, refused, late, spoilt>>
    BY <2>1, <2>2 DEF TakeAck, server
  <2>4. Tries'
    <3>1. at = "ack" => down' # <<>>  BY <1>6, <2>2, <2>3 DEF Taken
    <3>2. Tries  BY <2>3 DEF Flowing
    <3>3. QED BY <2>3, <3>1, <3>2 DEF Tries
  <2>5. Flowing'
    <3>1. Waiting' => Waiting  BY <2>3 DEF Waiting
    <3>2. QED BY <2>2, <2>3, <2>4, <3>1 DEF Flowing
  <2>6. Closer
    <3>1. b \in Nat /\ e = b - 1  BY <1>1, <2>2, <2>3, TailOf DEF b, e
    <3>2. a \in Nat /\ d = a  BY <1>3, <2>3 DEF a, d
    <3>3. y = x /\ x \in Nat
      <4>1. at \in {"handle", "poll", "send", "select", "start", "gone", "ack"}
        BY <1>6 DEF Taken, Told
      <4>2. QED BY <2>3, <4>1, StageIs DEF x, y, StageOf
    <3>4. d + e + y < a + b + x  BY ONLY <3>1, <3>2, <3>3
    <3>5. QED BY <1>c, <2>3, <3>3, <3>4
  <2>7. QED BY <2>5, <2>6
<1>7. CASE Replied
  <2>1. TakeReply \/ RefuseReply
    BY <1>7 DEF Replied, GdbReads, TakeAck, GdbActs, Ask, Leave
  <2>2. /\ Head(down) # Ack /\ Tail(down) = <<>> /\ down # <<>>
        /\ at = "ack" /\ up = <<>> /\ peer = "wait reply"
    BY <1>2, <1>7, ReplyIsNoAck DEF Replied
  <2>3. down' = <<>> /\ UNCHANGED <<at, count, asking, late, spoilt>>
    BY <2>1, <2>2 DEF TakeReply, RefuseReply, server
  <2>4. CASE TakeReply
    <3>1. peer' = "idle" /\ UNCHANGED refused
      BY <2>2, <2>4 DEF TakeReply
    <3>2. Flowing'  BY <2>2, <2>3, <3>1 DEF Flowing, Tries, Clean, Waiting
    <3>3. ~Waiting'  BY <3>1 DEF Waiting
    <3>4. QED BY <3>2, <3>3, NotPending
  <2>5. CASE RefuseReply
    <3>1. up' = <<"-">> /\ peer' = "wait reply" /\ refused' = refused + 1
      BY <1>2, <2>2, <2>5 DEF RefuseReply
    <3>2. Tries  BY <2>2 DEF Flowing
    <3>3. Tries'
      <4>1. /\ count' = count /\ count <= refused + 1 /\ refused' = refused + 1
            /\ count \in Nat /\ refused \in Nat
        BY <1>1, <2>2, <2>3, <3>1, <3>2 DEF Tries
      <4>2. count' <= refused' /\ count' <= refused' + 1  BY ONLY <4>1
      <4>3. QED BY <2>2, <2>3, <4>2 DEF Tries
    <3>4. Flowing'  BY <2>2, <2>3, <3>1, <3>3 DEF Flowing
    <3>5. a = 0 /\ d = 1 /\ e = 0 /\ b \in Nat
      <4>1. Len(up) = 0 /\ Len(down') = 0  BY ONLY <2>2, <2>3
      <4>2. Len(up') = 1  BY ONLY <3>1
      <4>3. QED BY <1>3, <4>1, <4>2 DEF a, b, d, e
    <3>6. x = 1 /\ y = 5
      <4>1. Head(up') = "-" /\ up' # <<>>  BY <1>2, <3>1
      <4>2. QED BY <2>2, <2>3, <4>1, StageIs DEF x, y
    <3>7. d + e + y < a + b + x + 10  BY ONLY <3>5, <3>6
    <3>8. QED BY <1>d, <3>1, <3>4, <3>6, <3>7
  <2>6. QED BY <2>1, <2>4, <2>5
<1>8. QED BY <1>4, <1>5, <1>6, <1>7 DEF Turns

(* Without damage and repeats the server accepts the line of one packet:   *)
(* the two sides take turns, and what arrives is what gdb is asking.       *)
LEMMA CleanPlainly ==
  ASSUME GTyped, StepInv, Flowing, InHandIsRequest, ~joined, [GdbNext]_gdbVars,
         Clean, peer # "left"
  PROVE  Plainly
<1>1. CASE Accept
  <2>1. at = "digits" /\ joined' = (joined \/ line # Text[Head(up)])  BY <1>1 DEF Accept
  <2>2. Turns  BY DEF StepInv, Clean
  <2>3. peer = "wait ack" /\ down = <<>>
    BY <2>1, <2>2 DEF Turns, AtRest, OnItsWay, Taken, Told, Acked, Replied
  <2>4. line = Text[asking] /\ up = <<asking>>  BY <2>1, <2>3 DEF Flowing, Arriving
  <2>5. Head(up) = asking  BY ONLY <2>4
  <2>6. QED BY <2>1, <2>4, <2>5 DEF Plainly
<1>2. CASE Server /\ ~Accept
  BY <1>2 DEF Server, Select, EndOfRequest, WaitForStart, ReadLine, Refuse,
       ShortRead, Handle, Poll, SendReply, WaitForAck, NoAck, TryAgain, Plainly
<1>3. CASE GdbReads \/ GdbActs \/ UNCHANGED gdbVars
  <2>1. UNCHANGED joined  BY <1>3, GdbPuts DEF server, gdbVars
  <2>2. QED BY <2>1 DEF Plainly
<1>4. QED BY <1>1, <1>2, <1>3 DEF GdbNext

LEMMA FlowStep ==
  ASSUME GTyped, Wired, SockOpen, StepInv, Flowing, Plainly, [GdbNext]_gdbVars,
         Clean', peer' # "left"
  PROVE  Flowing' /\ [Closer]_gdbVars
<1>1. GTyped'  BY GdbStepTyped
<1>2. CASE UNCHANGED gdbVars
  BY <1>2 DEF gdbVars, server, gdb, Flowing, Clean, Tries, Waiting, Arriving, Packet, Rest
<1>3. CASE GdbNext
  <2>1. /\ Clean /\ ~Repeat /\ ~GiveUp /\ ~ShortRead /\ (Refuse => ~Validates)
        /\ \A r \in Requests : Transmit(r) => up' = up \o Packet(r, r)
    BY <1>1, <1>3, CleanStep
  <2>2. peer # "left"  BY <1>3, LateStep
  <2>3. Turns  BY <2>1, <2>2 DEF StepInv, Clean
  <2>4. CASE Server  BY <1>1, <2>1, <2>2, <2>3, <2>4, FlowServer
  <2>5. CASE GdbReads \/ GdbActs  BY <1>1, <1>3, <2>1, <2>3, <2>5, FlowGdb
  <2>6. QED BY <1>3, <2>4, <2>5 DEF GdbNext
<1>4. QED BY <1>2, <1>3

FlowInv ==
  /\ GTyped /\ Wired /\ SockOpen
  /\ Clean /\ peer # "left" => ~joined /\ InHandIsRequest /\ StepInv /\ Flowing

LEMMA FlowInductive ==
  /\ GdbInit => FlowInv
  /\ FlowInv /\ [GdbNext]_gdbVars => FlowInv' /\ [Closer]_gdbVars
<1>1. GdbInit => Flowing /\ InHandIsRequest /\ ~joined
  BY DEF GdbInit, Flowing, Tries, Waiting, InHandIsRequest
<1>2. GdbInit => FlowInv
  BY <1>1, GdbInitTyped, GdbInitWired, InitNormal DEF FlowInv
<1>3. ASSUME FlowInv, [GdbNext]_gdbVars PROVE FlowInv' /\ [Closer]_gdbVars
  <2>1. GTyped /\ Wired /\ SockOpen  BY <1>3 DEF FlowInv
  <2>2. GTyped' /\ Wired' /\ SockOpen'  BY <1>3, <2>1, GdbStepTyped, WiredStep, SockStep
  <2>3. ASSUME Clean', peer' # "left"
        PROVE  (~joined)' /\ InHandIsRequest' /\ StepInv' /\ Flowing' /\ [Closer]_gdbVars
    <3>1. Clean /\ peer # "left"  BY <1>3, <2>1, <2>3, CleanStep, LateStep
    <3>2. ~joined /\ InHandIsRequest /\ StepInv /\ Flowing  BY <1>3, <3>1 DEF FlowInv
    <3>3. Plainly  BY <1>3, <2>1, <3>1, <3>2, CleanPlainly
    <3>4. (~joined)' /\ InHandIsRequest'  BY <1>3, <3>3, InHandStep DEF Plainly
    <3>5. StepInv'  BY <1>3, <2>1, <3>2, <3>3, StepStep
    <3>6. Flowing' /\ [Closer]_gdbVars  BY <1>3, <2>1, <2>3, <3>2, <3>3, FlowStep
    <3>7. QED BY <3>4, <3>5, <3>6
  <2>4. ASSUME ~Clean' \/ peer' = "left" PROVE Closer
    BY <2>4 DEF Closer, Pending, Waiting
  <2>5. QED BY <2>2, <2>3, <2>4 DEF FlowInv
<1>4. QED BY <1>2, <1>3

LEMMA FlowMoves == FlowInv /\ Pending => MayMove
<1>1. SUFFICES ASSUME FlowInv, Pending, down = <<>> PROVE MayMove
  BY DEF MayMove
<1>2. /\ peer # "left" /\ Waiting /\ Clean /\ refused < Retries /\ Turns /\ Flowing
      /\ asking \in Requests
  BY <1>1 DEF FlowInv, Pending, Waiting, StepInv, Clean, GTyped, Replies
<1>3. \A z : <<z>> # <<>> /\ Head(<<z>>) = z  OBVIOUS
<1>4. CASE peer = "wait ack"
  <2>1. Arriving  BY <1>1, <1>2, <1>4 DEF Flowing
  <2>2. Packet(asking, asking) # <<>> /\ <<"+">> \o Packet(asking, asking) # <<>>
    BY <1>2, FirstOf
  <2>3. CASE at \in {"ack", "select", "start"}
    BY <2>1, <2>2, <2>3 DEF Arriving, MayMove
  <2>4. CASE at = "read"
    <3>1. Len(up) >= 2 /\ up \in Seq(Wire)
      BY <1>1, <2>1, <2>4 DEF Arriving, FlowInv, GTyped, GdbTypeOK
    <3>2. up # <<>>
      <4>1. Len(<<>>) = 0  OBVIOUS
      <4>2. QED BY <3>1, <4>1
    <3>3. QED BY <2>4, <3>2 DEF MayMove
  <2>5. CASE at = "digits"
    BY <1>2, <1>3, <2>1, <2>5 DEF Arriving, MayMove, Validates
  <2>6. QED BY <2>1, <2>3, <2>4, <2>5 DEF Arriving
<1>5. CASE peer = "wait reply"
  <2>1. at \in {"handle", "send", "ack", "sleep"}  BY <1>2, <1>5 DEF Flowing
  <2>2. Acked  BY <1>1, <1>2, <1>3, <1>5 DEF Turns, AtRest, OnItsWay, Taken, Told, Replied
  <2>3. (at = "handle" => TakenFor(asking)) /\ (at = "ack" => up # <<>>)
    BY <1>2, <1>3, <2>2, TakenForIs DEF Acked, OnAsking
  <2>4. QED BY <2>1, <2>3 DEF MayMove
<1>6. QED BY <1>2, <1>4, <1>5 DEF Waiting

(* While an undamaged request waits, the server and gdb never wait for     *)
(* each other: there is something to be read, or handle_line() or          *)
(* response() is at work (gdb_debugger.cpp 38-78, 108-140).                *)
THEOREM NeitherSideWaits == GdbSpec => [](Pending => MayMove)
<1>1. GdbSpec => []FlowInv
  BY FlowInductive, PTL DEF GdbSpec
<1>2. QED BY <1>1, FlowMoves, PTL

(* And every step that leaves it waiting leaves less to be done: nothing   *)
(* that the server skips, sends again or sleeps over goes round in a       *)
(* circle, so that a side that can move has only to do so for              *)
(* RequestIsAnswered (gdb_debugger.cpp 38-78, 108-140).                    *)
THEOREM EachStepBringsTheReplyCloser == GdbSpec => [][Closer]_gdbVars
<1>1. GdbInit => FlowInv  BY FlowInductive
<1>2. FlowInv /\ [GdbNext]_gdbVars => FlowInv' /\ [Closer]_gdbVars
  BY FlowInductive
<1>3. QED BY <1>1, <1>2, PTL DEF GdbSpec

-------------------------------------------------------------------------------
(* A measure of the steps that the server can make before it waits for gdb *)
(* or ends: what there is to read, the tries that response() has left, and *)
(* where the thread is.                                                    *)
StepsAt(a, c) ==
  CASE a = "gone" -> 0
    [] a \in {"start", "read", "digits"} -> 1
    [] a = "select" -> 2
    [] a = "send" -> 3 * (Retries - c) + 3
    [] a = "sleep" -> 3 * (Retries - c) + 4
    [] a = "ack" -> 3 * (Retries - c) + 5
    [] a = "poll" -> 3 * Retries + 6
    [] OTHER -> 3 * Retries + 7
ToRest == (3 * Retries + 8) * Len(up) + StepsAt(at, count)

LEMMA StepsAtIs ==
  ASSUME NEW c \in 0..Retries
  PROVE  /\ StepsAt("gone", c) = 0 /\ StepsAt("select", c) = 2
         /\ \A a \in {"start", "read", "digits"} : StepsAt(a, c) = 1
         /\ StepsAt("send", c) = 3 * (Retries - c) + 3
         /\ StepsAt("sleep", c) = 3 * (Retries - c) + 4
         /\ StepsAt("ack", c) = 3 * (Retries - c) + 5
         /\ StepsAt("poll", c) = 3 * Retries + 6
         /\ StepsAt("handle", c) = 3 * Retries + 7
         /\ \A a \in ServerPlaces : StepsAt(a, c) \in 0..(3 * Retries + 7)
<1>1. StepsAt("gone", c) = 0  BY DEF StepsAt
<1>2. StepsAt("select", c) = 2  BY DEF StepsAt
<1>3. StepsAt("start", c) = 1 /\ StepsAt("read", c) = 1 /\ StepsAt("digits", c) = 1
  BY DEF StepsAt
<1>4. StepsAt("send", c) = 3 * (Retries - c) + 3  BY DEF StepsAt
<1>5. StepsAt("sleep", c) = 3 * (Retries - c) + 4  BY DEF StepsAt
<1>6. StepsAt("ack", c) = 3 * (Retries - c) + 5  BY DEF StepsAt
<1>7. StepsAt("poll", c) = 3 * Retries + 6  BY DEF StepsAt
<1>8. StepsAt("handle", c) = 3 * Retries + 7  BY DEF StepsAt
<1>9. ASSUME NEW a \in ServerPlaces PROVE StepsAt(a, c) \in 0..(3 * Retries + 7)
  <2>1. Retries \in Nat  BY GdbAssumption
  <2>2. /\ 3 * (Retries - c) + 3 \in 0..(3 * Retries + 7)
        /\ 3 * (Retries - c) + 4 \in 0..(3 * Retries + 7)
        /\ 3 * (Retries - c) + 5 \in 0..(3 * Retries + 7)
        /\ 3 * Retries + 6 \in 0..(3 * Retries + 7) /\ 3 * Retries + 7 \in 0..(3 * Retries + 7)
        /\ 0 \in 0..(3 * Retries + 7) /\ 1 \in 0..(3 * Retries + 7) /\ 2 \in 0..(3 * Retries + 7)
    BY <2>1
  <2>3. QED BY <1>1, <1>2, <1>3, <1>4, <1>5, <1>6, <1>7, <1>8, <2>2 DEF ServerPlaces
<1>10. QED BY <1>1, <1>2, <1>3, <1>4, <1>5, <1>6, <1>7, <1>8, <1>9

(* Reading outweighs whatever the thread goes on to, and a step that reads *)
(* nothing goes on to fewer.                                               *)
LEMMA ServerRests ==
  ASSUME GTyped, GTyped', Server
  PROVE  ToRest \in Nat /\ ToRest' < ToRest
<1>1. /\ up \in Seq(Wire) /\ up' \in Seq(Wire) /\ at \in ServerPlaces /\ at' \in ServerPlaces
      /\ count \in 0..Retries /\ count' \in 0..Retries /\ Retries \in Nat
  BY GdbAssumption DEF GTyped, GdbTypeOK
<1> DEFINE n == Len(up)
           m == Len(up')
           s == StepsAt(at, count)
           t == StepsAt(at', count')
<1>2. n \in Nat /\ m \in Nat /\ (up # <<>> => Len(Tail(up)) = n - 1)
  BY <1>1, LenProperties, TailOf
<1>3. /\ Receive => m = n - 1
      /\ UNCHANGED up => m = n
  BY <1>2 DEF Receive
<1>4. ToRest = (3 * Retries + 8) * n + s /\ ToRest' = (3 * Retries + 8) * m + t
  BY DEF ToRest, StepsAt
<1>5. s \in 0..(3 * Retries + 7) /\ t \in 0..(3 * Retries + 7)
  BY <1>1, StepsAtIs
<1>6. CASE Receive
  <2>1. m = n - 1  BY <1>3, <1>6
  <2> HIDE DEF n, m, s, t
  <2> DEFINE k == 3 * Retries + 8
             p == k * m
  <2>2. k * n = k * m + k /\ k \in Nat /\ p \in Nat
    <3>1. k \in Nat  BY <1>1
    <3> HIDE DEF k
    <3>2. k * n = k * m + k /\ k * m \in Nat  BY <1>2, <2>1, <3>1
    <3>3. QED BY <3>1, <3>2
  <2>3. s >= 0 /\ t < k /\ s \in Nat /\ t \in Nat  BY <1>1, <1>5
  <2>4. ToRest = k * n + s /\ ToRest' = p + t  BY <1>4
  <2> HIDE DEF k, p
  <2>5. ToRest = p + k + s  BY <2>2, <2>4 DEF p
  <2>6. QED BY <2>2, <2>3, <2>4, <2>5
<1>7. CASE UNCHANGED up /\ t < s
  <2>1. m = n  BY <1>3, <1>7
  <2> HIDE DEF n, m, s, t
  <2> DEFINE p == (3 * Retries + 8) * n
  <2>2. p \in Nat  BY <1>1, <1>2
  <2>3. ToRest = p + s /\ ToRest' = p + t /\ s \in Nat /\ t \in Nat  BY <1>1, <1>4, <1>5, <2>1
  <2> HIDE DEF p
  <2>4. QED BY <1>7, <2>2, <2>3
<1>8. ASSUME ~Receive PROVE UNCHANGED up /\ t < s
  <2> HIDE DEF n, m
  <2>1. UNCHANGED up
    BY <1>8 DEF Server, Select, EndOfRequest, MeetEnd, WaitForStart, ReadLine, Accept, Refuse,
         ShortRead, Handle, Poll, SendReply, WaitForAck, NoAck, TryAgain
  <2>2. CASE Select \/ EndOfRequest
    <3>1. \/ at = "select" /\ at' \in {"start", "gone"}
          \/ at \in {"start", "read", "digits"} /\ at' = "gone"
      BY <2>2 DEF Select, EndOfRequest
    <3>2. (at = "select" => s = 2) /\ (at \in {"start", "read", "digits"} => s = 1)
      BY <1>1, StepsAtIs
    <3>3. (at' = "start" => t = 1) /\ (at' = "gone" => t = 0)  BY <1>1, StepsAtIs
    <3>4. t < s  BY <3>1, <3>2, <3>3
    <3>5. QED BY <2>1, <3>4
  <2>3. CASE Handle
    <3>1. at = "handle" /\ count' = 0 /\ at' \in {"poll", "select", "send"}
      BY <2>3 DEF Handle
    <3>2. s = 3 * Retries + 7  BY <1>1, <3>1, StepsAtIs
    <3>3. (at' = "poll" => t = 3 * Retries + 6) /\ (at' = "select" => t = 2)
          /\ (at' = "send" => t = 3 * (Retries - count') + 3)
      BY <1>1, StepsAtIs
    <3>4. t < s
      <4>1. 3 * (Retries - count') + 3 < 3 * Retries + 7  BY <1>1, <3>1
      <4>2. QED BY <1>1, <3>1, <3>2, <3>3, <4>1
    <3>5. QED BY <2>1, <3>4
  <2>4. CASE Poll
    <3>1. at = "poll" /\ at' \in {"select", "send"}  BY <2>4 DEF Poll
    <3>2. s = 3 * Retries + 6  BY <1>1, <3>1, StepsAtIs
    <3>3. (at' = "select" => t = 2) /\ (at' = "send" => t = 3 * (Retries - count') + 3)
      BY <1>1, StepsAtIs
    <3>4. t < s
      <4>1. \A c \in 0..Retries : 3 * (Retries - c) + 3 < 3 * Retries + 6  BY <1>1
      <4>2. 3 * (Retries - count') + 3 < 3 * Retries + 6  BY <1>1, <4>1
      <4>3. QED BY <1>1, <3>1, <3>2, <3>3, <4>2
    <3>5. QED BY <2>1, <3>4
  <2>5. CASE SendReply
    <3>1. at = "send" /\ at' = "ack" /\ count' = count + 1  BY <2>5 DEF SendReply
    <3>2. s = 3 * (Retries - count) + 3 /\ t = 3 * (Retries - count') + 5
      BY <1>1, <3>1, StepsAtIs
    <3>3. t < s
      <4>1. 3 * (Retries - (count + 1)) + 5 < 3 * (Retries - count) + 3  BY <1>1
      <4>2. QED BY <3>1, <3>2, <4>1
    <3>4. QED BY <2>1, <3>3
  <2>6. CASE NoAck
    <3>1. at = "ack" /\ at' = "sleep" /\ UNCHANGED count  BY <2>6 DEF NoAck
    <3>2. s = 3 * (Retries - count) + 5 /\ t = 3 * (Retries - count') + 4
      BY <1>1, <3>1, StepsAtIs
    <3>3. t < s
      <4>1. 3 * (Retries - count) + 4 < 3 * (Retries - count) + 5  BY <1>1
      <4>2. QED BY <3>1, <3>2, <4>1
    <3>4. QED BY <2>1, <3>3
  <2>7. CASE TryAgain
    <3>1. at = "sleep" /\ at' \in {"send", "select"} /\ UNCHANGED count  BY <2>7 DEF TryAgain
    <3>2. s = 3 * (Retries - count) + 4  BY <1>1, <3>1, StepsAtIs
    <3>3. (at' = "select" => t = 2) /\ (at' = "send" => t = 3 * (Retries - count') + 3)
      BY <1>1, StepsAtIs
    <3>4. t < s
      <4>1. /\ 3 * (Retries - count) + 3 < 3 * (Retries - count) + 4
            /\ 2 < 3 * (Retries - count) + 4
        BY <1>1
      <4>2. QED BY <3>1, <3>2, <3>3, <4>1
    <3>5. QED BY <2>1, <3>4
  <2>8. ~WaitForStart /\ ~ReadLine /\ ~Accept /\ ~Refuse /\ ~ShortRead /\ ~WaitForAck
    BY <1>8 DEF WaitForStart, ReadLine, Accept, Refuse, ShortRead, WaitForAck
  <2>9. QED BY <2>1, <2>2, <2>3, <2>4, <2>5, <2>6, <2>7, <2>8 DEF Server
<1>9. QED BY <1>6, <1>7, <1>8

(* The thread has ended, or is not held up once gdb has left.              *)
MayEnd ==
  \/ at \in {"gone", "poll", "send", "sleep"}
  \/ at \in {"select", "start", "read", "digits", "ack"} /\ (up # <<>> \/ peer = "left")
  \/ at = "handle" /\ \E r \in Requests : TakenFor(r)

(* A step of the thread leaves it fewer to make, and once gdb has left     *)
(* there are no other steps.                                               *)
TowardsTheEnd ==
  /\ Server => ToRest \in Nat /\ ToRest' < ToRest
  /\ peer = "left" => Server

(* Whatever gdb has sent, and also on a socket that is gone, the thread    *)
(* makes a bounded number of steps before gdb has to send again: the tries *)
(* of response() within the loop of request() within that of Run() end     *)
(* (gdb_debugger.cpp 38-78, 108-140).  Once gdb has left there are no      *)
(* other steps, and the thread is at its end or still has one, which is    *)
(* what SessionEnds needs; that handle_line() takes a line of several      *)
(* packets for something is left to the run.                               *)
THEOREM SessionComesToAnEnd ==
  GdbSpec => [](peer = "left" /\ ~joined => MayEnd) /\ [][TowardsTheEnd]_gdbVars
<1> DEFINE Inv == GTyped /\ (~joined => InHandIsRequest)
<1>1. GdbInit => Inv
  BY GdbInitTyped DEF GdbInit, InHandIsRequest
<1>2. Inv /\ [GdbNext]_gdbVars => Inv' /\ [TowardsTheEnd]_gdbVars
  <2>1. SUFFICES ASSUME Inv, [GdbNext]_gdbVars PROVE Inv' /\ [TowardsTheEnd]_gdbVars
    OBVIOUS
  <2>2. GTyped'  BY <2>1, GdbStepTyped
  <2>3. ASSUME ~joined' PROVE InHandIsRequest'  BY <2>1, <2>3, JoinedStays, InHandStep
  <2>4. Server => ToRest \in Nat /\ ToRest' < ToRest  BY <2>1, <2>2, ServerRests
  <2>5. GdbNext /\ peer = "left" => Server
    BY DEF GdbNext, GdbReads, TakeAck, TakeReply, RefuseReply, GdbActs, Ask, Repeat, GiveUp, Leave
  <2>6. QED BY <2>1, <2>2, <2>3, <2>4, <2>5 DEF TowardsTheEnd
<1>3. Inv => (peer = "left" /\ ~joined => MayEnd)
  <2>1. SUFFICES ASSUME GTyped, InHandIsRequest, peer = "left" PROVE MayEnd
    OBVIOUS
  <2>2. at = "handle" => \E r \in Requests : TakenFor(r)
    BY <2>1, TakenForIs DEF InHandIsRequest
  <2>3. QED BY <2>1, <2>2 DEF GTyped, GdbTypeOK, ServerPlaces, MayEnd
<1> HIDE DEF Inv
<1>4. QED BY <1>1, <1>2, <1>3, PTL DEF GdbSpec
===============================================================================

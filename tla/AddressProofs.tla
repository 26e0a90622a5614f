---------------------------- MODULE AddressProofs ----------------------------
(***************************************************************************)
(* The addresses of inet_XtoX.c, of any number of words: an address is     *)
(* read back from each of its texts, in every byte or group, with one run  *)
(* of zeros left out or none.  The lemmas on strings are those of          *)
(* TextProofs.                                                             *)
(***************************************************************************)
EXTENDS Inet, TextProofs

-----------------------------------------------------------------------------
(* Numbers as text                                                          *)

LEMMA HexValueNat ==
  ASSUME NEW c \in Nat
  PROVE  HexValue(c) \in Nat /\ HexValue(c) <= 16
<1>1. CASE Digit(c)
  <2>1. HexValue(c) = c - Zero /\ c - Zero \in 0 .. 9
    BY <1>1 DEF HexValue, Digit, Zero
  <2> QED
    BY <2>1
<1>2. CASE ~Digit(c)
  BY <1>2 DEF HexValue
<1> QED
  BY <1>1, <1>2

LEMMA HexValueIs ==
  /\ \A n \in 0 .. 15 : HexDigit(n) \in Nat /\ HexValue(HexDigit(n)) = n
  /\ \A n \in 0 .. 9 : Zero + n \in Nat /\ HexValue(Zero + n) = n
  /\ HexValue(Colon) = 16 /\ HexValue(Dot) = 16
<1>2. \A n \in 0 .. 9 : Zero + n \in Nat /\ HexValue(Zero + n) = n
  BY DEF HexValue, Digit, Zero
<1>3. ASSUME NEW n \in 0 .. 15 PROVE HexDigit(n) \in Nat /\ HexValue(HexDigit(n)) = n
  <2>1. CASE n < 10
    BY <1>2, <2>1 DEF HexDigit
  <2>2. CASE n >= 10
    <3>1. HexDigit(n) = n + 87 /\ n + 87 \in 97 .. 102 /\ ~(n + 87 \in Zero .. Zero + 9)
      BY <2>2 DEF HexDigit, Zero
    <3>2. HexValue(n + 87) = (n + 87) - 87
      BY <3>1 DEF HexValue, Digit
    <3> QED
      BY <3>1, <3>2
  <2> QED
    BY <2>1, <2>2
<1>4. HexValue(Colon) = 16 /\ HexValue(Dot) = 16
  BY DEF HexValue, Digit, Zero, Colon, Dot
<1> QED
  BY <1>2, <1>3, <1>4

\* The digits that a string starts with.
LEMMA DigitsAre ==
  ASSUME NEW d \in Seq(Nat), NEW r \in Seq(Nat), NEW base \in Nat,
         \A i \in 1 .. Len(d) : HexValue(d[i]) < base, r # << >> => HexValue(r[1]) >= base
  PROVE  Digits(d \o r, base) = d /\ After(d \o r, d) = r
<1> DEFINE s == d \o r
           stops == {c \in {s[i] : i \in DOMAIN s} : HexValue(c) >= base}
           u == Until(s, stops)
<1>1. /\ s \in Seq(Nat) /\ Len(s) = Len(d) + Len(r)
      /\ \A i \in 1 .. Len(d) + Len(r) : s[i] = IF i <= Len(d) THEN d[i] ELSE r[i - Len(d)]
  BY ConcatProperties
<1>2. Len(d) \in Nat /\ Len(r) \in Nat /\ (r # << >> => Len(r) # 0)
  BY LenProperties, EmptySeq
<1>3. \A c \in stops : HexValue(c) >= base
  OBVIOUS
<1>4. u = Digits(s, base)
  BY DEF Digits
<1>5. r # << >> => s[Len(d) + 1] \in stops
  <2> SUFFICES ASSUME r # << >> PROVE s[Len(d) + 1] \in stops
    OBVIOUS
  <2>1. Len(d) + 1 \in 1 .. Len(s) /\ s[Len(d) + 1] = r[1]
    <3>1. Len(d) + 1 \in 1 .. Len(d) + Len(r) /\ ~(Len(d) + 1 <= Len(d)) /\ (Len(d) + 1) - Len(d) = 1
      BY <1>2
    <3> QED
      BY <1>1, <3>1
  <2>2. Len(d) + 1 \in DOMAIN s
    <3>1. DOMAIN s = 1 .. Len(s)
      BY <1>1, LenProperties
    <3> QED
      BY <2>1, <3>1
  <2> QED
    BY <2>1, <2>2
<1> HIDE DEF s, stops
<1>6. /\ u \in Seq(Nat) /\ Begins(s, u) /\ (\A i \in 1 .. Len(u) : u[i] \notin stops)
      /\ Len(u) < Len(s) => s[Len(u) + 1] \in stops
  BY <1>1, UntilIs
<1> HIDE DEF u
<1>7. Len(u) \in Nat /\ Len(u) <= Len(s) /\ \A i \in 1 .. Len(u) : u[i] = s[i]
  BY <1>6, LenProperties DEF Begins
<1>8. ~(Len(u) < Len(d))
  <2> SUFFICES ASSUME Len(u) < Len(d) PROVE FALSE
    OBVIOUS
  <2> DEFINE k == Len(u) + 1
  <2>1. k \in 1 .. Len(d) /\ k \in 1 .. Len(d) + Len(r) /\ k <= Len(d) /\ Len(u) < Len(s)
    BY <1>1, <1>2, <1>7
  <2>2. s[k] = d[k] /\ HexValue(d[k]) < base /\ s[k] \in stops
    BY <1>1, <1>6, <2>1
  <2> HIDE DEF k
  <2>3. HexValue(d[k]) >= base
    BY <1>3, <2>2
  <2>4. HexValue(d[k]) \in Int
    <3>1. d[k] \in Nat
      BY <2>1, ElementOfSeq
    <3>2. HexValue(d[k]) \in Nat
      BY <3>1, HexValueNat
    <3> QED
      BY <3>2
  <2> QED
    BY <2>2, <2>3, <2>4
<1>9. ~(Len(u) > Len(d))
  <2> SUFFICES ASSUME Len(u) > Len(d) PROVE FALSE
    OBVIOUS
  <2>1. Len(d) + 1 \in 1 .. Len(u) /\ Len(r) # 0
    BY <1>1, <1>2, <1>7
  <2>2. r # << >>
    BY <2>1
  <2> QED
    BY <1>5, <1>6, <1>7, <2>1, <2>2
<1>10. u = d
  <2>1. Len(u) = Len(d)
    BY <1>2, <1>7, <1>8, <1>9
  <2>2. \A i \in 1 .. Len(u) : u[i] = d[i]
    BY <1>1, <1>2, <1>7, <2>1
  <2> QED
    BY <1>6, <2>1, <2>2, SeqEqual
<1>11. After(s, d) = r
  <2>1. s = d \o After(s, d) /\ After(s, d) \in Seq(Nat)
    <3>1. s \in Seq(Nat) /\ Begins(s, d)
      BY <1>1, <1>6, <1>10
    <3> QED
      BY <3>1, AfterIs
  <2>2. d \o After(s, d) = d \o r
    BY <2>1 DEF s
  <2> QED
    BY <2>1, <2>2, ConcatSimplifications
<1> QED
  BY <1>4, <1>10, <1>11 DEF s

\* The turns of a loop over digits.
LEMMA ValueLoop ==
  ASSUME NEW d \in Seq(Nat), NEW base \in {10, 16}
  PROVE  \E f : /\ f[0] = 0 /\ \A n \in 1 .. Len(d) : f[n] = base * f[n - 1] + HexValue(d[n])
               /\ (\A n \in 0 .. Len(d) : f[n] \in Nat)
               /\ Value(d, base) = f[Len(d)]
<1> DEFINE W == [n \in 0 .. Len(d) |-> Nat]
           Turned(t, n) == base * t + HexValue(d[n])
           D == [vn \in Nat \X (1 .. Len(d)) |-> Turned(vn[1], vn[2])]
           Is(f) == f = [n \in 0 .. Len(d) |-> IF n = 0 THEN 0 ELSE Turned(f[n - 1], n)]
           turns == CHOOSE f : Is(f)
<1>1. Len(d) \in Nat
  BY LenProperties
<1>2. 0 \in Nat
  OBVIOUS
<1>3. ASSUME NEW n \in 1 .. Len(d), NEW t \in Nat PROVE Turned(t, n) \in Nat
  <2>1. d[n] \in Nat
    BY <1>3, ElementOfSeq
  <2>2. HexValue(d[n]) \in Nat
    BY <2>1, HexValueNat
  <2>3. base * t \in Nat
    BY <1>3
  <2> QED
    BY <2>2, <2>3
<1>9. Value(d, base) = turns[Len(d)]
  BY DEF Value
<1> HIDE DEF Turned
<1>4. Leads(Len(d), W, 0, D)
  <2>1. \A n \in 0 .. Len(d) : W[n] = Nat
    OBVIOUS
  <2>2. ASSUME NEW n \in 1 .. Len(d), NEW t \in Nat PROVE D[<<t, n>>] \in Nat
    <3>1. <<t, n>> \in Nat \X (1 .. Len(d)) /\ D[<<t, n>>] = Turned(t, n)
      OBVIOUS
    <3> QED
      BY <1>3, <3>1
  <2> HIDE DEF W, D
  <2>3. 0 \in 0 .. Len(d) /\ \A n \in 1 .. Len(d) : n \in 0 .. Len(d) /\ n - 1 \in 0 .. Len(d)
    BY <1>1
  <2>4. \A n \in 1 .. Len(d) : W[n - 1] = Nat /\ W[n] = Nat
    BY <2>1, <2>3
  <2> QED
    BY <1>2, <2>1, <2>2, <2>3, <2>4 DEF Leads
<1> HIDE DEF W, D
<1>5. PICK f : IsLoop(f, Len(d), 0, D)
  BY <1>1, <1>4, LoopExists
<1>6. \A n \in 0 .. Len(d) : f[n] \in W[n]
  BY <1>1, <1>4, <1>5, LoopStates
<1>7. Is(f)
  <2>1. \A n \in 1 .. Len(d) : f[n - 1] \in Nat
    BY <1>1, <1>6 DEF W
  <2>2. \A n \in 1 .. Len(d) : D[<<f[n - 1], n>>] = Turned(f[n - 1], n)
    BY <2>1 DEF D
  <2>3. \A n \in 0 .. Len(d) : (IF n = 0 THEN 0 ELSE D[<<f[n - 1], n>>])
                              = (IF n = 0 THEN 0 ELSE Turned(f[n - 1], n))
    BY <1>1, <2>2
  <2>4. f = [n \in 0 .. Len(d) |-> IF n = 0 THEN 0 ELSE D[<<f[n - 1], n>>]]
    BY <1>5 DEF IsLoop
  <2> QED
    BY <2>3, <2>4, Zenon
<1>8. Is(turns)
  <2> HIDE DEF Is
  <2> QED
    BY <1>7
<1> HIDE DEF turns
<1>10. turns[0] = 0 /\ \A n \in 1 .. Len(d) : turns[n] = Turned(turns[n - 1], n)
  <2> DEFINE N == Len(d)
             c0 == 0
  <2>1. N \in Nat /\ turns = [n \in 0 .. N |-> IF n = 0 THEN c0 ELSE Turned(turns[n - 1], n)]
    BY <1>1, <1>8
  <2> HIDE DEF N, c0
  <2>2. 0 \in 0 .. N
    BY <2>1
  <2>3. turns[0] = c0
    BY <2>1, <2>2, Zenon
  <2>4. ASSUME NEW n \in 1 .. N PROVE turns[n] = Turned(turns[n - 1], n)
    <3>1. n \in 0 .. N /\ n # 0
      BY <2>1
    <3> QED
      BY <2>1, <3>1, Zenon
  <2> QED
    BY <2>3, <2>4 DEF N, c0
<1>11. \A n \in 0 .. Len(d) : turns[n] \in Nat
  <2>1. turns[0] \in W[0]
    BY <1>1, <1>2, <1>10 DEF W
  <2>2. \A n \in 1 .. Len(d) : turns[n - 1] \in W[n - 1] => turns[n] \in W[n]
    BY <1>1, <1>3, <1>10 DEF W
  <2>3. \A n \in 0 .. Len(d) : turns[n] \in W[n]
    BY <1>1, <2>1, <2>2, LoopInvariant
  <2> QED
    BY <2>3 DEF W
<1>12. \A n \in 1 .. Len(d) : turns[n] = base * turns[n - 1] + HexValue(d[n])
  BY <1>10 DEF Turned
<1> QED
  BY <1>9, <1>10, <1>11, <1>12

\* The number that up to four digits stand for.
LEMMA ValueIs ==
  ASSUME NEW d \in Seq(Nat), NEW base \in {10, 16}, Len(d) \in 1 .. 4
  PROVE  /\ Value(d, base) \in Nat
         /\ Len(d) = 1 => Value(d, base) = HexValue(d[1])
         /\ Len(d) = 2 => Value(d, base) = base * HexValue(d[1]) + HexValue(d[2])
         /\ Len(d) = 3 => Value(d, base) = base * (base * HexValue(d[1]) + HexValue(d[2])) + HexValue(d[3])
         /\ Len(d) = 4 => Value(d, base) =
              base * (base * (base * HexValue(d[1]) + HexValue(d[2])) + HexValue(d[3])) + HexValue(d[4])
<1>1. PICK f : /\ f[0] = 0 /\ \A n \in 1 .. Len(d) : f[n] = base * f[n - 1] + HexValue(d[n])
               /\ (\A n \in 0 .. Len(d) : f[n] \in Nat)
               /\ Value(d, base) = f[Len(d)]
  BY ValueLoop
<1>2. Len(d) \in Nat
  BY LenProperties
<1>3. \A n \in 1 .. Len(d) : HexValue(d[n]) \in Nat
  <2> TAKE n \in 1 .. Len(d)
  <2>1. d[n] \in Nat
    BY ElementOfSeq
  <2> QED
    BY <2>1, HexValueNat
<1>4. f[1] = HexValue(d[1])
  <2>1. 1 \in 1 .. Len(d) /\ 1 - 1 = 0
    OBVIOUS
  <2>2. f[1] = base * 0 + HexValue(d[1]) /\ HexValue(d[1]) \in Nat
    BY <1>1, <1>3, <2>1
  <2>3. base * 0 = 0
    OBVIOUS
  <2> QED
    BY <2>2, <2>3
<1>5. Len(d) >= 2 => f[2] = base * f[1] + HexValue(d[2])
  BY <1>1, <1>2
<1>6. Len(d) >= 3 => f[3] = base * f[2] + HexValue(d[3])
  BY <1>1, <1>2
<1>7. Len(d) >= 4 => f[4] = base * f[3] + HexValue(d[4])
  BY <1>1, <1>2
<1>8. Value(d, base) \in Nat
  BY <1>1, <1>2
<1> DEFINE v == Value(d, base)
           h1 == HexValue(d[1])
           h2 == HexValue(d[2])
           h3 == HexValue(d[3])
           h4 == HexValue(d[4])
<1>9. (Len(d) = 1 => v = f[1]) /\ (Len(d) = 2 => v = f[2]) /\ (Len(d) = 3 => v = f[3]) /\ (Len(d) = 4 => v = f[4])
  BY <1>1
<1> HIDE DEF v, h1, h2, h3, h4
<1>10. Len(d) >= 2 => f[2] = base * h1 + h2
  BY <1>4, <1>5 DEF h1, h2
<1>11. Len(d) >= 3 => f[3] = base * (base * h1 + h2) + h3
  BY <1>6, <1>10 DEF h3
<1>12. Len(d) >= 4 => f[4] = base * (base * (base * h1 + h2) + h3) + h4
  BY <1>7, <1>11 DEF h4
<1>13. /\ Len(d) = 1 => v = h1
       /\ Len(d) = 2 => v = base * h1 + h2
       /\ Len(d) = 3 => v = base * (base * h1 + h2) + h3
       /\ Len(d) = 4 => v = base * (base * (base * h1 + h2) + h3) + h4
  <2>1. Len(d) = 1 => v = h1
    BY <1>4, <1>9 DEF h1
  <2>2. Len(d) = 2 => v = base * h1 + h2
    BY <1>9, <1>10
  <2>3. Len(d) = 3 => v = base * (base * h1 + h2) + h3
    BY <1>9, <1>11
  <2>4. Len(d) = 4 => v = base * (base * (base * h1 + h2) + h3) + h4
    BY <1>9, <1>12
  <2> QED
    BY <2>1, <2>2, <2>3, <2>4
<1> QED
  BY <1>8, <1>13 DEF v, h1, h2, h3, h4

Address8 == 0 .. 255

\* The end of four digits.
LEMMA TailOf ==
  ASSUME NEW s \in Seq(Nat), NEW m \in 1 .. 4, Len(s) \in {3, 4}, m <= Len(s), NEW l, l = Len(s)
  PROVE  /\ SubSeq(s, m, l) \in Seq(Nat) /\ Len(SubSeq(s, m, l)) = l - m + 1
         /\ \A i \in 1 .. l - m + 1 : SubSeq(s, m, l)[i] = s[m + i - 1]
<1>1. \A i \in m .. l : s[i] \in Nat
  BY ElementOfSeq
<1>2. m \in Int /\ l \in Int /\ m <= l
  OBVIOUS
<1> QED
  BY <1>1, <1>2, SubSeqProperties

\* A word in hexadecimal.
LEMMA HexWordIs ==
  ASSUME NEW x \in Address16
  PROVE  /\ HexWord(x) \in Seq(Nat) /\ Len(HexWord(x)) \in 1 .. 4
         /\ \A i \in 1 .. Len(HexWord(x)) : HexValue(HexWord(x)[i]) < 16
         /\ Value(HexWord(x), 16) = x
<1> DEFINE a == x \div 4096
           b == (x \div 256) % 16
           c == (x \div 16) % 16
           e == x % 16
           s == HexDigits(x)
           m == IF x > 4095 THEN 1 ELSE IF x > 255 THEN 2 ELSE IF x > 15 THEN 3 ELSE 4
           d == HexWord(x)
<1>0. x \in Nat /\ x <= 65535
  BY DEF Address16
<1>1. a \in 0 .. 15 /\ b \in 0 .. 15 /\ c \in 0 .. 15 /\ e \in 0 .. 15
  BY <1>0
<1>2. x = 16 * (16 * (16 * a + b) + c) + e
  BY <1>0
<1>3. (x <= 4095 => a = 0) /\ (x <= 255 => b = 0) /\ (x <= 15 => c = 0)
  BY <1>0
<1>4. s = <<HexDigit(a), HexDigit(b), HexDigit(c), HexDigit(e)>> /\ d = SubSeq(s, m, 4)
  BY DEF HexDigits, HexWord
<1>5. m \in 1 .. 4 /\ (m >= 2 => a = 0) /\ (m >= 3 => b = 0) /\ (m = 4 => c = 0)
  BY <1>0, <1>3
<1> HIDE DEF a, b, c, e, m, d, s
<1>6. HexDigit(a) \in Nat /\ HexDigit(b) \in Nat /\ HexDigit(c) \in Nat /\ HexDigit(e) \in Nat
  BY <1>1, HexValueIs
<1>7. s \in Seq(Nat) /\ Len(s) = 4
  BY <1>4, <1>6
<1>8. HexValue(s[1]) = a /\ HexValue(s[2]) = b /\ HexValue(s[3]) = c /\ HexValue(s[4]) = e
  BY <1>1, <1>4, HexValueIs
<1>9. /\ d \in Seq(Nat) /\ Len(d) = 4 - m + 1
      /\ \A i \in 1 .. 4 - m + 1 : d[i] = s[m + i - 1]
  BY <1>4, <1>5, <1>7, TailOf
<1>10. Len(d) \in 1 .. 4 /\ \A i \in 1 .. Len(d) : HexValue(d[i]) < 16
  <2>1. \A k \in 1 .. 4 : HexValue(s[k]) < 16
    BY <1>1, <1>8
  <2>2. Len(d) \in 1 .. 4
    BY <1>5, <1>9
  <2>3. ASSUME NEW i \in 1 .. Len(d) PROVE HexValue(d[i]) < 16
    <3>1. m + i - 1 \in 1 .. 4 /\ d[i] = s[m + i - 1]
      BY <1>5, <1>9, <2>2
    <3> QED
      BY <2>1, <3>1
  <2> QED
    BY <2>2, <2>3
<1>11. Value(d, 16) = x
  <2>1. CASE m = 1
    <3>1. Len(d) = 4 /\ d[1] = s[1] /\ d[2] = s[2] /\ d[3] = s[3] /\ d[4] = s[4]
      BY <1>9, <2>1
    <3>2. Value(d, 16) = 16 * (16 * (16 * a + b) + c) + e
      BY <1>8, <1>9, <3>1, ValueIs
    <3> QED
      BY <1>2, <3>2
  <2>2. CASE m = 2
    <3>1. Len(d) = 3 /\ d[1] = s[2] /\ d[2] = s[3] /\ d[3] = s[4]
      BY <1>9, <2>2
    <3>2. Value(d, 16) = 16 * (16 * b + c) + e
      BY <1>8, <1>9, <3>1, ValueIs
    <3> QED
      BY <1>1, <1>2, <1>5, <2>2, <3>2
  <2>3. CASE m = 3
    <3>1. Len(d) = 2 /\ d[1] = s[3] /\ d[2] = s[4]
      BY <1>9, <2>3
    <3>2. Value(d, 16) = 16 * c + e
      BY <1>8, <1>9, <3>1, ValueIs
    <3> QED
      BY <1>1, <1>2, <1>5, <2>3, <3>2
  <2>4. CASE m = 4
    <3>1. Len(d) = 1 /\ d[1] = s[4]
      BY <1>9, <2>4
    <3>2. Value(d, 16) = e
      BY <1>8, <1>9, <3>1, ValueIs
    <3> QED
      BY <1>1, <1>2, <1>5, <2>4, <3>2
  <2> QED
    BY <1>5, <2>1, <2>2, <2>3, <2>4
<1> QED
  BY <1>9, <1>10, <1>11 DEF d

\* A byte in decimal, which also may be read as hexadecimal.
LEMMA DecimalIs ==
  ASSUME NEW x \in Address8
  PROVE  /\ Decimal(x) \in Seq(Nat) /\ Len(Decimal(x)) \in 1 .. 3
         /\ \A i \in 1 .. Len(Decimal(x)) : HexValue(Decimal(x)[i]) < 10
         /\ Value(Decimal(x), 10) = x
         /\ Value(Decimal(x), 16) \in Nat /\ Value(Decimal(x), 16) <= 65535
<1> DEFINE a == x \div 100
           b == (x \div 10) % 10
           c == x % 10
           s == ThreeDigits(x)
           m == IF x > 99 THEN 1 ELSE IF x > 9 THEN 2 ELSE 3
           d == Decimal(x)
<1>0. x \in 0 .. 255
  BY DEF Address8
<1>1. a \in 0 .. 9 /\ b \in 0 .. 9 /\ c \in 0 .. 9
  BY <1>0
<1>2. x = 10 * (10 * a + b) + c
  BY <1>0
<1>3. (x <= 99 => a = 0) /\ (x <= 9 => b = 0)
  BY <1>0
<1>4. s = <<Zero + a, Zero + b, Zero + c>> /\ d = SubSeq(s, m, 3)
  BY DEF ThreeDigits, Decimal
<1>5. m \in 1 .. 4 /\ m <= 3 /\ (m >= 2 => a = 0) /\ (m = 3 => b = 0)
  BY <1>0, <1>3
<1> HIDE DEF a, b, c, m, d, s
<1>6. Zero + a \in Nat /\ Zero + b \in Nat /\ Zero + c \in Nat
  BY <1>1, HexValueIs
<1>7. s \in Seq(Nat) /\ Len(s) = 3
  BY <1>4, <1>6
<1>8. HexValue(s[1]) = a /\ HexValue(s[2]) = b /\ HexValue(s[3]) = c
  BY <1>1, <1>4, HexValueIs
<1>9. /\ d \in Seq(Nat) /\ Len(d) = 3 - m + 1
      /\ \A i \in 1 .. 3 - m + 1 : d[i] = s[m + i - 1]
  BY <1>4, <1>5, <1>7, TailOf
<1>10. Len(d) \in 1 .. 3 /\ \A i \in 1 .. Len(d) : HexValue(d[i]) < 10
  <2>1. \A k \in 1 .. 3 : HexValue(s[k]) < 10
    BY <1>1, <1>8
  <2>2. Len(d) \in 1 .. 3 /\ \A i \in 1 .. Len(d) : m + i - 1 \in 1 .. 3 /\ d[i] = s[m + i - 1]
    BY <1>5, <1>9
  <2> QED
    BY <2>1, <2>2
<1>11. Value(d, 10) = x /\ Value(d, 16) \in Nat /\ Value(d, 16) <= 65535
  <2>1. CASE m = 1
    <3>1. Len(d) = 3 /\ d[1] = s[1] /\ d[2] = s[2] /\ d[3] = s[3]
      BY <1>9, <2>1
    <3>2. Value(d, 10) = 10 * (10 * a + b) + c
      BY <1>8, <1>9, <3>1, ValueIs
    <3>3. Value(d, 16) = 16 * (16 * a + b) + c
      BY <1>8, <1>9, <3>1, ValueIs
    <3> QED
      BY <1>1, <1>2, <3>2, <3>3
  <2>2. CASE m = 2
    <3>1. Len(d) = 2 /\ d[1] = s[2] /\ d[2] = s[3]
      BY <1>9, <2>2
    <3>2. Value(d, 10) = 10 * b + c
      BY <1>8, <1>9, <3>1, ValueIs
    <3>3. Value(d, 16) = 16 * b + c
      BY <1>8, <1>9, <3>1, ValueIs
    <3> QED
      BY <1>1, <1>2, <1>5, <2>2, <3>2, <3>3
  <2>3. CASE m = 3
    <3>1. Len(d) = 1 /\ d[1] = s[3]
      BY <1>9, <2>3
    <3>2. Value(d, 10) = c /\ Value(d, 16) = c
      BY <1>8, <1>9, <3>1, ValueIs
    <3> QED
      BY <1>1, <1>2, <1>5, <2>3, <3>2
  <2> QED
    BY <1>5, <2>1, <2>2, <2>3
<1> QED
  BY <1>9, <1>10, <1>11 DEF d

-----------------------------------------------------------------------------
(* One turn of pton6()                                                      *)

\* A word, and what stands behind it.
LEMMA WordRead ==
  ASSUME NEW x \in Address16, NEW r \in Seq(Nat), r # << >> => r[1] = Colon
  PROVE  /\ Digits(HexWord(x) \o r, 16) = HexWord(x) /\ After(HexWord(x) \o r, HexWord(x)) = r
         /\ Value(HexWord(x), 16) = x /\ HexWord(x) # << >> /\ x <= 65535
<1> DEFINE d == HexWord(x)
<1>1. /\ d \in Seq(Nat) /\ Len(d) \in 1 .. 4
      /\ \A i \in 1 .. Len(d) : HexValue(d[i]) < 16
      /\ Value(d, 16) = x
  BY HexWordIs
<1> HIDE DEF d
<1>0. HexValue(Colon) = 16
  BY HexValueIs
<1>2. r # << >> => HexValue(r[1]) >= 16
  <2> HAVE r # << >>
  <2>1. r[1] = Colon
    OBVIOUS
  <2> QED
    BY <1>0, <2>1
<1>3. Digits(d \o r, 16) = d /\ After(d \o r, d) = r
  BY <1>1, <1>2, DigitsAre
<1>4. d # << >>
  <2>1. Len(d) \in 1 .. 4
    BY <1>1
  <2> QED
    BY <2>1
<1>5. x <= 65535
  BY DEF Address16
<1> QED
  BY <1>1, <1>3, <1>4, <1>5 DEF d

\* The turn, with what it has read.
Body(t, digits, rest, v, v4) ==
  LET double == Len(rest) > 1 /\ rest[2] = Colon IN
    IF ~t.on THEN t
    ELSE IF digits = << >>
    THEN Gives(t, IF t.z = Len(t.a) /\ t.c = << >> THEN Filled(t.a, t.z) ELSE NotAddress)
    ELSE IF v > 65535 THEN Gives(t, NotAddress)
    ELSE IF rest = << >> THEN Gives(t, IF Len(t.a) >= Words THEN NotAddress ELSE Filled(Append(t.a, v), t.z))
    ELSE IF rest[1] = Colon
    THEN IF Len(t.a) >= Words \/ (double /\ t.z # Missing) THEN Gives(t, NotAddress)
         ELSE IF double /\ Len(rest) = 2 THEN Gives(t, Filled(Append(t.a, v), Len(t.a) + 1))
         ELSE IF double THEN Further(t, SubSeq(rest, 3, Len(rest)), v, Len(t.a) + 1)
         ELSE Further(t, SubSeq(rest, 2, Len(rest)), v, t.z)
    ELSE Gives(t, IF rest[1] # Dot \/ Len(t.a) > 6 \/ v4 = NotAddress THEN NotAddress
                  ELSE Filled(t.a \o <<v4[1] * 256 + v4[2], v4[3] * 256 + v4[4]>>, t.z))

LEMMA BodyIs ==
  ASSUME NEW t
  PROVE  GroupTurn(t) = Body(t, Digits(t.c, 16), After(t.c, Digits(t.c, 16)), Value(Digits(t.c, 16), 16), Pton4(t.c))
BY DEF GroupTurn, Body

Spells(c, x, r) == c = HexWord(x) \o r

\* The turn that reads a word, and what stands behind it.
LEMMA WordTurn ==
  ASSUME NEW x \in Address16, NEW r \in Seq(Nat), r # << >> => r[1] = Colon,
         NEW t, t.on = TRUE, Spells(t.c, x, r), t.a \in Seq(Nat), Len(t.a) < Words
  PROVE  /\ r = << >> => GroupTurn(t) = Gives(t, Filled(Append(t.a, x), t.z))
         /\ r # << >> /\ ~(Len(r) > 1 /\ r[2] = Colon) =>
              GroupTurn(t) = Further(t, SubSeq(r, 2, Len(r)), x, t.z)
         /\ Len(r) > 2 /\ r[2] = Colon /\ t.z = Missing =>
              GroupTurn(t) = Further(t, SubSeq(r, 3, Len(r)), x, Len(t.a) + 1)
         /\ Len(r) = 2 /\ r[2] = Colon /\ t.z = Missing =>
              GroupTurn(t) = Gives(t, Filled(Append(t.a, x), Len(t.a) + 1))
<1> DEFINE d == HexWord(x)
<1>1. /\ Digits(d \o r, 16) = d /\ After(d \o r, d) = r
      /\ Value(d, 16) = x /\ d # << >> /\ x <= 65535
  BY WordRead
<1>2. t.c = d \o r
  BY DEF Spells
<1>3. ~(x > 65535)
  BY DEF Address16
<1> HIDE DEF d
<1>4. GroupTurn(t) = Body(t, d, r, x, Pton4(t.c))
  <2> DEFINE c == d \o r
  <2>5. t.c = c /\ Digits(c, 16) = d /\ After(c, d) = r
    BY <1>1, <1>2
  <2> HIDE DEF c
  <2>1. Digits(t.c, 16) = d
    BY <2>5
  <2>2. After(t.c, d) = r
    BY <2>5
  <2>3. Value(d, 16) = x
    BY <1>1
  <2>4. GroupTurn(t) = Body(t, Digits(t.c, 16), After(t.c, Digits(t.c, 16)), Value(Digits(t.c, 16), 16), Pton4(t.c))
    BY BodyIs
  <2> QED
    BY <2>1, <2>2, <2>3, <2>4, Zenon
<1>5. ~(Len(t.a) >= Words)
  BY LenProperties DEF Words
<1>6. CASE r = << >>
  <2>1. GroupTurn(t) = Gives(t, Filled(Append(t.a, x), t.z))
    BY <1>1, <1>3, <1>4, <1>5, <1>6 DEF Body
  <2>2. Len(r) = 0
    BY <1>6
  <2> QED
    BY <1>6, <2>1, <2>2
<1>7. CASE r # << >>
  <2>1. r[1] = Colon /\ Len(r) \in Nat /\ Len(r) # 0
    BY <1>7, LenProperties, EmptySeq
  <2>2. GroupTurn(t) =
          IF (Len(r) > 1 /\ r[2] = Colon) /\ t.z # Missing THEN Gives(t, NotAddress)
          ELSE IF (Len(r) > 1 /\ r[2] = Colon) /\ Len(r) = 2
          THEN Gives(t, Filled(Append(t.a, x), Len(t.a) + 1))
          ELSE IF Len(r) > 1 /\ r[2] = Colon THEN Further(t, SubSeq(r, 3, Len(r)), x, Len(t.a) + 1)
          ELSE Further(t, SubSeq(r, 2, Len(r)), x, t.z)
    BY <1>1, <1>3, <1>4, <1>5, <1>7, <2>1 DEF Body
  <2>3. ASSUME ~(Len(r) > 1 /\ r[2] = Colon)
        PROVE  GroupTurn(t) = Further(t, SubSeq(r, 2, Len(r)), x, t.z)
    BY <2>2, <2>3, Zenon
  <2>4. ASSUME Len(r) > 2, r[2] = Colon, t.z = Missing
        PROVE  GroupTurn(t) = Further(t, SubSeq(r, 3, Len(r)), x, Len(t.a) + 1)
    <3> DEFINE L == Len(r)
    <3>2. L \in Nat /\ L > 2
      BY <2>1, <2>4
    <3> HIDE DEF L
    <3>3. L > 1 /\ L # 2
      BY <3>2
    <3>1. Len(r) > 1 /\ Len(r) # 2
      BY <3>3 DEF L
    <3> QED
      BY <2>2, <2>4, <3>1, Zenon
  <2>5. ASSUME Len(r) = 2, r[2] = Colon, t.z = Missing
        PROVE  GroupTurn(t) = Gives(t, Filled(Append(t.a, x), Len(t.a) + 1))
    <3>1. Len(r) > 1
      BY <2>5
    <3> QED
      BY <2>2, <2>5, <3>1, Zenon
  <2> QED
    BY <1>7, <2>3, <2>4, <2>5, Zenon
<1> QED
  BY <1>6, <1>7, Zenon

State(c, a, z) == [on |-> TRUE, c |-> c, a |-> a, z |-> z]

\* The last word.
LEMMA LastWord ==
  ASSUME NEW x \in Address16, NEW a \in Seq(Nat), NEW z, Len(a) < Words
  PROVE  LET t == GroupTurn(State(HexWord(x), a, z)) IN t.on = FALSE /\ t.a = Filled(Append(a, x), z)
<1> DEFINE t == State(HexWord(x), a, z)
           u == GroupTurn(t)
<1>1. t.on = TRUE /\ t.c = HexWord(x) /\ t.a = a /\ t.z = z
  BY DEF State
<1>2. Spells(t.c, x, << >>)
  <2>1. HexWord(x) \in Seq(Nat)
    BY HexWordIs
  <2>2. HexWord(x) \o << >> = HexWord(x)
    BY <2>1, ConcatProperties
  <2> QED
    BY <1>1, <2>2 DEF Spells
<1>3. << >> \in Seq(Nat)
  BY EmptySeq
<1>4. t = [on |-> TRUE, c |-> HexWord(x), a |-> a, z |-> z]
  BY DEF State
<1> HIDE DEF t
<1>5. u = Gives(t, Filled(Append(t.a, x), t.z))
  BY <1>1, <1>2, <1>3, WordTurn
<1> HIDE DEF u
<1>6. u = [on |-> FALSE, c |-> HexWord(x), a |-> Filled(Append(a, x), z), z |-> z]
  BY <1>1, <1>4, <1>5 DEF Gives
<1>7. u.on = FALSE /\ u.a = Filled(Append(a, x), z)
  BY <1>6
<1> QED
  BY <1>7 DEF t, u

\* What stands behind a string, one character, and two.
LEMMA SubSeqBehind ==
  ASSUME NEW p \in Seq(Nat), NEW q \in Seq(Nat)
  PROVE  SubSeq(p \o q, Len(p) + 1, Len(p \o q)) = q
<1> DEFINE v == Cat(p, q)
<1>1. Span(v, Len(p), Len(v)) = q
  BY CatSpans
<1> QED
  BY <1>1, Zenon DEF Span, Cat

LEMMA BehindOne ==
  ASSUME NEW x \in Nat, NEW q \in Seq(Nat)
  PROVE  LET r == <<x>> \o q IN
         /\ r \in Seq(Nat) /\ Len(r) = 1 + Len(q) /\ r[1] = x /\ r # << >>
         /\ q # << >> => Len(q) > 0 /\ r[2] = q[1]
         /\ SubSeq(r, 2, Len(r)) = q
<1> DEFINE p == <<x>>
           r == <<x>> \o q
<1>1. p \in Seq(Nat) /\ Len(p) = 1 /\ p[1] = x
  OBVIOUS
<1>9. r = p \o q
  OBVIOUS
<1> HIDE DEF p, r
<1>2. /\ r \in Seq(Nat) /\ Len(r) = Len(p) + Len(q)
      /\ \A i \in 1 .. Len(p) + Len(q) : r[i] = IF i <= Len(p) THEN p[i] ELSE q[i - Len(p)]
  BY <1>1, <1>9, ConcatProperties
<1>3. Len(q) \in Nat /\ (q # << >> => Len(q) # 0)
  BY LenProperties, EmptySeq
<1>4. r[1] = x /\ r # << >>
  <2>1. 1 \in 1 .. Len(p) + Len(q) /\ 1 <= Len(p)
    BY <1>1, <1>3
  <2>2. Len(r) # 0
    BY <1>1, <1>2, <1>3
  <2>3. r # << >>
    BY <2>2
  <2> QED
    BY <1>1, <1>2, <2>1, <2>3
<1>5. q # << >> => Len(q) > 0 /\ r[2] = q[1]
  BY <1>1, <1>2, <1>3
<1>6. SubSeq(r, 2, Len(r)) = q
  <2>1. SubSeq(p \o q, Len(p) + 1, Len(p \o q)) = q
    BY <1>1, SubSeqBehind
  <2>2. Len(p) + 1 = 2
    BY <1>1
  <2> QED
    BY <1>9, <2>1, <2>2, Zenon
<1> QED
  BY <1>1, <1>2, <1>4, <1>5, <1>6 DEF r

LEMMA BehindTwo ==
  ASSUME NEW x \in Nat, NEW y \in Nat, NEW q \in Seq(Nat)
  PROVE  LET r == <<x, y>> \o q IN
         /\ r \in Seq(Nat) /\ Len(r) = 2 + Len(q) /\ r[1] = x /\ r[2] = y /\ r # << >>
         /\ SubSeq(r, 3, Len(r)) = q
<1> DEFINE p == <<x, y>>
           r == <<x, y>> \o q
<1>1. p \in Seq(Nat) /\ Len(p) = 2 /\ p[1] = x /\ p[2] = y
  OBVIOUS
<1>9. r = p \o q
  OBVIOUS
<1> HIDE DEF p, r
<1>2. /\ r \in Seq(Nat) /\ Len(r) = Len(p) + Len(q)
      /\ \A i \in 1 .. Len(p) + Len(q) : r[i] = IF i <= Len(p) THEN p[i] ELSE q[i - Len(p)]
  BY <1>1, <1>9, ConcatProperties
<1>3. Len(q) \in Nat
  BY LenProperties
<1>4. r[1] = x /\ r[2] = y /\ r # << >>
  <2>1. 1 \in 1 .. Len(p) + Len(q) /\ 1 <= Len(p) /\ 2 \in 1 .. Len(p) + Len(q) /\ 2 <= Len(p)
    BY <1>1, <1>3
  <2>2. Len(r) # 0
    BY <1>1, <1>2, <1>3
  <2>3. r # << >>
    BY <2>2
  <2> QED
    BY <1>1, <1>2, <2>1, <2>3
<1>6. SubSeq(r, 3, Len(r)) = q
  <2>1. SubSeq(p \o q, Len(p) + 1, Len(p \o q)) = q
    BY <1>1, SubSeqBehind
  <2>2. Len(p) + 1 = 3
    BY <1>1
  <2> QED
    BY <1>9, <2>1, <2>2, Zenon
<1> QED
  BY <1>1, <1>2, <1>4, <1>6 DEF r

\* A word before a colon.
LEMMA ColonTurn ==
  ASSUME NEW x \in Address16, NEW a \in Seq(Nat), NEW z, Len(a) < Words,
         NEW q \in Seq(Nat), q # << >>, q[1] # Colon
  PROVE  GroupTurn(State(HexWord(x) \o (<<Colon>> \o q), a, z)) = State(q, Append(a, x), z)
<1> DEFINE r == <<Colon>> \o q
           t == State(HexWord(x) \o r, a, z)
<1>0. Colon \in Nat
  BY DEF Colon
<1>1. /\ r \in Seq(Nat) /\ Len(r) = 1 + Len(q) /\ r[1] = Colon /\ r[2] = q[1] /\ r # << >>
      /\ SubSeq(r, 2, Len(r)) = q
  BY <1>0, BehindOne
<1>2. t.on = TRUE /\ t.c = HexWord(x) \o r /\ t.a = a /\ t.z = z
  BY DEF State
<1>3. Spells(t.c, x, r)
  BY <1>2 DEF Spells
<1>4. t = [on |-> TRUE, c |-> HexWord(x) \o r, a |-> a, z |-> z]
  BY DEF State
<1> HIDE DEF t, r
<1>5. GroupTurn(t) = Further(t, SubSeq(r, 2, Len(r)), x, t.z)
  BY <1>1, <1>2, <1>3, WordTurn
<1>6. GroupTurn(t) = [on |-> TRUE, c |-> q, a |-> Append(a, x), z |-> z]
  BY <1>1, <1>2, <1>4, <1>5 DEF Further
<1> QED
  BY <1>6 DEF State, r, t

\* A word before two colons, with more behind them.
LEMMA DoubleTurn ==
  ASSUME NEW x \in Address16, NEW a \in Seq(Nat), Len(a) < Words, NEW q \in Seq(Nat), q # << >>
  PROVE  GroupTurn(State(HexWord(x) \o (<<Colon, Colon>> \o q), a, Missing)) = State(q, Append(a, x), Len(a) + 1)
<1> DEFINE r == <<Colon, Colon>> \o q
           t == State(HexWord(x) \o r, a, Missing)
<1>0. Colon \in Nat
  BY DEF Colon
<1>1. /\ r \in Seq(Nat) /\ Len(r) = 2 + Len(q) /\ r[1] = Colon /\ r[2] = Colon /\ r # << >>
      /\ SubSeq(r, 3, Len(r)) = q
  BY <1>0, BehindTwo
<1>2. t.on = TRUE /\ t.c = HexWord(x) \o r /\ t.a = a /\ t.z = Missing
  BY DEF State
<1>3. Spells(t.c, x, r)
  BY <1>2 DEF Spells
<1>4. t = [on |-> TRUE, c |-> HexWord(x) \o r, a |-> a, z |-> Missing]
  BY DEF State
<1>5. Len(r) > 2
  <2>1. Len(q) \in Nat /\ Len(q) # 0
    BY LenProperties, EmptySeq
  <2> QED
    BY <1>1, <2>1
<1> HIDE DEF t, r
<1>6. GroupTurn(t) = Further(t, SubSeq(r, 3, Len(r)), x, Len(t.a) + 1)
  BY <1>1, <1>2, <1>3, <1>5, WordTurn
<1>7. GroupTurn(t) = [on |-> TRUE, c |-> q, a |-> Append(a, x), z |-> Len(a) + 1]
  BY <1>1, <1>2, <1>4, <1>6 DEF Further
<1> QED
  BY <1>7 DEF State, r, t

\* The last word before two colons.
LEMMA DoubleEnd ==
  ASSUME NEW x \in Address16, NEW a \in Seq(Nat), Len(a) < Words
  PROVE  LET t == GroupTurn(State(HexWord(x) \o <<Colon, Colon>>, a, Missing))
         IN  t.on = FALSE /\ t.a = Filled(Append(a, x), Len(a) + 1)
<1> DEFINE r == <<Colon, Colon>>
           t == State(HexWord(x) \o r, a, Missing)
           u == GroupTurn(t)
<1>1. r \in Seq(Nat) /\ Len(r) = 2 /\ r[1] = Colon /\ r[2] = Colon /\ r # << >>
  BY DEF Colon
<1>2. t.on = TRUE /\ t.c = HexWord(x) \o r /\ t.a = a /\ t.z = Missing
  BY DEF State
<1>3. Spells(t.c, x, r)
  BY <1>2 DEF Spells
<1>4. t = [on |-> TRUE, c |-> HexWord(x) \o r, a |-> a, z |-> Missing]
  BY DEF State
<1> HIDE DEF t, r
<1>5. u = Gives(t, Filled(Append(t.a, x), Len(t.a) + 1))
  BY <1>1, <1>2, <1>3, WordTurn
<1> HIDE DEF u
<1>6. u = [on |-> FALSE, c |-> HexWord(x) \o r, a |-> Filled(Append(a, x), Len(a) + 1), z |-> Missing]
  BY <1>2, <1>4, <1>5 DEF Gives
<1>7. u.on = FALSE /\ u.a = Filled(Append(a, x), Len(a) + 1)
  BY <1>6
<1> QED
  BY <1>7 DEF u, r, t

\* Nothing behind the colons.
LEMMA NothingTurn ==
  ASSUME NEW a \in Seq(Nat)
  PROVE  LET t == GroupTurn(State(<< >>, a, Len(a))) IN t.on = FALSE /\ t.a = Filled(a, Len(a))
<1> DEFINE t == State(<< >>, a, Len(a))
           u == GroupTurn(t)
<1>1. Digits(<< >>, 16) = << >>
  <2> DEFINE e == << >>
  <2>1. e \in Seq(Nat) /\ e \o e = e /\ Len(e) = 0
    BY EmptySeq, ConcatProperties
  <2> HIDE DEF e
  <2>2. (\A i \in 1 .. Len(e) : HexValue(e[i]) < 16) /\ e = << >>
    BY <2>1 DEF e
  <2>3. Digits(e \o e, 16) = e
    BY <2>1, <2>2, DigitsAre
  <2> QED
    BY <2>1, <2>3 DEF e
<1>2. t = [on |-> TRUE, c |-> << >>, a |-> a, z |-> Len(a)]
  BY DEF State
<1>3. t.on = TRUE /\ t.c = << >> /\ t.a = a /\ t.z = Len(a)
  BY <1>2
<1> HIDE DEF t
<1>4. u = Gives(t, Filled(a, Len(a)))
  <2>1. u = Body(t, << >>, After(t.c, Digits(t.c, 16)), Value(Digits(t.c, 16), 16), Pton4(t.c))
    BY <1>1, <1>3, BodyIs
  <2> QED
    BY <1>3, <2>1 DEF Body
<1> HIDE DEF u
<1>5. u = [on |-> FALSE, c |-> << >>, a |-> Filled(a, Len(a)), z |-> Len(a)]
  BY <1>2, <1>4 DEF Gives
<1>6. u.on = FALSE /\ u.a = Filled(a, Len(a))
  BY <1>5
<1> QED
  BY <1>6 DEF u, t

-----------------------------------------------------------------------------
(* IPv4                                                                     *)

Bytes4 == {b \in Seq(Address8) : Len(b) = 4}

OctetState(c, a) == [on |-> TRUE, c |-> c, a |-> a]
OctetBody(t, n, digits, rest) ==
  LET ended == IF n = 4 THEN rest = << >> ELSE rest # << >> /\ rest[1] = Dot IN
    IF ~t.on THEN t
    ELSE IF digits = << >> \/ Value(digits, 10) > 255 \/ ~ended THEN [on |-> FALSE, c |-> rest, a |-> NotAddress]
    ELSE OctetState(SubSeq(rest, 2, Len(rest)), Append(t.a, Value(digits, 10)))

LEMMA OctetBodyIs ==
  ASSUME NEW t, NEW n
  PROVE  OctetTurn(t, n) = OctetBody(t, n, Digits(t.c, 10), After(t.c, Digits(t.c, 10)))
BY DEF OctetTurn, OctetBody, OctetState

\* A byte, and what stands behind it.
LEMMA ByteRead ==
  ASSUME NEW x \in Address8, NEW r \in Seq(Nat), r # << >> => r[1] = Dot
  PROVE  LET d == Decimal(x) IN
         /\ Digits(d \o r, 10) = d /\ After(d \o r, d) = r /\ Digits(d \o r, 16) = d
         /\ Value(d, 10) = x /\ d # << >>
         /\ Value(d, 16) \in Nat /\ Value(d, 16) <= 65535
<1> DEFINE d == Decimal(x)
<1>1. /\ d \in Seq(Nat) /\ Len(d) \in 1 .. 3
      /\ \A i \in 1 .. Len(d) : HexValue(d[i]) < 10
      /\ Value(d, 10) = x
      /\ Value(d, 16) \in Nat /\ Value(d, 16) <= 65535
  BY DecimalIs
<1> HIDE DEF d
<1>0. HexValue(Dot) = 16
  BY HexValueIs
<1>2. r # << >> => HexValue(r[1]) >= 10 /\ HexValue(r[1]) >= 16
  <2> HAVE r # << >>
  <2>1. r[1] = Dot
    OBVIOUS
  <2> QED
    BY <1>0, <2>1
<1>3. \A i \in 1 .. Len(d) : HexValue(d[i]) < 16
  <2> TAKE i \in 1 .. Len(d)
  <2>1. d[i] \in Nat
    BY <1>1, ElementOfSeq
  <2>2. HexValue(d[i]) \in Nat
    BY <2>1, HexValueNat
  <2>3. HexValue(d[i]) < 10
    BY <1>1
  <2> QED
    BY <2>2, <2>3
<1>4. Digits(d \o r, 10) = d /\ After(d \o r, d) = r
  BY <1>1, <1>2, DigitsAre
<1>5. Digits(d \o r, 16) = d
  BY <1>1, <1>2, <1>3, DigitsAre
<1>6. d # << >>
  <2>1. Len(d) \in 1 .. 3
    BY <1>1
  <2> HIDE DEF d
  <2> QED
    BY <2>1, SMTT(30)
<1> QED
  BY <1>1, <1>4, <1>5, <1>6 DEF d

LEMMA ByteTurn ==
  ASSUME NEW x \in Address8, NEW r \in Seq(Nat), NEW a \in Seq(Nat), NEW n \in 1 .. 4,
         IF n = 4 THEN r = << >> ELSE r # << >> /\ r[1] = Dot
  PROVE  OctetTurn(OctetState(Decimal(x) \o r, a), n) = OctetState(SubSeq(r, 2, Len(r)), Append(a, x))
<1> DEFINE d == Decimal(x)
           c == d \o r
           t == OctetState(c, a)
<1>1. Digits(c, 10) = d /\ After(c, d) = r /\ Value(d, 10) = x /\ d # << >>
  BY ByteRead
<1> HIDE DEF c, d
<1>2. t.on = TRUE /\ t.c = c /\ t.a = a
  BY DEF OctetState
<1> HIDE DEF t
<1>3. OctetTurn(t, n) = OctetBody(t, n, d, r)
  <2>1. OctetTurn(t, n) = OctetBody(t, n, Digits(t.c, 10), After(t.c, Digits(t.c, 10)))
    BY OctetBodyIs
  <2> QED
    BY <1>1, <1>2, <2>1
<1>4. ~(x > 255)
  BY DEF Address8
<1>5. OctetTurn(t, n) = OctetState(SubSeq(r, 2, Len(r)), Append(a, x))
  BY <1>1, <1>2, <1>3, <1>4 DEF OctetBody
<1> QED
  BY <1>5, Zenon DEF t, c, d

\* The four turns.
LEMMA Pton4Is ==
  ASSUME NEW c
  PROVE  Pton4(c) = OctetTurn(OctetTurn(OctetTurn(OctetTurn(OctetState(c, << >>), 1), 2), 3), 4).a
<1> DEFINE s0 == OctetState(c, << >>)
           s1 == OctetTurn(s0, 1)
           s2 == OctetTurn(s1, 2)
           s3 == OctetTurn(s2, 3)
           s4 == OctetTurn(s3, 4)
           Is(f) == f = [n \in 0 .. 4 |-> IF n = 0 THEN s0 ELSE OctetTurn(f[n - 1], n)]
           turns == CHOOSE f : Is(f)
           g == [n \in 0 .. 4 |-> IF n = 0 THEN s0 ELSE IF n = 1 THEN s1 ELSE IF n = 2 THEN s2
                                  ELSE IF n = 3 THEN s3 ELSE s4]
<1>1. Pton4(c) = turns[4].a
  BY DEF Pton4, OctetState
<1>2. Is(g)
  <2>1. \A n \in 0 .. 4 : g[n] = IF n = 0 THEN s0 ELSE OctetTurn(g[n - 1], n)
    <3>1. g[0] = s0 /\ g[1] = s1 /\ g[2] = s2 /\ g[3] = s3 /\ g[4] = s4
      <4> HIDE DEF s0, s1, s2, s3, s4
      <4> QED
        OBVIOUS
    <3>2. g[1] = OctetTurn(g[1 - 1], 1) /\ g[2] = OctetTurn(g[2 - 1], 2)
          /\ g[3] = OctetTurn(g[3 - 1], 3) /\ g[4] = OctetTurn(g[4 - 1], 4)
      <4>1. 1 - 1 = 0 /\ 2 - 1 = 1 /\ 3 - 1 = 2 /\ 4 - 1 = 3
        OBVIOUS
      <4> HIDE DEF g
      <4> QED
        BY <3>1, <4>1
    <3> HIDE DEF g, s0
    <3>3. \A n \in 0 .. 4 : n = 0 \/ n = 1 \/ n = 2 \/ n = 3 \/ n = 4
      OBVIOUS
    <3> QED
      BY <3>1, <3>2, <3>3
  <2>2. g = [n \in 0 .. 4 |-> g[n]]
    OBVIOUS
  <2> HIDE DEF g, s0
  <2> QED
    BY <2>1, <2>2
<1>3. Is(turns)
  <2> HIDE DEF Is, g
  <2> QED
    BY <1>2
<1> HIDE DEF turns
<1>4. turns[0] = s0 /\ turns[1] = s1 /\ turns[2] = s2 /\ turns[3] = s3 /\ turns[4] = s4
  <2>1. \A n \in 0 .. 4 : turns[n] = IF n = 0 THEN s0 ELSE OctetTurn(turns[n - 1], n)
    <3> HIDE DEF s0
    <3> QED
      BY <1>3
  <2> HIDE DEF s0, Is
  <2>2. turns[0] = s0
    BY <2>1
  <2>3. turns[1] = s1
    BY <2>1, <2>2
  <2> HIDE DEF s1
  <2>4. turns[2] = s2
    BY <2>1, <2>3
  <2> HIDE DEF s2
  <2>5. turns[3] = s3
    BY <2>1, <2>4
  <2> HIDE DEF s3
  <2>6. turns[4] = s4
    BY <2>1, <2>5
  <2> QED
    BY <2>2, <2>3, <2>4, <2>5, <2>6
<1> QED
  BY <1>1, <1>4

LEMMA Regrouped ==
  ASSUME NEW x \in Seq(Nat), NEW d \in Seq(Nat), NEW e \in Seq(Nat), NEW q \in Seq(Nat)
  PROVE  Cat(Cat(Cat(x, d), e), q) = Cat(x, Cat(d, Cat(e, q)))
<1>1. Cat(x, d) \in Seq(Nat) /\ Cat(e, q) \in Seq(Nat)
  BY CatIs
<1>2. Cat(Cat(Cat(x, d), e), q) = Cat(Cat(x, d), Cat(e, q))
  BY <1>1, CatIs
<1>3. Cat(Cat(x, d), Cat(e, q)) = Cat(x, Cat(d, Cat(e, q)))
  BY <1>1, CatIs
<1> QED
  BY <1>2, <1>3, Zenon

\* The text of an IPv4 address, and what is left of it behind each byte.
LEMMA Ntop4Is ==
  ASSUME NEW b \in Bytes4
  PROVE  \E q1, q2, q3 \in Seq(Nat) :
           /\ Ntop4(b) = Decimal(b[1]) \o (<<Dot>> \o q1) /\ q1 = Decimal(b[2]) \o (<<Dot>> \o q2)
           /\ q2 = Decimal(b[3]) \o (<<Dot>> \o q3) /\ q3 = Decimal(b[4])
<1> DEFINE d1 == Decimal(b[1])
           d2 == Decimal(b[2])
           d3 == Decimal(b[3])
           d4 == Decimal(b[4])
           e == <<Dot>>
<1>1. b[1] \in Address8 /\ b[2] \in Address8 /\ b[3] \in Address8 /\ b[4] \in Address8
  <2>1. b \in Seq(Address8) /\ Len(b) = 4
    BY DEF Bytes4
  <2>2. \A i \in 1 .. 4 : b[i] \in Address8
    BY <2>1, ElementOfSeq
  <2> QED
    BY <2>2
<1>2. d1 \in Seq(Nat) /\ d2 \in Seq(Nat) /\ d3 \in Seq(Nat) /\ d4 \in Seq(Nat)
  <2>1. ASSUME NEW i \in Address8 PROVE Decimal(i) \in Seq(Nat)
    BY DecimalIs
  <2> QED
    BY <1>1, <2>1, Zenon
<1>3. e \in Seq(Nat)
  BY DEF Dot
<1>4. Ntop4(b) = Cat(Cat(Cat(Cat(Cat(Cat(d1, e), d2), e), d3), e), d4)
  BY Zenon DEF Ntop4, Cat
<1> HIDE DEF d1, d2, d3, d4, e
<1> DEFINE q2 == Cat(d3, Cat(e, d4))
           q1 == Cat(d2, Cat(e, q2))
           y == Cat(d1, e)
           x == Cat(Cat(y, d2), e)
<1>5. q2 \in Seq(Nat)
  <2>1. Cat(e, d4) \in Seq(Nat)
    BY <1>2, <1>3, CatIs
  <2> QED
    BY <1>2, <2>1, CatIs
<1>6. q1 \in Seq(Nat)
  <2> HIDE DEF q2
  <2>1. Cat(e, q2) \in Seq(Nat)
    BY <1>5, <1>3, CatIs
  <2> QED
    BY <1>2, <2>1, CatIs
<1>7. y \in Seq(Nat)
  BY <1>2, <1>3, CatIs
<1>8. x \in Seq(Nat)
  <2> HIDE DEF y
  <2>1. Cat(y, d2) \in Seq(Nat)
    BY <1>2, <1>7, CatIs
  <2> QED
    BY <1>3, <2>1, CatIs
<1>9. Cat(Cat(Cat(x, d3), e), d4) = Cat(x, q2)
  <2> HIDE DEF x
  <2> QED
    BY <1>2, <1>3, <1>8, Regrouped
<1>10. Cat(x, q2) = Cat(y, q1)
  <2> HIDE DEF q2, y
  <2> QED
    BY <1>2, <1>3, <1>5, <1>7, Regrouped
<1>11. Cat(y, q1) = Cat(d1, Cat(e, q1))
  <2> HIDE DEF q1
  <2> QED
    BY <1>2, <1>3, <1>6, CatIs
<1>12. Ntop4(b) = Cat(d1, Cat(e, q1))
  BY <1>4, <1>9, <1>10, <1>11, Zenon
<1>13. q1 = d2 \o (e \o q2) /\ q2 = d3 \o (e \o d4) /\ Ntop4(b) = d1 \o (e \o q1)
  <2>1. q1 = Cat(d2, Cat(e, q2)) /\ q2 = Cat(d3, Cat(e, d4))
    OBVIOUS
  <2> HIDE DEF q1, q2
  <2> QED
    BY <1>12, <2>1, Zenon DEF Cat
<1> HIDE DEF q1, q2
<1>14. /\ Ntop4(b) = Decimal(b[1]) \o (<<Dot>> \o q1) /\ q1 = Decimal(b[2]) \o (<<Dot>> \o q2)
       /\ q2 = Decimal(b[3]) \o (<<Dot>> \o d4) /\ d4 = Decimal(b[4])
  BY <1>13, Zenon DEF d1, d2, d3, d4, e
<1> HIDE DEF d4
<1> QED
  BY <1>2, <1>5, <1>6, <1>14, Zenon

\* What starts with a digit does not start with a colon.
LEMMA DigitFirst ==
  ASSUME NEW p \in Seq(Nat), NEW q \in Seq(Nat), Len(p) > 0, \A i \in 1 .. Len(p) : HexValue(p[i]) < 16
  PROVE  /\ p \o q \in Seq(Nat) /\ p \o q # << >> /\ (p \o q)[1] # Colon
<1> DEFINE v == p \o q
<1>1. /\ v \in Seq(Nat) /\ Len(v) = Len(p) + Len(q)
      /\ \A i \in 1 .. Len(p) + Len(q) : v[i] = IF i <= Len(p) THEN p[i] ELSE q[i - Len(p)]
  BY ConcatProperties
<1>2. Len(p) \in Nat /\ Len(q) \in Nat
  BY LenProperties
<1> HIDE DEF v
<1>3. 1 \in 1 .. Len(p) + Len(q) /\ 1 <= Len(p) /\ Len(v) # 0
  BY <1>1, <1>2
<1>4. v[1] = p[1] /\ v # << >>
  BY <1>1, <1>3
<1>5. HexValue(p[1]) < 16
  BY <1>2, <1>3
<1>6. HexValue(Colon) = 16
  BY HexValueIs
<1>7. p[1] # Colon
  BY <1>5, <1>6
<1>8. v \in Seq(Nat) /\ v # << >> /\ v[1] # Colon
  BY <1>1, <1>4, <1>7
<1> QED
  BY <1>8 DEF v

LEMMA WordFirst ==
  ASSUME NEW x \in Address16, NEW q \in Seq(Nat)
  PROVE  HexWord(x) \o q \in Seq(Nat) /\ HexWord(x) \o q # << >> /\ (HexWord(x) \o q)[1] # Colon
<1> DEFINE d == HexWord(x)
<1>1. d \in Seq(Nat) /\ Len(d) \in 1 .. 4 /\ \A i \in 1 .. Len(d) : HexValue(d[i]) < 16
  BY HexWordIs
<1> HIDE DEF d
<1>2. Len(d) > 0
  <2>1. Len(d) \in 1 .. 4
    BY <1>1
  <2> QED
    BY <2>1
<1>3. d \o q \in Seq(Nat) /\ d \o q # << >> /\ (d \o q)[1] # Colon
  BY <1>1, <1>2, DigitFirst
<1> QED
  BY <1>3 DEF d

LEMMA DecimalFirst ==
  ASSUME NEW x \in Address8, NEW q \in Seq(Nat)
  PROVE  Decimal(x) \o q \in Seq(Nat) /\ Decimal(x) \o q # << >> /\ (Decimal(x) \o q)[1] # Colon
<1> DEFINE d == Decimal(x)
<1>1. d \in Seq(Nat) /\ Len(d) \in 1 .. 3 /\ \A i \in 1 .. Len(d) : HexValue(d[i]) < 10
  BY DecimalIs
<1> HIDE DEF d
<1>2. Len(d) > 0
  <2> DEFINE L == Len(d)
  <2>1. L \in 1 .. 3
    BY <1>1
  <2> HIDE DEF L
  <2>2. L > 0
    BY <2>1
  <2> QED
    BY <2>2 DEF L
<1>4. \A i \in 1 .. Len(d) : HexValue(d[i]) < 16
  <2> TAKE i \in 1 .. Len(d)
  <2>1. d[i] \in Nat
    BY <1>1, ElementOfSeq
  <2>2. HexValue(d[i]) \in Nat
    BY <2>1, HexValueNat
  <2>3. HexValue(d[i]) < 10
    BY <1>1
  <2> QED
    BY <2>2, <2>3
<1>3. d \o q \in Seq(Nat) /\ d \o q # << >> /\ (d \o q)[1] # Colon
  BY <1>1, <1>2, <1>4, DigitFirst
<1> QED
  BY <1>3 DEF d

LEMMA Address8Nat == \A y \in Address8 : y \in Nat
BY DEF Address8

LEMMA Address16Nat == \A y \in Address16 : y \in Nat
BY SMTT(30) DEF Address16

LEMMA SeqOfNat ==
  ASSUME NEW S, \A y \in S : y \in Nat, NEW s \in Seq(S)
  PROVE  s \in Seq(Nat)
OBVIOUS

LEMMA FourAppended ==
  ASSUME NEW x1 \in Nat, NEW x2 \in Nat, NEW x3 \in Nat, NEW x4 \in Nat
  PROVE  LET a == Append(Append(Append(Append(<< >>, x1), x2), x3), x4)
         IN  a \in Seq(Nat) /\ Len(a) = 4 /\ a[1] = x1 /\ a[2] = x2 /\ a[3] = x3 /\ a[4] = x4
OBVIOUS

\* An IPv4 address is read from its text.
LEMMA Pton4Reads ==
  ASSUME NEW b \in Bytes4
  PROVE  /\ Pton4(Ntop4(b)) = b
         /\ \E r \in Seq(Nat) : r # << >> /\ r[1] = Dot /\ Ntop4(b) = Decimal(b[1]) \o r
<1>1. b[1] \in Address8 /\ b[2] \in Address8 /\ b[3] \in Address8 /\ b[4] \in Address8 /\ b \in Seq(Address8) /\ Len(b) = 4
  <2>1. b \in Seq(Address8) /\ Len(b) = 4
    BY DEF Bytes4
  <2>2. \A i \in 1 .. 4 : b[i] \in Address8
    BY <2>1, ElementOfSeq
  <2> QED
    BY <2>1, <2>2
<1>2. PICK q1, q2, q3 \in Seq(Nat) :
           /\ Ntop4(b) = Decimal(b[1]) \o (<<Dot>> \o q1) /\ q1 = Decimal(b[2]) \o (<<Dot>> \o q2)
           /\ q2 = Decimal(b[3]) \o (<<Dot>> \o q3) /\ q3 = Decimal(b[4])
  BY Ntop4Is
<1> DEFINE r1 == <<Dot>> \o q1
           r2 == <<Dot>> \o q2
           r3 == <<Dot>> \o q3
           r4 == << >>
           s0 == OctetState(Ntop4(b), << >>)
           a1 == Append(<< >>, b[1])
           a2 == Append(a1, b[2])
           a3 == Append(a2, b[3])
           a4 == Append(a3, b[4])
<1>3. ASSUME NEW q \in Seq(Nat)
      PROVE  LET r == <<Dot>> \o q IN r \in Seq(Nat) /\ r # << >> /\ r[1] = Dot /\ SubSeq(r, 2, Len(r)) = q
  <2>1. Dot \in Nat
    BY DEF Dot
  <2> QED
    BY <2>1, BehindOne
<1>4. r1 \in Seq(Nat) /\ r1 # << >> /\ r1[1] = Dot /\ SubSeq(r1, 2, Len(r1)) = q1
  BY <1>3
<1>5. r2 \in Seq(Nat) /\ r2 # << >> /\ r2[1] = Dot /\ SubSeq(r2, 2, Len(r2)) = q2
  BY <1>3
<1>6. r3 \in Seq(Nat) /\ r3 # << >> /\ r3[1] = Dot /\ SubSeq(r3, 2, Len(r3)) = q3
  BY <1>3
<1>7. r4 \in Seq(Nat) /\ r4 = << >> /\ SubSeq(r4, 2, Len(r4)) = << >>
  BY EmptySeq
<1>8. q3 = Decimal(b[4]) \o r4
  <2>1. Decimal(b[4]) \in Seq(Nat)
    <3>1. ASSUME NEW x \in Address8 PROVE Decimal(x) \in Seq(Nat)
      BY DecimalIs
    <3> QED
      BY <1>1, <3>1, Zenon
  <2>2. Decimal(b[4]) \o r4 = Decimal(b[4])
    BY <2>1, ConcatProperties
  <2> QED
    BY <1>2, <2>2, Zenon
<1>9. Ntop4(b) = Decimal(b[1]) \o r1 /\ q1 = Decimal(b[2]) \o r2 /\ q2 = Decimal(b[3]) \o r3
  BY <1>2
<1> HIDE DEF r1, r2, r3, r4
<1>10. a1 \in Seq(Nat) /\ a2 \in Seq(Nat) /\ a3 \in Seq(Nat) /\ << >> \in Seq(Nat)
  <2>1. \A y \in Address8 : y \in Nat
    BY DEF Address8
  <2>2. b[1] \in Nat /\ b[2] \in Nat /\ b[3] \in Nat
    BY <1>1, <2>1
  <2>3. ASSUME NEW y1 \in Nat, NEW y2 \in Nat, NEW y3 \in Nat
        PROVE  /\ Append(<< >>, y1) \in Seq(Nat) /\ Append(Append(<< >>, y1), y2) \in Seq(Nat)
               /\ Append(Append(Append(<< >>, y1), y2), y3) \in Seq(Nat)
    OBVIOUS
  <2> QED
    BY <2>2, <2>3, EmptySeq
<1>16. a4 = b
  <2>1. b[1] \in Nat /\ b[2] \in Nat /\ b[3] \in Nat /\ b[4] \in Nat
    BY <1>1, Address8Nat
  <2>2. a4 \in Seq(Nat) /\ Len(a4) = 4 /\ a4[1] = b[1] /\ a4[2] = b[2] /\ a4[3] = b[3] /\ a4[4] = b[4]
    BY <2>1, FourAppended
  <2> HIDE DEF a4
  <2>3. \A i \in 1 .. 4 : a4[i] = b[i]
    <3>1. \A i \in 1 .. 4 : i = 1 \/ i = 2 \/ i = 3 \/ i = 4
      OBVIOUS
    <3> QED
      BY <2>2, <3>1
  <2>4. b \in Seq(Nat)
    BY <1>1, SeqOfNat, Address8Nat
  <2> QED
    BY <1>1, <2>2, <2>3, <2>4, SeqEqual
<1> HIDE DEF a1, a2, a3, a4
<1>11. OctetTurn(s0, 1) = OctetState(q1, a1)
  <2>1. 1 \in 1 .. 4 /\ 1 # 4
    OBVIOUS
  <2>2. OctetTurn(OctetState(Decimal(b[1]) \o r1, << >>), 1) = OctetState(SubSeq(r1, 2, Len(r1)), Append(<< >>, b[1]))
    BY <1>1, <1>4, <1>10, <2>1, ByteTurn
  <2> QED
    BY <1>4, <1>9, <2>2, Zenon DEF a1
<1>12. OctetTurn(OctetState(q1, a1), 2) = OctetState(q2, a2)
  <2>1. 2 \in 1 .. 4 /\ 2 # 4
    OBVIOUS
  <2>2. OctetTurn(OctetState(Decimal(b[2]) \o r2, a1), 2) = OctetState(SubSeq(r2, 2, Len(r2)), Append(a1, b[2]))
    BY <1>1, <1>5, <1>10, <2>1, ByteTurn
  <2> QED
    BY <1>5, <1>9, <2>2, Zenon DEF a2
<1>13. OctetTurn(OctetState(q2, a2), 3) = OctetState(q3, a3)
  <2>1. 3 \in 1 .. 4 /\ 3 # 4
    OBVIOUS
  <2>2. OctetTurn(OctetState(Decimal(b[3]) \o r3, a2), 3) = OctetState(SubSeq(r3, 2, Len(r3)), Append(a2, b[3]))
    BY <1>1, <1>6, <1>10, <2>1, ByteTurn
  <2> QED
    BY <1>6, <1>9, <2>2, Zenon DEF a3
<1>14. OctetTurn(OctetState(q3, a3), 4) = OctetState(<< >>, a4)
  <2>1. 4 \in 1 .. 4
    OBVIOUS
  <2>2. OctetTurn(OctetState(Decimal(b[4]) \o r4, a3), 4) = OctetState(SubSeq(r4, 2, Len(r4)), Append(a3, b[4]))
    BY <1>1, <1>7, <1>10, <2>1, ByteTurn
  <2> QED
    BY <1>7, <1>8, <2>2, Zenon DEF a4
<1>15. Pton4(Ntop4(b)) = OctetState(<< >>, a4).a
  BY <1>11, <1>12, <1>13, <1>14, Pton4Is, Zenon
<1>17. OctetState(<< >>, a4).a = b
  BY <1>16 DEF OctetState
<1> QED
  BY <1>4, <1>9, <1>15, <1>17, Zenon

\* Its words, and a turn that is the last one.
TwoWords(b) == <<b[1] * 256 + b[2], b[3] * 256 + b[4]>>
LastTurn(t, ws) == t.on = FALSE /\ t.a = ws

\* The turn that reads it.
LEMMA ByteEnd ==
  ASSUME NEW b \in Bytes4, NEW a \in Seq(Nat), Len(a) <= 6, NEW z
  PROVE  LastTurn(GroupTurn(State(Ntop4(b), a, z)), Filled(a \o TwoWords(b), z))
<1> DEFINE c == Ntop4(b)
           t == State(c, a, z)
           u == GroupTurn(t)
           w == a \o <<b[1] * 256 + b[2], b[3] * 256 + b[4]>>
<1>1. PICK r \in Seq(Nat) : r # << >> /\ r[1] = Dot /\ c = Decimal(b[1]) \o r
  BY Pton4Reads
<1>2. b[1] \in Address8 /\ b # << >>
  <2>1. b \in Seq(Address8) /\ Len(b) = 4
    BY DEF Bytes4
  <2>2. \A i \in 1 .. 4 : b[i] \in Address8
    BY <2>1, ElementOfSeq
  <2>3. b # << >>
    <3> SUFFICES ASSUME b = << >> PROVE FALSE
      OBVIOUS
    <3> QED
      BY <2>1
  <2>4. b[1] \in Address8
    BY <2>2
  <2> QED
    BY <2>3, <2>4
<1> DEFINE d == Decimal(b[1])
<1>3. /\ Digits(d \o r, 16) = d /\ After(d \o r, d) = r /\ d # << >>
      /\ Value(d, 16) \in Nat /\ Value(d, 16) <= 65535
  BY <1>1, <1>2, ByteRead
<1>4. Pton4(c) = b
  BY Pton4Reads
<1> HIDE DEF c, d
<1>5. c = d \o r
  BY <1>1 DEF d
<1>6. t.on = TRUE /\ t.c = c /\ t.a = a /\ t.z = z
  BY DEF State
<1>7. t = [on |-> TRUE, c |-> c, a |-> a, z |-> z]
  BY DEF State
<1> HIDE DEF t, w
<1> DEFINE v == Value(d, 16)
<1>8. u = Body(t, d, r, v, b)
  <2> DEFINE e == d \o r
  <2>5. c = e /\ Digits(e, 16) = d /\ After(e, d) = r
    BY <1>3, <1>5
  <2> HIDE DEF e
  <2>1. Digits(c, 16) = d
    BY <2>5
  <2>2. After(c, d) = r
    BY <2>5
  <2>4. GroupTurn(t) = Body(t, Digits(t.c, 16), After(t.c, Digits(t.c, 16)), Value(Digits(t.c, 16), 16), Pton4(t.c))
    BY BodyIs
  <2> QED
    BY <1>4, <1>6, <2>1, <2>2, <2>4, Zenon
<1>9. ~(v > 65535)
  BY <1>3
<1>10. ~(Len(a) > 6) /\ Dot # Colon
  BY LenProperties DEF Dot, Colon
<1> HIDE DEF v, u
<1>11. u = Gives(t, Filled(w, z))
  <2>1. w = t.a \o <<b[1] * 256 + b[2], b[3] * 256 + b[4]>>
    BY <1>6 DEF w
  <2>2. ~(Len(t.a) > 6)
    BY <1>6, <1>10
  <2>3. d # << >> /\ r # << >> /\ r[1] = Dot /\ b # NotAddress
    BY <1>1, <1>2, <1>3 DEF NotAddress
  <2> QED
    BY <1>6, <1>8, <1>9, <1>10, <2>1, <2>2, <2>3 DEF Body
<1>12. u = [on |-> FALSE, c |-> c, a |-> Filled(w, z), z |-> z]
  BY <1>7, <1>11 DEF Gives
<1>13. u.on = FALSE /\ u.a = Filled(w, z)
  BY <1>12
<1> QED
  BY <1>13, Zenon DEF u, t, c, w, LastTurn, TwoWords

-----------------------------------------------------------------------------
(* All turns                                                                *)

\* N turns that go on and one that does not.
Path(S, N, c, z) ==
  /\ S[0] = State(c, << >>, z) /\ \A n \in 1 .. N : S[n] = GroupTurn(S[n - 1])
  /\ GroupTurn(S[N]).on = FALSE

\* What pton6() returns after them.
LEMMA PathIs ==
  ASSUME NEW c, NEW z, NEW N \in 0 .. 8, NEW S, Path(S, N, c, z)
  PROVE  Groups(c, z) = GroupTurn(S[N]).a
<1>0. S[0] = State(c, << >>, z) /\ (\A n \in 1 .. N : S[n] = GroupTurn(S[n - 1])) /\ GroupTurn(S[N]).on = FALSE
  BY DEF Path
<1> DEFINE s0 == State(c, << >>, z)
           e == GroupTurn(S[N])
           Is(f) == f = [n \in 0 .. 9 |-> IF n = 0 THEN s0 ELSE GroupTurn(f[n - 1])]
           turns == CHOOSE f : Is(f)
           g == [n \in 0 .. 9 |-> IF n <= N THEN S[n] ELSE e]
<1>1. Groups(c, z) = turns[9].a
  <2>1. Words + 1 = 9
    BY DEF Words
  <2> QED
    BY <2>1, Zenon DEF Groups, State
<1>2. GroupTurn(e) = e
  <2> HIDE DEF e
  <2>1. e.on = FALSE
    BY <1>0 DEF e
  <2>2. GroupTurn(e) = Body(e, Digits(e.c, 16), After(e.c, Digits(e.c, 16)), Value(Digits(e.c, 16), 16), Pton4(e.c))
    BY BodyIs
  <2> QED
    BY <2>1, <2>2 DEF Body
<1>3. g[9] = e /\ g[0] = s0
  BY <1>0
<1>4. \A n \in 1 .. 9 : g[n] = GroupTurn(g[n - 1])
  <2> TAKE n \in 1 .. 9
  <2> HIDE DEF e
  <2>1. n \in 0 .. 9 /\ n - 1 \in 0 .. 9
    OBVIOUS
  <2>2. CASE n <= N
    <3>1. n \in 1 .. N /\ n - 1 <= N
      BY <2>2
    <3>2. g[n] = S[n] /\ g[n - 1] = S[n - 1]
      BY <2>1, <2>2, <3>1
    <3> QED
      BY <1>0, <3>1, <3>2
  <2>3. CASE n = N + 1
    <3>1. g[n] = e /\ g[n - 1] = S[N]
      BY <2>1, <2>3
    <3> QED
      BY <3>1 DEF e
  <2>4. CASE n > N + 1
    <3>1. g[n] = e /\ g[n - 1] = e
      BY <2>1, <2>4
    <3> QED
      BY <1>2, <3>1
  <2> QED
    BY <2>2, <2>3, <2>4
<1>5. Is(g)
  <2>1. g = [n \in 0 .. 9 |-> g[n]]
    OBVIOUS
  <2> HIDE DEF g, s0, e
  <2>2. \A n \in 0 .. 9 : g[n] = IF n = 0 THEN s0 ELSE GroupTurn(g[n - 1])
    BY <1>3, <1>4
  <2> QED
    BY <2>1, <2>2
<1>6. Is(turns)
  <2> HIDE DEF Is, g
  <2> QED
    BY <1>5
<1> HIDE DEF turns, g, s0, e
<1>7. turns[0] = s0 /\ \A n \in 1 .. 9 : turns[n] = GroupTurn(turns[n - 1])
  BY <1>6
<1>8. turns[9] = e
  <2> DEFINE W == [n \in 0 .. 9 |-> {g[n]}]
  <2>1. \A n \in 0 .. 9 : W[n] = {g[n]}
    OBVIOUS
  <2> HIDE DEF W
  <2>2. turns[0] \in W[0]
    BY <1>3, <1>7, <2>1
  <2>3. ASSUME NEW n \in 1 .. 9, turns[n - 1] \in W[n - 1] PROVE turns[n] \in W[n]
    <3>1. n - 1 \in 0 .. 9 /\ n \in 0 .. 9
      OBVIOUS
    <3>2. turns[n - 1] = g[n - 1]
      BY <2>1, <2>3, <3>1
    <3>3. turns[n] = g[n]
      BY <1>4, <1>7, <3>2
    <3> QED
      BY <2>1, <3>1, <3>3
  <2>4. 9 \in Nat
    OBVIOUS
  <2>5. \A n \in 0 .. 9 : turns[n] \in W[n]
    BY <2>2, <2>3, <2>4, LoopInvariant
  <2>6. turns[9] = g[9]
    BY <2>1, <2>5
  <2> QED
    BY <1>3, <2>6
<1> QED
  BY <1>1, <1>8 DEF e

\* One turn, if words are what is read.
Follows(q) == q \in Seq(Nat) /\ q # << >> /\ q[1] # Colon
Stands(c, x, e, q) == c = Cat(HexWord(x), Cat(e, q))
LEMMA WordByWord ==
  ASSUME NEW x \in Address16, NEW a \in Seq(Nat), NEW q, NEW c, Len(a) < Words, Follows(q)
  PROVE  /\ \A z : Stands(c, x, <<Colon>>, q) => GroupTurn(State(c, a, z)) = State(q, Append(a, x), z)
         /\ Stands(c, x, <<Colon, Colon>>, q) =>
              GroupTurn(State(c, a, Missing)) = State(q, Append(a, x), Len(a) + 1)
<1>1. q \in Seq(Nat) /\ q # << >> /\ q[1] # Colon
  BY DEF Follows
<1>2. ASSUME NEW z, c = HexWord(x) \o (<<Colon>> \o q) PROVE GroupTurn(State(c, a, z)) = State(q, Append(a, x), z)
  <2>1. GroupTurn(State(HexWord(x) \o (<<Colon>> \o q), a, z)) = State(q, Append(a, x), z)
    BY <1>1, ColonTurn
  <2> QED
    BY <1>2, <2>1, Zenon
<1>3. ASSUME c = HexWord(x) \o (<<Colon, Colon>> \o q)
      PROVE  GroupTurn(State(c, a, Missing)) = State(q, Append(a, x), Len(a) + 1)
  <2>1. GroupTurn(State(HexWord(x) \o (<<Colon, Colon>> \o q), a, Missing)) = State(q, Append(a, x), Len(a) + 1)
    BY <1>1, DoubleTurn
  <2> QED
    BY <1>3, <2>1, Zenon
<1> QED
  BY <1>2, <1>3, Zenon DEF Cat, Stands

\* What stands behind the n-th of m words, and what stands behind the words and that:
\* Q[n] is what is left when n words are read.
Sep(n, m, g) == IF n = g THEN <<Colon, Colon>> ELSE IF n < m THEN <<Colon>> ELSE << >>
Spelled(Q, ws, g) ==
  /\ Q[Len(ws)] = << >> /\ \A n \in 0 .. Len(ws) : Q[n] \in Seq(Nat)
  /\ \A n \in 1 .. Len(ws) : Q[n - 1] = Cat(HexWord(ws[n]), Cat(Sep(n, Len(ws), g), Q[n]))

\* Where the "::" was, once n words are read.
Seen(g, n) == IF g <= n THEN g ELSE Missing
LEMMA SeenIs ==
  ASSUME NEW g \in {Missing} \cup (0 .. 8), NEW n \in 1 .. 8
  PROVE  /\ n = g => Seen(g, n - 1) = Missing /\ Seen(g, n) = n
         /\ n # g => Seen(g, n - 1) = Seen(g, n)
         /\ g \in {Missing} \cup (1 .. 8) => Seen(g, 0) = Missing
         /\ g = 0 => Seen(g, 0) = 0
         /\ g < n => Seen(g, n - 1) = g
BY DEF Seen, Missing

\* Words are read from a text.
LEMMA TextRead ==
  ASSUME NEW ws \in Seq(Address16), Len(ws) \in 0 .. 8, NEW g \in {Missing} \cup (0 .. Len(ws)),
         Len(ws) = 0 => g = 0, NEW Q, Spelled(Q, ws, g)
  PROVE  Groups(Q[0], IF g = 0 THEN 0 ELSE Missing) = Filled(ws, g)
<1> DEFINE m == Len(ws)
           S == [n \in 0 .. m |-> State(Q[n], SubSeq(ws, 1, n), Seen(g, n))]
<1>1. /\ Q[m] = << >> /\ (\A n \in 0 .. m : Q[n] \in Seq(Nat))
      /\ \A n \in 1 .. m : Q[n - 1] = Cat(HexWord(ws[n]), Cat(Sep(n, m, g), Q[n]))
  BY DEF Spelled
<1>2. m \in 0 .. 8 /\ g \in {Missing} \cup (0 .. m) /\ (m = 0 => g = 0)
  OBVIOUS
<1>3. \A n \in 0 .. m : SubSeq(ws, 1, n) \in Seq(Nat) /\ Len(SubSeq(ws, 1, n)) = n
  <2> TAKE n \in 0 .. m
  <2>1. SubSeq(ws, 1, n) \in Seq(Address16) /\ Len(SubSeq(ws, 1, n)) = n
    BY PrefixOf
  <2> QED
    BY <2>1, SeqOfNat, Address16Nat
<1>4. \A n \in 1 .. m : SubSeq(ws, 1, n) = Append(SubSeq(ws, 1, n - 1), ws[n])
  BY PrefixGrows
<1>5. \A n \in 1 .. m : ws[n] \in Address16
  BY ElementOfSeq
<1>6. SubSeq(ws, 1, m) = ws /\ SubSeq(ws, 1, 0) = << >>
  <2>1. Span(ws, 0, m) = ws
    BY SpanWhole
  <2>2. SubSeq(ws, 1, 0) = << >>
    BY SubSeqEmpty
  <2> QED
    BY <2>1, <2>2 DEF Span
<1>7. \A n \in 0 .. m : S[n] = State(Q[n], SubSeq(ws, 1, n), Seen(g, n))
  OBVIOUS
<1> HIDE DEF m, S
<1>8. S[0] = State(Q[0], << >>, IF g = 0 THEN 0 ELSE Missing)
  <2>1. Seen(g, 0) = IF g = 0 THEN 0 ELSE Missing
    BY <1>2 DEF Seen, Missing
  <2>2. 0 \in 0 .. m
    BY <1>2
  <2> QED
    BY <1>6, <1>7, <2>1, <2>2
<1>9. CASE m = 0
  <2>1. S[0] = State(<< >>, << >>, 0) /\ ws = << >> /\ g = 0
    BY <1>1, <1>2, <1>6, <1>8, <1>9
  <2>2. << >> \in Seq(Nat) /\ Len(<< >>) = 0
    BY EmptySeq
  <2>3. GroupTurn(S[0]).on = FALSE /\ GroupTurn(S[0]).a = Filled(<< >>, 0)
    BY <2>1, <2>2, NothingTurn
  <2>4. Groups(Q[0], IF g = 0 THEN 0 ELSE Missing) = GroupTurn(S[0]).a
    <3> DEFINE z == IF g = 0 THEN 0 ELSE Missing
               N == 0
    <3>1. N \in 0 .. 8 /\ \A n \in 1 .. N : S[n] = GroupTurn(S[n - 1])
      OBVIOUS
    <3>2. S[0] = State(Q[0], << >>, z) /\ GroupTurn(S[N]).on = FALSE
      BY <1>8, <2>3
    <3> HIDE DEF z, N
    <3>3. Path(S, N, Q[0], z)
      BY <3>1, <3>2, Zenon DEF Path
    <3>4. Groups(Q[0], z) = GroupTurn(S[N]).a
      BY <3>1, <3>3, PathIs
    <3> QED
      BY <3>4 DEF z, N
  <2> QED
    BY <2>1, <2>3, <2>4
<1>10. CASE m > 0
  <2>1. ASSUME NEW n \in 1 .. m - 1 PROVE S[n] = GroupTurn(S[n - 1])
    <3>1. /\ n \in 1 .. m /\ n - 1 \in 0 .. m /\ n \in 0 .. m /\ n + 1 \in 1 .. m /\ (n + 1) - 1 = n
          /\ n < m /\ n \in 1 .. 8
          /\ n + 1 \in 0 .. m
      BY <1>2
    <3> DEFINE a == SubSeq(ws, 1, n - 1)
               r == Cat(Sep(n + 1, m, g), Q[n + 1])
    <3>2. Q[n - 1] = Cat(HexWord(ws[n]), Cat(Sep(n, m, g), Q[n])) /\ Q[n] = Cat(HexWord(ws[n + 1]), r)
      BY <1>1, <3>1
    <3>3. r \in Seq(Nat)
      <4>1. Sep(n + 1, m, g) \in Seq(Nat)
        BY DEF Sep, Colon
      <4>2. Q[n + 1] \in Seq(Nat)
        BY <1>1, <3>1
      <4> QED
        BY <4>1, <4>2, CatIs
    <3>4. a \in Seq(Nat) /\ Len(a) = n - 1 /\ Len(a) < Words /\ Len(a) + 1 = n
      BY <1>2, <1>3, <3>1 DEF Words
    <3>5. ws[n] \in Address16 /\ ws[n + 1] \in Address16
      BY <1>5, <3>1
    <3>6. /\ S[n - 1] = State(Q[n - 1], a, Seen(g, n - 1))
          /\ S[n] = State(Q[n], Append(a, ws[n]), Seen(g, n))
      BY <1>4, <1>7, <3>1
    <3> HIDE DEF a, r
    <3>7. Follows(Q[n])
      <4>1. HexWord(ws[n + 1]) \o r \in Seq(Nat) /\ HexWord(ws[n + 1]) \o r # << >>
            /\ (HexWord(ws[n + 1]) \o r)[1] # Colon
        BY <3>3, <3>5, WordFirst
      <4> QED
        BY <3>2, <4>1, Zenon DEF Follows, Cat
    <3>10. /\ \A z : Stands(Q[n - 1], ws[n], <<Colon>>, Q[n])
                       => GroupTurn(State(Q[n - 1], a, z)) = State(Q[n], Append(a, ws[n]), z)
           /\ Stands(Q[n - 1], ws[n], <<Colon, Colon>>, Q[n]) =>
                GroupTurn(State(Q[n - 1], a, Missing)) = State(Q[n], Append(a, ws[n]), Len(a) + 1)
      <4>1. a \in Seq(Nat) /\ Len(a) < Words /\ ws[n] \in Address16
        BY <3>4, <3>5
      <4> DEFINE c == Q[n - 1]
                 q == Q[n]
                 x == ws[n]
      <4>2. Follows(q) /\ x \in Address16
        BY <3>7, <4>1
      <4> HIDE DEF c, q, x
      <4>3. /\ \A z : Stands(c, x, <<Colon>>, q) => GroupTurn(State(c, a, z)) = State(q, Append(a, x), z)
            /\ Stands(c, x, <<Colon, Colon>>, q) =>
                 GroupTurn(State(c, a, Missing)) = State(q, Append(a, x), Len(a) + 1)
        BY <4>1, <4>2, WordByWord
      <4> QED
        BY <4>3 DEF c, q, x
    <3>11. Stands(Q[n - 1], ws[n], Sep(n, m, g), Q[n])
      BY <3>2, Zenon DEF Stands
    <3>8. CASE n = g
      <4>1. Sep(n, m, g) = <<Colon, Colon>>
        BY <3>8 DEF Sep
      <4>2. Seen(g, n - 1) = Missing /\ Seen(g, n) = n
        BY <1>2, <3>1, <3>8, SeenIs
      <4> QED
        BY <3>4, <3>6, <3>10, <3>11, <4>1, <4>2
    <3>9. CASE n # g
      <4>1. Sep(n, m, g) = <<Colon>>
        BY <3>1, <3>9 DEF Sep
      <4>2. Seen(g, n - 1) = Seen(g, n)
        BY <1>2, <3>1, <3>9, SeenIs
      <4> QED
        BY <3>6, <3>10, <3>11, <4>1, <4>2
    <3> QED
      BY <3>8, <3>9
  <2>2. GroupTurn(S[m - 1]).on = FALSE /\ GroupTurn(S[m - 1]).a = Filled(ws, g)
    <3>1. m \in 1 .. m /\ m - 1 \in 0 .. m /\ m \in 1 .. 8
      BY <1>2, <1>10
    <3> DEFINE a == SubSeq(ws, 1, m - 1)
    <3>2. Q[m - 1] = Cat(HexWord(ws[m]), Cat(Sep(m, m, g), << >>))
      BY <1>1, <3>1
    <3>3. a \in Seq(Nat) /\ Len(a) = m - 1 /\ Len(a) < Words /\ Len(a) + 1 = m
      BY <1>2, <1>3, <3>1 DEF Words
    <3>4. S[m - 1] = State(Q[m - 1], a, Seen(g, m - 1)) /\ ws = Append(a, ws[m])
      BY <1>4, <1>6, <1>7, <3>1
    <3>5. ws[m] \in Address16
      BY <1>5, <3>1
    <3> HIDE DEF a
    <3>6. CASE g = m
      <4>1. Cat(Sep(m, m, g), << >>) = <<Colon, Colon>>
        BY <3>6 DEF Sep, Cat, Colon
      <4>2. Seen(g, m - 1) = Missing
        BY <1>2, <3>1, <3>6, SeenIs
      <4>3. Q[m - 1] = HexWord(ws[m]) \o <<Colon, Colon>>
        BY <3>2, <4>1, Zenon DEF Cat
      <4>4. LET t == GroupTurn(State(HexWord(ws[m]) \o <<Colon, Colon>>, a, Missing))
            IN  t.on = FALSE /\ t.a = Filled(Append(a, ws[m]), Len(a) + 1)
        BY <3>3, <3>5, DoubleEnd
      <4> QED
        BY <3>3, <3>4, <3>6, <4>2, <4>3, <4>4
    <3>7. CASE g # m
      <4>1. Cat(HexWord(ws[m]), Cat(Sep(m, m, g), << >>)) = HexWord(ws[m])
        <5>1. ~(m < m) /\ m # g
          BY <1>2, <3>7
        <5>2. Sep(m, m, g) = << >>
          BY <5>1 DEF Sep
        <5>3. << >> \o << >> = << >>
          OBVIOUS
        <5>4. HexWord(ws[m]) \in Seq(Nat)
          BY <3>5, HexWordIs
        <5>5. HexWord(ws[m]) \o << >> = HexWord(ws[m])
          BY <5>4, ConcatProperties
        <5> QED
          BY <5>2, <5>3, <5>5, Zenon DEF Cat
      <4>2. Seen(g, m - 1) = g
        <5>1. g < m
          BY <1>2, <3>7 DEF Missing
        <5>2. g \in {Missing} \cup (0 .. 8)
          BY <1>2
        <5> QED
          BY <3>1, <5>1, <5>2, SeenIs
      <4>3. Q[m - 1] = HexWord(ws[m])
        BY <3>2, <4>1, Zenon
      <4>4. LET t == GroupTurn(State(HexWord(ws[m]), a, g)) IN t.on = FALSE /\ t.a = Filled(Append(a, ws[m]), g)
        BY <3>3, <3>5, LastWord
      <4> QED
        BY <3>4, <4>2, <4>3, <4>4
    <3> QED
      BY <3>6, <3>7
  <2>3. m - 1 \in 0 .. 8
    BY <1>2, <1>10
  <2>4. Groups(Q[0], IF g = 0 THEN 0 ELSE Missing) = GroupTurn(S[m - 1]).a
    <3> DEFINE z == IF g = 0 THEN 0 ELSE Missing
               N == m - 1
    <3>1. N \in 0 .. 8 /\ \A n \in 1 .. N : S[n] = GroupTurn(S[n - 1])
      BY <2>1, <2>3
    <3>2. S[0] = State(Q[0], << >>, z) /\ GroupTurn(S[N]).on = FALSE
      BY <1>8, <2>2
    <3> HIDE DEF z, N
    <3>3. Path(S, N, Q[0], z)
      BY <3>1, <3>2, Zenon DEF Path
    <3>4. Groups(Q[0], z) = GroupTurn(S[N]).a
      BY <3>1, <3>3, PathIs
    <3> QED
      BY <3>4 DEF z, N
  <2> QED
    BY <2>2, <2>4
<1> QED
  BY <1>2, <1>9, <1>10

-----------------------------------------------------------------------------
(* Texts                                                                    *)

\* The texts R, each a word longer than the next.
Writes(R, w, i, n) ==
  /\ i \in 0 .. 8 /\ n \in 0 .. 8 /\ i + n <= Len(w)
  /\ \A k \in 0 .. n : R[k] \in Seq(Nat)
  /\ \A k \in 1 .. n : R[k - 1] = Cat(WordText(w, i + k), R[k])

\* The words of an address and behind them what R ends with, word by word.
LEMMA PutIs ==
  ASSUME NEW p \in Seq(Nat), NEW w \in Seq(Address16), NEW i, NEW n, NEW R, Writes(R, w, i, n)
  PROVE  /\ PutWords(p, w, i, n) \in Seq(Nat)
         /\ Cat(PutWords(p, w, i, n), R[n]) = Cat(p, R[0])
<1> DEFINE Turned(t, k) == Cat(t, WordText(w, i + k))
           D == [vk \in Seq(Nat) \X (1 .. n) |-> Turned(vk[1], vk[2])]
           Is(f) == f = [k \in 0 .. n |-> IF k = 0 THEN p ELSE f[k - 1] \o WordText(w, i + k)]
           put == CHOOSE f : Is(f)
           W == [k \in 0 .. n |-> Seq(Nat)]
<1>0. /\ i \in 0 .. 8 /\ n \in 0 .. 8 /\ i + n <= Len(w)
      /\ \A k \in 0 .. n : R[k] \in Seq(Nat)
      /\ \A k \in 1 .. n : R[k - 1] = Cat(WordText(w, i + k), R[k])
  BY DEF Writes
<1> n \in Nat /\ i \in Nat
  BY <1>0
<1>12. Len(w) \in Nat
  BY LenProperties
<1>1. PutWords(p, w, i, n) = put[n]
  BY DEF PutWords
<1>2. \A k \in 1 .. n : WordText(w, i + k) \in Seq(Nat)
  <2> TAKE k \in 1 .. n
  <2>1. i + k \in 1 .. Len(w)
    BY <1>0, <1>12
  <2>2. w[i + k] \in Address16
    BY <2>1, ElementOfSeq
  <2>3. HexWord(w[i + k]) \in Seq(Nat)
    BY <2>2, HexWordIs
  <2>4. <<Colon>> \in Seq(Nat)
    BY DEF Colon
  <2>5. <<Colon>> \o HexWord(w[i + k]) \in Seq(Nat)
    BY <2>3, <2>4, ConcatProperties
  <2> QED
    BY <2>3, <2>5 DEF WordText
<1>3. ASSUME NEW t \in Seq(Nat), NEW k \in 1 .. n PROVE Turned(t, k) \in Seq(Nat)
  BY <1>2, CatIs
<1> HIDE DEF Turned
<1>4. Leads(n, W, p, D)
  <2>1. \A k \in 0 .. n : W[k] = Seq(Nat)
    OBVIOUS
  <2>2. ASSUME NEW k \in 1 .. n, NEW t \in Seq(Nat) PROVE D[<<t, k>>] \in Seq(Nat)
    <3>1. <<t, k>> \in Seq(Nat) \X (1 .. n) /\ D[<<t, k>>] = Turned(t, k)
      OBVIOUS
    <3> QED
      BY <1>3, <3>1
  <2> HIDE DEF W, D
  <2>3. 0 \in 0 .. n /\ \A k \in 1 .. n : k \in 0 .. n /\ k - 1 \in 0 .. n
    OBVIOUS
  <2> QED
    BY <2>1, <2>2, <2>3 DEF Leads
<1> HIDE DEF W, D
<1>5. PICK f : IsLoop(f, n, p, D)
  BY <1>4, LoopExists
<1>6. \A k \in 0 .. n : f[k] \in Seq(Nat)
  <2>1. \A k \in 0 .. n : f[k] \in W[k]
    BY <1>4, <1>5, LoopStates
  <2> QED
    BY <2>1 DEF W
<1>7. Is(f)
  <2>1. f = [k \in 0 .. n |-> IF k = 0 THEN p ELSE D[<<f[k - 1], k>>]]
    BY <1>5 DEF IsLoop
  <2>2. \A k \in 1 .. n : D[<<f[k - 1], k>>] = f[k - 1] \o WordText(w, i + k)
    <3> TAKE k \in 1 .. n
    <3>1. f[k - 1] \in Seq(Nat)
      BY <1>6
    <3>2. D[<<f[k - 1], k>>] = Turned(f[k - 1], k)
      BY <3>1 DEF D
    <3> QED
      BY <3>2, Zenon DEF Turned, Cat
  <2>3. \A k \in 0 .. n : (IF k = 0 THEN p ELSE D[<<f[k - 1], k>>]) = (IF k = 0 THEN p ELSE f[k - 1] \o WordText(w, i + k))
    <3> TAKE k \in 0 .. n
    <3>1. k = 0 \/ k \in 1 .. n
      OBVIOUS
    <3> QED
      BY <2>2, <3>1, Zenon
  <2> QED
    BY <2>1, <2>3, Zenon
<1>8. Is(put)
  <2> HIDE DEF Is
  <2> QED
    BY <1>7
<1> HIDE DEF put
<1>9. put[0] = p /\ \A k \in 1 .. n : put[k] = Cat(put[k - 1], WordText(w, i + k))
  <2>1. 0 \in 0 .. n /\ \A k \in 1 .. n : k \in 0 .. n /\ k # 0
    OBVIOUS
  <2>2. put[0] = p
    BY <1>8, <2>1, Zenon
  <2>3. ASSUME NEW k \in 1 .. n PROVE put[k] = Cat(put[k - 1], WordText(w, i + k))
    <3>1. k \in 0 .. n /\ k # 0
      BY <2>1
    <3> QED
      BY <1>8, <3>1, Zenon DEF Cat
  <2> QED
    BY <2>2, <2>3
<1> DEFINE Good == {t \in Seq(Nat) \X (0 .. n) : Cat(t[1], R[t[2]]) = Cat(p, R[0])}
           V == [k \in 0 .. n |-> {t \in Seq(Nat) : Cat(t, R[k]) = Cat(p, R[0])}]
<1>10. \A k \in 0 .. n : put[k] \in V[k]
  <2>1. \A k \in 0 .. n : V[k] = {t \in Seq(Nat) : Cat(t, R[k]) = Cat(p, R[0])}
    OBVIOUS
  <2> HIDE DEF V
  <2>2. put[0] \in V[0]
    BY <1>9, <2>1
  <2>3. ASSUME NEW k \in 1 .. n, put[k - 1] \in V[k - 1] PROVE put[k] \in V[k]
    <3> DEFINE t == put[k - 1]
               x == WordText(w, i + k)
               r == R[k]
    <3>1. k - 1 \in 0 .. n /\ k \in 0 .. n
      OBVIOUS
    <3>2. t \in Seq(Nat) /\ Cat(t, R[k - 1]) = Cat(p, R[0])
      BY <2>1, <2>3, <3>1
    <3>3. x \in Seq(Nat) /\ r \in Seq(Nat) /\ R[k - 1] = Cat(x, r) /\ put[k] = Cat(t, x)
      BY <1>0, <1>2, <1>9, <3>1
    <3> HIDE DEF t, x, r
    <3>4. Cat(t, x) \in Seq(Nat) /\ Cat(Cat(t, x), r) = Cat(t, Cat(x, r))
      BY <3>2, <3>3, CatIs
    <3>5. put[k] \in Seq(Nat) /\ Cat(put[k], R[k]) = Cat(p, R[0])
      BY <3>2, <3>3, <3>4, Zenon DEF r
    <3> QED
      BY <2>1, <3>1, <3>5
  <2>4. n \in Nat
    OBVIOUS
  <2> QED
    BY <2>2, <2>3, <2>4, LoopInvariant
<1>11. put[n] \in Seq(Nat) /\ Cat(put[n], R[n]) = Cat(p, R[0])
  BY <1>10
<1> QED
  BY <1>1, <1>11, Zenon

\* There is a text for all words.
LEMMA SpelledExists ==
  ASSUME NEW ws \in Seq(Address16), Len(ws) \in 0 .. 8, NEW g
  PROVE  \E Q : Spelled(Q, ws, g)
<1> DEFINE m == Len(ws)
           Turned(t, k) == Cat(HexWord(ws[m + 1 - k]), Cat(Sep(m + 1 - k, m, g), t))
           D == [vk \in Seq(Nat) \X (1 .. m) |-> Turned(vk[1], vk[2])]
           W == [k \in 0 .. m |-> Seq(Nat)]
           c == << >>
<1>1. m \in Nat
  OBVIOUS
<1>2. ASSUME NEW t \in Seq(Nat), NEW k \in 1 .. m PROVE Turned(t, k) \in Seq(Nat)
  <2> DEFINE d == HexWord(ws[m + 1 - k])
             e == Sep(m + 1 - k, m, g)
  <2>1. d \in Seq(Nat)
    <3>1. m + 1 - k \in 1 .. Len(ws)
      OBVIOUS
    <3>2. ws[m + 1 - k] \in Address16
      BY <3>1, ElementOfSeq
    <3> QED
      BY <3>2, HexWordIs
  <2>2. e \in Seq(Nat)
    BY DEF Sep, Colon
  <2> HIDE DEF d, e
  <2>3. Cat(e, t) \in Seq(Nat)
    BY <2>2, CatIs
  <2>4. Cat(d, Cat(e, t)) \in Seq(Nat)
    BY <2>1, <2>3, CatIs
  <2> QED
    BY <2>4 DEF d, e
<1>3. c \in Seq(Nat)
  OBVIOUS
<1>7. \A t, k : Turned(t, k) = Cat(HexWord(ws[m + 1 - k]), Cat(Sep(m + 1 - k, m, g), t))
  OBVIOUS
<1> HIDE DEF Turned, m, c
<1>4. Leads(m, W, c, D)
  <2>1. \A k \in 0 .. m : W[k] = Seq(Nat)
    OBVIOUS
  <2>2. ASSUME NEW k \in 1 .. m, NEW t \in Seq(Nat) PROVE D[<<t, k>>] \in Seq(Nat)
    <3>1. <<t, k>> \in Seq(Nat) \X (1 .. m) /\ D[<<t, k>>] = Turned(t, k)
      OBVIOUS
    <3> QED
      BY <1>2, <3>1
  <2> HIDE DEF W, D
  <2>3. 0 \in 0 .. m /\ \A k \in 1 .. m : k \in 0 .. m /\ k - 1 \in 0 .. m
    BY <1>1
  <2> QED
    BY <1>3, <2>1, <2>2, <2>3 DEF Leads
<1> HIDE DEF W, D
<1>5. PICK f : IsLoop(f, m, c, D)
  BY <1>1, <1>4, LoopExists
<1>6. \A k \in 0 .. m : f[k] \in Seq(Nat)
  <2>1. \A k \in 0 .. m : f[k] \in W[k]
    BY <1>1, <1>4, <1>5, LoopStates
  <2> QED
    BY <2>1 DEF W
<1>8. f[0] = c /\ \A k \in 1 .. m : f[k] = Turned(f[k - 1], k)
  <2>1. f = [k \in 0 .. m |-> IF k = 0 THEN c ELSE D[<<f[k - 1], k>>]]
    BY <1>5 DEF IsLoop
  <2>2. 0 \in 0 .. m /\ \A k \in 1 .. m : k \in 0 .. m /\ k # 0 /\ k - 1 \in 0 .. m
    BY <1>1
  <2>3. f[0] = c
    BY <2>1, <2>2, Zenon
  <2>4. ASSUME NEW k \in 1 .. m PROVE f[k] = Turned(f[k - 1], k)
    <3>1. f[k] = D[<<f[k - 1], k>>]
      BY <2>1, <2>2, Zenon
    <3>2. D[<<f[k - 1], k>>] = Turned(f[k - 1], k)
      BY <1>6, <2>2 DEF D
    <3> QED
      BY <3>1, <3>2
  <2> QED
    BY <2>3, <2>4
<1> DEFINE Q == [n \in 0 .. m |-> f[m - n]]
<1>9. \A n \in 0 .. m : Q[n] = f[m - n]
  OBVIOUS
<1> HIDE DEF Q
<1>10. Q[m] = << >>
  BY <1>1, <1>8, <1>9 DEF c
<1>11. \A n \in 0 .. m : Q[n] \in Seq(Nat)
  BY <1>1, <1>6, <1>9
<1>12. ASSUME NEW n \in 1 .. m PROVE Q[n - 1] = Cat(HexWord(ws[n]), Cat(Sep(n, m, g), Q[n]))
  <2> DEFINE k == m - n + 1
  <2>1. k \in 1 .. m /\ m - (n - 1) = k /\ k - 1 = m - n /\ m + 1 - k = n /\ n - 1 \in 0 .. m /\ n \in 0 .. m
    BY <1>1
  <2>2. Q[n - 1] = f[k] /\ Q[n] = f[k - 1]
    BY <1>9, <2>1
  <2> HIDE DEF k
  <2>3. f[k] = Cat(HexWord(ws[m + 1 - k]), Cat(Sep(m + 1 - k, m, g), f[k - 1]))
    BY <1>7, <1>8, <2>1
  <2> QED
    BY <2>1, <2>2, <2>3
<1>13. Spelled(Q, ws, g)
  BY <1>10, <1>11, <1>12 DEF Spelled, m
<1> QED
  BY <1>13

\* n words of w, to be written behind p, are those of ws, and no "::" stands between them.
PutLike(p, w, i, ws, a, n, g, Q) ==
  /\ p \in Seq(Nat) /\ w \in Seq(Address16) /\ ws \in Seq(Address16) /\ Spelled(Q, ws, g)
  /\ i \in 0 .. 8 /\ n \in 1 .. 8 /\ a \in 0 .. 8 /\ i + n <= Len(w) /\ a + n <= Len(ws)
  /\ \A k \in 1 .. n : w[i + k] = ws[a + k]
  /\ g \notin a + 1 .. a + n - 1

\* What follows the l-th word, and what precedes the word behind i others.
TextBehind(ws, g, Q, l) == Cat(Sep(l, Len(ws), g), Q[l])
TextBefore(i, q) == IF i = 0 THEN q ELSE Cat(<<Colon>>, q)

\* The words from the i-th on are written as they are read: none has a "::" behind it, but the last may.
LEMMA WrittenIs ==
  ASSUME NEW p, NEW w, NEW i, NEW ws, NEW a, NEW n, NEW g, NEW Q, PutLike(p, w, i, ws, a, n, g, Q)
  PROVE  /\ PutWords(p, w, i, n) \in Seq(Nat)
         /\ Cat(PutWords(p, w, i, n), TextBehind(ws, g, Q, a + n)) = Cat(p, TextBefore(i, Q[a]))
<1> SUFFICES ASSUME p \in Seq(Nat), w \in Seq(Address16), ws \in Seq(Address16), Spelled(Q, ws, g),
                    i \in 0 .. 8, n \in 1 .. 8, a \in 0 .. 8
             PROVE  /\ PutWords(p, w, i, n) \in Seq(Nat)
                    /\ Cat(PutWords(p, w, i, n), TextBehind(ws, g, Q, a + n)) = Cat(p, TextBefore(i, Q[a]))
  BY DEF PutLike
<1> DEFINE m == Len(ws)
           Tail1(k) == Cat(Sep(a + k, m, g), Q[a + k])
           R == [k \in 0 .. n |-> IF k = 0 THEN IF i = 0 THEN Q[a] ELSE Cat(<<Colon>>, Q[a]) ELSE Tail1(k)]
<1>1. m \in Nat /\ a + n <= m /\ n \in 0 .. 8 /\ Len(w) \in Nat /\ i + n <= Len(w)
  BY LenProperties DEF PutLike
<1>14. g \notin a + 1 .. a + n - 1 /\ \A k \in 1 .. n : w[i + k] = ws[a + k]
  BY DEF PutLike
<1>0. /\ (\A l \in 0 .. m : Q[l] \in Seq(Nat))
      /\ \A l \in 1 .. m : Q[l - 1] = Cat(HexWord(ws[l]), Cat(Sep(l, m, g), Q[l]))
  BY DEF Spelled
<1>12. \A k : Tail1(k) = Cat(Sep(a + k, m, g), Q[a + k])
  OBVIOUS
<1>13. R = [k \in 0 .. n |-> IF k = 0 THEN IF i = 0 THEN Q[a] ELSE Cat(<<Colon>>, Q[a]) ELSE Tail1(k)]
  OBVIOUS
<1> HIDE DEF m, Tail1, R
<1>2. /\ \A k \in 0 .. n : Q[a + k] \in Seq(Nat)
      /\ \A k \in 1 .. n : Q[a + k - 1] = Cat(HexWord(w[i + k]), Tail1(k))
  <2>1. ASSUME NEW k \in 0 .. n PROVE Q[a + k] \in Seq(Nat)
    <3>1. a + k \in 0 .. m
      BY <1>1
    <3> QED
      BY <1>0, <3>1
  <2>2. ASSUME NEW k \in 1 .. n PROVE Q[a + k - 1] = Cat(HexWord(w[i + k]), Tail1(k))
    <3>1. a + k \in 1 .. m
      BY <1>1
    <3>2. Q[a + k - 1] = Cat(HexWord(ws[a + k]), Cat(Sep(a + k, m, g), Q[a + k]))
      BY <1>0, <3>1
    <3> QED
      BY <1>12, <1>14, <3>2
  <2> QED
    BY <2>1, <2>2
<1>3. <<Colon>> \in Seq(Nat)
  BY DEF Colon
<1>4. ASSUME NEW k \in 1 .. n PROVE Tail1(k) \in Seq(Nat) /\ HexWord(w[i + k]) \in Seq(Nat)
  <2> DEFINE e == Sep(a + k, m, g)
             q == Q[a + k]
  <2>1. e \in Seq(Nat)
    BY DEF Sep, Colon
  <2>2. q \in Seq(Nat)
    <3>1. k \in 0 .. n
      OBVIOUS
    <3> QED
      BY <1>2, <3>1
  <2> HIDE DEF e, q
  <2>3. Cat(e, q) \in Seq(Nat)
    BY <2>1, <2>2, CatIs
  <2>4. HexWord(w[i + k]) \in Seq(Nat)
    <3>1. i + k \in 1 .. Len(w)
      BY <1>1
    <3>2. w[i + k] \in Address16
      BY <3>1, ElementOfSeq
    <3> QED
      BY <3>2, HexWordIs
  <2> QED
    BY <1>12, <2>3, <2>4 DEF e, q
<1>5. \A k \in 1 .. n - 1 : Tail1(k) = Cat(<<Colon>>, Q[a + k])
  <2> TAKE k \in 1 .. n - 1
  <2>1. a + k \in a + 1 .. a + n - 1 /\ a + k < m
    BY <1>1
  <2>3. a + k # g
    BY <1>14, <2>1
  <2>2. Sep(a + k, m, g) = <<Colon>>
    BY <2>1, <2>3 DEF Sep
  <2> QED
    BY <1>12, <2>2
<1>6. /\ R[0] = IF i = 0 THEN Q[a] ELSE Cat(<<Colon>>, Q[a])
      /\ \A k \in 1 .. n : R[k] = Tail1(k)
  BY <1>1, <1>13
<1>7. n \in 1 .. n /\ Tail1(n) = Cat(Sep(a + n, m, g), Q[a + n])
  BY <1>12
<1>8. ASSUME NEW x \in Seq(Nat), NEW t \in Seq(Nat)
      PROVE  Cat(<<Colon>>, Cat(x, t)) = Cat(<<Colon>> \o x, t)
  <2> DEFINE e == <<Colon>>
  <2>1. e \in Seq(Nat)
    BY <1>3
  <2> HIDE DEF e
  <2>2. Cat(Cat(e, x), t) = Cat(e, Cat(x, t))
    BY <2>1, CatIs
  <2> QED
    BY <2>2, Zenon DEF Cat, e
<1>9. ASSUME NEW k \in 1 .. n PROVE R[k - 1] = Cat(WordText(w, i + k), R[k])
  <2>1. Q[a + k - 1] = Cat(HexWord(w[i + k]), R[k])
    BY <1>2, <1>6
  <2>2. Cat(<<Colon>>, Q[a + k - 1]) = Cat(<<Colon>> \o HexWord(w[i + k]), R[k])
    BY <1>4, <1>6, <1>8, <2>1
  <2>3. CASE k = 1 /\ i = 0
    <3>1. R[k - 1] = Q[a] /\ Q[a + k - 1] = Q[a]
      <4>1. k - 1 = 0 /\ a + k - 1 = a
        BY <2>3
      <4> QED
        BY <1>6, <2>3, <4>1
    <3>2. WordText(w, i + k) = HexWord(w[i + k])
      BY <2>3 DEF WordText
    <3> QED
      BY <2>1, <3>1, <3>2
  <2>4. CASE ~(k = 1 /\ i = 0)
    <3>1. R[k - 1] = Cat(<<Colon>>, Q[a + k - 1])
      <4>1. CASE k = 1
        <5>1. k - 1 = 0 /\ a + k - 1 = a /\ i # 0
          BY <2>4, <4>1
        <5> QED
          BY <1>6, <5>1
      <4>2. CASE k # 1
        <5>1. k - 1 \in 1 .. n - 1 /\ k - 1 \in 1 .. n /\ a + (k - 1) = a + k - 1
          BY <4>2
        <5> QED
          BY <1>5, <1>6, <5>1
      <4> QED
        BY <4>1, <4>2
    <3>2. WordText(w, i + k) = <<Colon>> \o HexWord(w[i + k])
      <4>1. i + k > 1
        BY <2>4
      <4> QED
        BY <4>1 DEF WordText
    <3> QED
      BY <2>2, <3>1, <3>2
  <2> QED
    BY <2>3, <2>4
<1>10. \A k \in 0 .. n : R[k] \in Seq(Nat)
  <2>1. R[0] \in Seq(Nat)
    <3> DEFINE q == Q[a]
    <3>1. q \in Seq(Nat)
      <4>1. 0 \in 0 .. n /\ a + 0 = a
        OBVIOUS
      <4> QED
        BY <1>2, <4>1
    <3> HIDE DEF q
    <3>2. Cat(<<Colon>>, q) \in Seq(Nat)
      BY <1>3, <3>1, CatIs
    <3> QED
      BY <1>6, <3>1, <3>2 DEF q
  <2>2. \A k \in 1 .. n : R[k] \in Seq(Nat)
    BY <1>4, <1>6
  <2> QED
    BY <2>1, <2>2
<1>11. PutWords(p, w, i, n) \in Seq(Nat) /\ Cat(PutWords(p, w, i, n), R[n]) = Cat(p, R[0])
  <2>1. Writes(R, w, i, n)
    BY <1>1, <1>9, <1>10 DEF Writes
  <2> QED
    BY <1>1, <2>1, PutIs
<1>15. R[0] = TextBefore(i, Q[a])
  BY <1>6, Zenon DEF TextBefore
<1>16. R[n] = TextBehind(ws, g, Q, a + n)
  <2>1. R[n] = Tail1(n)
    BY <1>6, <1>7
  <2> QED
    BY <1>7, <2>1, Zenon DEF TextBehind, m
<1> QED
  BY <1>11, <1>15, <1>16, Zenon

LEMMA PutNone ==
  ASSUME NEW p \in Seq(Nat), NEW w \in Seq(Address16), NEW i \in 0 .. 8, i <= Len(w)
  PROVE  PutWords(p, w, i, 0) = p
<1> DEFINE R == [k \in 0 .. 0 |-> << >>]
           n == 0
<1>1. R[0] = << >> /\ << >> \in Seq(Nat)
  BY EmptySeq
<1>2. n \in 0 .. 8 /\ i + n <= Len(w) /\ n = 0
  BY LenProperties
<1> HIDE DEF R, n
<1>3. Writes(R, w, i, n)
  <2>1. \A k \in 0 .. n : k = 0
    BY <1>2
  <2>2. ~\E k \in 1 .. n : TRUE
    BY <1>2
  <2> QED
    BY <1>1, <1>2, <2>1, <2>2 DEF Writes
<1>4. PutWords(p, w, i, n) \in Seq(Nat) /\ Cat(PutWords(p, w, i, n), R[n]) = Cat(p, R[0])
  BY <1>2, <1>3, PutIs
<1> DEFINE x == PutWords(p, w, i, n)
<1>5. x \o << >> = x /\ p \o << >> = p
  <2>1. x \in Seq(Nat)
    BY <1>4
  <2> HIDE DEF x
  <2> QED
    BY <2>1, ConcatProperties
<1>6. x \o << >> = p \o << >>
  BY <1>1, <1>2, <1>4, Zenon DEF Cat
<1> QED
  BY <1>2, <1>5, <1>6, Zenon

\* An address in full.
LEMMA FullIs ==
  ASSUME NEW w \in Seq(Address16), Len(w) = 8, NEW Q, Spelled(Q, w, Missing)
  PROVE  InFull(w) = Q[0]
<1> DEFINE e == << >>
           x == InFull(w)
<1>1. e \in Seq(Nat) /\ Q[8] = e /\ Q[0] \in Seq(Nat) /\ Sep(8, 8, Missing) = e
  BY DEF Spelled, Sep, Missing
<1>2. x = PutWords(e, w, 0, 8)
  BY DEF InFull, Words
<1> HIDE DEF e, x
<1>3. PutWords(e, w, 0, 8) \in Seq(Nat) /\ Cat(PutWords(e, w, 0, 8), Cat(Sep(8, 8, Missing), Q[8])) = Cat(e, Q[0])
  <2> DEFINE i == 0
             n == 8
             a == 0
             g == Missing
  <2>1. i \in 0 .. 8 /\ n \in 1 .. 8 /\ a \in 0 .. 8 /\ a + n = n /\ i = 0
    OBVIOUS
  <2>2. Spelled(Q, w, g)
    OBVIOUS
  <2>4. PutLike(e, w, i, w, a, n, g, Q)
    BY <1>1, <2>2 DEF PutLike, Missing
  <2> HIDE DEF i, n, a, g
  <2>3. /\ PutWords(e, w, i, n) \in Seq(Nat)
        /\ Cat(PutWords(e, w, i, n), TextBehind(w, g, Q, a + n)) = Cat(e, TextBefore(i, Q[a]))
    BY <2>4, WrittenIs
  <2>5. TextBehind(w, g, Q, a + n) = Cat(Sep(8, 8, Missing), Q[8])
    BY <2>1 DEF TextBehind, n, g
  <2>6. TextBefore(i, Q[a]) = Q[0]
    BY DEF TextBefore, i, a
  <2> QED
    BY <2>3, <2>5, <2>6 DEF i, n
<1>4. Cat(e, e) = e
  BY DEF Cat, e
<1>5. Cat(x, e) = x /\ Cat(e, Q[0]) = Q[0]
  <2> DEFINE q == Q[0]
  <2>1. x \in Seq(Nat) /\ q \in Seq(Nat)
    BY <1>1, <1>2, <1>3
  <2> HIDE DEF q
  <2>2. x \o << >> = x /\ << >> \o q = q
    BY <2>1, ConcatProperties
  <2> QED
    BY <2>2, Zenon DEF Cat, e, q
<1>6. x = Q[0]
  BY <1>1, <1>2, <1>3, <1>4, <1>5, Zenon
<1> QED
  BY <1>6 DEF x

\* The words that are left if those behind the a-th, up to the j-th, are left out.
Others(w, a, j) == SubSeq(w, 1, a) \o SubSeq(w, j + 1, Len(w))

LEMMA OthersAre ==
  ASSUME NEW w \in Seq(Address16), Len(w) = 8, NEW a \in 0 .. 7, NEW j \in a + 1 .. 8
  PROVE  /\ Others(w, a, j) \in Seq(Address16) /\ Len(Others(w, a, j)) = a + (8 - j)
         /\ \A k \in 1 .. a : Others(w, a, j)[k] = w[k]
         /\ \A k \in 1 .. 8 - j : Others(w, a, j)[a + k] = w[j + k]
<1> DEFINE s == Span(w, 0, a)
           t == Span(w, j, Len(w))
           v == Others(w, a, j)
<1>1. v = s \o t
  <2>1. 0 + 1 = 1
    OBVIOUS
  <2> QED
    BY <2>1, Zenon DEF Others, Span
<1>2. s \in Seq(Address16) /\ Len(s) = a /\ \A k \in 1 .. a : s[k] = w[k]
  <2>1. a \in 0 .. Len(w) /\ 0 \in 0 .. a
    OBVIOUS
  <2>2. Span(w, 0, a) \in Seq(Address16) /\ Len(Span(w, 0, a)) = a - 0 /\ \A k \in 1 .. a - 0 : Span(w, 0, a)[k] = w[0 + k]
    BY <2>1, SpanIs
  <2> QED
    BY <2>2
<1>3. t \in Seq(Address16) /\ Len(t) = 8 - j /\ \A k \in 1 .. 8 - j : t[k] = w[j + k]
  <2>1. Len(w) \in 0 .. Len(w) /\ j \in 0 .. Len(w)
    OBVIOUS
  <2>2. Span(w, j, Len(w)) \in Seq(Address16) /\ Len(Span(w, j, Len(w))) = Len(w) - j
        /\ \A k \in 1 .. Len(w) - j : Span(w, j, Len(w))[k] = w[j + k]
    BY <2>1, SpanIs
  <2> QED
    BY <2>2
<1> HIDE DEF s, t, v
<1>4. /\ v \in Seq(Address16) /\ Len(v) = Len(s) + Len(t)
      /\ \A i \in 1 .. Len(s) + Len(t) : v[i] = IF i <= Len(s) THEN s[i] ELSE t[i - Len(s)]
  BY <1>1, <1>2, <1>3, ConcatProperties
<1>5. \A k \in 1 .. a : v[k] = w[k]
  <2> TAKE k \in 1 .. a
  <2>1. k \in 1 .. Len(s) + Len(t) /\ k <= Len(s)
    BY <1>2, <1>3
  <2> QED
    BY <1>2, <1>4, <2>1
<1>6. \A k \in 1 .. 8 - j : v[a + k] = w[j + k]
  <2> TAKE k \in 1 .. 8 - j
  <2>1. a + k \in 1 .. Len(s) + Len(t) /\ ~(a + k <= Len(s)) /\ (a + k) - Len(s) = k
    BY <1>2, <1>3
  <2>2. v[a + k] = t[k]
    BY <1>4, <2>1
  <2> QED
    BY <1>3, <2>2
<1>7. Len(v) = a + (8 - j)
  BY <1>2, <1>3, <1>4
<1> QED
  BY <1>4, <1>5, <1>6, <1>7 DEF v

LEMMA CatNone ==
  ASSUME NEW s \in Seq(Nat)
  PROVE  Cat(<< >>, s) = s /\ Cat(s, << >>) = s
<1>1. s \o << >> = s /\ << >> \o s = s
  BY ConcatEmptySeq
<1> QED
  BY <1>1, Zenon DEF Cat

LEMMA ColonTwice == <<Colon>> \o <<Colon>> = <<Colon, Colon>>
<1> DEFINE one == <<Colon>>
           both == one \o one
           two == <<Colon, Colon>>
<1>1. one \in Seq(Nat) /\ Len(one) = 1 /\ one[1] = Colon
  BY DEF Colon
<1>2. two \in Seq(Nat) /\ Len(two) = 2 /\ two[1] = Colon /\ two[2] = Colon
  BY DEF Colon
<1> HIDE DEF one, two
<1>3. /\ both \in Seq(Nat) /\ Len(both) = 2
      /\ \A i \in 1 .. 2 : both[i] = IF i <= 1 THEN one[i] ELSE one[i - 1]
  <2> DEFINE l == Len(one)
  <2>1. /\ both \in Seq(Nat) /\ Len(both) = l + l
        /\ \A i \in 1 .. l + l : both[i] = IF i <= l THEN one[i] ELSE one[i - l]
    <3>1. one \in Seq(Nat)
      BY <1>1
    <3> QED
      BY <3>1, ConcatProperties
  <2>2. l = 1 /\ l + l = 2
    BY <1>1
  <2> HIDE DEF l, both
  <2> QED
    BY <2>1, <2>2
<1> HIDE DEF both
<1>4. Len(both) = Len(two) /\ \A i \in 1 .. Len(both) : both[i] = two[i]
  <2>1. \A i \in 1 .. 2 : i = 1 \/ i = 2
    OBVIOUS
  <2>2. both[1] = Colon /\ both[2] = Colon
    BY <1>1, <1>3
  <2> QED
    BY <1>2, <1>3, <2>1, <2>2
<1>5. both = two
  BY <1>2, <1>3, <1>4, SeqEqual
<1> QED
  BY <1>5, Zenon DEF both, one, two

\* An address with a "::" for the words behind the a-th, up to the j-th.
LEMMA ShortenedIs ==
  ASSUME NEW w \in Seq(Address16), Len(w) = 8, NEW a \in 0 .. 7, NEW j \in a + 1 .. 8,
         NEW Q, Spelled(Q, Others(w, a, j), a)
  PROVE  Shortened(w, a + 1, j) = IF a = 0 THEN Cat(<<Colon, Colon>>, Q[0]) ELSE Q[0]
<1> DEFINE ws == Others(w, a, j)
           m == a + (8 - j)
           e == << >>
           one == <<Colon>>
           two == <<Colon, Colon>>
           head == PutWords(e, w, 0, a)
           gap == Gap(w, a, j)
           x == Shortened(w, a + 1, j)
<1>1. /\ ws \in Seq(Address16) /\ Len(ws) = m
      /\ \A k \in 1 .. a : ws[k] = w[k]
      /\ \A k \in 1 .. 8 - j : ws[a + k] = w[j + k]
  BY OthersAre
<1>2. x = PutWords(gap, w, j, 8 - j) /\ gap = Cat(head, IF j = 8 THEN two ELSE one)
  <2>1. (a + 1) - 1 = a
    OBVIOUS
  <2> QED
    BY <2>1, Zenon DEF Shortened, Gap, Words, Cat
<1>3. e \in Seq(Nat) /\ one \in Seq(Nat) /\ two \in Seq(Nat) /\ Cat(one, one) = two
  <2>1. e \in Seq(Nat) /\ one \in Seq(Nat) /\ two \in Seq(Nat)
    BY DEF Colon
  <2>2. Cat(one, one) = two
    BY ColonTwice, Zenon DEF Cat
  <2> QED
    BY <2>1, <2>2
<1>4. m \in Nat /\ a <= m /\ (j < 8 => a < m) /\ (j = 8 => a = m) /\ m <= 7
  OBVIOUS
<1>5. Spelled(Q, ws, a)
  OBVIOUS
<1>6. \A s \in Seq(Nat) : Cat(e, s) = s /\ Cat(s, e) = s
  BY CatNone, Zenon DEF e
<1> HIDE DEF ws, m, e, one, two, gap, x
<1>7. Q[m] = e /\ \A n \in 0 .. m : Q[n] \in Seq(Nat)
  BY <1>1, <1>5 DEF Spelled, e
<1>8. Q[0] \in Seq(Nat) /\ Q[a] \in Seq(Nat)
  BY <1>4, <1>7
<1> DEFINE q == Q[a]
           r == IF a = 0 THEN Cat(two, Q[0]) ELSE Q[0]
<1>9. head \in Seq(Nat) /\ Cat(head, Cat(two, q)) = r
  <2>1. CASE a = 0
    <3>1. PutWords(e, w, 0, 0) = e
      <4>1. 0 \in 0 .. 8 /\ 0 <= Len(w)
        OBVIOUS
      <4> QED
        BY <1>3, <4>1, PutNone
    <3>2. head = e
      BY <2>1, <3>1
    <3> HIDE DEF head
    <3>3. Cat(two, q) \in Seq(Nat)
      <4> HIDE DEF q
      <4>1. q \in Seq(Nat)
        BY <1>8 DEF q
      <4> QED
        BY <1>3, <4>1, CatIs
    <3> QED
      BY <1>3, <1>6, <2>1, <3>2, <3>3
  <2>2. CASE a # 0
    <3> DEFINE i == 0
               b == 0
    <3>1. i \in 0 .. 8 /\ a \in 1 .. 8 /\ b \in 0 .. 8 /\ b + a = a /\ i = 0
      BY <2>2
    <3>5. PutLike(e, w, i, ws, b, a, a, Q)
      BY <1>1, <1>3, <1>4, <1>5, <2>2 DEF PutLike
    <3> HIDE DEF i, b
    <3>2. /\ PutWords(e, w, i, a) \in Seq(Nat)
          /\ Cat(PutWords(e, w, i, a), TextBehind(ws, a, Q, b + a)) = Cat(e, TextBefore(i, Q[b]))
      BY <3>5, WrittenIs
    <3>3. Sep(b + a, Len(ws), a) = two
      BY <3>1 DEF Sep, two
    <3>4. head \in Seq(Nat) /\ Cat(head, Cat(two, q)) = Cat(e, Q[0])
      <4>1. TextBehind(ws, a, Q, b + a) = Cat(two, q)
        BY <3>1, <3>3 DEF TextBehind, q
      <4>2. TextBefore(i, Q[b]) = Q[0]
        BY DEF TextBefore, i, b
      <4> QED
        BY <3>2, <4>1, <4>2 DEF i
    <3> QED
      BY <1>6, <1>8, <2>2, <3>4
  <2> QED
    BY <2>1, <2>2
<1> HIDE DEF head, q, r
<1>10. q \in Seq(Nat)
  BY <1>8 DEF q
<1>11. x = r
  <2>1. CASE j = 8
    <3>1. gap = Cat(head, two) /\ q = e
      BY <1>2, <1>4, <1>7, <2>1 DEF q
    <3>2. gap \in Seq(Nat)
      BY <1>3, <1>9, <3>1, CatIs
    <3>3. PutWords(gap, w, 8, 0) = gap
      <4>1. 8 \in 0 .. 8 /\ 8 <= Len(w)
        OBVIOUS
      <4> QED
        BY <3>2, <4>1, PutNone
    <3>4. x = gap
      <4>1. 8 - j = 0
        BY <2>1
      <4> QED
        BY <1>2, <2>1, <3>3, <4>1
    <3>5. Cat(two, q) = two
      BY <1>3, <1>6, <3>1
    <3> QED
      BY <1>9, <3>1, <3>4, <3>5
  <2>2. CASE j < 8
    <3> DEFINE n == 8 - j
    <3>1. gap = Cat(head, one)
      BY <1>2, <2>2
    <3>2. gap \in Seq(Nat)
      BY <1>3, <1>9, <3>1, CatIs
    <3>3. j \in 0 .. 8 /\ n \in 1 .. 8 /\ a \in 0 .. 8 /\ j # 0 /\ a + n = m
      BY <2>2 DEF m
    <3>8. PutLike(gap, w, j, ws, a, n, a, Q)
      <4>1. j + n <= Len(w) /\ a + n <= Len(ws) /\ a \notin a + 1 .. a + n - 1
        BY <1>1, <2>2 DEF m
      <4>2. \A k \in 1 .. n : w[j + k] = ws[a + k]
        BY <1>1
      <4> HIDE DEF n
      <4> QED
        BY <1>1, <1>5, <3>2, <3>3, <4>1, <4>2 DEF PutLike
    <3> HIDE DEF n
    <3>4. /\ PutWords(gap, w, j, n) \in Seq(Nat)
          /\ Cat(PutWords(gap, w, j, n), TextBehind(ws, a, Q, a + n)) = Cat(gap, TextBefore(j, Q[a]))
      BY <3>8, WrittenIs
    <3>5. Sep(a + n, Len(ws), a) = e
      <4>1. a + n # a /\ ~(a + n < Len(ws))
        BY <1>1, <1>4, <2>2, <3>3
      <4> QED
        BY <4>1 DEF Sep, e
    <3>6. x \in Seq(Nat) /\ Cat(x, Cat(e, e)) = Cat(gap, Cat(one, q))
      <4>1. TextBehind(ws, a, Q, a + n) = Cat(e, e)
        BY <1>7, <3>3, <3>5, Zenon DEF TextBehind
      <4>2. TextBefore(j, Q[a]) = Cat(one, q)
        BY <3>3, Zenon DEF TextBefore, one, q
      <4>3. x = PutWords(gap, w, j, n)
        BY <1>2, Zenon DEF n
      <4> QED
        BY <3>4, <4>1, <4>2, <4>3, Zenon
    <3>7. Cat(gap, Cat(one, q)) = Cat(head, Cat(two, q))
      <4>1. Cat(one, q) \in Seq(Nat)
        BY <1>3, <1>10, CatIs
      <4>2. Cat(Cat(head, one), Cat(one, q)) = Cat(head, Cat(one, Cat(one, q)))
        BY <1>3, <1>9, <4>1, CatIs
      <4>3. Cat(Cat(one, one), q) = Cat(one, Cat(one, q))
        BY <1>3, <1>10, CatIs
      <4> QED
        BY <1>3, <3>1, <4>2, <4>3, Zenon
    <3> QED
      BY <1>3, <1>6, <1>9, <3>6, <3>7
  <2> QED
    BY <2>1, <2>2
<1> QED
  BY <1>11 DEF x, r, two

-----------------------------------------------------------------------------
(* Addresses                                                                *)

\* The zeros that are left out are put back.
LEMMA FilledIs ==
  ASSUME NEW w \in Seq(Address16), Len(w) = 8, NEW a \in 0 .. 7, NEW j \in a + 1 .. 8,
         \A k \in a + 1 .. j : w[k] = 0
  PROVE  Filled(Others(w, a, j), a) = w
<1> DEFINE ws == Others(w, a, j)
           m == a + (8 - j)
           v == j - a
           s == Span(ws, 0, a)
           z == [i \in 1 .. v |-> 0]
           t == Span(ws, a, m)
<1>1. /\ ws \in Seq(Address16) /\ Len(ws) = m
      /\ \A k \in 1 .. a : ws[k] = w[k]
      /\ \A k \in 1 .. 8 - j : ws[a + k] = w[j + k]
  BY OthersAre
<1> HIDE DEF ws
<1>2. m \in Nat /\ a <= m /\ v \in Nat /\ v # 0 /\ 8 - m = v /\ a # Missing
  BY DEF Missing
<1>3. Filled(ws, a) = s \o z \o t
  <2>1. Words - Len(ws) = v
    BY <1>1, <1>2 DEF Words
  <2>2. Filled(ws, a) = SubSeq(ws, 1, a) \o [i \in 1 .. v |-> 0] \o SubSeq(ws, a + 1, Len(ws))
    <3> HIDE DEF v
    <3> QED
      BY <1>2, <2>1 DEF Filled
  <2>3. s = SubSeq(ws, 1, a) /\ t = SubSeq(ws, a + 1, Len(ws))
    <3>1. 0 + 1 = 1
      OBVIOUS
    <3> QED
      BY <1>1, <3>1 DEF Span
  <2> QED
    BY <2>2, <2>3
<1>4. s \in Seq(Address16) /\ Len(s) = a /\ \A k \in 1 .. a : s[k] = w[k]
  <2>1. a \in 0 .. Len(ws) /\ ws \in Seq(Address16)
    BY <1>1, <1>2
  <2>2. SubSeq(ws, 1, a) \in Seq(Address16) /\ Len(SubSeq(ws, 1, a)) = a /\ \A k \in 1 .. a : SubSeq(ws, 1, a)[k] = ws[k]
    BY <2>1, PrefixOf
  <2>3. s = SubSeq(ws, 1, a)
    <3>1. 0 + 1 = 1
      OBVIOUS
    <3> QED
      BY <3>1 DEF Span
  <2> QED
    BY <1>1, <2>2, <2>3
<1>5. t \in Seq(Address16) /\ Len(t) = 8 - j /\ \A k \in 1 .. 8 - j : t[k] = w[j + k]
  <2>1. m \in 0 .. Len(ws) /\ a \in 0 .. m /\ m - a = 8 - j /\ ws \in Seq(Address16)
    BY <1>1, <1>2
  <2> HIDE DEF m
  <2>2. Span(ws, a, m) \in Seq(Address16) /\ Len(Span(ws, a, m)) = m - a
        /\ \A k \in 1 .. m - a : Span(ws, a, m)[k] = ws[a + k]
    <3> HIDE DEF ws
    <3> QED
      BY <2>1, SpanIs
  <2> QED
    BY <1>1, <2>1, <2>2
<1>6. z \in Seq(Address16) /\ Len(z) = v /\ \A k \in 1 .. v : z[k] = 0
  <2>1. 0 \in Address16
    BY SMTT(30) DEF Address16
  <2> HIDE DEF v
  <2> QED
    BY <1>2, <2>1
<1> DEFINE y == s \o z
           u == y \o t
<1> HIDE DEF s, z, t, m, v
<1>7. /\ y \in Seq(Address16) /\ Len(y) = Len(s) + Len(z)
      /\ \A i \in 1 .. Len(s) + Len(z) : y[i] = IF i <= Len(s) THEN s[i] ELSE z[i - Len(s)]
  BY <1>4, <1>6, ConcatProperties
<1> HIDE DEF y
<1>8. /\ u \in Seq(Address16) /\ Len(u) = Len(y) + Len(t)
      /\ \A i \in 1 .. Len(y) + Len(t) : u[i] = IF i <= Len(y) THEN y[i] ELSE t[i - Len(y)]
  BY <1>5, <1>7, ConcatProperties
<1>9. v = j - a
  BY DEF v
<1>10. Len(y) = j /\ Len(u) = 8
  BY <1>4, <1>5, <1>6, <1>7, <1>8, <1>9
<1> HIDE DEF u
<1>11. ASSUME NEW i \in 1 .. 8 PROVE u[i] = w[i]
  <2>1. CASE i <= a
    <3>1. i \in 1 .. a /\ i \in 1 .. Len(s) + Len(z) /\ i <= Len(s) /\ i <= Len(y) /\ i \in 1 .. Len(y) + Len(t)
      BY <1>4, <1>5, <1>6, <1>9, <1>10, <2>1
    <3> QED
      BY <1>4, <1>7, <1>8, <3>1
  <2>2. CASE i > a /\ i <= j
    <3>1. /\ i - a \in 1 .. v /\ i \in 1 .. Len(s) + Len(z) /\ ~(i <= Len(s)) /\ i <= Len(y)
          /\ i \in 1 .. Len(y) + Len(t) /\ i - Len(s) = i - a /\ i \in a + 1 .. j
      BY <1>4, <1>5, <1>6, <1>9, <1>10, <2>2
    <3>2. u[i] = y[i] /\ y[i] = z[i - a]
      BY <1>7, <1>8, <3>1
    <3>3. z[i - a] = 0 /\ w[i] = 0
      BY <1>6, <3>1
    <3> QED
      BY <3>2, <3>3
  <2>3. CASE i > j
    <3> DEFINE k == i - j
    <3>1. k \in 1 .. 8 - j /\ j + k = i /\ ~(i <= Len(y)) /\ i \in 1 .. Len(y) + Len(t) /\ i - Len(y) = k
      BY <1>5, <1>10, <2>3
    <3> HIDE DEF k
    <3>2. u[i] = t[k] /\ t[k] = w[j + k]
      BY <1>5, <1>8, <3>1
    <3> QED
      BY <3>1, <3>2
  <2> QED
    BY <2>1, <2>2, <2>3
<1>12. u = w
  BY <1>8, <1>10, <1>11, SeqEqual
<1> QED
  BY <1>3, <1>12 DEF u, y, ws

LEMMA FilledWhole ==
  ASSUME NEW w, Len(w) = 8
  PROVE  Filled(w, Missing) = w
BY DEF Filled, Words

\* pton6() with a "::" in front and without.
LEMMA Pton6Is ==
  ASSUME NEW q \in Seq(Nat)
  PROVE  /\ Pton6(Cat(<<Colon, Colon>>, q)) = Groups(q, 0)
         /\ q # << >> /\ q[1] # Colon => Pton6(q) = Groups(q, Missing)
<1> DEFINE c == <<Colon, Colon>> \o q
<1>1. /\ c \in Seq(Nat) /\ Len(c) = 2 + Len(q) /\ c[1] = Colon /\ c[2] = Colon /\ c # << >>
      /\ SubSeq(c, 3, Len(c)) = q
  <2>1. Colon \in Nat
    BY DEF Colon
  <2> QED
    BY <2>1, BehindTwo
<1>2. Len(c) # 1
  <2>1. Len(q) \in Nat
    BY LenProperties
  <2> QED
    BY <1>1, <2>1
<1> HIDE DEF c
<1>3. Pton6(c) = Groups(q, 0)
  BY <1>1, <1>2 DEF Pton6
<1>4. q # << >> /\ q[1] # Colon => Pton6(q) = Groups(q, Missing)
  BY DEF Pton6
<1> QED
  BY <1>3, <1>4, Zenon DEF c, Cat

\* What starts with a word.
LEMMA SpelledFirst ==
  ASSUME NEW ws \in Seq(Address16), Len(ws) \in 1 .. 8, NEW g, NEW Q, Spelled(Q, ws, g)
  PROVE  Q[0] \in Seq(Nat) /\ Q[0] # << >> /\ Q[0][1] # Colon
<1> DEFINE m == Len(ws)
           x == ws[1]
           e == Sep(1, m, g)
           q == Q[1]
           r == Cat(e, q)
           p == Q[0]
<1>1. 1 \in 1 .. m /\ 0 \in 0 .. m /\ 1 \in 0 .. m /\ 1 - 1 = 0
  BY SMTT(30)
<1>2. Q[0] = Cat(HexWord(x), r) /\ q \in Seq(Nat)
  BY <1>1 DEF Spelled
<1>3. x \in Address16
  BY <1>1, ElementOfSeq
<1>4. e \in Seq(Nat)
  BY DEF Sep, Colon
<1> HIDE DEF m, x, e, q
<1>5. r \in Seq(Nat)
  BY <1>2, <1>4, CatIs
<1> HIDE DEF r
<1>6. HexWord(x) \o r \in Seq(Nat) /\ HexWord(x) \o r # << >> /\ (HexWord(x) \o r)[1] # Colon
  BY <1>3, <1>5, WordFirst
<1>7. p = HexWord(x) \o r
  BY <1>2, Zenon DEF Cat
<1> HIDE DEF p
<1>8. p \in Seq(Nat) /\ p # << >> /\ p[1] # Colon
  BY <1>6, <1>7, Zenon
<1> QED
  BY <1>8 DEF p

LEMMA FullRead ==
  ASSUME NEW w \in Seq(Address16), Len(w) = 8
  PROVE  Pton6(InFull(w)) = w
<1>0. Len(w) \in 0 .. 8 /\ Len(w) \in 1 .. 8
  OBVIOUS
<1>1. PICK Q : Spelled(Q, w, Missing)
  BY <1>0, SpelledExists
<1>2. InFull(w) = Q[0]
  BY <1>1, FullIs
<1>3. Q[0] \in Seq(Nat) /\ Q[0] # << >> /\ Q[0][1] # Colon
  BY <1>0, <1>1, SpelledFirst
<1>4. Pton6(Q[0]) = Groups(Q[0], Missing)
  BY <1>3, Pton6Is
<1>5. Groups(Q[0], Missing) = Filled(w, Missing)
  <2> DEFINE g == Missing
  <2>1. g \in {Missing} \cup (0 .. Len(w)) /\ (Len(w) = 0 => g = 0) /\ g # 0
    BY DEF Missing
  <2>2. Spelled(Q, w, g)
    BY <1>1
  <2> HIDE DEF g
  <2>3. Groups(Q[0], IF g = 0 THEN 0 ELSE Missing) = Filled(w, g)
    BY <1>0, <2>1, <2>2, TextRead
  <2>4. (IF g = 0 THEN 0 ELSE Missing) = Missing
    BY <2>1
  <2> QED
    BY <2>3, <2>4 DEF g
<1>6. Filled(w, Missing) = w
  BY FilledWhole
<1> QED
  BY <1>2, <1>4, <1>5, <1>6

LEMMA ShortRead ==
  ASSUME NEW w \in Seq(Address16), Len(w) = 8, NEW a \in 0 .. 7, NEW j \in a + 1 .. 8,
         \A k \in a + 1 .. j : w[k] = 0
  PROVE  Pton6(Shortened(w, a + 1, j)) = w
<1> DEFINE ws == Others(w, a, j)
<1>1. ws \in Seq(Address16) /\ Len(ws) = a + (8 - j)
  BY OthersAre
<1>2. Len(ws) \in 0 .. 8 /\ a \in {Missing} \cup (0 .. Len(ws)) /\ (Len(ws) = 0 => a = 0)
  BY <1>1
<1>3. PICK Q : Spelled(Q, ws, a)
  <2> HIDE DEF ws
  <2> QED
    BY <1>1, <1>2, SpelledExists
<1>4. Shortened(w, a + 1, j) = IF a = 0 THEN Cat(<<Colon, Colon>>, Q[0]) ELSE Q[0]
  BY <1>3, ShortenedIs
<1>5. Filled(ws, a) = w
  BY FilledIs
<1> HIDE DEF ws
<1>6. Groups(Q[0], IF a = 0 THEN 0 ELSE Missing) = Filled(ws, a)
  BY <1>1, <1>2, <1>3, TextRead
<1>7. Q[0] \in Seq(Nat)
  <2>1. 0 \in 0 .. Len(ws)
    BY <1>2
  <2> QED
    BY <1>3, <2>1 DEF Spelled
<1>8. CASE a = 0
  <2>1. Pton6(Cat(<<Colon, Colon>>, Q[0])) = Groups(Q[0], 0)
    BY <1>7, Pton6Is
  <2> QED
    BY <1>4, <1>5, <1>6, <1>8, <2>1
<1>9. CASE a # 0
  <2>1. Len(ws) \in 1 .. 8
    BY <1>1, <1>9
  <2>2. Q[0] # << >> /\ Q[0][1] # Colon
    BY <1>1, <1>3, <2>1, SpelledFirst
  <2>3. Pton6(Q[0]) = Groups(Q[0], Missing)
    BY <1>7, <2>2, Pton6Is
  <2> QED
    BY <1>4, <1>5, <1>6, <1>9, <2>3
<1> QED
  BY <1>8, <1>9

LEMMA EveryFormIsRead ==
  ASSUME NEW w \in Seq(Address16), Len(w) = 8
  PROVE  EveryFormRead(w)
<1>1. ASSUME NEW i \in 1 .. Words, NEW j \in 1 .. Words, i <= j, i .. j \subseteq ZeroIndices(w)
      PROVE  Pton6(Shortened(w, i, j)) = w
  <2> DEFINE a == i - 1
  <2>1. a \in 0 .. 7 /\ j \in a + 1 .. 8 /\ a + 1 = i
    BY <1>1 DEF Words
  <2> HIDE DEF a
  <2>2. \A k \in a + 1 .. j : w[k] = 0
    BY <1>1, <2>1 DEF ZeroIndices
  <2>3. Pton6(Shortened(w, a + 1, j)) = w
    BY <2>1, <2>2, ShortRead
  <2> QED
    BY <2>1, <2>3
<1> QED
  BY <1>1, FullRead DEF EveryFormRead

\* The zeros of an address that are all together: those behind the a-th word, up to the j-th.
Zeros(w, a, j) == \A k \in 1 .. 8 : w[k] = 0 <=> a < k /\ k <= j

LEMMA ZerosTogether ==
  ASSUME NEW w, OneRun(w)
  PROVE  \E a \in 0 .. 8 : \E j \in a .. 8 : Zeros(w, a, j) /\ (a = j => a = 8)
<1> DEFINE Z == ZeroIndices(w)
<1>1. Z \in SUBSET (0 .. 8) /\ \A k \in 1 .. 8 : k \in Z <=> w[k] = 0
  BY DEF ZeroIndices, Words
<1>2. \A k \in Z : k \in 1 .. 8
  BY DEF ZeroIndices, Words
<1>3. \A i, j \in Z : \A k \in i .. j : k \in Z
  BY DEF OneRun
<1> HIDE DEF Z
<1>4. CASE Z = {}
  <2>1. Zeros(w, 8, 8)
    BY <1>1, <1>4 DEF Zeros
  <2> QED
    BY <2>1
<1>5. CASE Z # {}
  <2>0. Z \in SUBSET Nat /\ 8 \in Nat
    BY <1>1
  <2>1. PICK i \in Z : \A y \in Z : i <= y
    BY <1>5, <2>0, MinExists
  <2>2. PICK j \in Z : \A y \in Z : y <= j
    BY <1>1, <1>5, <2>0, MaxExists
  <2>3. i \in 1 .. 8 /\ j \in 1 .. 8 /\ i <= j
    BY <1>2, <2>1, <2>2
  <2>4. Zeros(w, i - 1, j)
    <3> SUFFICES ASSUME NEW k \in 1 .. 8 PROVE w[k] = 0 <=> i - 1 < k /\ k <= j
      BY DEF Zeros
    <3>1. k \in Z => i <= k /\ k <= j
      BY <2>1, <2>2
    <3>2. i <= k /\ k <= j => k \in Z
      BY <1>3, <2>3
    <3>3. i - 1 < k <=> i <= k
      BY <2>3
    <3> QED
      BY <1>1, <3>1, <3>2, <3>3
  <2>5. i - 1 \in 0 .. 8 /\ j \in i - 1 .. 8 /\ i - 1 # j
    BY <2>3
  <2> QED
    BY <2>4, <2>5
<1> QED
  BY <1>4, <1>5

\* They are the run that is found.
RunState(bs, bl, cs, cl) == [bs |-> bs, bl |-> bl, cs |-> cs, cl |-> cl]
LEMMA LongestIs ==
  ASSUME NEW bs, NEW bl, NEW cs, NEW cl
  PROVE  Longest(RunState(bs, bl, cs, cl)) =
           IF cl > bl THEN RunState(cs, cl, cs, cl) ELSE RunState(bs, bl, cs, cl)
<1> DEFINE s == [bs |-> bs, bl |-> bl, cs |-> cs, cl |-> cl]
<1>1. s.bs = bs /\ s.bl = bl /\ s.cs = cs /\ s.cl = cl
  OBVIOUS
<1>2. [s EXCEPT !.bl = s.cl, !.bs = s.cs] = [bs |-> cs, bl |-> cl, cs |-> cs, cl |-> cl]
  <2> DEFINE t == [s EXCEPT !.bl = s.cl]
  <2>1. t = [bs |-> bs, bl |-> cl, cs |-> cs, cl |-> cl]
    OBVIOUS
  <2>2. [s EXCEPT !.bl = s.cl, !.bs = s.cs] = [t EXCEPT !.bs = s.cs]
    OBVIOUS
  <2> HIDE DEF t
  <2>3. [t EXCEPT !.bs = s.cs] = [bs |-> cs, bl |-> cl, cs |-> cs, cl |-> cl]
    BY <1>1, <2>1
  <2> QED
    BY <2>2, <2>3
<1>3. s = RunState(bs, bl, cs, cl)
  BY DEF RunState
<1> HIDE DEF s
<1>4. Longest(s) = IF cl > bl THEN RunState(cs, cl, cs, cl) ELSE s
  BY <1>1, <1>2 DEF Longest, RunState
<1> QED
  BY <1>3, <1>4, Zenon

LEMMA ZeroTurnIs ==
  ASSUME NEW w, NEW i, NEW bs, NEW bl, NEW cs, NEW cl
  PROVE  ZeroTurn(w, i, RunState(bs, bl, cs, cl)) =
           IF w[i] # 0 THEN Longest(RunState(bs, bl, cs, cl))
           ELSE RunState(bs, bl, IF cl = 0 THEN i - 1 ELSE cs, cl + 1)
<1> DEFINE s == [bs |-> bs, bl |-> bl, cs |-> cs, cl |-> cl]
<1>1. s.bs = bs /\ s.bl = bl /\ s.cs = cs /\ s.cl = cl
  OBVIOUS
<1>2. [s EXCEPT !.cl = @ + 1, !.cs = IF s.cl = 0 THEN i - 1 ELSE @]
        = [bs |-> bs, bl |-> bl, cs |-> IF cl = 0 THEN i - 1 ELSE cs, cl |-> cl + 1]
  <2> DEFINE t == [s EXCEPT !.cl = @ + 1]
             x == IF cl = 0 THEN i - 1 ELSE cs
  <2>1. t = [bs |-> bs, bl |-> bl, cs |-> cs, cl |-> cl + 1]
    OBVIOUS
  <2>2. [s EXCEPT !.cl = @ + 1, !.cs = IF s.cl = 0 THEN i - 1 ELSE @] = [t EXCEPT !.cs = IF s.cl = 0 THEN i - 1 ELSE @]
    OBVIOUS
  <2> HIDE DEF t
  <2>3. t.cs = cs
    BY <2>1
  <2>4. [t EXCEPT !.cs = IF s.cl = 0 THEN i - 1 ELSE @] = [t EXCEPT !.cs = x]
    BY <1>1, <2>3
  <2> HIDE DEF x
  <2>5. [t EXCEPT !.cs = x] = [bs |-> bs, bl |-> bl, cs |-> x, cl |-> cl + 1]
    BY <2>1
  <2> QED
    BY <2>2, <2>4, <2>5 DEF x
<1>3. s = RunState(bs, bl, cs, cl)
  BY DEF RunState
<1> HIDE DEF s
<1>4. ZeroTurn(w, i, s) = IF w[i] # 0 THEN Longest(s) ELSE RunState(bs, bl, IF cl = 0 THEN i - 1 ELSE cs, cl + 1)
  BY <1>1, <1>2 DEF ZeroTurn, RunState
<1> QED
  BY <1>3, <1>4, Zenon

RunAt(n, a, j) ==
  IF n <= a THEN RunState(0, 0, 0, 0)
  ELSE IF n <= j THEN RunState(0, 0, a, n - a)
  ELSE RunState(a, j - a, a, j - a)

LEMMA RunStays ==
  ASSUME NEW w, NEW a \in 0 .. 8, NEW j \in a .. 8, a = j => a = 8, Zeros(w, a, j), NEW n \in 1 .. 8
  PROVE  ZeroTurn(w, n, RunAt(n - 1, a, j)) = RunAt(n, a, j)
<1>1. w[n] = 0 <=> a < n /\ n <= j
  BY DEF Zeros
<1>2. CASE n <= a
  <2>1. n - 1 <= a /\ w[n] # 0
    BY <1>1, <1>2
  <2>2. RunAt(n - 1, a, j) = RunState(0, 0, 0, 0) /\ RunAt(n, a, j) = RunState(0, 0, 0, 0)
    BY <1>2, <2>1 DEF RunAt
  <2>3. ZeroTurn(w, n, RunState(0, 0, 0, 0)) = Longest(RunState(0, 0, 0, 0))
    BY <2>1, ZeroTurnIs
  <2>4. Longest(RunState(0, 0, 0, 0)) = RunState(0, 0, 0, 0)
    BY LongestIs
  <2> QED
    BY <2>2, <2>3, <2>4
<1>3. CASE n = a + 1
  <2>1. a < n /\ n <= j /\ n - 1 <= a /\ ~(n <= a) /\ n - a = 1 /\ n - 1 = a
    BY <1>3
  <2>2. RunAt(n - 1, a, j) = RunState(0, 0, 0, 0) /\ RunAt(n, a, j) = RunState(0, 0, a, 1)
    BY <2>1 DEF RunAt
  <2>3. ZeroTurn(w, n, RunState(0, 0, 0, 0)) = RunState(0, 0, a, 1)
    <3>1. ZeroTurn(w, n, RunState(0, 0, 0, 0)) = RunState(0, 0, IF 0 = 0 THEN n - 1 ELSE 0, 0 + 1)
      BY <1>1, <2>1, ZeroTurnIs
    <3> QED
      BY <2>1, <3>1
  <2> QED
    BY <2>2, <2>3
<1>4. CASE n > a + 1 /\ n <= j
  <2> DEFINE l == (n - 1) - a
  <2>1. /\ a < n /\ n <= j /\ ~(n - 1 <= a) /\ n - 1 <= j /\ ~(n <= a)
        /\ l \in 0 .. 8 /\ l # 0 /\ l + 1 = n - a
    BY <1>4
  <2>2. RunAt(n - 1, a, j) = RunState(0, 0, a, l) /\ RunAt(n, a, j) = RunState(0, 0, a, n - a)
    BY <2>1 DEF RunAt
  <2> HIDE DEF l
  <2>3. ZeroTurn(w, n, RunState(0, 0, a, l)) = RunState(0, 0, a, l + 1)
    <3>1. ZeroTurn(w, n, RunState(0, 0, a, l)) = RunState(0, 0, IF l = 0 THEN n - 1 ELSE a, l + 1)
      BY <1>1, <2>1, ZeroTurnIs
    <3> QED
      BY <2>1, <3>1
  <2> QED
    BY <2>1, <2>2, <2>3
<1>5. CASE n > a + 1 /\ n > j
  <2> DEFINE l == j - a
  <2>1. w[n] # 0 /\ ~(n <= a) /\ ~(n <= j) /\ ~(n - 1 <= a) /\ l \in 0 .. 8 /\ a < j /\ l > 0
    BY <1>1, <1>5
  <2>2. RunAt(n, a, j) = RunState(a, l, a, l)
    BY <2>1 DEF RunAt
  <2>3. n - 1 <= j => RunAt(n - 1, a, j) = RunState(0, 0, a, l)
    <3> HAVE n - 1 <= j
    <3>1. (n - 1) - a = l
      BY <1>5
    <3> HIDE DEF l
    <3> QED
      BY <2>1, <3>1 DEF RunAt
  <2>4. ~(n - 1 <= j) => RunAt(n - 1, a, j) = RunState(a, l, a, l)
    BY <2>1 DEF RunAt
  <2> HIDE DEF l
  <2>5. ZeroTurn(w, n, RunState(0, 0, a, l)) = RunState(a, l, a, l)
    <3>1. ZeroTurn(w, n, RunState(0, 0, a, l)) = Longest(RunState(0, 0, a, l))
      BY <2>1, ZeroTurnIs
    <3>2. Longest(RunState(0, 0, a, l)) = RunState(a, l, a, l)
      BY <2>1, LongestIs
    <3> QED
      BY <3>1, <3>2
  <2>6. ZeroTurn(w, n, RunState(a, l, a, l)) = RunState(a, l, a, l)
    <3>1. ZeroTurn(w, n, RunState(a, l, a, l)) = Longest(RunState(a, l, a, l))
      BY <2>1, ZeroTurnIs
    <3>2. Longest(RunState(a, l, a, l)) = RunState(a, l, a, l)
      BY <2>1, LongestIs
    <3> QED
      BY <3>1, <3>2
  <2> QED
    BY <2>2, <2>3, <2>4, <2>5, <2>6
<1>6. n <= a \/ n = a + 1 \/ (n > a + 1 /\ n <= j) \/ (n > a + 1 /\ n > j)
  OBVIOUS
<1> QED
  BY <1>2, <1>3, <1>4, <1>5, <1>6

LEMMA ZeroRunIs ==
  ASSUME NEW w, NEW a \in 0 .. 8, NEW j \in a .. 8, a = j => a = 8, Zeros(w, a, j)
  PROVE  ZeroRun(w) = IF a = j THEN RunState(0, 0, 0, 0) ELSE RunState(a, j - a, a, j - a)
<1> DEFINE s0 == RunState(0, 0, 0, 0)
           Is(f) == f = [i \in 0 .. 8 |-> IF i = 0 THEN s0 ELSE ZeroTurn(w, i, f[i - 1])]
           run == CHOOSE f : Is(f)
           g == [i \in 0 .. 8 |-> RunAt(i, a, j)]
<1>1. ZeroRun(w) = Longest(run[8])
  BY Zenon DEF ZeroRun, Words, RunState
<1>2. \A i \in 0 .. 8 : g[i] = RunAt(i, a, j)
  OBVIOUS
<1>3. g[0] = s0
  BY DEF RunAt
<1>4. \A i \in 1 .. 8 : g[i] = ZeroTurn(w, i, g[i - 1])
  <2> HIDE DEF g
  <2> TAKE i \in 1 .. 8
  <2>1. i \in 0 .. 8 /\ i - 1 \in 0 .. 8
    OBVIOUS
  <2>2. ZeroTurn(w, i, RunAt(i - 1, a, j)) = RunAt(i, a, j)
    BY RunStays
  <2> QED
    BY <1>2, <2>1, <2>2
<1>5. Is(g)
  <2>1. g = [i \in 0 .. 8 |-> g[i]]
    OBVIOUS
  <2> HIDE DEF g, s0
  <2>2. \A i \in 0 .. 8 : g[i] = IF i = 0 THEN s0 ELSE ZeroTurn(w, i, g[i - 1])
    BY <1>3, <1>4
  <2> QED
    BY <2>1, <2>2
<1>6. Is(run)
  <2> HIDE DEF Is, g
  <2> QED
    BY <1>5
<1> HIDE DEF run, g, s0
<1>7. run[0] = s0 /\ \A i \in 1 .. 8 : run[i] = ZeroTurn(w, i, run[i - 1])
  BY <1>6
<1>8. run[8] = RunAt(8, a, j)
  <2> DEFINE W == [n \in 0 .. 8 |-> {g[n]}]
  <2>1. \A n \in 0 .. 8 : W[n] = {g[n]}
    OBVIOUS
  <2> HIDE DEF W
  <2>2. run[0] \in W[0]
    BY <1>3, <1>7, <2>1
  <2>3. ASSUME NEW n \in 1 .. 8, run[n - 1] \in W[n - 1] PROVE run[n] \in W[n]
    <3>1. n - 1 \in 0 .. 8 /\ n \in 0 .. 8
      OBVIOUS
    <3>2. run[n - 1] = g[n - 1]
      BY <2>1, <2>3, <3>1
    <3>3. run[n] = g[n]
      BY <1>4, <1>7, <3>2
    <3> QED
      BY <2>1, <3>1, <3>3
  <2>4. 8 \in Nat
    OBVIOUS
  <2>5. \A n \in 0 .. 8 : run[n] \in W[n]
    BY <2>2, <2>3, <2>4, LoopInvariant
  <2>6. run[8] = g[8]
    BY <2>1, <2>5
  <2> QED
    BY <1>2, <2>6
<1>9. CASE a = j
  <2>1. RunAt(8, a, j) = RunState(0, 0, 0, 0)
    BY <1>9 DEF RunAt
  <2>2. Longest(RunState(0, 0, 0, 0)) = RunState(0, 0, 0, 0)
    BY LongestIs
  <2> QED
    BY <1>1, <1>8, <1>9, <2>1, <2>2
<1>10. CASE a # j
  <2> DEFINE l == j - a
  <2>1. l \in 0 .. 8 /\ l > 0 /\ ~(8 <= a) /\ (8 <= j => 8 - a = l)
    BY <1>10
  <2>2. RunAt(8, a, j) = RunState(0, 0, a, l) \/ RunAt(8, a, j) = RunState(a, l, a, l)
    BY <2>1 DEF RunAt
  <2> HIDE DEF l
  <2>3. Longest(RunState(0, 0, a, l)) = RunState(a, l, a, l) /\ Longest(RunState(a, l, a, l)) = RunState(a, l, a, l)
    BY <2>1, LongestIs
  <2>4. ZeroRun(w) = RunState(a, l, a, l)
    BY <1>1, <1>8, <2>2, <2>3
  <2> QED
    BY <1>10, <2>4 DEF l
<1> QED
  BY <1>9, <1>10

LEMMA TwoBytes ==
  ASSUME NEW x \in Address16
  PROVE  x \div 256 \in Address8 /\ x % 256 \in Address8 /\ (x \div 256) * 256 + (x % 256) = x
<1>1. x \in Nat /\ x <= 65535
  BY DEF Address16
<1> DEFINE h == x \div 256
           l == x % 256
<1>2. h * 256 + l = x
  BY <1>1
<1>3. l \in 0 .. 255
  BY <1>1
<1>4. h \in Int
  BY <1>1
<1> HIDE DEF h, l
<1>5. h >= 0 /\ h <= 255
  BY <1>1, <1>2, <1>3, <1>4
<1> QED
  BY <1>2, <1>3, <1>4, <1>5 DEF Address8, h, l

\* The bytes of the last two words.
LEMMA LastBytesAre ==
  ASSUME NEW w, w[7] \in Address16, w[8] \in Address16
  PROVE  LET b == LastBytes(w) IN
         b \in Bytes4 /\ b[1] * 256 + b[2] = w[7] /\ b[3] * 256 + b[4] = w[8]
<1> DEFINE b == LastBytes(w)
<1>2. b = <<w[7] \div 256, w[7] % 256, w[8] \div 256, w[8] % 256>>
  BY DEF LastBytes
<1>3. /\ w[7] \div 256 \in Address8 /\ w[7] % 256 \in Address8 /\ (w[7] \div 256) * 256 + (w[7] % 256) = w[7]
      /\ w[8] \div 256 \in Address8 /\ w[8] % 256 \in Address8 /\ (w[8] \div 256) * 256 + (w[8] % 256) = w[8]
  <2> HIDE DEF b
  <2> QED
    BY TwoBytes
<1> DEFINE h7 == w[7] \div 256
           l7 == w[7] % 256
           h8 == w[8] \div 256
           l8 == w[8] % 256
<1> HIDE DEF b, h7, l7, h8, l8
<1>4. b = <<h7, l7, h8, l8>> /\ h7 \in Address8 /\ l7 \in Address8 /\ h8 \in Address8 /\ l8 \in Address8
      /\ h7 * 256 + l7 = w[7] /\ h8 * 256 + l8 = w[8]
  BY <1>2, <1>3 DEF h7, l7, h8, l8
<1>5. b[1] = h7 /\ b[2] = l7 /\ b[3] = h8 /\ b[4] = l8
  BY <1>4
<1>6. b \in Seq(Address8) /\ Len(b) = 4
  BY <1>4
<1> QED
  BY <1>4, <1>5, <1>6 DEF Bytes4, b

\* The last two words as an IPv4 address, alone and behind another word.
LEMMA BytesRead ==
  ASSUME NEW b \in Bytes4
  PROVE  Groups(Ntop4(b), 0) = Filled(<< >> \o <<b[1] * 256 + b[2], b[3] * 256 + b[4]>>, 0)
<1> DEFINE c == Ntop4(b)
           e == << >>
           s0 == State(c, e, 0)
           S == [n \in 0 .. 0 |-> s0]
           v == Filled(e \o <<b[1] * 256 + b[2], b[3] * 256 + b[4]>>, 0)
<1>1. e \in Seq(Nat) /\ Len(e) <= 6
  BY EmptySeq
<1>2. GroupTurn(s0).on = FALSE /\ GroupTurn(s0).a = v
  <2> DEFINE z == 0
  <2> HIDE DEF e, z
  <2>1. LastTurn(GroupTurn(State(Ntop4(b), e, z)), Filled(e \o TwoWords(b), z))
    BY <1>1, ByteEnd
  <2> QED
    BY <2>1, Zenon DEF z, LastTurn, TwoWords
<1>3. S[0] = s0
  OBVIOUS
<1> DEFINE N == 0
<1>4. Path(S, N, c, 0) /\ N \in 0 .. 8
  <2>1. \A n \in 1 .. 0 : S[n] = GroupTurn(S[n - 1])
    OBVIOUS
  <2> HIDE DEF S, c
  <2> QED
    BY <1>2, <1>3, <2>1 DEF Path
<1> HIDE DEF S, c, s0, v, N
<1>5. Groups(c, 0) = GroupTurn(S[N]).a
  BY <1>4, PathIs
<1>6. S[N] = s0
  BY <1>3 DEF N
<1> QED
  BY <1>2, <1>5, <1>6 DEF c, v

LEMMA WordAndBytesRead ==
  ASSUME NEW x \in Address16, NEW b \in Bytes4
  PROVE  Groups(Cat(HexWord(x), Cat(<<Colon>>, Ntop4(b))), 0)
           = Filled(<<x>> \o <<b[1] * 256 + b[2], b[3] * 256 + b[4]>>, 0)
<1> DEFINE q == Ntop4(b)
           c == Cat(HexWord(x), Cat(<<Colon>>, q))
           e == << >>
           a == Append(e, x)
           s0 == State(c, e, 0)
           s1 == State(q, a, 0)
           v == Filled(a \o <<b[1] * 256 + b[2], b[3] * 256 + b[4]>>, 0)
<1>1. e \in Seq(Nat) /\ Len(e) < Words /\ a = <<x>> /\ a \in Seq(Nat) /\ Len(a) <= 6
  <2>1. x \in Nat
    BY Address16Nat
  <2> QED
    BY <2>1 DEF Words
<1>2. Follows(q)
  <2>1. PICK r \in Seq(Nat) : Ntop4(b) = Decimal(b[1]) \o r
    BY Pton4Reads
  <2>2. b[1] \in Address8
    <3>1. b \in Seq(Address8) /\ Len(b) = 4
      BY DEF Bytes4
    <3>2. 1 \in 1 .. Len(b)
      BY <3>1
    <3> QED
      BY <3>1, <3>2, ElementOfSeq
  <2>3. Decimal(b[1]) \o r \in Seq(Nat) /\ Decimal(b[1]) \o r # << >> /\ (Decimal(b[1]) \o r)[1] # Colon
    BY <2>2, DecimalFirst
  <2> QED
    BY <2>1, <2>3, Zenon DEF Follows
<1>3. Stands(c, x, <<Colon>>, q)
  BY DEF Stands
<1> HIDE DEF q, c, e
<1>4. GroupTurn(s0) = s1
  <2>0. e \in Seq(Nat) /\ Len(e) < Words
    BY <1>1
  <2>1. \A z : Stands(c, x, <<Colon>>, q) => GroupTurn(State(c, e, z)) = State(q, Append(e, x), z)
    BY <1>2, <2>0, WordByWord
  <2> QED
    BY <1>3, <2>1
<1> HIDE DEF a
<1>5. GroupTurn(s1).on = FALSE /\ GroupTurn(s1).a = v
  <2> DEFINE z == 0
  <2> HIDE DEF z
  <2>0. a \in Seq(Nat) /\ Len(a) <= 6
    BY <1>1
  <2>1. LastTurn(GroupTurn(State(Ntop4(b), a, z)), Filled(a \o TwoWords(b), z))
    BY <2>0, ByteEnd
  <2> QED
    BY <2>1, Zenon DEF z, q, LastTurn, TwoWords
<1> HIDE DEF s0, s1, v
<1> DEFINE S == [n \in 0 .. 1 |-> IF n = 0 THEN s0 ELSE s1]
           N == 1
<1>6. S[0] = s0 /\ S[1] = s1
  OBVIOUS
<1>7. Path(S, N, c, 0) /\ N \in 0 .. 8
  <2> HIDE DEF S
  <2>1. \A n \in 1 .. 1 : S[n] = GroupTurn(S[n - 1])
    <3>1. \A n \in 1 .. 1 : n = 1 /\ n - 1 = 0
      OBVIOUS
    <3> QED
      BY <1>4, <1>6, <3>1
  <2>2. S[0] = State(c, << >>, 0)
    BY <1>6 DEF s0, e
  <2> QED
    BY <1>5, <1>6, <2>1, <2>2 DEF Path
<1> HIDE DEF S, N
<1>8. Groups(c, 0) = GroupTurn(S[N]).a
  BY <1>7, PathIs
<1>9. S[N] = s1
  BY <1>6 DEF N
<1>10. Groups(c, 0) = v
  BY <1>5, <1>8, <1>9
<1> QED
  BY <1>1, <1>10 DEF c, v, q

\* What is left of an address that ends like an IPv4 address.
LEMMA LastOthers ==
  ASSUME NEW w \in Seq(Address16), Len(w) = 8
  PROVE  /\ << >> \o <<w[7], w[8]>> = Others(w, 0, 6)
         /\ <<w[6]>> \o <<w[7], w[8]>> = Others(w, 0, 5)
<1>1. w[6] \in Address16 /\ w[7] \in Address16 /\ w[8] \in Address16
  <2>1. \A i \in 1 .. 8 : w[i] \in Address16
    BY ElementOfSeq
  <2> QED
    BY <2>1
<1> DEFINE x == w[6]
           y == w[7]
           z == w[8]
<1>2. ASSUME NEW j \in {5, 6}
      PROVE  /\ Others(w, 0, j) \in Seq(Address16) /\ Len(Others(w, 0, j)) = 8 - j
             /\ \A k \in 1 .. 8 - j : Others(w, 0, j)[k] = w[j + k]
  <2> DEFINE a == 0
  <2>1. a \in 0 .. 7 /\ j \in a + 1 .. 8 /\ a = 0
    OBVIOUS
  <2> HIDE DEF a
  <2>2. /\ Others(w, a, j) \in Seq(Address16) /\ Len(Others(w, a, j)) = a + (8 - j)
        /\ \A k \in 1 .. 8 - j : Others(w, a, j)[a + k] = w[j + k]
    BY <2>1, OthersAre
  <2>3. a + (8 - j) = 8 - j /\ \A k \in 1 .. 8 - j : a + k = k
    BY <2>1
  <2> QED
    BY <2>1, <2>2, <2>3
<1>3. /\ Others(w, 0, 6) \in Seq(Address16) /\ Len(Others(w, 0, 6)) = 2
      /\ Others(w, 0, 6)[1] = y /\ Others(w, 0, 6)[2] = z
  <2> DEFINE t == Others(w, 0, 6)
             j == 6
  <2>1. t \in Seq(Address16) /\ Len(t) = 8 - j /\ \A k \in 1 .. 8 - j : t[k] = w[j + k]
    BY <1>2
  <2> HIDE DEF t
  <2>2. 1 \in 1 .. 8 - j /\ 2 \in 1 .. 8 - j /\ j + 1 = 7 /\ j + 2 = 8 /\ 8 - j = 2
    OBVIOUS
  <2>3. t[1] = w[7] /\ t[2] = w[8]
    BY <2>1, <2>2
  <2> QED
    BY <2>1, <2>2, <2>3 DEF t
<1>4. /\ Others(w, 0, 5) \in Seq(Address16) /\ Len(Others(w, 0, 5)) = 3
      /\ Others(w, 0, 5)[1] = x /\ Others(w, 0, 5)[2] = y /\ Others(w, 0, 5)[3] = z
  <2> DEFINE t == Others(w, 0, 5)
             j == 5
  <2>1. t \in Seq(Address16) /\ Len(t) = 8 - j /\ \A k \in 1 .. 8 - j : t[k] = w[j + k]
    BY <1>2
  <2> HIDE DEF t
  <2>2. /\ 1 \in 1 .. 8 - j /\ 2 \in 1 .. 8 - j /\ 3 \in 1 .. 8 - j
        /\ j + 1 = 6 /\ j + 2 = 7 /\ j + 3 = 8 /\ 8 - j = 3
    OBVIOUS
  <2>3. t[1] = w[6] /\ t[2] = w[7] /\ t[3] = w[8]
    BY <2>1, <2>2
  <2> QED
    BY <2>1, <2>2, <2>3 DEF t
<1>5. x \in Address16 /\ y \in Address16 /\ z \in Address16
  BY <1>1
<1> HIDE DEF x, y, z
<1> DEFINE u == << >> \o <<y, z>>
           v == <<x>> \o <<y, z>>
<1>7. /\ u \in Seq(Address16) /\ Len(u) = 2 /\ u[1] = y /\ u[2] = z
      /\ v \in Seq(Address16) /\ Len(v) = 3 /\ v[1] = x /\ v[2] = y /\ v[3] = z
  <2> DEFINE e == << >>
             p == <<x>>
             q == <<y, z>>
  <2>1. e \in Seq(Address16) /\ Len(e) = 0
    OBVIOUS
  <2>2. p \in Seq(Address16) /\ Len(p) = 1 /\ p[1] = x
    BY <1>5
  <2>3. q \in Seq(Address16) /\ Len(q) = 2 /\ q[1] = y /\ q[2] = z
    BY <1>5
  <2> HIDE DEF e, p, q
  <2>4. e \o q \in Seq(Address16) /\ Len(e \o q) = Len(e) + Len(q)
        /\ \A i \in 1 .. Len(e) + Len(q) : (e \o q)[i] = IF i <= Len(e) THEN e[i] ELSE q[i - Len(e)]
    BY <2>1, <2>3, ConcatProperties
  <2>5. p \o q \in Seq(Address16) /\ Len(p \o q) = Len(p) + Len(q)
        /\ \A i \in 1 .. Len(p) + Len(q) : (p \o q)[i] = IF i <= Len(p) THEN p[i] ELSE q[i - Len(p)]
    BY <2>2, <2>3, ConcatProperties
  <2>6. u = e \o q /\ v = p \o q
    BY Zenon DEF e, p, q
  <2> HIDE DEF u, v
  <2>7. Len(u) = 2 /\ u[1] = y /\ u[2] = z /\ u \in Seq(Address16)
    <3>1. Len(e) + Len(q) = 2 /\ ~(1 <= Len(e)) /\ ~(2 <= Len(e)) /\ 1 - Len(e) = 1 /\ 2 - Len(e) = 2
      BY <2>1, <2>3
    <3>2. 1 \in 1 .. Len(e) + Len(q) /\ 2 \in 1 .. Len(e) + Len(q)
      BY <3>1
    <3>3. u[1] = q[1] /\ u[2] = q[2]
      BY <2>4, <2>6, <3>1, <3>2
    <3> QED
      BY <2>3, <2>4, <2>6, <3>1, <3>3
  <2>8. Len(v) = 3 /\ v[1] = x /\ v[2] = y /\ v[3] = z /\ v \in Seq(Address16)
    BY <2>2, <2>3, <2>5, <2>6
  <2> QED
    BY <2>7, <2>8
<1> HIDE DEF u, v
<1>8. u = Others(w, 0, 6)
  <2>1. \A i \in 1 .. Len(u) : u[i] = Others(w, 0, 6)[i]
    <3>1. \A i \in 1 .. 2 : i = 1 \/ i = 2
      OBVIOUS
    <3> QED
      BY <1>3, <1>7, <3>1
  <2> QED
    BY <1>3, <1>7, <2>1, SeqEqual
<1>9. v = Others(w, 0, 5)
  <2>1. \A i \in 1 .. Len(v) : v[i] = Others(w, 0, 5)[i]
    <3>1. \A i \in 1 .. 3 : i = 1 \/ i = 2 \/ i = 3
      OBVIOUS
    <3> QED
      BY <1>4, <1>7, <3>1
  <2> QED
    BY <1>4, <1>7, <2>1, SeqEqual
<1> QED
  BY <1>8, <1>9 DEF u, v, x, y, z

\* The text of an address whose run of zeros is known.
Text6(w, bs, bl, i, p) ==
  IF Mapped(w, bs, bl) THEN PutWords(p, w, i, 6 - i) \o <<Colon>> \o Ntop4(LastBytes(w))
  ELSE PutWords(p, w, i, Words - i)

LEMMA Ntop6Is ==
  ASSUME NEW w, NEW bs, NEW bl, NEW cs, NEW cl, ZeroRun(w) = RunState(bs, bl, cs, cl)
  PROVE  LET l == IF bl = 1 THEN 0 ELSE bl
             i == IF l = 0 THEN 0 ELSE bs + l
             p == IF l = 0 THEN << >> ELSE Gap(w, bs, i)
         IN  Ntop6(w) = Text6(w, bs, l, i, p)
<1> DEFINE s == ZeroRun(w)
<1>1. s.bs = bs /\ s.bl = bl
  BY DEF RunState
<1>2. Ntop6(w) = LET l == IF s.bl = 1 THEN 0 ELSE s.bl
                     i == IF l = 0 THEN 0 ELSE s.bs + l
                     p == IF l = 0 THEN << >> ELSE Gap(w, s.bs, i)
                 IN  Text6(w, s.bs, l, i, p)
  BY Zenon DEF Ntop6, Text6
<1> HIDE DEF s
<1> QED
  BY <1>1, <1>2, Zenon

LEMMA NothingLeftOut ==
  ASSUME NEW w, NEW a \in 0 .. 8, NEW j \in a .. 8, a = j => a = 8, Zeros(w, a, j), j - a <= 1
  PROVE  Ntop6(w) = InFull(w)
<1>1. PICK bs, bl, cs, cl : ZeroRun(w) = RunState(bs, bl, cs, cl) /\ bl \in {0, 1}
  <2>1. CASE a = j
    BY <2>1, ZeroRunIs
  <2>2. CASE a # j
    <3>1. ZeroRun(w) = RunState(a, j - a, a, j - a)
      BY <2>2, ZeroRunIs
    <3>2. j - a \in {0, 1}
      BY <2>2
    <3> QED
      BY <3>1, <3>2
  <2> QED
    BY <2>1, <2>2
<1>2. (IF bl = 1 THEN 0 ELSE bl) = 0
  BY <1>1
<1>3. Ntop6(w) = Text6(w, bs, 0, 0, << >>)
  <2>1. LET l == IF bl = 1 THEN 0 ELSE bl
            i == IF l = 0 THEN 0 ELSE bs + l
            p == IF l = 0 THEN << >> ELSE Gap(w, bs, i)
        IN  Ntop6(w) = Text6(w, bs, l, i, p)
    BY <1>1, Ntop6Is
  <2> QED
    BY <1>2, <2>1
<1>4. ~Mapped(w, bs, 0) /\ Words - 0 = Words
  BY DEF Mapped, Words
<1> QED
  BY <1>3, <1>4, Zenon DEF Text6, InFull

LEMMA ZerosLeftOut ==
  ASSUME NEW w, NEW a \in 0 .. 8, NEW j \in a .. 8, Zeros(w, a, j), j - a >= 2
  PROVE  /\ Ntop6(w) = Text6(w, a, j - a, j, Gap(w, a, j))
         /\ a # 0 => Ntop6(w) = Shortened(w, a + 1, j)
         /\ ~Mapped(w, a, j - a) => Ntop6(w) = Shortened(w, a + 1, j)
<1> DEFINE l == j - a
<1>1. l # 0 /\ l # 1 /\ a # j /\ a + l = j /\ (a + 1) - 1 = a
  OBVIOUS
<1>2. ZeroRun(w) = RunState(a, l, a, l)
  BY <1>1, ZeroRunIs
<1> HIDE DEF l
<1>3. Ntop6(w) = Text6(w, a, l, j, Gap(w, a, j))
  <2>1. LET k == IF l = 1 THEN 0 ELSE l
            i == IF k = 0 THEN 0 ELSE a + k
            p == IF k = 0 THEN << >> ELSE Gap(w, a, i)
        IN  Ntop6(w) = Text6(w, a, k, i, p)
    BY <1>2, Ntop6Is
  <2> QED
    BY <1>1, <2>1
<1>4. ~Mapped(w, a, l) => Ntop6(w) = Shortened(w, a + 1, j)
  BY <1>1, <1>3, Zenon DEF Text6, Shortened
<1>5. a # 0 => ~Mapped(w, a, l)
  BY DEF Mapped
<1> QED
  BY <1>3, <1>4, <1>5 DEF l

\* Six zeros, or five and a word of ones, before an IPv4 address.
LEMMA MappedRead ==
  ASSUME NEW w \in Seq(Address16), Len(w) = 8, NEW j \in {5, 6}, \A k \in 1 .. j : w[k] = 0
  PROVE  Pton6(PutWords(Gap(w, 0, j), w, j, 6 - j) \o <<Colon>> \o Ntop4(LastBytes(w))) = w
<1> DEFINE b == LastBytes(w)
           q == Ntop4(b)
           e == << >>
           one == <<Colon>>
           two == <<Colon, Colon>>
           gap == Gap(w, 0, j)
           x == PutWords(gap, w, j, 6 - j)
<1>1. w[6] \in Address16 /\ w[7] \in Address16 /\ w[8] \in Address16
  <2>1. \A i \in 1 .. 8 : w[i] \in Address16
    BY ElementOfSeq
  <2> QED
    BY <2>1
<1>2. b \in Bytes4 /\ b[1] * 256 + b[2] = w[7] /\ b[3] * 256 + b[4] = w[8]
  BY <1>1, LastBytesAre
<1> HIDE DEF b, q, gap, x
<1>3. e \in Seq(Nat) /\ one \in Seq(Nat) /\ Cat(one, one) = two /\ Cat(e, one) = one
  <2>1. e \in Seq(Nat) /\ one \in Seq(Nat)
    BY DEF Colon
  <2>2. <<Colon>> \o <<Colon>> = <<Colon, Colon>>
    BY ColonTwice
  <2>3. Cat(one, one) = two
    BY <2>2, Zenon DEF Cat
  <2>4. << >> \o one = one
    <3> HIDE DEF one
    <3> QED
      BY <2>1, ConcatProperties
  <2>5. Cat(e, one) = one
    BY <2>4, Zenon DEF Cat
  <2> QED
    BY <2>1, <2>3, <2>5, Zenon
<1>4. q \in Seq(Nat)
  <2>1. PICK r \in Seq(Nat) : Ntop4(b) = Decimal(b[1]) \o r
    BY <1>2, Pton4Reads
  <2>2. b[1] \in Address8
    <3>1. b \in Seq(Address8) /\ Len(b) = 4
      BY <1>2 DEF Bytes4
    <3>2. 1 \in 1 .. Len(b)
      BY <3>1
    <3> QED
      BY <3>1, <3>2, ElementOfSeq
  <2>3. Decimal(b[1]) \o r \in Seq(Nat)
    BY <2>2, DecimalFirst
  <2> QED
    BY <2>1, <2>3, Zenon DEF q
<1>5. gap = one
  <2>1. PutWords(e, w, 0, 0) = e
    <3>1. 0 \in 0 .. 8 /\ 0 <= Len(w)
      OBVIOUS
    <3> QED
      BY <1>3, <3>1, PutNone
  <2>2. gap = Cat(PutWords(e, w, 0, 0), one)
    <3>1. j # Words
      BY DEF Words
    <3> QED
      BY <3>1, Zenon DEF gap, Gap, Cat
  <2> QED
    BY <1>3, <2>1, <2>2, Zenon
<1>6. PutWords(gap, w, j, 6 - j) \o <<Colon>> \o Ntop4(LastBytes(w)) = Cat(Cat(x, one), q)
  BY Zenon DEF Cat, b, x, q
<1>7. Filled(Others(w, 0, j), 0) = w
  <2> DEFINE a == 0
  <2>1. a \in 0 .. 7 /\ j \in a + 1 .. 8 /\ \A k \in a + 1 .. j : w[k] = 0
    OBVIOUS
  <2> HIDE DEF a
  <2>2. Filled(Others(w, a, j), a) = w
    BY <2>1, FilledIs
  <2> QED
    BY <2>2 DEF a
<1> HIDE DEF e, one, two
<1>8. CASE j = 6
  <2>1. x = one
    <3>1. 6 \in 0 .. 8 /\ 6 <= Len(w)
      OBVIOUS
    <3>2. PutWords(one, w, 6, 0) = one
      BY <1>3, <3>1, PutNone
    <3>3. 6 - j = 0
      BY <1>8
    <3> QED
      BY <1>5, <1>8, <3>2, <3>3 DEF x
  <2>2. Cat(Cat(x, one), q) = Cat(two, q)
    BY <1>3, <2>1
  <2>3. Pton6(Cat(two, q)) = Groups(q, 0)
    BY <1>4, Pton6Is DEF two
  <2>4. Groups(q, 0) = Filled(<< >> \o <<w[7], w[8]>>, 0)
    <3>1. Groups(Ntop4(b), 0) = Filled(<< >> \o <<b[1] * 256 + b[2], b[3] * 256 + b[4]>>, 0)
      BY <1>2, BytesRead
    <3> QED
      BY <1>2, <3>1 DEF q
  <2>5. << >> \o <<w[7], w[8]>> = Others(w, 0, 6)
    BY LastOthers
  <2> QED
    BY <1>6, <1>7, <1>8, <2>2, <2>3, <2>4, <2>5 DEF gap
<1>9. CASE j = 5
  <2> DEFINE h == HexWord(w[6])
             r == Cat(one, q)
             y == Cat(one, h)
             R == [k \in 0 .. 1 |-> IF k = 0 THEN Cat(y, r) ELSE r]
             n == 1
  <2>1. h \in Seq(Nat)
    BY <1>1, HexWordIs
  <2>2. WordText(w, 6) = y
    <3>1. 6 > 1
      OBVIOUS
    <3> QED
      BY <3>1, Zenon DEF WordText, Cat, one
  <2> HIDE DEF h
  <2>3. r \in Seq(Nat) /\ y \in Seq(Nat)
    <3>1. r \in Seq(Nat)
      BY <1>3, <1>4, CatIs
    <3>2. y \in Seq(Nat)
      BY <1>3, <2>1, CatIs
    <3> QED
      BY <3>1, <3>2
  <2>4. R[0] = Cat(y, r) /\ R[1] = r
    OBVIOUS
  <2> HIDE DEF R, r, y
  <2>5. Cat(y, r) \in Seq(Nat)
    BY <2>3, CatIs
  <2>6. Writes(R, w, j, n)
    <3>1. \A k \in 0 .. n : k = 0 \/ k = 1
      OBVIOUS
    <3>2. \A k \in 1 .. n : k = 1 /\ k - 1 = 0 /\ j + k = 6
      BY <1>9
    <3>3. j \in 0 .. 8 /\ n \in 0 .. 8 /\ j + n <= Len(w)
      BY <1>9
    <3> HIDE DEF n
    <3>4. \A k \in 0 .. n : R[k] \in Seq(Nat)
      BY <2>3, <2>4, <2>5, <3>1
    <3>5. \A k \in 1 .. n : R[k - 1] = Cat(WordText(w, j + k), R[k])
      BY <2>2, <2>4, <3>2
    <3> QED
      BY <3>3, <3>4, <3>5 DEF Writes
  <2>7. x \in Seq(Nat) /\ Cat(x, r) = Cat(one, Cat(y, r))
    <3>1. PutWords(one, w, j, n) \in Seq(Nat) /\ Cat(PutWords(one, w, j, n), R[n]) = Cat(one, R[0])
      BY <1>3, <2>6, PutIs
    <3>2. 6 - j = n
      BY <1>9
    <3> QED
      BY <1>5, <2>4, <3>1, <3>2 DEF x
  <2> DEFINE t == Cat(h, r)
  <2>8. t \in Seq(Nat)
    BY <2>1, <2>3, CatIs
  <2>9. Cat(Cat(x, one), q) = Cat(two, t)
    <3>1. Cat(Cat(x, one), q) = Cat(x, r)
      BY <1>3, <1>4, <2>7, CatIs DEF r
    <3>2. Cat(y, r) = Cat(one, t)
      BY <1>3, <2>1, <2>3, CatIs DEF y
    <3> HIDE DEF t
    <3>3. Cat(Cat(one, one), t) = Cat(one, Cat(one, t))
      BY <1>3, <2>8, CatIs
    <3> QED
      BY <1>3, <2>7, <3>1, <3>2, <3>3, Zenon
  <2>10. Pton6(Cat(two, t)) = Groups(t, 0)
    <3> HIDE DEF t
    <3> QED
      BY <2>8, Pton6Is DEF two
  <2>11. Groups(t, 0) = Filled(<<w[6]>> \o <<w[7], w[8]>>, 0)
    <3>1. Groups(Cat(HexWord(w[6]), Cat(<<Colon>>, Ntop4(b))), 0)
            = Filled(<<w[6]>> \o <<b[1] * 256 + b[2], b[3] * 256 + b[4]>>, 0)
      BY <1>1, <1>2, WordAndBytesRead
    <3>2. t = Cat(HexWord(w[6]), Cat(<<Colon>>, Ntop4(b)))
      BY Zenon DEF h, r, one, q
    <3> HIDE DEF t
    <3> QED
      BY <1>2, <3>1, <3>2
  <2>12. <<w[6]>> \o <<w[7], w[8]>> = Others(w, 0, 5)
    BY LastOthers
  <2> HIDE DEF t
  <2> QED
    BY <1>6, <1>7, <1>9, <2>9, <2>10, <2>11, <2>12 DEF gap
<1> QED
  BY <1>8, <1>9

\* An address whose zeros are all together has its text read back.
LEMMA TextReadBack ==
  ASSUME NEW w \in Seq(Address16), Len(w) = 8, OneRun(w)
  PROVE  BackAgain(w)
<1>1. PICK a \in 0 .. 8 : \E j \in a .. 8 : Zeros(w, a, j) /\ (a = j => a = 8)
  BY ZerosTogether
<1>2. PICK j \in a .. 8 : Zeros(w, a, j) /\ (a = j => a = 8)
  BY <1>1
<1>3. \A k \in a + 1 .. j : w[k] = 0
  BY <1>2 DEF Zeros
<1>4. CASE j - a <= 1
  <2>1. Ntop6(w) = InFull(w)
    BY <1>2, <1>4, NothingLeftOut
  <2> QED
    BY <2>1, FullRead DEF BackAgain
<1>5. CASE j - a >= 2 /\ Ntop6(w) = Shortened(w, a + 1, j)
  <2>1. a \in 0 .. 7 /\ j \in a + 1 .. 8
    BY <1>5
  <2>2. Pton6(Shortened(w, a + 1, j)) = w
    BY <1>3, <2>1, ShortRead
  <2> QED
    BY <1>5, <2>2 DEF BackAgain
<1>6. CASE j - a >= 2 /\ Ntop6(w) # Shortened(w, a + 1, j)
  <2>1. /\ Ntop6(w) = Text6(w, a, j - a, j, Gap(w, a, j))
        /\ a # 0 => Ntop6(w) = Shortened(w, a + 1, j)
        /\ ~Mapped(w, a, j - a) => Ntop6(w) = Shortened(w, a + 1, j)
    BY <1>2, <1>6, ZerosLeftOut
  <2>2. a = 0 /\ Mapped(w, a, j - a)
    BY <1>6, <2>1
  <2>3. j \in {5, 6}
    BY <2>2 DEF Mapped
  <2>4. Ntop6(w) = PutWords(Gap(w, 0, j), w, j, 6 - j) \o <<Colon>> \o Ntop4(LastBytes(w))
    BY <2>1, <2>2, Zenon DEF Text6
  <2>5. \A k \in 1 .. j : w[k] = 0
    BY <1>3, <2>2
  <2>6. Pton6(PutWords(Gap(w, 0, j), w, j, 6 - j) \o <<Colon>> \o Ntop4(LastBytes(w))) = w
    BY <2>3, <2>5, MappedRead
  <2> QED
    BY <2>4, <2>6, Zenon DEF BackAgain
<1>7. j - a <= 1 \/ j - a >= 2
  OBVIOUS
<1> QED
  BY <1>4, <1>5, <1>6, <1>7

\* inet_XtoX.c: any address is read from each of its texts, and from the one that is written
\* of it, if its zeros are all together.
THEOREM AddressSound == InetSpec => []AddressRight
<1> DEFINE Inv == address \in Seq(Address16)
<1>0. \A x \in AddressWords : x \in Address16
  BY InetAssumption
<1>1. InetInit => Inv
  BY DEF InetInit
<1>2. Inv /\ [InetNext]_address => Inv'
  <2> SUFFICES ASSUME Inv, [InetNext]_address PROVE Inv'
    OBVIOUS
  <2>1. CASE InetNext
    <3>1. PICK x \in AddressWords : address' = Append(address, x)
      BY <2>1 DEF InetNext
    <3>2. x \in Address16
      BY <1>0, <3>1, Zenon
    <3> QED
      BY <3>1, <3>2, AppendProperties
  <2>2. CASE UNCHANGED address
    BY <2>2
  <2> QED
    BY <2>1, <2>2
<1>3. Inv => AddressRight
  <2> SUFFICES ASSUME Inv, Len(address) = Words
               PROVE  EveryFormRead(address) /\ (OneRun(address) => BackAgain(address))
    BY DEF AddressRight
  <2>1. Len(address) = 8
    BY DEF Words
  <2> QED
    BY <2>1, EveryFormIsRead, TextReadBack
<1> QED
  BY <1>1, <1>2, <1>3, PTL DEF InetSpec
=============================================================================

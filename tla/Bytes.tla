------------------------------- MODULE Bytes -------------------------------
(***************************************************************************)
(* Characters as the numbers the code compares; a string is the sequence   *)
(* of its characters, without the zero that ends it.                       *)
(***************************************************************************)
EXTENDS Integers, Sequences

Dot == 46
Colon == 58
Backslash == 92
Zero == 48

Digit(c) == c \in Zero .. Zero + 9

\* The decimal and the lower-case hexadecimal digit of a number below 10, below 16.
HexDigit(n) == IF n < 10 THEN Zero + n ELSE n + 87

\* A number below 1000 in decimal: with three digits, and without leading zeros.
ThreeDigits(n) == <<Zero + n \div 100, Zero + ((n \div 10) % 10), Zero + (n % 10)>>
Decimal(n) == SubSeq(ThreeDigits(n), IF n > 99 THEN 1 ELSE IF n > 9 THEN 2 ELSE 3, 3)

Lesser(a, b) == IF a < b THEN a ELSE b

LowerCase(c) == IF c \in 65 .. 90 THEN c + 32 ELSE c

\* What a digit stands for, 16 if it is none.
HexValue(c) ==
  CASE Digit(c) -> c - Zero [] c \in 97 .. 102 -> c - 87 [] c \in 65 .. 70 -> c - 55 [] OTHER -> 16

\* s up to the first character in stops, and what follows it.
Until(s, stops) ==
  LET clear == {n \in 0 .. Len(s) : \A i \in 1 .. n : s[i] \notin stops} IN
    SubSeq(s, 1, CHOOSE n \in clear : \A m \in clear : m <= n)
After(s, t) == SubSeq(s, Len(t) + 1, Len(s))

\* The digits s starts with, and the number that digits stand for.
Digits(s, base) == Until(s, {c \in {s[i] : i \in DOMAIN s} : HexValue(c) >= base})
Value(digits, base) ==
  LET v[n \in 0 .. Len(digits)] == IF n = 0 THEN 0 ELSE base * v[n - 1] + HexValue(digits[n]) IN
    v[Len(digits)]
=============================================================================

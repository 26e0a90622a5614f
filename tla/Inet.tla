-------------------------------- MODULE Inet --------------------------------
(***************************************************************************)
(* udns/inet_XtoX.c: addresses to text and back.  An IPv4 address is four  *)
(* bytes, an IPv6 address eight words; ntop is given room enough.          *)
(*                                                                         *)
(* The loops are functions of the number of their turns.                   *)
(***************************************************************************)
EXTENDS Bytes

CONSTANT AddressWords    \* the words of addresses

Address16 == {x \in Nat : x <= 65535}  \* a word of an address

ASSUME InetAssumption == AddressWords \subseteq Address16

VARIABLE address         \* the words so far

NotAddress == << >>
Words == 8

Ntop4(src) ==
  Decimal(src[1]) \o <<Dot>> \o Decimal(src[2]) \o <<Dot>> \o Decimal(src[3]) \o <<Dot>> \o Decimal(src[4])

\* hexc()
HexDigits(x) ==
  <<HexDigit(x \div 4096), HexDigit((x \div 256) % 16), HexDigit((x \div 16) % 16), HexDigit(x % 16)>>
HexWord(x) == SubSeq(HexDigits(x), IF x > 4095 THEN 1 ELSE IF x > 255 THEN 2 ELSE IF x > 15 THEN 3 ELSE 4, 4)

\* The longest run of zeros as the loop finds it.  cl is not set back to 0 by a word
\* that is not zero: it counts all the zeros from the first one on.
Longest(s) == IF s.cl > s.bl THEN [s EXCEPT !.bl = s.cl, !.bs = s.cs] ELSE s
ZeroTurn(w, i, s) ==
  IF w[i] # 0 THEN Longest(s) ELSE [s EXCEPT !.cl = @ + 1, !.cs = IF s.cl = 0 THEN i - 1 ELSE @]
ZeroRun(w) ==
  LET run[i \in 0 .. Words] ==
        IF i = 0 THEN [bs |-> 0, bl |-> 0, cs |-> 0, cl |-> 0] ELSE ZeroTurn(w, i, run[i - 1])
  IN  Longest(run[Words])

\* p and the n words behind the first i.
WordText(w, i) == IF i > 1 THEN <<Colon>> \o HexWord(w[i]) ELSE HexWord(w[i])
PutWords(p, w, i, n) ==
  LET put[k \in 0 .. n] == IF k = 0 THEN p ELSE put[k - 1] \o WordText(w, i + k)
  IN  put[n]

\* What stands before the j-th word if those behind the first i, zeros, are left out.
Gap(w, i, j) == PutWords(<< >>, w, 0, i) \o (IF j = Words THEN <<Colon, Colon>> ELSE <<Colon>>)

\* The last two words as an IPv4 address, if a run of zeros makes them one.
Mapped(w, bs, bl) == bs = 0 /\ (bl = 6 \/ (bl = 5 /\ w[6] = 65535))
LastBytes(w) == <<w[7] \div 256, w[7] % 256, w[8] \div 256, w[8] % 256>>

Ntop6(w) ==
  LET s == ZeroRun(w)
      bl == IF s.bl = 1 THEN 0 ELSE s.bl
      i == IF bl = 0 THEN 0 ELSE s.bs + bl
      p == IF bl = 0 THEN << >> ELSE Gap(w, s.bs, i) IN
    IF Mapped(w, s.bs, bl) THEN PutWords(p, w, i, 6 - i) \o <<Colon>> \o Ntop4(LastBytes(w))
    ELSE PutWords(p, w, i, Words - i)

-----------------------------------------------------------------------------
\* The loop of pton4(): c is to be read, a are the bytes so far.
OctetTurn(t, n) ==
  LET digits == Digits(t.c, 10)
      rest == After(t.c, digits)
      ended == IF n = 4 THEN rest = << >> ELSE rest # << >> /\ rest[1] = Dot IN
    IF ~t.on THEN t
    ELSE IF digits = << >> \/ Value(digits, 10) > 255 \/ ~ended THEN [on |-> FALSE, c |-> rest, a |-> NotAddress]
    ELSE [on |-> TRUE, c |-> SubSeq(rest, 2, Len(rest)), a |-> Append(t.a, Value(digits, 10))]
Pton4(c) ==
  LET turns[n \in 0 .. 4] == IF n = 0 THEN [on |-> TRUE, c |-> c, a |-> << >>] ELSE OctetTurn(turns[n - 1], n)
  IN  turns[4].a

Missing == -1     \* z: no "::" yet
\* Mutant of Filled: the zeros go behind all words.
FilledAtEnd(a, z) ==
  LET v == Words - Len(a) IN
    IF (v # 0) # (z # Missing) THEN NotAddress ELSE a \o [i \in 1 .. v |-> 0]

\* The end of pton6(): as many zeros as there are words missing go where the "::" was.
Filled(a, z) ==
  LET v == Words - Len(a) IN
    IF (v # 0) # (z # Missing) THEN NotAddress
    ELSE IF v = 0 THEN a
    ELSE SubSeq(a, 1, z) \o [i \in 1 .. v |-> 0] \o SubSeq(a, z + 1, Len(a))

\* Its loop: c is to be read, a are the words so far, and what is returned in the end.
Gives(t, a) == [t EXCEPT !.on = FALSE, !.a = a]
Further(t, c, v, z) == [t EXCEPT !.c = c, !.a = Append(@, v), !.z = z]
GroupTurn(t) ==
  LET digits == Digits(t.c, 16)
      rest == After(t.c, digits)
      v == Value(digits, 16)
      v4 == Pton4(t.c)
      double == Len(rest) > 1 /\ rest[2] = Colon IN
    IF ~t.on THEN t
    ELSE IF digits = << >>
    THEN Gives(t, IF t.z = Len(t.a) /\ t.c = << >> THEN Filled(t.a, t.z) ELSE NotAddress)
    ELSE IF v > 65535 THEN Gives(t, NotAddress)
    ELSE IF rest = << >> THEN Gives(t, IF Len(t.a) >= Words THEN NotAddress ELSE Filled(Append(t.a, v), t.z))
    ELSE IF rest[1] = Colon
    THEN IF Len(t.a) >= Words \/ (double /\ t.z # Missing) THEN Gives(t, NotAddress)
         ELSE IF double /\ Len(rest) = 2 THEN Gives(t, Filled(Append(t.a, v), Len(t.a) + 1))
         ELSE IF double THEN Further(t, SubSeq(rest, 3, Len(rest)), v, Len(t.a) + 1)
         ELSE Further(t, SubSeq(rest, 2, Len(rest)), v, t.z)
    ELSE Gives(t, IF rest[1] # Dot \/ Len(t.a) > 6 \/ v4 = NotAddress THEN NotAddress
                  ELSE Filled(t.a \o <<v4[1] * 256 + v4[2], v4[3] * 256 + v4[4]>>, t.z))

\* Turns enough: each but the last has one word more.
Groups(c, z) ==
  LET turns[n \in 0 .. Words + 1] ==
        IF n = 0 THEN [on |-> TRUE, c |-> c, a |-> << >>, z |-> z] ELSE GroupTurn(turns[n - 1])
  IN  turns[Words + 1].a

Pton6(c) ==
  IF c = << >> \/ c[1] # Colon THEN Groups(c, Missing)
  ELSE IF Len(c) = 1 \/ c[2] # Colon THEN NotAddress
  ELSE Groups(SubSeq(c, 3, Len(c)), 0)

-----------------------------------------------------------------------------
(* An address, word by word.                                               *)

InetInit == address = << >>
InetNext == Len(address) < Words /\ \E x \in AddressWords : address' = Append(address, x)
InetSpec == InetInit /\ [][InetNext]_address

-----------------------------------------------------------------------------
ZeroIndices(w) == {i \in 1 .. Words : w[i] = 0}
OneRun(w) == \A i, j \in ZeroIndices(w) : \A k \in i .. j : k \in ZeroIndices(w)

\* The text of an address, and one that leaves the words i to j, zeros, to a "::".
InFull(w) == PutWords(<< >>, w, 0, Words)
Shortened(w, i, j) == PutWords(Gap(w, i - 1, j), w, j, Words - j)

\* Every way to write an address is read, with a "::" for any of its zeros or without.
EveryFormRead(w) ==
  /\ Pton6(InFull(w)) = w
  /\ \A i, j \in 1 .. Words : i <= j /\ i .. j \subseteq ZeroIndices(w) => Pton6(Shortened(w, i, j)) = w
BackAgain(w) == Pton6(Ntop6(w)) = w

\* inet_XtoX.c: an address is read from each of its texts, and an address whose zeros
\* are all together has its text read back.
AddressRight ==
  Len(address) = Words => EveryFormRead(address) /\ (OneRun(address) => BackAgain(address))
=============================================================================

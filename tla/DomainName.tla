----------------------------- MODULE DomainName -----------------------------
(***************************************************************************)
(* udns_dn.c, and the names that udns_bl.c, udns_rr_srv.c and              *)
(* udns_rr_ptr.c build with it.                                            *)
(***************************************************************************)
EXTENDS Dn, SequencesExt

CONSTANT MaxName     \* DNS_MAXNAME

ASSUME DomainNameAssumption == MaxName \in Nat /\ MaxName >= 4 * MaxDn

\* What a function returns for lack of room in a buffer of that size.
TooLong(size, limit) == IF size >= limit THEN Invalid ELSE NoRoom

RECURSIVE Labels(_)
Labels(dn) ==
  IF dn[1] = 0 THEN << >>
  ELSE <<SubSeq(dn, 2, dn[1] + 1)>> \o Labels(SubSeq(dn, dn[1] + 2, Len(dn)))

RECURSIVE Joined(_)
Joined(labels) ==
  IF labels = << >> THEN <<0>> ELSE <<Len(labels[1])>> \o labels[1] \o Joined(Tail(labels))

RECURSIVE DnLen(_)
DnLen(dn) == IF dn[1] = 0 THEN 1 ELSE 1 + dn[1] + DnLen(SubSeq(dn, dn[1] + 2, Len(dn)))

\* The length of the names if they are the same but for case, and 0 if not.
RECURSIVE DnEqual(_, _)
DnEqual(dn1, dn2) ==
  LET c == dn1[1]
      rest == DnEqual(SubSeq(dn1, c + 2, Len(dn1)), SubSeq(dn2, c + 2, Len(dn2))) IN
    IF c # dn2[1] THEN 0
    ELSE IF c = 0 THEN 1
    ELSE IF \E i \in 2 .. c + 1 : LowerCase(dn1[i]) # LowerCase(dn2[i]) THEN 0
    ELSE IF rest = 0 THEN 0 ELSE c + 1 + rest

-----------------------------------------------------------------------------
(* From text: dns_ptodn().                                                 *)

\* The escape that s, behind a backslash, starts with: up to three digits, or a character.
EscapeLength(s) == IF Digit(s[1]) THEN Lesser(3, Len(Digits(s, 10))) ELSE 1

\* Mutant of EscapeValue: the digits are octal, as RFC 1035 has them.
EscapeValueOctal(s, n) == IF Digit(s[1]) THEN Value(SubSeq(s, 1, n), 8) ELSE s[1]

EscapeValue(s, n) == IF Digit(s[1]) THEN Value(SubSeq(s, 1, n), 10) ELSE s[1]

\* The loop: s is to be read, done are the labels that are closed, lab the open one.
RECURSIVE ReadText(_, _, _, _)
ReadText(s, done, lab, size) ==
  LET close == done \o <<Len(lab)>> \o lab
      last == (IF size >= MaxDn THEN MaxDn ELSE size) - 1     \* the last byte that can be filled
      n == EscapeLength(Tail(s))
      value == EscapeValue(Tail(s), n) IN
    IF s = << >>
    THEN IF Len(lab) > MaxLabel THEN Invalid
         ELSE [bytes |-> IF lab = << >> THEN done \o <<0>> ELSE close \o <<0>>, isabs |-> lab = << >>]
    ELSE IF s[1] = Dot
    THEN IF lab = << >> THEN IF done = << >> /\ Len(s) = 1 THEN [bytes |-> <<0>>, isabs |-> TRUE] ELSE Invalid
         ELSE IF Len(lab) > MaxLabel THEN Invalid
         ELSE ReadText(Tail(s), close, << >>, size)
    ELSE IF Len(close) >= last THEN TooLong(size, MaxDn)
    ELSE IF s[1] # Backslash THEN ReadText(Tail(s), done, Append(lab, s[1]), size)
    ELSE IF Len(s) = 1 \/ value > 255 THEN Invalid
    ELSE ReadText(SubSeq(s, n + 2, Len(s)), done, Append(lab, value), size)

PtoDnAbs(name, size) == IF size = 0 THEN NoRoom ELSE ReadText(name, << >>, << >>, size)
PtoDn(name, size) == LET r == PtoDnAbs(name, size) IN IF Refused(r) THEN r ELSE r.bytes

-----------------------------------------------------------------------------
(* To text: dns_dntop_size() and dns_dntop().                              *)

Special == {Dot, Backslash, 34, 59, 64, 36}     \* . \ " ; @ $
Unprintable(c) == c <= 32 \/ c >= 127

ByteSize(c) == IF c \in Special THEN 2 ELSE IF Unprintable(c) THEN 4 ELSE 1

RECURSIVE LabelSize(_)
LabelSize(lab) == IF lab = << >> THEN 0 ELSE ByteSize(lab[1]) + LabelSize(Tail(lab))

RECURSIVE TextSize(_, _)
TextSize(labels, size) ==
  IF labels = << >> THEN size + 1
  ELSE TextSize(Tail(labels), size + (IF size > 0 THEN 1 ELSE 0) + LabelSize(labels[1]))
DnToPSize(dn) == LET size == TextSize(Labels(dn), 0) IN IF size > MaxName THEN 0 ELSE size

\* The name so far with one more byte of a label; Invalid stands for "goto toolong".
PutByte(name, c, size) ==
  LET at == Len(name) IN
    IF c \in Special THEN IF at + 2 > size THEN Invalid ELSE name \o <<Backslash, c>>
    ELSE IF Unprintable(c)
    THEN IF at + 4 >= size THEN Invalid
         ELSE name \o <<Backslash>> \o ThreeDigits(c)
    ELSE IF at >= size THEN Invalid ELSE Append(name, c)

RECURSIVE PutLabel(_, _, _)
PutLabel(name, lab, size) ==
  IF lab = << >> \/ name = Invalid THEN name ELSE PutLabel(PutByte(name, lab[1], size), Tail(lab), size)

RECURSIVE PutLabels(_, _, _)
PutLabels(name, labels, size) ==
  IF labels = << >> \/ name = Invalid THEN name
  ELSE IF name = << >> THEN PutLabels(PutLabel(name, labels[1], size), Tail(labels), size)
  ELSE IF Len(name) >= size THEN Invalid
  ELSE PutLabels(PutLabel(Append(name, Dot), labels[1], size), Tail(labels), size)

\* The text with its zero.
DnToP(dn, size) ==
  LET name == PutLabels(<< >>, Labels(dn), size) IN
    IF name = Invalid \/ Len(name) >= size THEN TooLong(size, MaxName) ELSE Append(name, 0)

-----------------------------------------------------------------------------
(* Names made of addresses.                                                *)

\* dns_a4todn_(): the last octet first; a check allows one byte too many.
RECURSIVE OctetLabels(_, _, _)
OctetLabels(addr, dn, size) ==
  LET digits == Decimal(addr[Len(addr)]) IN
    IF addr = << >> THEN dn
    ELSE IF Len(dn) + Len(digits) > size THEN NoRoom
    ELSE OctetLabels(SubSeq(addr, 1, Len(addr) - 1), dn \o <<Len(digits)>> \o digits, size)

\* dns_a6todn_(): the last four bits first.
RECURSIVE NibbleLabels(_)
NibbleLabels(addr) ==
  IF addr = << >> THEN << >>
  ELSE LET n == addr[Len(addr)] IN
         <<1, HexDigit(n % 16), 1, HexDigit(n \div 16)>> \o NibbleLabels(SubSeq(addr, 1, Len(addr) - 1))
A6ToDn_(addr, size) == IF 4 * Len(addr) > size THEN NoRoom ELSE NibbleLabels(addr)

\* dns_a4todn(), dns_a6todn(): the domain is given as a DN.
WithDomain(p, tdn, size) ==
  IF p = NoRoom THEN NoRoom
  ELSE IF Len(p) + Len(tdn) > (IF size > MaxDn THEN MaxDn ELSE size) THEN TooLong(size, MaxDn)
  ELSE p \o tdn
A4ToDn(addr, tdn, size) == WithDomain(OctetLabels(addr, << >>, IF size > MaxDn THEN MaxDn ELSE size), tdn, size)
A6ToDn(addr, tdn, size) == WithDomain(A6ToDn_(addr, IF size > MaxDn THEN MaxDn ELSE size), tdn, size)

\* dns_a4ptodn(), dns_a6ptodn(): it is given as text, and is put where p ends.  The room
\* there is unsigned: if p takes the one byte too many, it is as much as there can be.
RoomBehind(p, size) == IF Len(p) > size THEN MaxDn ELSE size - Len(p)
WithTextDomain(p, tname, size) ==
  LET r == PtoDn(tname, RoomBehind(p, size)) IN
    IF p = NoRoom THEN NoRoom
    ELSE IF r = NoRoom THEN TooLong(size, MaxDn) ELSE IF r = Invalid THEN Invalid ELSE p \o r
A4PtoDn(addr, tname, size) == WithTextDomain(OctetLabels(addr, << >>, size), tname, size)
A6PtoDn(addr, tname, size) == WithTextDomain(A6ToDn_(addr, size), tname, size)

-----------------------------------------------------------------------------
(* The names of black lists and of services; NoName for DNS_E_BADQUERY.    *)

NoName == << >>
A4Dnsbl(addr, dnsbl) == LET dn == A4PtoDn(addr, dnsbl, MaxDn) IN IF Refused(dn) THEN NoName ELSE dn
A6Dnsbl(addr, dnsbl) == LET dn == A6PtoDn(addr, dnsbl, MaxDn) IN IF Refused(dn) THEN NoName ELSE dn

\* dns_rhsbltodn(): the second name is put over the zero of the first.
RhsblToDn(name, rhsbl) ==
  LET dn == PtoDn(name, MaxDn)
      list == PtoDn(rhsbl, MaxDn - Len(dn) + 1) IN
    IF Refused(dn) THEN NoName
    ELSE IF Refused(list) THEN NoName ELSE SubSeq(dn, 1, Len(dn) - 1) \o list

Underscore == 95

\* add_sname(): the label for a service or protocol, or nothing.
AddSname(sn) ==
  LET dn == PtoDn(sn, MaxLabel - 1) IN
    IF Refused(dn) \/ Len(dn) = 1 \/ Len(dn) - 2 # dn[1] THEN << >>
    ELSE <<Len(dn) - 1, Underscore>> \o SubSeq(dn, 2, Len(dn) - 1)

Unfinished == <<-2>>     \* a DN that nothing ends

\* build_srv_dn(): parts are the service and the protocol, those that are given.  A
\* name there is no room for behind them is not told from one that there is.
BuildSrvDn(name, parts) ==
  LET labels == FlattenSeq([i \in DOMAIN parts |-> AddSname(parts[i])])
      dn == PtoDn(name, MaxDn - Len(labels)) IN
    IF \E i \in DOMAIN parts : AddSname(parts[i]) = << >> THEN NoName
    ELSE IF dn = Invalid THEN NoName
    ELSE IF dn = NoRoom THEN Unfinished ELSE labels \o dn

-----------------------------------------------------------------------------
\* A name is printed in the size that is said, in no smaller one, and read back as it was.
PrintedAndRead(dn) ==
  LET text == DnToP(dn, MaxName) IN
    /\ Len(text) = DnToPSize(dn) /\ PtoDn(Front(text), MaxDn) = dn
    /\ \A size \in 0 .. MaxName :
         DnToP(dn, size) = IF size >= Len(text) THEN text ELSE TooLong(size, MaxName)

UpperCase(dn) == [i \in DOMAIN dn |-> IF dn[i] \in 97 .. 122 THEN dn[i] - 32 ELSE dn[i]]

\* A text means one name, which is put into any buffer that holds it, and the dot at
\* its end only makes it absolute.
MeansOneName(text) ==
  LET r == PtoDnAbs(text, MaxDn) IN
    IF Refused(r) THEN \A size \in 0 .. MaxDn : Refused(PtoDn(text, size))
    ELSE LET dn == r.bytes IN
           /\ DnLen(dn) = Len(dn) /\ DnEqual(dn, UpperCase(dn)) = Len(dn)
           /\ \A size \in 0 .. MaxDn : PtoDn(text, size) = IF size >= Len(dn) THEN dn ELSE NoRoom
           /\ ~r.isabs => PtoDnAbs(Append(text, Dot), Len(dn)) = [bytes |-> dn, isabs |-> TRUE]

\* The name with labels before those of dn, if it is one.
Under(labels, dn) ==
  IF Refused(dn) THEN NoName
  ELSE LET whole == Joined(labels \o Labels(dn)) IN IF Len(whole) > MaxDn THEN NoName ELSE whole

OctetsOf(addr) == Reverse([i \in DOMAIN addr |-> Decimal(addr[i])])

\* An address and a domain are put into every buffer that holds both, one after the other,
\* and into no other, but if the octets take the one byte too many.
InAnyBuffer(domain, addr, size) ==
  LET octets == OctetsOf(addr)
      under == PtoDn(domain, MaxDn)
      got == A4PtoDn(addr, domain, size)
      whole == Joined(octets \o Labels(under)) IN
    IF Refused(under) THEN Refused(got)
    ELSE /\ Len(whole) <= size => got = whole
         /\ ~Refused(got) => got = whole /\ (Len(whole) <= size \/ Len(FlattenSeq(octets)) + Len(octets) > size)

\* The names of black lists and services are those of their parts, one under the other.
\* (A service name too long for a buffer is the exception BuildSrvDn shows.)
Composed(name, domain, addr) ==
  LET dn == PtoDn(name, MaxDn)
      under == PtoDn(domain, MaxDn)
      srv == BuildSrvDn(domain, <<name>>) IN
    /\ RhsblToDn(name, domain) = IF Refused(dn) THEN NoName ELSE Under(Labels(dn), under)
    /\ A4Dnsbl(addr, domain) = Under(OctetsOf(addr), under)
    /\ A4ToDn(addr, <<1, 97, 0>>, MaxDn) \in {Under(OctetsOf(addr), <<1, 97, 0>>), Invalid}
    /\ A6Dnsbl(addr, domain) = Under(Labels(NibbleLabels(addr) \o <<0>>), under)
    /\ srv \notin {NoName, Unfinished} => srv = Under(<<<<Underscore>> \o Labels(dn)[1]>>, under)
    /\ srv = NoName => Refused(under) \/ Refused(dn) \/ Len(Labels(dn)) # 1 \/ Len(dn) >= MaxLabel
=============================================================================

----------------------------- MODULE PacketName -----------------------------
(***************************************************************************)
(* Compressed names in a DNS packet: dns_skipdn() and dns_getdn() of       *)
(* udns_parse.c.  A packet is the sequence of its bytes; positions count   *)
(* from 0, as the jumps in it do, and the end of the packet is its length. *)
(*                                                                         *)
(* The two loops are functions of the number of turns: on says that there  *)
(* is another turn, and a turn of a loop that has returned changes nothing.*)
(***************************************************************************)
EXTENDS Dn

CONSTANTS
  HSize,       \* DNS_HSIZE
  MaxJumps,    \* 100: what the loop counter of dns_getdn() starts with
  PktBytes     \* the bytes that follow the header

ASSUME PacketNameAssumption ==
  HSize \in Nat /\ MaxJumps \in Nat \ {0} /\ PktBytes \subseteq 0 .. 255

VARIABLE packet

ByteAt(pkt, pos) == pkt[pos + 1]
Jump(c) == c >= 64          \* c & 192
Target(pkt, pos) == (ByteAt(pkt, pos) % 64) * 256 + ByteAt(pkt, pos + 1)
Label(pkt, pos) == SubSeq(pkt, pos + 1, pos + 1 + ByteAt(pkt, pos))    \* with its length

NoPosition == -1

\* Mutant of SkipTurn: the second byte of a jump is not skipped.
SkipTurnOneByte(pkt, t) ==
  LET c == ByteAt(pkt, t.cur)
      Return(cur) == [on |-> FALSE, cur |-> cur] IN
    IF ~t.on THEN t
    ELSE IF t.cur >= Len(pkt) THEN Return(NoPosition)
    ELSE IF c = 0 \/ Jump(c) THEN Return(t.cur + 1)
    ELSE [on |-> TRUE, cur |-> t.cur + 1 + c]

SkipTurn(pkt, t) ==
  LET c == ByteAt(pkt, t.cur)
      Return(cur) == [on |-> FALSE, cur |-> cur] IN
    IF ~t.on THEN t
    ELSE IF t.cur >= Len(pkt) THEN Return(NoPosition)
    ELSE IF c = 0 THEN Return(t.cur + 1)
    ELSE IF Jump(c) THEN Return(IF t.cur + 2 >= Len(pkt) THEN NoPosition ELSE t.cur + 2)
    ELSE [on |-> TRUE, cur |-> t.cur + 1 + c]

\* The position behind the name at cur.
SkipDn(pkt, cur) ==
  LET turns[n \in 0 .. Len(pkt) + 1] ==
        IF n = 0 THEN [on |-> TRUE, cur |-> cur] ELSE SkipTurn(pkt, turns[n - 1])
  IN  turns[Len(pkt) + 1]

\* The loop by labels: pp is the position, dn what was read, jump the position behind
\* the first jump or 0, and loop the jumps that are left.  It returns with the name in dn
\* and the position behind it in pp.
GetTurn(pkt, size, t) ==
  LET room == Lesser(size, MaxDn)
      c == ByteAt(pkt, t.pp)
      left == IF t.jump = 0 THEN t.loop ELSE t.loop - 1
      Return(dn, cur) == [t EXCEPT !.on = FALSE, !.dn = dn, !.pp = cur]
      noroom == Return(IF size < MaxDn THEN NoRoom ELSE Invalid, NoPosition) IN
    IF ~t.on THEN t
    ELSE IF t.pp >= Len(pkt) THEN Return(Invalid, NoPosition)
    ELSE IF c = 0
    THEN IF room = 0 THEN noroom ELSE Return(Append(t.dn, 0), IF t.jump = 0 THEN t.pp + 1 ELSE t.jump)
    ELSE IF Jump(c)
    THEN IF t.pp + 1 >= Len(pkt) \/ left = 0 \/ Target(pkt, t.pp) < HSize THEN Return(Invalid, NoPosition)
         ELSE [t EXCEPT !.pp = Target(pkt, t.pp), !.jump = IF @ = 0 THEN t.pp + 2 ELSE @, !.loop = left]
    ELSE IF c > MaxLabel \/ t.pp + 1 + c > Len(pkt) THEN Return(Invalid, NoPosition)
    ELSE IF Len(t.dn) + c + 1 > room THEN noroom
    ELSE [t EXCEPT !.pp = @ + 1 + c, !.dn = @ \o Label(pkt, t.pp)]

\* Turns enough: each but the last takes some of the room or one of the jumps.
MaxTurns == MaxDn + MaxJumps + 1
GetDn(pkt, cur, size) ==
  LET turns[n \in 0 .. MaxTurns] ==
        IF n = 0 THEN [on |-> TRUE, pp |-> cur, dn |-> << >>, jump |-> 0, loop |-> MaxJumps]
        ELSE GetTurn(pkt, size, turns[n - 1])
  IN  turns[MaxTurns]

-----------------------------------------------------------------------------
(* The packets: a header, which no jump may lead into, and any bytes.      *)

PacketInit == packet = [i \in 1 .. HSize |-> 0]
PacketNext == \E c \in PktBytes : packet' = Append(packet, c)
PacketSpec == PacketInit /\ [][PacketNext]_packet

-----------------------------------------------------------------------------
(* What a name in a packet is, without buffers or counters: its bytes, and *)
(* how many jumps there are in it.                                         *)

Endless == [bytes |-> Invalid, jumps |-> 0]
HasEnd(name) == name.bytes # Invalid

\* Where the name at pos goes on, if it does.
OnwardFrom(pkt, pos) ==
  LET c == ByteAt(pkt, pos) IN
    IF Jump(c) THEN IF pos + 1 < Len(pkt) /\ Target(pkt, pos) >= HSize THEN Target(pkt, pos) ELSE NoPosition
    ELSE IF c <= MaxLabel THEN pos + 1 + c ELSE NoPosition

\* The name at pos, if names has those it may go on with.
NameFrom(pkt, pos, names) ==
  LET c == ByteAt(pkt, pos)
      rest == IF OnwardFrom(pkt, pos) \in DOMAIN names THEN names[OnwardFrom(pkt, pos)] ELSE Endless IN
    IF c = 0 THEN [bytes |-> <<0>>, jumps |-> 0]
    ELSE IF ~HasEnd(rest) THEN Endless
    ELSE IF Jump(c) THEN [bytes |-> rest.bytes, jumps |-> rest.jumps + 1]
    ELSE [bytes |-> Label(pkt, pos) \o rest.bytes, jumps |-> rest.jumps]
NamesFrom(pkt, names) == [pos \in 0 .. Len(pkt) - 1 |-> NameFrom(pkt, pos, names)]

\* The name at each position.  One that ends comes to no position twice.
NamesOf(pkt) ==
  LET names[n \in 0 .. Len(pkt)] ==
        IF n = 0 THEN [pos \in 0 .. Len(pkt) - 1 |-> Endless] ELSE NamesFrom(pkt, names[n - 1])
  IN  names[Len(pkt)]
NameAt(pkt, pos) == IF pos < Len(pkt) THEN NamesOf(pkt)[pos] ELSE Endless

\* A name that ends, that the buffer holds and that has no more jumps than are allowed is
\* read; what is read is the name that is there, of which at most the last zero is behind
\* the end of the buffer; dns_skipdn() comes to the same place, unless a jump is the last
\* thing in the packet; and whatever the packet holds, both loops come to an end.
ReadIfItEnds(pkt, cur, size) ==
  \A name \in {NameAt(pkt, cur)}, got \in {GetDn(pkt, cur, size)}, skip \in {SkipDn(pkt, cur)} :
    /\ ~got.on /\ ~skip.on
    /\ HasEnd(name) /\ Len(name.bytes) <= Lesser(size, MaxDn) /\ name.jumps <= MaxJumps => ~Refused(got.dn)
    /\ ~Refused(got.dn) =>
         /\ HasEnd(name) /\ name.jumps <= MaxJumps /\ Len(name.bytes) - 1 <= Lesser(size, MaxDn)
         /\ got.dn = name.bytes /\ got.pp \in cur + 1 .. Len(pkt)
         /\ skip.cur = got.pp \/ (skip.cur = NoPosition /\ got.pp = Len(pkt))

\* udns_parse.c: wherever a packet breaks off and whatever its jumps go to, a compressed
\* name is read if it can be, as what it is, and both functions come to the same place.
PacketNamesRight ==
  \A cur \in HSize .. Len(packet), size \in 1 .. MaxDn + 1 : ReadIfItEnds(packet, cur, size)

\* udns_parse.c:58, "can't fit terminator", and udns.3:1174-1175, zero or -1 "if the dnsiz
\* is too small": a name that is read is no longer than the buffer.
NameHasRoom ==
  \A cur \in HSize .. Len(packet), size \in 1 .. MaxDn + 1 :
    \A got \in {GetDn(packet, cur, size)} : ~Refused(got.dn) => Len(got.dn) <= Lesser(size, MaxDn)
=============================================================================

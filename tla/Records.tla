------------------------------ MODULE Records ------------------------------
(***************************************************************************)
(* The parsers of udns: dns_nextrr() of udns_parse.c and what the files    *)
(* udns_rr_*.c do with it.  Each goes over the answer section twice, to    *)
(* count and to fill in, and allocates between the two.                    *)
(*                                                                         *)
(* The answer section is a sequence of records that carry what the parsers *)
(* look at: bad for one that does not fit in the packet, own, typ, cls and *)
(* ttl, the size of the data, its strings by their lengths, whether these  *)
(* end where the data does (tiled), and the name in it, NoDn if there is   *)
(* none or if it does not end where the data does.                         *)
(***************************************************************************)
EXTENDS Bytes, FiniteSets

CONSTANTS
  NoDn,         \* the name NULL
  SizeOf(_),    \* dns_dntop_size(), and what dns_dntop() writes
  Dns,          \* the names
  Rrs           \* the records an answer may have

TtlMax == 1000          \* 0xffffffff

ASSUME RecordsAssumption ==
  /\ NoDn \notin Dns /\ \A n \in Dns : SizeOf(n) \in Nat
  /\ Rrs \subseteq [bad : BOOLEAN, own : Dns, typ : STRING, cls : STRING, ttl : 0 .. TtlMax, size : Nat,
                   strs : Seq(Nat), tiled : BOOLEAN, name : Dns \cup {NoDn}]

VARIABLE answer         \* the answer section

\* Where the pointer qdn may point to: the question of the packet, which is dns_payload(),
\* a name of the caller's, or dnsp_dnbuf, the name an alias led to.
Callers == {"payload", "own"}
Places == Callers \cup {"dnbuf"}

InitParse(qdn, at, qtyp, qcls, ans) ==
  [qdn |-> qdn, at |-> at, qtyp |-> qtyp, qcls |-> qcls, cur |-> 0, rrl |-> Len(ans), ttl |-> TtlMax, nrr |-> 0]

\* Mutant of Rewind: the name a CNAME led to is kept.
RewindKeepsName(p, qdn, at, ans) == [p EXCEPT !.cur = 0, !.rrl = Len(ans), !.ttl = TtlMax, !.nrr = 0]

Rewind(p, qdn, at, ans) ==
  [p EXCEPT !.qdn = qdn, !.at = at, !.cur = 0, !.rrl = Len(ans), !.ttl = TtlMax, !.nrr = 0]

Asked(p, rr) == p.qcls \in {"ANY", rr.cls} /\ p.qtyp \in {"ANY", rr.typ}

\* dns_nextrr(), a turn of its loop: r is 1 if it returns with the record, -1 if it fails
\* and 0 if it goes on.
NextRr(p, rr) ==
  LET q == [p EXCEPT !.cur = @ + 1, !.rrl = @ - 1]
      ttl == Lesser(p.ttl, rr.ttl) IN
    IF rr.bad THEN [r |-> -1, p |-> q]
    ELSE IF p.qdn \notin {NoDn, rr.own} THEN [r |-> 0, p |-> q]
    ELSE IF Asked(p, rr) THEN [r |-> 1, p |-> [q EXCEPT !.nrr = @ + 1, !.ttl = ttl]]
    ELSE IF p.qdn # NoDn /\ rr.typ = "CNAME" /\ p.nrr = 0
    THEN IF rr.name = NoDn THEN [r |-> -1, p |-> q]
         ELSE [r |-> 0, p |-> [q EXCEPT !.qdn = rr.name, !.at = "dnbuf", !.ttl = ttl]]
    ELSE [r |-> 0, p |-> q]

\* A turn of the loops of dns_nextrr() and of the pass that calls it.
NextTurn(t, ans) ==
  LET rr == ans[t.p.cur + 1]
      next == NextRr(t.p, rr) IN
    IF t.r < 0 \/ t.p.rrl = 0 THEN t
    ELSE [rrs |-> IF next.r = 1 THEN Append(t.rrs, rr) ELSE t.rrs,
          r |-> IF next.r = -1 THEN -1 ELSE 0, p |-> next.p]

\* The records one pass comes to, and whether it fails.
OnePass(p, ans) ==
  LET turns[n \in 0 .. Len(ans)] ==
        IF n = 0 THEN [rrs |-> << >>, r |-> 0, p |-> p] ELSE NextTurn(turns[n - 1], ans)
  IN  turns[Len(ans)]

Total(sizes) ==
  LET sum[n \in 0 .. Len(sizes)] == IF n = 0 THEN 0 ELSE sum[n - 1] + sizes[n] IN sum[Len(sizes)]

\* The two names at the end of every result: the one the aliases led to and the question
\* of the packet, which is not counted a second time if the pointers are the same.
StdrrSize(p, question) == SizeOf(p.qdn) + (IF p.at = "payload" THEN 0 ELSE SizeOf(question))

\* They are written, the second one behind the first or as the same text.
StdrrFinish(p, question) ==
  LET finish(qname, written) == [cname |-> p.qdn, qname |-> qname, ttl |-> p.ttl, written |-> written] IN
    IF p.at = "payload" THEN finish(p.qdn, SizeOf(p.qdn))
    ELSE finish(question, SizeOf(p.qdn) + SizeOf(question))

\* The result of two passes: valid says whether the data of a record can be read, count
\* is what the first pass allows for it and fill what the second one writes.  The packet
\* answers the question qdn.
Result(qdn, first, second, valid(_), count(_), fill(_)) ==
  LET finish == StdrrFinish(second.p, qdn) IN
    IF first.r < 0 \/ \E i \in DOMAIN first.rrs : ~valid(first.rrs[i]) THEN [status |-> "PROTOCOL"]
    ELSE IF first.p.nrr = 0 THEN [status |-> "NODATA"]
    ELSE [status |-> "OK", nrr |-> first.p.nrr, rrs |-> second.rrs,
          cname |-> finish.cname, qname |-> finish.qname, ttl |-> finish.ttl,
          room |-> Total([i \in 1 .. first.p.nrr |-> count(first.rrs[i])]) + StdrrSize(first.p, qdn),
          used |-> Total([i \in DOMAIN second.rrs |-> fill(second.rrs[i])]) + finish.written]

\* What the parsers share.
Parsed(qdn, at, qtyp, qcls, ans, valid(_), count(_), fill(_)) ==
  LET first == OnePass(InitParse(qdn, at, qtyp, qcls, ans), ans) IN
    Result(qdn, first, OnePass(Rewind(first.p, qdn, at, ans), ans), valid, count, fill)

NameRead(rr) == rr.name # NoDn
NameSize(rr) == SizeOf(rr.name)

\* dns_getstr(): a string and a zero in place of its length.
StrSize(l) == l + 1
StringsSize(rr) == Total([i \in 1 .. 3 |-> StrSize(rr.strs[i])])

ParseA(qdn, at, qtyp, ans, dsize) ==
  LET Right(rr) == rr.size = dsize
      Copied(rr) == dsize IN
    Parsed(qdn, at, qtyp, "IN", ans, Right, Copied, Copied)
ParsePtr(qdn, at, ans) == Parsed(qdn, at, "PTR", "IN", ans, NameRead, NameSize, NameSize)
ParseMx(qdn, at, ans) == Parsed(qdn, at, "MX", "IN", ans, NameRead, NameSize, NameSize)
ParseSrv(qdn, at, ans) == Parsed(qdn, at, "SRV", "IN", ans, NameRead, NameSize, NameSize)
ParseNaptr(qdn, at, ans) ==
  LET Right(rr) == Len(rr.strs) = 3 /\ NameRead(rr)
      Size(rr) == StringsSize(rr) + NameSize(rr) IN
    Parsed(qdn, at, "NAPTR", "IN", ans, Right, Size, Size)

\* The strings are put together; each record gets a zero.
TxtCount(rr) == Total(rr.strs) + 1
TxtFill(rr) == Total(rr.strs) + 1
ParseTxt(qdn, at, qcls, ans) ==
  LET Right(rr) == rr.tiled IN Parsed(qdn, at, "TXT", qcls, ans, Right, TxtCount, TxtFill)

Parse(typ, qdn, at, ans) ==
  CASE typ = "A" -> ParseA(qdn, at, "A", ans, 4)
    [] typ = "AAAA" -> ParseA(qdn, at, "AAAA", ans, 16)
    [] typ = "PTR" -> ParsePtr(qdn, at, ans)
    [] typ = "MX" -> ParseMx(qdn, at, ans)
    [] typ = "SRV" -> ParseSrv(qdn, at, ans)
    [] typ = "NAPTR" -> ParseNaptr(qdn, at, ans)
    [] typ = "TXT" -> ParseTxt(qdn, at, "IN", ans)

Types == {"A", "AAAA", "PTR", "MX", "SRV", "NAPTR", "TXT"}

-----------------------------------------------------------------------------
(* The answers the parsers are given.                                      *)

RecordsInit == answer = << >>
RecordsNext == \E rr \in Rrs : answer' = Append(answer, rr)
RecordsSpec == RecordsInit /\ [][RecordsNext]_answer

-----------------------------------------------------------------------------
Answers(rr, name, typ) == rr.own = name /\ rr.typ = typ /\ rr.cls = "IN"
Alias(rr, name) == rr.own = name /\ rr.typ = "CNAME"

\* The CNAMEs at the positions in chain lead, one after the other, from a name to another,
\* and none of these names has an answer or another alias that is passed over.
Aliases(chain, from, to, typ, ans) ==
  /\ chain = {} => to = from
  /\ \A i \in chain :
       /\ (\A j \in chain : i <= j) => ans[i].own = from
       /\ (\A j \in chain : j <= i) => ans[i].name = to
       /\ \A j \in chain : i < j /\ (\A k \in chain : k <= i \/ j <= k) => ans[i].name = ans[j].own
       /\ Alias(ans[i], ans[i].own)
       /\ \A k \in 1 .. i - 1 :
            Alias(ans[k], ans[i].own) \/ Answers(ans[k], ans[i].own, typ) => \E j \in chain : k <= j /\ j < i

\* rrs are the records of ans in the positions here, in their order.
InOrder(rrs, here, ans) ==
  /\ Len(rrs) = Cardinality(here)
  /\ \A i \in here : rrs[Cardinality({j \in here : j <= i})] = ans[i]

\* rrs are all the records that answer for name, to which the aliases at chain lead, of
\* which those behind the first answer are none, and ttl is the least of all their TTLs.
Found(rrs, name, ttl, chain, typ, qdn, ans) ==
  LET last == CHOOSE i \in {0} \cup chain : \A j \in chain : j <= i
      here == {i \in last + 1 .. Len(ans) : Answers(ans[i], name, typ)}
      ttls == {ans[i].ttl : i \in chain \cup here} IN
    /\ Aliases(chain, qdn, name, typ, ans)
    /\ \A k \in last + 1 .. Len(ans) : Alias(ans[k], name) => \E i \in here : i < k
    /\ InOrder(rrs, here, ans)
    /\ here # {} => ttl \in ttls /\ \A t \in ttls : ttl <= t

\* A result holds every record of the type that the answer has, behind the aliases, with
\* the name these lead to, the name asked for and the least TTL of them all, and what is
\* written into it is as long as what was allocated, whichever pointer the question was
\* given by; if there is none, the answer has none.
FilledAsCounted(typ, qdn, ans) ==
  \A got \in {Parse(typ, qdn, at, ans) : at \in Callers} :
    /\ got.status = "OK" =>
         /\ got.used = got.room /\ got.nrr = Len(got.rrs) /\ got.nrr > 0 /\ got.qname = qdn
         /\ \E chain \in SUBSET DOMAIN ans : Found(got.rrs, got.cname, got.ttl, chain, typ, qdn, ans)
    /\ got.status = "NODATA" =>
         \E chain \in SUBSET DOMAIN ans, name \in Dns : Found(<< >>, name, TtlMax, chain, typ, qdn, ans)

\* udns_rr_*.c: the second pass over an answer fills in what the first one counted.
RecordsFit == \A typ \in Types, qdn \in Dns : FilledAsCounted(typ, qdn, answer)
=============================================================================

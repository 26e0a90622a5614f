---------------------------- MODULE MCLibraries ----------------------------
(***************************************************************************)
(* The libraries that work on what they are given, on small instances, one *)
(* of them in each behaviour: the containers (uthash.h, utlist.h, the      *)
(* queue of udns_resolver.c) under any sequence of operations, and the     *)
(* functions on text and packets on every input up to a length, which      *)
(* grows by one character in a step.                                       *)
(*                                                                         *)
(* Hash table elements up to Few come and go in every way; more of them    *)
(* are only added to the first table, in turn, and taken from its end, so  *)
(* that its buckets double more than once.                                 *)
(***************************************************************************)
EXTENDS Hash, List, DomainName, PacketName, Records, Text, Url, Inet

CONSTANTS N, Few,
  Subjects      \* what is looked at

MCElts == 1 .. N
MCRank(e) == e \div 2
MCPicks == SUBSET (1 .. Few)

\* All keys collide for ever; none does; some do at first, and some for ever.
MCHashes ==
  {[e \in MCElts |-> 5], [e \in MCElts |-> e],
   [e \in MCElts |-> IF e <= 2 THEN 0 ELSE 2 * (e - 2)]}

MCNodes == 1 .. 4
MCDeletions == {{}, {1}, {2, 3}, MCNodes}

OnlyFew == In("users") \subseteq 1 .. Few

HashUser ==
  \/ \E t \in Tables, e \in 1 .. Few : OnlyFew /\ (HashAdd(t, e) \/ HashDelete(t, e))
  \/ \E e \in Few + 1 .. N :
       \/ Order(table["users"]) = [i \in 1 .. e - 1 |-> i] /\ HashAdd("users", e)
       \/ e + 1 \notin In("users") /\ HashDelete("users", e)
  \/ \E t \in Tables : OnlyFew /\ (HashSort(t) \/ \E gone \in Picks : HashIter(t, gone))
  \/ \E t \in Tables : HashClear(t)
  \/ \E cond \in Picks : OnlyFew /\ HashSelect(cond)

-----------------------------------------------------------------------------
\* Names by their numbers, and what their texts need.
MCNoDn == 0
MCDns == {1, 2, 3}
MCSizeOf(n) == 2 * n + 1

Rr(own, typ, ttl, name) ==
  [bad |-> FALSE, own |-> own, typ |-> typ, cls |-> "IN", ttl |-> ttl, size |-> 4,
   strs |-> <<0, 2, 1>>, tiled |-> TRUE, name |-> name]

MCAnswers ==
  {Rr(1, "CNAME", 5, 2), Rr(2, "CNAME", 7, 3), Rr(3, "CNAME", 4, 1), Rr(1, "A", 6, 0), Rr(2, "A", 3, 0),
   [Rr(2, "AAAA", 9, 0) EXCEPT !.size = 16], Rr(2, "PTR", 8, 3), Rr(3, "MX", 2, 2), Rr(3, "SRV", 2, 1),
   Rr(2, "NAPTR", 2, 3), Rr(2, "TXT", 2, 0), [Rr(2, "TXT", 1, 0) EXCEPT !.cls = "CH"],
   [Rr(1, "A", 6, 0) EXCEPT !.bad = TRUE]}

\* What the inputs are made of, and how long they get.
Alphabet == [name |-> {97, Dot, Backslash, 50, 53, 200}]
MaxLength == [name |-> 5, packet |-> 6, answer |-> 4, text |-> 5, url |-> 5]

MCAddressWords == {0, 1, 65535}
MCPktBytes == {0, 2, 5, 192}
MCChars == {97, Space, NewLine, 59, 37, 110}
MCUrlChars == {97, Colon, Slash, At, Open, Close, Question, Hash_}
MCSizes == 1 .. 7
MCArgs ==
  <<[var |-> << >>, exp |-> <<97>>], [var |-> <<37, 110>>, exp |-> <<98, 99, 37>>], [var |-> <<37>>, exp |-> << >>],
    [var |-> <<110>>, exp |-> <<110, 110>>]>>

VARIABLES
  subject,   \* what this behaviour is about
  text       \* the input so far
others == <<str, urlstr, answer, packet, address>>
mcVars == <<subject, text, hashVars, listVars, others>>

MCInit ==
  /\ subject \in Subjects /\ text = << >>
  /\ HashInit /\ ListInit /\ TextInit /\ UrlInit /\ RecordsInit /\ PacketInit /\ InetInit
  /\ subject # "list" => kind = "LL"
  /\ subject # "hash" => bloom = 0 /\ hashv = [e \in MCElts |-> e]

Grow ==
  /\ subject \in DOMAIN Alphabet /\ Len(text) < MaxLength[subject]
  /\ \E c \in Alphabet[subject] : text' = Append(text, c)
  /\ UNCHANGED <<subject, hashVars, listVars, others>>

MCNext ==
  \/ subject = "hash" /\ HashUser /\ UNCHANGED <<subject, text, listVars, others>>
  \/ subject = "list" /\ ListNext /\ UNCHANGED <<subject, text, hashVars, others>>
  \/ subject = "text" /\ Len(str) < MaxLength["text"] /\ TextNext
     /\ UNCHANGED <<subject, text, urlstr, answer, packet, address, hashVars, listVars>>
  \/ subject = "url" /\ Len(urlstr) < MaxLength["url"] /\ UrlNext
     /\ UNCHANGED <<subject, text, str, answer, packet, address, hashVars, listVars>>
  \/ subject = "answer" /\ Len(answer) < MaxLength["answer"] /\ RecordsNext
     /\ UNCHANGED <<subject, text, str, urlstr, packet, address, hashVars, listVars>>
  \/ subject = "packet" /\ Len(packet) < HSize + MaxLength["packet"] /\ PacketNext
     /\ UNCHANGED <<subject, text, str, urlstr, answer, address, hashVars, listVars>>
  \/ subject = "address" /\ InetNext
     /\ UNCHANGED <<subject, text, str, urlstr, answer, packet, hashVars, listVars>>
  \/ Grow

MCSpec == MCInit /\ [][MCNext]_mcVars

-----------------------------------------------------------------------------
Front_(k) == SubSeq(text, 1, k)
Rest_(k) == SubSeq(text, k + 1, Len(text))

\* udns_dn.c: a name has one text and a text one name, in every buffer that holds it,
\* and the sizes functions ask for are those others need.
NamesRight ==
  subject = "name" =>
    /\ MeansOneName(text) /\ MeansOneName(text \o text)
    /\ \A addr \in {<<7>>, <<25>>, <<255>>, <<1, 30>>}, size \in 1 .. MaxDn : InAnyBuffer(text, addr, size)
    /\ \A k \in 0 .. Len(text) :
         LET labels == IF k = Len(text) THEN <<text>> ELSE <<Front_(k), Rest_(k)>> IN
           /\ (\A i \in DOMAIN labels : Len(labels[i]) \in 1 .. MaxLabel) /\ Len(Joined(labels)) <= MaxDn
                => PrintedAndRead(Joined(labels))
           /\ \A addr \in {<<7>>, <<255>>} : Composed(Front_(k), Rest_(k), addr)

\* inet_XtoX.c, line 320: what ntop() writes is what the inet_ntop() of the system
\* does, so that pton() gives back the address.
AddressBackAgain == Len(address) = Words => BackAgain(address)
=============================================================================

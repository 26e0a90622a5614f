----------------------------- MODULE TextProofs -----------------------------
(***************************************************************************)
(* The functions of url_parser.c, misc.c, udns_rr_*.c and udns_parse.c on  *)
(* strings, answers and packets of every length: the parts a URL is taken  *)
(* apart into make it up again, a pattern, a text that is split and the    *)
(* lines that are read lose nothing but what there is no room for, a       *)
(* result has what the answer of a name server has, and a compressed name  *)
(* is read if it can be, as what it is.  The lemmas on loops and sequences *)
(* are those of ListProofs.                                                *)
(***************************************************************************)
EXTENDS Url, Text, Records, PacketName, ListProofs

-----------------------------------------------------------------------------
(* Parts of strings                                                         *)

\* A set of numbers up to N has a greatest member.
LEMMA MaxExists ==
  ASSUME NEW N \in Nat, NEW T \in SUBSET (0 .. N), T # {}
  PROVE  \E x \in T : \A y \in T : y <= x
<1> DEFINE U == {N - x : x \in T}
<1>1. U \in SUBSET Nat /\ U # {}
  <2>1. \A x \in T : N - x \in Nat
    OBVIOUS
  <2> QED
    BY <2>1
<1>2. PICK u \in U : \A v \in U : u <= v
  <2> HIDE DEF U
  <2> QED
    BY <1>1, MinExists
<1>3. PICK x \in T : u = N - x
  OBVIOUS
<1>4. ASSUME NEW y \in T PROVE y <= x
  <2>1. N - y \in U
    OBVIOUS
  <2>2. N - x <= N - y
    BY <1>2, <1>3, <2>1
  <2> QED
    BY <2>2
<1> QED
  BY <1>4

\* s is t and what is behind it.
Begins(s, t) == Len(t) <= Len(s) /\ \A i \in 1 .. Len(t) : t[i] = s[i]

LEMMA AfterIs ==
  ASSUME NEW E, NEW s \in Seq(E), NEW t \in Seq(E), Begins(s, t)
  PROVE  /\ After(s, t) \in Seq(E) /\ Len(After(s, t)) = Len(s) - Len(t)
         /\ \A i \in 1 .. Len(s) - Len(t) : After(s, t)[i] = s[Len(t) + i]
         /\ s = t \o After(s, t)
<1> DEFINE n == Len(t)
           u == After(s, t)
           v == t \o u
<1>1. n \in Nat /\ Len(s) \in Nat /\ n <= Len(s)
  BY LenProperties DEF Begins
<1>2. \A i \in n + 1 .. Len(s) : s[i] \in E
  BY <1>1, ElementOfSeq
<1>3. n + 1 \in Int /\ Len(s) \in Int
  BY <1>1
<1>4. /\ u \in Seq(E) /\ Len(u) = (IF n + 1 <= Len(s) THEN Len(s) - (n + 1) + 1 ELSE 0)
      /\ \A i \in 1 .. Len(s) - (n + 1) + 1 : u[i] = s[n + 1 + i - 1]
  BY <1>2, <1>3, SubSeqProperties DEF After
<1> HIDE DEF u
<1>5. Len(u) = Len(s) - n /\ \A i \in 1 .. Len(s) - n : u[i] = s[n + i]
  BY <1>1, <1>4
<1>6. /\ v \in Seq(E) /\ Len(v) = n + Len(u)
      /\ \A i \in 1 .. n + Len(u) : v[i] = IF i <= n THEN t[i] ELSE u[i - n]
  BY <1>4, ConcatProperties
<1> HIDE DEF v
<1>7. ASSUME NEW i \in 1 .. Len(s) PROVE v[i] = s[i]
  <2>1. CASE i <= n
    BY <1>1, <1>5, <1>6, <2>1 DEF Begins
  <2>2. CASE i > n
    <3>1. i - n \in 1 .. Len(s) - n /\ n + (i - n) = i
      BY <1>1, <2>2
    <3> QED
      BY <1>1, <1>5, <1>6, <2>2, <3>1
  <2> QED
    BY <1>1, <2>1, <2>2
<1>8. s = v
  BY <1>1, <1>5, <1>6, <1>7, SeqEqual
<1> QED
  BY <1>4, <1>5, <1>8 DEF u, v

\* Two strings, one behind the other, as a name that needs not be expanded.
Cat(a, b) == a \o b

LEMMA CatIs ==
  ASSUME NEW E, NEW a \in Seq(E), NEW b \in Seq(E), NEW c \in Seq(E)
  PROVE  Cat(a, b) \in Seq(E) /\ Cat(Cat(a, b), c) = Cat(a, Cat(b, c))
BY ConcatAssociative, ConcatProperties DEF Cat

\* No string is the part that is not there.
LEMMA NotAbsent == ASSUME NEW s \in Seq(Nat) PROVE s # Absent
<1>1. \A i \in 1 .. Len(s) : s[i] \in Nat
  BY ElementOfSeq
<1>2. Len(Absent) = 1 /\ Absent[1] = -1
  BY DEF Absent
<1>3. SUFFICES ASSUME s = Absent PROVE FALSE
  OBVIOUS
<1>4. 1 \in 1 .. Len(s)
  BY <1>2, <1>3
<1>5. s[1] \in Nat /\ s[1] = -1
  BY <1>1, <1>2, <1>3, <1>4
<1> QED
  BY <1>5

\* A string is its first character and the others.
LEMMA FirstAndRest ==
  ASSUME NEW E, NEW s \in Seq(E), s # << >>
  PROVE  <<s[1]>> \in Seq(E) /\ s = <<s[1]>> \o Tail(s)
<1> DEFINE u == <<s[1]>>
           t == Tail(s)
           v == u \o t
<1>1. Len(s) \in Nat \ {0} /\ s[1] \in E
  BY EmptySeq, ElementOfSeq
<1>2. u \in Seq(E) /\ Len(u) = 1 /\ u[1] = s[1]
  BY <1>1
<1>3. t \in Seq(E) /\ Len(t) = Len(s) - 1 /\ \A i \in 1 .. Len(s) - 1 : t[i] = s[i + 1]
  BY HeadTailProperties
<1> HIDE DEF u, t
<1>4. /\ v \in Seq(E) /\ Len(v) = Len(u) + Len(t)
      /\ \A i \in 1 .. Len(u) + Len(t) : v[i] = IF i <= Len(u) THEN u[i] ELSE t[i - Len(u)]
  <2>1. u \in Seq(E) /\ t \in Seq(E)
    BY <1>2, <1>3
  <2> QED
    BY <2>1, ConcatProperties
<1> HIDE DEF v
<1>5. ASSUME NEW i \in 1 .. Len(s) PROVE v[i] = s[i]
  <2>1. CASE i = 1
    BY <1>1, <1>2, <1>3, <1>4, <2>1
  <2>2. CASE i # 1
    <3>1. i - 1 \in 1 .. Len(s) - 1 /\ (i - 1) + 1 = i /\ ~(i <= 1)
      BY <1>1, <2>2
    <3> QED
      BY <1>1, <1>2, <1>3, <1>4, <3>1
  <2> QED
    BY <2>1, <2>2
<1>6. s = v
  BY <1>1, <1>2, <1>3, <1>4, <1>5, SeqEqual
<1> QED
  BY <1>2, <1>6 DEF u, t, v

\* The longest start of a string that none of stops is in.
LEMMA UntilIs ==
  ASSUME NEW E, NEW s \in Seq(E), NEW stops
  PROVE  LET u == Until(s, stops) IN
         /\ u \in Seq(E) /\ Begins(s, u) /\ \A i \in 1 .. Len(u) : u[i] \notin stops
         /\ Len(u) < Len(s) => s[Len(u) + 1] \in stops
<1> DEFINE clear == {n \in 0 .. Len(s) : \A i \in 1 .. n : s[i] \notin stops}
           k == CHOOSE n \in clear : \A m \in clear : m <= n
           u == Until(s, stops)
<1>1. Len(s) \in Nat
  BY LenProperties
<1>2. clear \in SUBSET (0 .. Len(s)) /\ clear # {}
  <2>1. 0 \in clear
    BY <1>1
  <2> QED
    BY <2>1
<1>3. k \in clear /\ \A m \in clear : m <= k
  <2> HIDE DEF clear
  <2>1. \E n \in clear : \A m \in clear : m <= n
    BY <1>1, <1>2, MaxExists
  <2> QED
    BY <2>1
<1>4. u = SubSeq(s, 1, k)
  BY DEF Until
<1>5. k \in 0 .. Len(s) /\ \A i \in 1 .. k : s[i] \notin stops
  BY <1>3
<1>6. k < Len(s) => s[k + 1] \in stops
  <2> SUFFICES ASSUME k < Len(s), s[k + 1] \notin stops PROVE FALSE
    OBVIOUS
  <2> HIDE DEF k
  <2>1. k + 1 \in 0 .. Len(s) /\ \A i \in 1 .. k + 1 : s[i] \notin stops
    BY <1>1, <1>5
  <2>2. k + 1 \in clear
    BY <2>1
  <2> QED
    BY <1>3, <1>5, <2>2
<1> HIDE DEF u, k
<1>7. u \in Seq(E) /\ Len(u) = k /\ \A i \in 1 .. k : u[i] = s[i]
  BY <1>4, <1>5, PrefixOf
<1> QED
  BY <1>5, <1>6, <1>7 DEF Begins, u

\* It is all of a string that none of them is in.
LEMMA UntilAll ==
  ASSUME NEW E, NEW s \in Seq(E), NEW stops, \A i \in 1 .. Len(s) : s[i] \notin stops
  PROVE  Until(s, stops) = s
<1> DEFINE u == Until(s, stops)
<1>1. u \in Seq(E) /\ Begins(s, u) /\ (Len(u) < Len(s) => s[Len(u) + 1] \in stops)
  BY UntilIs
<1> HIDE DEF u
<1>2. Len(u) \in Nat /\ Len(s) \in Nat /\ Len(u) <= Len(s)
  BY <1>1, LenProperties DEF Begins
<1>3. Len(u) < Len(s) => Len(u) + 1 \in 1 .. Len(s)
  BY <1>2
<1>4. Len(u) = Len(s)
  BY <1>1, <1>2, <1>3
<1>5. u = s
  BY <1>1, <1>4, SeqEqual DEF Begins
<1> QED
  BY <1>5 DEF u

-----------------------------------------------------------------------------
(* URLs                                                                     *)

LEMMA PartIs ==
  ASSUME NEW s \in Seq(Nat), NEW d \in Nat, NEW stops
  PROVE  LET p == Part(s, d, stops)
             r == Behind(s, p) IN
         /\ Lead(d, p) \in Seq(Nat) /\ r \in Seq(Nat) /\ s = Lead(d, p) \o r
         /\ Free(p, stops)
         /\ IF Starts(s, d) THEN /\ p # Absent /\ p \in Seq(Nat) /\ Lead(d, p) = <<d>> \o p
                                 /\ \A i \in 1 .. Len(p) : p[i] \notin stops
                                 /\ r # << >> => r[1] \in stops
                            ELSE p = Absent /\ r = s /\ Lead(d, p) = << >>
<1> DEFINE p == Part(s, d, stops)
           r == Behind(s, p)
<1>1. CASE ~Starts(s, d)
  <2>1. p = Absent
    BY <1>1 DEF Part
  <2> HIDE DEF p
  <2>2. r = s /\ Lead(d, p) = << >>
    BY <2>1 DEF Behind, Lead
  <2>3. << >> \in Seq(Nat) /\ << >> \o s = s
    BY EmptySeq, ConcatEmptySeq
  <2> QED
    BY <1>1, <2>1, <2>2, <2>3 DEF p, Free
<1>2. CASE Starts(s, d)
  <2> DEFINE t == Tail(s)
  <2>1. s # << >> /\ s[1] = d
    BY <1>2 DEF Starts
  <2>2. /\ t \in Seq(Nat) /\ Len(t) = Len(s) - 1 /\ Len(s) \in Nat \ {0}
        /\ \A i \in 1 .. Len(t) : t[i] = s[i + 1]
    BY <2>1, HeadTailProperties, EmptySeq
  <2>3. p = Until(t, stops)
    BY <1>2 DEF Part
  <2> HIDE DEF t, p
  <2>4. /\ p \in Seq(Nat) /\ Begins(t, p) /\ (\A i \in 1 .. Len(p) : p[i] \notin stops)
        /\ Len(p) < Len(t) => t[Len(p) + 1] \in stops
    BY <2>2, <2>3, UntilIs
  <2>5. p # Absent
    BY <2>4, NotAbsent
  <2>6. r = After(t, p)
    BY <2>5 DEF Behind, t
  <2> HIDE DEF r
  <2>7. /\ r \in Seq(Nat) /\ Len(r) = Len(t) - Len(p) /\ t = p \o r
        /\ \A i \in 1 .. Len(t) - Len(p) : r[i] = t[Len(p) + i]
    <3>1. /\ After(t, p) \in Seq(Nat) /\ Len(After(t, p)) = Len(t) - Len(p) /\ t = p \o After(t, p)
          /\ \A i \in 1 .. Len(t) - Len(p) : After(t, p)[i] = t[Len(p) + i]
      <4>1. t \in Seq(Nat) /\ p \in Seq(Nat) /\ Begins(t, p)
        BY <2>2, <2>4
      <4> QED
        BY <4>1, AfterIs
    <3> QED
      BY <2>6, <3>1, Zenon
  <2>8. r # << >> => r[1] \in stops
    <3> SUFFICES ASSUME r # << >> PROVE r[1] \in stops
      OBVIOUS
    <3>1. Len(r) \in Nat \ {0} /\ Len(t) \in Nat /\ Len(p) \in Nat
      BY <2>2, <2>4, <2>7, EmptySeq, LenProperties
    <3>2. Len(p) < Len(t) /\ 1 \in 1 .. Len(t) - Len(p)
      BY <2>7, <3>1
    <3> QED
      BY <2>4, <2>7, <3>2
  <2>9. Lead(d, p) = <<d>> \o p
    BY <2>5 DEF Lead
  <2>10. <<d>> \in Seq(Nat) /\ <<d>> \o p \in Seq(Nat)
    <3>1. <<d>> \in Seq(Nat)
      OBVIOUS
    <3> QED
      BY <2>4, <3>1, ConcatProperties
  <2>11. s = <<d>> \o t
    BY <2>1, <2>2, FirstAndRest DEF t
  <2>12. <<d>> \o (p \o r) = (<<d>> \o p) \o r
    <3> DEFINE one == <<d>>
    <3>1. one \in Seq(Nat)
      BY <2>10
    <3> HIDE DEF one
    <3>2. (one \o p) \o r = one \o (p \o r)
      <4>1. p \in Seq(Nat) /\ r \in Seq(Nat)
        BY <2>4, <2>7
      <4> QED
        BY <3>1, <4>1, ConcatAssociative, SMTT(30)
    <3> QED
      BY <3>2 DEF one
  <2>13. Free(p, stops)
    BY <2>4, UntilAll DEF Free
  <2> QED
    BY <1>2, <2>4, <2>5, <2>7, <2>8, <2>9, <2>10, <2>11, <2>12, <2>13 DEF p, r
<1> QED
  BY <1>1, <1>2

\* The host is what a string starts with, a bracket or free of delimiters.
LEMMA HostIs ==
  ASSUME NEW s \in Seq(Nat)
  PROVE  LET h == HostOf(s) IN
         h \in Seq(Nat) /\ Begins(s, h) /\ (Starts(h, Open) \/ Free(h, {Colon, Slash}))
<1>0. Len(s) \in Nat
  BY LenProperties
<1>1. CASE ~Starts(s, Open)
  <2> DEFINE h == Until(s, {Colon, Slash})
  <2>1. h \in Seq(Nat) /\ Begins(s, h) /\ \A i \in 1 .. Len(h) : h[i] \notin {Colon, Slash}
    BY UntilIs
  <2> HIDE DEF h
  <2>2. Free(h, {Colon, Slash})
    BY <2>1, UntilAll DEF Free
  <2>3. HostOf(s) = h
    BY <1>1 DEF HostOf, h
  <2> QED
    BY <2>1, <2>2, <2>3
<1>2. CASE Starts(s, Open)
  <2> DEFINE u == Until(s, {Close})
             h == Append(u, Close)
  <2>1. /\ u \in Seq(Nat) /\ Begins(s, u)
        /\ Len(u) < Len(s) => s[Len(u) + 1] = Close
    <3>1. /\ u \in Seq(Nat) /\ Begins(s, u)
          /\ Len(u) < Len(s) => s[Len(u) + 1] \in {Close}
      BY UntilIs
    <3> QED
      BY <3>1
  <2>2. HostOf(s) = IF u = s THEN s ELSE h
    BY <1>2 DEF HostOf
  <2> HIDE DEF u
  <2>3. CASE u = s
    <3>1. Begins(s, s)
      BY <1>0 DEF Begins
    <3> QED
      BY <1>2, <2>2, <2>3, <3>1
  <2>4. CASE u # s
    <3>1. Len(u) \in Nat /\ Len(u) <= Len(s)
      BY <2>1, LenProperties DEF Begins
    <3>2. Len(u) < Len(s)
      <4>1. Len(u) = Len(s) => u = s
        BY <2>1, SeqEqual DEF Begins
      <4> QED
        BY <1>0, <2>4, <3>1, <4>1
    <3>3. s[Len(u) + 1] = Close
      BY <2>1, <3>2
    <3>4. Close \in Nat /\ Open # Close
      BY DEF Open, Close
    <3>5. /\ h \in Seq(Nat) /\ Len(h) = Len(u) + 1 /\ h[Len(u) + 1] = Close
          /\ \A i \in 1 .. Len(u) : h[i] = u[i]
      BY <2>1, <3>4, AppendProperties
    <3> HIDE DEF h
    <3>6. \A i \in 1 .. Len(h) : h[i] = s[i]
      <4> SUFFICES ASSUME NEW i \in 1 .. Len(h) PROVE h[i] = s[i]
        OBVIOUS
      <4>1. CASE i <= Len(u)
        BY <2>1, <3>1, <3>5, <4>1 DEF Begins
      <4>2. CASE i > Len(u)
        <5>1. i = Len(u) + 1
          BY <3>1, <3>5, <4>2
        <5> QED
          BY <3>3, <3>5, <5>1
      <4> QED
        BY <3>1, <4>1, <4>2
    <3>7. Begins(s, h)
      BY <1>0, <3>1, <3>2, <3>5, <3>6 DEF Begins
    <3>8. Starts(h, Open)
      <4>1. h # << >>
        BY <3>1, <3>5, EmptySeq
      <4>2. 1 \in 1 .. Len(h)
        BY <3>1, <3>5
      <4> QED
        BY <1>2, <3>6, <4>1, <4>2 DEF Starts
    <3> QED
      BY <2>2, <2>4, <3>5, <3>7, <3>8
  <2> QED
    BY <2>3, <2>4
<1> QED
  BY <1>1, <1>2

\* Host and port are what the authority starts with.
LEMMA HostOnIs ==
  ASSUME NEW s \in Seq(Nat)
  PROVE  LET n == HostOn(s) IN
         /\ n.host \in Seq(Nat) /\ Lead(Colon, n.port) \in Seq(Nat) /\ n.rest \in Seq(Nat)
         /\ s = n.host \o (Lead(Colon, n.port) \o n.rest)
         /\ (Starts(n.host, Open) \/ Free(n.host, {Colon, Slash})) /\ Free(n.port, {Slash})
<1> DEFINE host == HostOf(s)
           s1 == After(s, host)
           port == Part(s1, Colon, {Slash})
           rest == Behind(s1, port)
<1>1. HostOn(s) = [host |-> host, port |-> port, rest |-> rest]
  BY DEF HostOn
<1>2. host \in Seq(Nat) /\ Begins(s, host) /\ (Starts(host, Open) \/ Free(host, {Colon, Slash}))
  BY HostIs
<1> HIDE DEF host
<1>3. s1 \in Seq(Nat) /\ s = host \o s1
  BY <1>2, AfterIs
<1> HIDE DEF s1
<1>4. Colon \in Nat
  BY DEF Colon
<1>5. Lead(Colon, port) \in Seq(Nat) /\ rest \in Seq(Nat) /\ s1 = Lead(Colon, port) \o rest /\ Free(port, {Slash})
  BY <1>3, <1>4, PartIs
<1> HIDE DEF port, rest
<1> DEFINE n == HostOn(s)
<1>6. n.host = host /\ n.port = port /\ n.rest = rest
  BY <1>1
<1> HIDE DEF n
<1>7. s = host \o (Lead(Colon, port) \o rest)
  <2> DEFINE lead == Lead(Colon, port)
  <2>1. s1 = lead \o rest
    BY <1>5
  <2> HIDE DEF lead
  <2>2. s = host \o (lead \o rest)
    BY <1>3, <2>1
  <2> QED
    BY <2>2 DEF lead
<1>8. /\ n.host \in Seq(Nat) /\ Lead(Colon, n.port) \in Seq(Nat) /\ n.rest \in Seq(Nat)
      /\ s = n.host \o (Lead(Colon, n.port) \o n.rest)
      /\ (Starts(n.host, Open) \/ Free(n.host, {Colon, Slash})) /\ Free(n.port, {Slash})
  BY <1>2, <1>5, <1>6, <1>7, Zenon
<1> QED
  BY <1>8 DEF n

\* Path, query and fragment are all that follows.
LEMMA PathOnIs ==
  ASSUME NEW s \in Seq(Nat), s = << >> \/ s[1] = Slash
  PROVE  LET t == PathOn(s) IN
         /\ Lead(Slash, t.path) \in Seq(Nat) /\ Lead(Question, t.query) \in Seq(Nat)
         /\ Lead(Hash_, t.fragment) \in Seq(Nat)
         /\ s = Lead(Slash, t.path) \o (Lead(Question, t.query) \o Lead(Hash_, t.fragment))
         /\ Free(t.path, {Question, Hash_}) /\ Free(t.query, {Hash_})
<1> DEFINE path == Part(s, Slash, {Hash_, Question})
           s1 == Behind(s, path)
           query == Part(s1, Question, {Hash_})
           s2 == Behind(s1, query)
           fragment == IF Starts(s2, Hash_) THEN Tail(s2) ELSE Absent
<1>1. path = IF s = << >> THEN Absent ELSE Until(Tail(s), {Hash_, Question})
  BY DEF Part, Starts
<1>2. PathOn(s) = [path |-> path, query |-> query, fragment |-> fragment]
  <2> HIDE DEF path
  <2> QED
    BY <1>1 DEF PathOn
<1>3. Slash \in Nat /\ Question \in Nat /\ Hash_ \in Nat /\ Question # Hash_
  BY DEF Slash, Question, Hash_
<1>4. /\ Lead(Slash, path) \in Seq(Nat) /\ s1 \in Seq(Nat) /\ s = Lead(Slash, path) \o s1
      /\ Free(path, {Hash_, Question})
      /\ IF Starts(s, Slash) THEN s1 # << >> => s1[1] \in {Hash_, Question} ELSE s1 = s
  BY <1>3, PartIs
<1> HIDE DEF path, s1
<1>5. s1 # << >> => s1[1] \in {Hash_, Question}
  BY <1>4 DEF Starts
<1>6. /\ Lead(Question, query) \in Seq(Nat) /\ s2 \in Seq(Nat) /\ s1 = Lead(Question, query) \o s2
      /\ Free(query, {Hash_})
      /\ IF Starts(s1, Question) THEN s2 # << >> => s2[1] \in {Hash_} ELSE s2 = s1
  <2>1. s1 \in Seq(Nat) /\ Question \in Nat
    BY <1>3, <1>4
  <2>2. LET p == Part(s1, Question, {Hash_})
            r == Behind(s1, p) IN
        /\ Lead(Question, p) \in Seq(Nat) /\ r \in Seq(Nat) /\ s1 = Lead(Question, p) \o r
        /\ Free(p, {Hash_})
        /\ Starts(s1, Question) => (r # << >> => r[1] \in {Hash_})
        /\ ~Starts(s1, Question) => r = s1
    BY <2>1, PartIs
  <2> QED
    BY <2>2
<1> HIDE DEF query, s2
<1>7. s2 # << >> => s2[1] = Hash_
  BY <1>5, <1>6 DEF Starts
<1>8. Lead(Hash_, fragment) = s2
  <2>1. CASE s2 = << >>
    BY <2>1 DEF Starts, Lead
  <2>2. CASE s2 # << >>
    <3> DEFINE t == Tail(s2)
    <3>1. t \in Seq(Nat) /\ s2 = <<Hash_>> \o t
      BY <1>6, <1>7, <2>2, FirstAndRest, HeadTailProperties
    <3>2. fragment = t
      BY <1>7, <2>2 DEF Starts
    <3> HIDE DEF t, fragment
    <3>3. t # Absent
      BY <3>1, NotAbsent
    <3> QED
      BY <3>1, <3>2, <3>3 DEF Lead
  <2> QED
    BY <2>1, <2>2
<1> HIDE DEF fragment
<1>9. Free(path, {Question, Hash_})
  <2>1. {Hash_, Question} = {Question, Hash_}
    OBVIOUS
  <2> QED
    BY <1>4, <2>1
<1>10. /\ Lead(Hash_, fragment) \in Seq(Nat)
       /\ s = Lead(Slash, path) \o (Lead(Question, query) \o Lead(Hash_, fragment))
  BY <1>4, <1>6, <1>8
<1> DEFINE t == PathOn(s)
<1>11. t.path = path /\ t.query = query /\ t.fragment = fragment
  BY <1>2
<1> HIDE DEF t
<1>12. /\ Lead(Slash, t.path) \in Seq(Nat) /\ Lead(Question, t.query) \in Seq(Nat)
       /\ Lead(Hash_, t.fragment) \in Seq(Nat)
       /\ s = Lead(Slash, t.path) \o (Lead(Question, t.query) \o Lead(Hash_, t.fragment))
       /\ Free(t.path, {Question, Hash_}) /\ Free(t.query, {Hash_})
  BY <1>4, <1>6, <1>9, <1>10, <1>11, Zenon
<1> QED
  BY <1>12 DEF t

\* User name, password and "@" are what the authority starts with.
LEMMA UserOnIs ==
  ASSUME NEW s \in Seq(Nat), UserOn(s).ended
  PROVE  LET u == UserOn(s)
             before == IF u.username = Absent THEN << >> ELSE u.username \o Lead(Colon, u.password) \o <<At>> IN
         /\ before \in Seq(Nat) /\ u.rest \in Seq(Nat) /\ s = before \o u.rest
         /\ Free(u.username, {Colon, At, Slash}) /\ Free(u.password, {At, Slash})
<1> DEFINE username == Until(s, {Colon, At})
           s1 == After(s, username)
           password == Part(s1, Colon, {At})
           s2 == Behind(s1, password)
           s3 == After(s2, <<At>>)
<1>1. CASE ~HasUserinfo(s)
  <2>1. UserOn(s) = [username |-> Absent, password |-> Absent, ended |-> TRUE, rest |-> s]
    BY <1>1 DEF UserOn
  <2>2. << >> \in Seq(Nat) /\ << >> \o s = s
    BY EmptySeq, ConcatEmptySeq
  <2> QED
    BY <2>1, <2>2 DEF Free
<1>2. CASE HasUserinfo(s)
  <2>1. UserOn(s) = [username |-> username, password |-> password, ended |-> Starts(s2, At), rest |-> s3]
    BY <1>2 DEF UserOn
  <2>2. /\ username \in Seq(Nat) /\ Begins(s, username)
        /\ \A i \in 1 .. Len(username) : username[i] \notin {Colon, At}
        /\ Len(username) < Len(s) => s[Len(username) + 1] \in {Colon, At}
    BY UntilIs
  <2> HIDE DEF username
  <2>3. /\ s1 \in Seq(Nat) /\ Len(s1) = Len(s) - Len(username) /\ s = username \o s1
        /\ \A i \in 1 .. Len(s) - Len(username) : s1[i] = s[Len(username) + i]
    BY <2>2, AfterIs
  <2> HIDE DEF s1
  <2>4. Colon \in Nat /\ At \in Nat /\ Slash \in Nat /\ Colon # At /\ At # Slash /\ Colon # Slash
    BY DEF Colon, At, Slash
  <2>5. LET p == Part(s1, Colon, {At})
            r == Behind(s1, p) IN
        /\ Lead(Colon, p) \in Seq(Nat) /\ r \in Seq(Nat) /\ s1 = Lead(Colon, p) \o r
        /\ Starts(s1, Colon) => /\ p \in Seq(Nat) /\ Lead(Colon, p) = <<Colon>> \o p
                                /\ \A i \in 1 .. Len(p) : p[i] \notin {At}
        /\ ~Starts(s1, Colon) => p = Absent
    <3>1. s1 \in Seq(Nat)
      BY <2>3
    <3>2. Colon \in Nat
      BY <2>4
    <3> QED
      BY <3>1, <3>2, PartIs
  <2>6. /\ Lead(Colon, password) \in Seq(Nat) /\ s2 \in Seq(Nat) /\ s1 = Lead(Colon, password) \o s2
        /\ Starts(s1, Colon) => /\ password \in Seq(Nat) /\ Lead(Colon, password) = <<Colon>> \o password
                                /\ \A i \in 1 .. Len(password) : password[i] # At
        /\ ~Starts(s1, Colon) => password = Absent
    BY <2>5
  <2> HIDE DEF password, s2
  <2>7. Starts(s2, At)
    BY <2>1
  <2>8. <<At>> \in Seq(Nat) /\ s3 \in Seq(Nat) /\ s2 = <<At>> \o s3
    <3> DEFINE one == <<At>>
    <3>1. one \in Seq(Nat) /\ Len(one) = 1 /\ one[1] = At
      BY <2>4
    <3>2. Len(s2) \in Nat \ {0} /\ s2[1] = At
      BY <2>6, <2>7, EmptySeq DEF Starts
    <3>3. Begins(s2, one)
      <4> HIDE DEF one
      <4> QED
        BY <3>1, <3>2 DEF Begins
    <3> HIDE DEF one
    <3>5. s2 \in Seq(Nat)
      BY <2>6
    <3>6. one \in Seq(Nat)
      BY <3>1
    <3>4. After(s2, one) \in Seq(Nat) /\ s2 = one \o After(s2, one)
      BY <3>3, <3>5, <3>6, AfterIs
    <3> QED
      BY <3>1, <3>4 DEF one
  <2> HIDE DEF s3
  <2>9. username # Absent
    BY <2>2, NotAbsent
  \* The "@" is the first delimiter of the two.
  <2>10. PICK k \in Nat : /\ k < Len(s) /\ s[k + 1] = At /\ \A i \in 1 .. k : s[i] \notin {At, Slash}
    <3> DEFINE v == Until(s, {At, Slash})
               w == After(s, v)
    <3>1. v \in Seq(Nat) /\ Begins(s, v) /\ \A i \in 1 .. Len(v) : v[i] \notin {At, Slash}
      BY UntilIs
    <3>2. Starts(w, At)
      BY <1>2 DEF HasUserinfo
    <3> HIDE DEF v
    <3>3. /\ w \in Seq(Nat) /\ Len(w) = Len(s) - Len(v)
          /\ \A i \in 1 .. Len(s) - Len(v) : w[i] = s[Len(v) + i]
      <4>1. v \in Seq(Nat) /\ Begins(s, v)
        BY <3>1
      <4>2. /\ w \in Seq(Nat) /\ Len(w) = Len(s) - Len(v)
            /\ \A i \in 1 .. Len(s) - Len(v) : w[i] = s[Len(v) + i]
            /\ s = v \o w
        BY <4>1, AfterIs
      <4> QED
        BY <4>2
    <3> HIDE DEF w
    <3>4. Len(w) \in Nat \ {0} /\ w[1] = At
      BY <3>2, <3>3, EmptySeq DEF Starts
    <3>5. Len(v) \in Nat /\ Len(s) \in Nat
      BY <3>1, LenProperties
    <3>6. Len(v) < Len(s) /\ 1 \in 1 .. Len(s) - Len(v)
      BY <3>3, <3>4, <3>5
    <3>7. s[Len(v) + 1] = At
      BY <3>3, <3>4, <3>6
    <3>8. \A i \in 1 .. Len(v) : s[i] \notin {At, Slash}
      BY <3>1 DEF Begins
    <3> QED
      BY <3>5, <3>6, <3>7, <3>8
  <2>11. Len(username) \in Nat /\ Len(s) \in Nat /\ Len(username) <= Len(s)
    BY <2>2, LenProperties DEF Begins
  <2>12. Len(username) <= k
    <3> SUFFICES ASSUME k < Len(username) PROVE FALSE
      BY <2>10, <2>11
    <3>1. k + 1 \in 1 .. Len(username)
      BY <2>10, <2>11
    <3>2. username[k + 1] = At
      BY <2>2, <2>10, <3>1 DEF Begins
    <3> QED
      BY <2>2, <3>1, <3>2
  <2>13. Free(username, {Colon, At, Slash})
    <3>1. \A i \in 1 .. Len(username) : username[i] \notin {Colon, At, Slash}
      <4> SUFFICES ASSUME NEW i \in 1 .. Len(username) PROVE username[i] \notin {Colon, At, Slash}
        OBVIOUS
      <4>1. i \in 1 .. k /\ username[i] = s[i]
        BY <2>2, <2>10, <2>11, <2>12 DEF Begins
      <4> QED
        BY <2>2, <2>10, <4>1
    <3>2. Until(username, {Colon, At, Slash}) = username
      BY <2>2, <3>1, UntilAll
    <3> QED
      BY <3>2 DEF Free
  <2>14. Free(password, {At, Slash})
    <3>1. CASE ~Starts(s1, Colon)
      BY <2>6, <3>1 DEF Free
    <3>2. CASE Starts(s1, Colon)
      <4> DEFINE n == Len(username)
                 m == Len(password)
      <4>1. m \in Nat
        BY <2>6, <3>2, LenProperties
      <4>2. m + 1 <= Len(s1) /\ s1[1] = Colon /\ \A i \in 1 .. m : s1[i + 1] = password[i]
        <5> DEFINE one == <<Colon>>
                   lead == one \o password
        <5>1. one \in Seq(Nat)
          BY <2>4
        <5>8. Len(one) = 1
          OBVIOUS
        <5>9. password \in Seq(Nat)
          BY <2>6, <3>2
        <5>10. s2 \in Seq(Nat)
          BY <2>6
        <5> HIDE DEF one
        <5>2. lead \in Seq(Nat) /\ Len(lead) = 1 + m /\ \A i \in 1 .. 1 + m : lead[i] = IF i <= 1 THEN one[i] ELSE password[i - 1]
          <6>1. /\ lead \in Seq(Nat) /\ Len(lead) = Len(one) + Len(password)
                /\ \A i \in 1 .. Len(one) + Len(password) : lead[i] = IF i <= Len(one) THEN one[i] ELSE password[i - Len(one)]
            BY <5>1, <5>9, ConcatProperties
          <6> QED
            BY <5>8, <6>1
        <5>3. s1 = lead \o s2
          BY <2>6, <3>2 DEF one
        <5> HIDE DEF lead
        <5>4. Len(s1) = Len(lead) + Len(s2) /\ \A i \in 1 .. Len(lead) + Len(s2) : s1[i] = IF i <= Len(lead) THEN lead[i] ELSE s2[i - Len(lead)]
          <6>1. lead \in Seq(Nat)
            BY <5>2
          <6> DEFINE v == lead \o s2
          <6>2. Len(v) = Len(lead) + Len(s2) /\ \A i \in 1 .. Len(lead) + Len(s2) : v[i] = IF i <= Len(lead) THEN lead[i] ELSE s2[i - Len(lead)]
            BY <5>10, <6>1, ConcatProperties
          <6> QED
            BY <5>3, <6>2
        <5>5. Len(s2) \in Nat
          BY <2>6, LenProperties
        <5>6. s1[1] = Colon
          BY <3>2 DEF Starts
        <5>7. ASSUME NEW i \in 1 .. m PROVE s1[i + 1] = password[i]
          <6>1. i + 1 \in 1 .. 1 + m /\ ~(i + 1 <= 1) /\ (i + 1) - 1 = i /\ i + 1 <= Len(lead) /\ i + 1 \in 1 .. Len(lead) + Len(s2)
            BY <4>1, <5>2, <5>5
          <6>2. lead[i + 1] = password[i]
            BY <5>2, <6>1
          <6> QED
            BY <5>4, <6>1, <6>2
        <5> QED
          BY <4>1, <5>2, <5>4, <5>5, <5>6, <5>7
      <4>3. ASSUME NEW j \in n + 1 .. n + 1 + m PROVE s[j] # At
        <5>1. j - n \in 1 .. Len(s) - n /\ n + (j - n) = j
          BY <2>3, <2>11, <4>1, <4>2
        <5>2. s[j] = s1[j - n]
          BY <2>3, <5>1
        <5>3. CASE j = n + 1
          BY <2>4, <2>11, <4>2, <5>2, <5>3
        <5>4. CASE j # n + 1
          <6>1. j - n - 1 \in 1 .. m /\ (j - n - 1) + 1 = j - n
            BY <2>11, <4>1, <5>4
          <6> QED
            BY <2>6, <3>2, <4>2, <5>2, <6>1
        <5> QED
          BY <5>3, <5>4
      <4>4. n + 1 + m <= k
        <5> SUFFICES ASSUME k < n + 1 + m PROVE FALSE
          BY <2>10, <2>11, <4>1
        <5>1. k + 1 \in n + 1 .. n + 1 + m
          BY <2>10, <2>11, <2>12, <4>1
        <5> QED
          BY <2>10, <4>3, <5>1
      <4>5. \A i \in 1 .. m : password[i] \notin {At, Slash}
        <5> SUFFICES ASSUME NEW i \in 1 .. m PROVE password[i] \notin {At, Slash}
          OBVIOUS
        <5>1. i + 1 \in 1 .. Len(s) - n /\ n + (i + 1) \in 1 .. k
          <6>1. m \in Nat /\ n \in Nat /\ k \in Nat /\ n + 1 + m <= k /\ k < Len(s) /\ Len(s) \in Nat
            BY <2>10, <2>11, <4>1, <4>4
          <6> HIDE DEF m, n
          <6> QED
            BY <6>1
        <5>2. password[i] = s[n + (i + 1)]
          BY <2>3, <4>2, <5>1
        <5> QED
          BY <2>10, <5>1, <5>2
      <4>6. Until(password, {At, Slash}) = password
        BY <2>6, <3>2, <4>5, UntilAll
      <4> QED
        BY <4>6 DEF Free
    <3> QED
      BY <3>1, <3>2
  <2> DEFINE lead == Lead(Colon, password)
             one == <<At>>
             before == (username \o lead) \o one
  <2>15. before \in Seq(Nat) /\ s = before \o s3
    <3>1. lead \in Seq(Nat)
      BY <2>6
    <3>9. one \in Seq(Nat)
      BY <2>8
    <3>2. s = Cat(username, Cat(lead, Cat(one, s3)))
      BY <2>3, <2>6, <2>8 DEF Cat
    <3> HIDE DEF lead, one
    <3>3. username \in Seq(Nat)
      BY <2>2
    <3>10. s3 \in Seq(Nat)
      BY <2>8
    <3>4. Cat(one, s3) \in Seq(Nat)
      BY <3>9, <3>10, CatIs
    <3>5. Cat(username, lead) \in Seq(Nat)
      BY <3>1, <3>3, CatIs
    <3>6. Cat(Cat(username, lead), Cat(one, s3)) = Cat(username, Cat(lead, Cat(one, s3)))
      BY <3>1, <3>3, <3>4, CatIs
    <3>7. /\ Cat(Cat(username, lead), one) \in Seq(Nat)
          /\ Cat(Cat(Cat(username, lead), one), s3) = Cat(Cat(username, lead), Cat(one, s3))
      BY <3>5, <3>9, <3>10, CatIs
    <3>8. before = Cat(Cat(username, lead), one) /\ before \o s3 = Cat(before, s3)
      BY DEF Cat
    <3> HIDE DEF before
    <3> QED
      BY <3>2, <3>6, <3>7, <3>8
  <2> DEFINE u == UserOn(s)
  <2>17. u.username = username /\ u.password = password /\ u.rest = s3
    BY <2>1
  <2> HIDE DEF u
  <2>16. (IF u.username = Absent THEN << >> ELSE u.username \o Lead(Colon, u.password) \o <<At>>) = before
    BY <2>9, <2>17
  <2> HIDE DEF before
  <2>18. s3 \in Seq(Nat)
    BY <2>8
  <2> QED
    BY <2>13, <2>14, <2>15, <2>16, <2>17, <2>18, Zenon DEF u
<1> QED
  BY <1>1, <1>2

\* A URL is what its parts make up, whatever it is.
LEMMA UrlIs == ASSUME NEW url \in Seq(Nat) PROVE TakenApart(url)
<1> DEFINE scheme == Until(url, {Colon})
           rest == After(url, scheme)
           more == SubSeq(rest, 4, Len(rest))
           user == UserOn(more)
           net == HostOn(user.rest)
           tail == PathOn(net.rest)
           low == [i \in DOMAIN scheme |-> LowerCase(scheme[i])]
           css == <<Colon, Slash, Slash>>
           before == IF user.username = Absent THEN << >> ELSE user.username \o Lead(Colon, user.password) \o <<At>>
           u == ParseUrl(url)
<1> SUFFICES ASSUME u # NoUrl
             PROVE  /\ PutTogether(u) = [i \in DOMAIN url |-> IF i <= Len(u.scheme) THEN LowerCase(url[i]) ELSE url[i]]
                    /\ Free(u.username, {Colon, At, Slash}) /\ Free(u.password, {At, Slash})
                    /\ Starts(u.host, Open) \/ Free(u.host, {Colon, Slash})
                    /\ Free(u.port, {Slash}) /\ Free(u.path, {Question, Hash_}) /\ Free(u.query, {Hash_})
  BY DEF TakenApart
<1>1. /\ rest # << >> /\ ~(Len(rest) < 3) /\ rest[2] = Slash /\ rest[3] = Slash
      /\ user.ended /\ (net.rest = << >> \/ net.rest[1] = Slash)
      /\ u = [scheme |-> low, username |-> user.username, password |-> user.password, host |-> net.host,
              port |-> net.port, path |-> tail.path, query |-> tail.query, fragment |-> tail.fragment]
  BY DEF ParseUrl
<1>2. /\ u.scheme = low /\ u.username = user.username /\ u.password = user.password /\ u.host = net.host
      /\ u.port = net.port /\ u.path = tail.path /\ u.query = tail.query /\ u.fragment = tail.fragment
  BY <1>1
<1> HIDE DEF u, low
<1>3. /\ scheme \in Seq(Nat) /\ Begins(url, scheme)
      /\ Len(scheme) < Len(url) => url[Len(scheme) + 1] \in {Colon}
  BY UntilIs
<1> HIDE DEF scheme
<1>4. /\ rest \in Seq(Nat) /\ Len(rest) = Len(url) - Len(scheme) /\ url = Cat(scheme, rest)
      /\ \A i \in 1 .. Len(url) - Len(scheme) : rest[i] = url[Len(scheme) + i]
  BY <1>3, AfterIs DEF Cat
<1>5. Colon \in Nat /\ Slash \in Nat /\ At \in Nat
  BY DEF Colon, Slash, At
<1> HIDE DEF rest
<1>6. more \in Seq(Nat) /\ rest = Cat(css, more)
  <2>1. css \in Seq(Nat) /\ Len(css) = 3 /\ css[1] = Colon /\ css[2] = Slash /\ css[3] = Slash
    BY <1>5
  <2>2. Len(rest) \in Nat /\ Len(url) \in Nat /\ Len(scheme) \in Nat
    BY <1>3, <1>4, LenProperties
  <2>3. rest[1] = Colon
    <3>1. Len(scheme) < Len(url) /\ 1 \in 1 .. Len(url) - Len(scheme)
      <4> DEFINE m == Len(scheme)
                 k == Len(url)
      <4>1. m \in Nat /\ k \in Nat /\ Len(rest) \in Nat /\ Len(rest) = k - m /\ Len(rest) # 0
        BY <1>1, <1>4, <2>2, EmptySeq
      <4> HIDE DEF m, k
      <4>2. m < k /\ 1 \in 1 .. k - m
        BY <4>1
      <4> QED
        BY <4>2 DEF m, k
    <3>2. url[Len(scheme) + 1] = Colon
      BY <1>3, <3>1
    <3> QED
      BY <1>4, <3>1, <3>2
  <2>4. css \in Seq(Nat)
    BY <2>1
  <2>5. rest \in Seq(Nat)
    BY <1>4
  <2> HIDE DEF css
  <2>6. Begins(rest, css)
    <3> SUFFICES ASSUME NEW i \in 1 .. Len(css) PROVE css[i] = rest[i]
      BY <1>1, <2>1, <2>2 DEF Begins
    <3>1. i = 1 \/ i = 2 \/ i = 3
      BY <2>1
    <3> QED
      BY <1>1, <2>1, <2>3, <3>1
  <2>7. After(rest, css) \in Seq(Nat) /\ rest = css \o After(rest, css)
    BY <2>4, <2>5, <2>6, AfterIs
  <2>8. After(rest, css) = more
    BY <2>1 DEF After
  <2> HIDE DEF more
  <2> QED
    BY <2>7, <2>8 DEF Cat
<1> HIDE DEF more
<1>7. /\ before \in Seq(Nat) /\ user.rest \in Seq(Nat) /\ more = Cat(before, user.rest)
      /\ Free(user.username, {Colon, At, Slash}) /\ Free(user.password, {At, Slash})
  BY <1>1, <1>6, UserOnIs DEF Cat
<1> DEFINE s1 == user.rest
<1>8. s1 \in Seq(Nat)
  BY <1>7
<1>9. net = HostOn(s1)
  OBVIOUS
<1> HIDE DEF user, s1
<1>10. /\ net.host \in Seq(Nat) /\ Lead(Colon, net.port) \in Seq(Nat) /\ net.rest \in Seq(Nat)
       /\ s1 = Cat(net.host, Cat(Lead(Colon, net.port), net.rest))
       /\ (Starts(net.host, Open) \/ Free(net.host, {Colon, Slash})) /\ Free(net.port, {Slash})
  BY <1>8, <1>9, HostOnIs DEF Cat
<1> DEFINE s2 == net.rest
<1>11. s2 \in Seq(Nat) /\ (s2 = << >> \/ s2[1] = Slash)
  BY <1>1, <1>10
<1>12. tail = PathOn(s2)
  OBVIOUS
<1> HIDE DEF net, s2
<1>13. /\ Lead(Slash, tail.path) \in Seq(Nat) /\ Lead(Question, tail.query) \in Seq(Nat)
       /\ Lead(Hash_, tail.fragment) \in Seq(Nat)
       /\ s2 = Cat(Lead(Slash, tail.path), Cat(Lead(Question, tail.query), Lead(Hash_, tail.fragment)))
       /\ Free(tail.path, {Question, Hash_}) /\ Free(tail.query, {Hash_})
  BY <1>11, <1>12, PathOnIs DEF Cat
<1> HIDE DEF tail
<1> DEFINE host == net.host
           lport == Lead(Colon, net.port)
           lpath == Lead(Slash, tail.path)
           lquery == Lead(Question, tail.query)
           lfragment == Lead(Hash_, tail.fragment)
           right == Cat(css, Cat(before, Cat(host, Cat(lport, Cat(lpath, Cat(lquery, lfragment))))))
<1>14. url = Cat(scheme, right)
  <2>1. s2 = Cat(lpath, Cat(lquery, lfragment)) /\ s1 = Cat(host, Cat(lport, s2))
    BY <1>10, <1>13 DEF s2
  <2>2. more = Cat(before, s1)
    BY <1>7 DEF s1
  <2> HIDE DEF host, lport, lpath, lquery, lfragment, before, css
  <2>3. rest = right
    <3>1. rest = Cat(css, more)
      BY <1>6 DEF css
    <3> QED
      BY <2>1, <2>2, <3>1
  <2> HIDE DEF right
  <2> QED
    BY <1>4, <2>3
<1>15. low \in Seq(Nat) /\ Len(low) = Len(scheme) /\ \A i \in 1 .. Len(scheme) : low[i] = LowerCase(url[i])
  <2>1. Len(scheme) \in Nat /\ DOMAIN scheme = 1 .. Len(scheme)
    BY <1>3, LenProperties
  <2>2. \A i \in 1 .. Len(scheme) : scheme[i] \in Nat
    BY <1>3, ElementOfSeq
  <2>3. low = [i \in 1 .. Len(scheme) |-> LowerCase(scheme[i])]
    BY <2>1 DEF low
  <2>4. \A i \in 1 .. Len(scheme) : LowerCase(scheme[i]) \in Nat
    BY <2>2 DEF LowerCase
  <2>5. low \in [1 .. Len(scheme) -> Nat]
    BY <2>3, <2>4
  <2>6. low \in Seq(Nat) /\ Len(low) = Len(scheme)
    BY <2>1, <2>5, SeqDef, LenProperties
  <2> QED
    BY <1>3, <2>3, <2>6 DEF Begins
<1>16. PutTogether(u) = Cat(low, right) /\ right \in Seq(Nat)
  <2>1. PutTogether(u) = Cat(Cat(Cat(Cat(Cat(Cat(Cat(low, css), before), host), lport), lpath), lquery), lfragment)
    BY <1>2 DEF PutTogether, Cat
  <2>2. css \in Seq(Nat)
    BY <1>5
  <2>3. before \in Seq(Nat)
    BY <1>7
  <2>4. host \in Seq(Nat)
    BY <1>10
  <2>5. lport \in Seq(Nat)
    BY <1>10
  <2>6. lpath \in Seq(Nat)
    BY <1>13
  <2>7. lquery \in Seq(Nat)
    BY <1>13
  <2>8. lfragment \in Seq(Nat)
    BY <1>13
  <2>9. low \in Seq(Nat)
    BY <1>15
  <2> HIDE DEF host, lport, lpath, lquery, lfragment, before, css
  <2> DEFINE l1 == Cat(low, css)
             l2 == Cat(l1, before)
             l3 == Cat(l2, host)
             l4 == Cat(l3, lport)
             l5 == Cat(l4, lpath)
             r1 == Cat(lquery, lfragment)
             r2 == Cat(lpath, r1)
             r3 == Cat(lport, r2)
             r4 == Cat(host, r3)
             r5 == Cat(before, r4)
  <2>10. l1 \in Seq(Nat)
    BY <2>9, <2>2, CatIs
  <2>11. l2 \in Seq(Nat)
    BY <2>10, <2>3, CatIs
  <2>12. l3 \in Seq(Nat)
    BY <2>11, <2>4, CatIs
  <2>13. l4 \in Seq(Nat)
    BY <2>12, <2>5, CatIs
  <2>14. l5 \in Seq(Nat)
    BY <2>13, <2>6, CatIs
  <2>15. r1 \in Seq(Nat)
    BY <2>7, <2>8, CatIs
  <2>16. r2 \in Seq(Nat)
    BY <2>6, <2>15, CatIs
  <2>17. r3 \in Seq(Nat)
    BY <2>5, <2>16, CatIs
  <2>18. r4 \in Seq(Nat)
    BY <2>4, <2>17, CatIs
  <2>19. r5 \in Seq(Nat)
    BY <2>3, <2>18, CatIs
  <2>20. Cat(css, r5) \in Seq(Nat)
    BY <2>2, <2>19, CatIs
  <2>21. Cat(Cat(l5, lquery), lfragment) = Cat(l5, r1)
    BY <2>14, <2>7, <2>8, CatIs
  <2>22. Cat(l5, r1) = Cat(l4, r2)
    BY <2>13, <2>6, <2>15, CatIs
  <2>23. Cat(l4, r2) = Cat(l3, r3)
    BY <2>12, <2>5, <2>16, CatIs
  <2>24. Cat(l3, r3) = Cat(l2, r4)
    BY <2>11, <2>4, <2>17, CatIs
  <2>25. Cat(l2, r4) = Cat(l1, r5)
    BY <2>10, <2>3, <2>18, CatIs
  <2>26. Cat(l1, r5) = Cat(low, Cat(css, r5))
    BY <2>9, <2>2, <2>19, CatIs
  <2> QED
    BY <2>1, <2>20, <2>21, <2>22, <2>23, <2>24, <2>25, <2>26
<1> HIDE DEF right
<1>17. Cat(low, right) = [i \in DOMAIN url |-> IF i <= Len(u.scheme) THEN LowerCase(url[i]) ELSE url[i]]
  <2> DEFINE v == low \o right
             w == scheme \o right
             n == Len(scheme)
  <2>1. low \in Seq(Nat)
    BY <1>15
  <2>2. right \in Seq(Nat)
    BY <1>16
  <2>3. scheme \in Seq(Nat)
    BY <1>3
  <2>4. n \in Nat /\ Len(right) \in Nat /\ Len(low) = n
    BY <1>15, <2>2, <2>3, LenProperties
  <2>5. v \in Seq(Nat) /\ Len(v) = Len(low) + Len(right) /\ \A i \in 1 .. Len(low) + Len(right) : v[i] = IF i <= Len(low) THEN low[i] ELSE right[i - Len(low)]
    BY <2>1, <2>2, ConcatProperties
  <2>6. w \in Seq(Nat) /\ Len(w) = n + Len(right) /\ \A i \in 1 .. n + Len(right) : w[i] = IF i <= n THEN scheme[i] ELSE right[i - n]
    BY <2>2, <2>3, ConcatProperties
  <2>7. w = url /\ v = Cat(low, right)
    BY <1>14 DEF Cat
  <2> HIDE DEF v, w
  <2>8. Len(u.scheme) = n
    BY <1>2, <1>15
  <2>9. DOMAIN v = 1 .. n + Len(right) /\ DOMAIN url = 1 .. n + Len(right)
    BY <2>4, <2>5, <2>6, <2>7, LenProperties
  <2>10. ASSUME NEW i \in 1 .. n + Len(right)
         PROVE  v[i] = IF i <= Len(u.scheme) THEN LowerCase(url[i]) ELSE url[i]
    <3>1. CASE i <= n
      <4>1. i \in 1 .. n
        BY <2>4, <3>1
      <4>2. v[i] = low[i]
        BY <2>4, <2>5, <3>1
      <4> QED
        BY <1>15, <2>8, <3>1, <4>1, <4>2
    <3>2. CASE ~(i <= n)
      <4>1. v[i] = right[i - n]
        BY <2>4, <2>5, <3>2
      <4>2. url[i] = right[i - n]
        BY <2>4, <2>6, <2>7, <3>2
      <4> QED
        BY <2>8, <3>2, <4>1, <4>2
    <3> QED
      BY <3>1, <3>2
  <2>11. v = [i \in DOMAIN v |-> v[i]]
    BY <2>5
  <2> QED
    BY <2>7, <2>9, <2>10, <2>11
<1> QED
  BY <1>2, <1>7, <1>10, <1>13, <1>16, <1>17

\* url_parser.c: the parts of any URL make it up again and none holds the delimiter that ends it.
THEOREM UrlSound == UrlSpec => []UrlParts
<1> DEFINE Str == urlstr \in Seq(Nat)
<1>1. UrlInit => Str
  BY EmptySeq DEF UrlInit
<1>2. Str /\ [UrlNext]_urlstr => Str'
  BY UrlAssumption, AppendProperties DEF UrlNext
<1>3. Str => UrlParts
  <2> SUFFICES ASSUME Str PROVE UrlParts
    OBVIOUS
  <2> DEFINE one == <<65, Colon, Slash, Slash>>
             v == one \o urlstr
  <2>1. one \in Seq(Nat)
    BY DEF Colon, Slash
  <2> HIDE DEF one
  <2>2. v \in Seq(Nat)
    BY <2>1, ConcatProperties
  <2> HIDE DEF v
  <2>3. TakenApart(urlstr) /\ TakenApart(v)
    BY <2>2, UrlIs
  <2> QED
    BY <2>3 DEF UrlParts, v, one
<1> QED
  BY <1>1, <1>2, <1>3, PTL DEF UrlSpec

-----------------------------------------------------------------------------
(* Spans of strings                                                         *)

\* What is behind the first a characters of s and within the first b.
Span(s, a, b) == SubSeq(s, a + 1, b)

LEMMA SpanIs ==
  ASSUME NEW E, NEW s \in Seq(E), NEW b \in 0 .. Len(s), NEW a \in 0 .. b
  PROVE  /\ Span(s, a, b) \in Seq(E) /\ Len(Span(s, a, b)) = b - a
         /\ \A i \in 1 .. b - a : Span(s, a, b)[i] = s[a + i]
<1> DEFINE u == SubSeq(s, a + 1, b)
<1>1. Len(s) \in Nat
  BY LenProperties
<1>2. \A i \in a + 1 .. b : s[i] \in E
  BY <1>1, ElementOfSeq
<1>3. a + 1 \in Int /\ b \in Int
  OBVIOUS
<1>4. /\ u \in Seq(E) /\ Len(u) = (IF a + 1 <= b THEN b - (a + 1) + 1 ELSE 0)
      /\ \A i \in 1 .. b - (a + 1) + 1 : u[i] = s[a + 1 + i - 1]
  BY <1>2, <1>3, SubSeqProperties
<1> HIDE DEF u
<1>5. Len(u) = b - a /\ \A i \in 1 .. b - a : u[i] = s[a + i]
  BY <1>4
<1> QED
  BY <1>4, <1>5 DEF Span, u

LEMMA SpanWhole == ASSUME NEW E, NEW s \in Seq(E) PROVE Span(s, 0, Len(s)) = s
<1> DEFINE u == Span(s, 0, Len(s))
<1>1. Len(s) \in Nat
  BY LenProperties
<1>2. 0 \in 0 .. Len(s) /\ Len(s) \in 0 .. Len(s)
  BY <1>1
<1>3. u \in Seq(E) /\ Len(u) = Len(s) - 0 /\ \A i \in 1 .. Len(s) - 0 : u[i] = s[0 + i]
  BY <1>2, SpanIs
<1> HIDE DEF u
<1>4. Len(u) = Len(s) /\ \A i \in 1 .. Len(s) : u[i] = s[i]
  BY <1>1, <1>3
<1>5. u = s
  BY <1>3, <1>4, SeqEqual
<1> QED
  BY <1>5 DEF u

LEMMA SpanEmpty ==
  ASSUME NEW E, NEW s \in Seq(E), NEW a \in 0 .. Len(s) PROVE Span(s, a, a) = << >>
<1> DEFINE u == Span(s, a, a)
<1>1. Len(s) \in Nat
  BY LenProperties
<1>2. a \in 0 .. a
  BY <1>1
<1>3. u \in Seq(E) /\ Len(u) = a - a
  BY <1>2, SpanIs
<1> HIDE DEF u
<1>4. u = << >>
  BY <1>3, EmptySeq
<1> QED
  BY <1>4 DEF u

\* A span of a span.
LEMMA SpanSpan ==
  ASSUME NEW E, NEW s \in Seq(E), NEW b \in 0 .. Len(s), NEW a \in 0 .. b,
         NEW d \in 0 .. b - a, NEW c \in 0 .. d
  PROVE  Span(Span(s, a, b), c, d) = Span(s, a + c, a + d)
<1> DEFINE t == Span(s, a, b)
           u == Span(t, c, d)
           v == Span(s, a + c, a + d)
<1>1. Len(s) \in Nat
  BY LenProperties
<1>2. t \in Seq(E) /\ Len(t) = b - a /\ \A i \in 1 .. b - a : t[i] = s[a + i]
  BY SpanIs
<1> HIDE DEF t
<1>3. d \in 0 .. Len(t) /\ a + d \in 0 .. Len(s) /\ a + c \in 0 .. a + d
  BY <1>1, <1>2
<1>4. u \in Seq(E) /\ Len(u) = d - c /\ \A i \in 1 .. d - c : u[i] = t[c + i]
  BY <1>2, <1>3, SpanIs
<1>5. v \in Seq(E) /\ Len(v) = (a + d) - (a + c) /\ \A i \in 1 .. (a + d) - (a + c) : v[i] = s[(a + c) + i]
  <2> DEFINE x == a + c
             y == a + d
  <2>1. y \in 0 .. Len(s) /\ x \in 0 .. y
    BY <1>3
  <2> HIDE DEF x, y
  <2>2. Span(s, x, y) \in Seq(E) /\ Len(Span(s, x, y)) = y - x /\ \A i \in 1 .. y - x : Span(s, x, y)[i] = s[x + i]
    BY <2>1, SpanIs
  <2> QED
    BY <2>2 DEF x, y
<1> HIDE DEF u, v
<1>6. Len(v) = d - c /\ \A i \in 1 .. d - c : v[i] = s[a + (c + i)]
  BY <1>1, <1>5
<1>7. \A i \in 1 .. d - c : c + i \in 1 .. b - a
  BY <1>1
<1>8. \A i \in 1 .. d - c : u[i] = v[i]
  BY <1>2, <1>4, <1>6, <1>7
<1>9. u = v
  BY <1>4, <1>5, <1>6, <1>8, SeqEqual
<1> QED
  BY <1>9 DEF u, v, t

\* Two spans, the second where the first ends.
LEMMA SpanCat ==
  ASSUME NEW E, NEW s \in Seq(E), NEW c \in 0 .. Len(s), NEW b \in 0 .. c, NEW a \in 0 .. b
  PROVE  Cat(Span(s, a, b), Span(s, b, c)) = Span(s, a, c)
<1> DEFINE t == Span(s, a, b)
           u == Span(s, b, c)
           v == t \o u
           w == Span(s, a, c)
<1>1. Len(s) \in Nat /\ b \in 0 .. Len(s) /\ a \in 0 .. c
  BY LenProperties
<1>2. t \in Seq(E) /\ Len(t) = b - a /\ \A i \in 1 .. b - a : t[i] = s[a + i]
  BY <1>1, SpanIs
<1>3. u \in Seq(E) /\ Len(u) = c - b /\ \A i \in 1 .. c - b : u[i] = s[b + i]
  BY <1>1, SpanIs
<1>4. w \in Seq(E) /\ Len(w) = c - a /\ \A i \in 1 .. c - a : w[i] = s[a + i]
  BY <1>1, SpanIs
<1> HIDE DEF t, u, w
<1>5. /\ v \in Seq(E) /\ Len(v) = Len(t) + Len(u)
      /\ \A i \in 1 .. Len(t) + Len(u) : v[i] = IF i <= Len(t) THEN t[i] ELSE u[i - Len(t)]
  BY <1>2, <1>3, ConcatProperties
<1> HIDE DEF v
<1>6. ASSUME NEW i \in 1 .. c - a PROVE v[i] = w[i]
  <2>1. i \in 1 .. Len(t) + Len(u)
    BY <1>1, <1>2, <1>3
  <2>2. CASE i <= b - a
    BY <1>1, <1>2, <1>4, <1>5, <2>1, <2>2
  <2>3. CASE ~(i <= b - a)
    <3>1. i - (b - a) \in 1 .. c - b /\ b + (i - (b - a)) = a + i
      BY <1>1, <2>3
    <3> QED
      BY <1>2, <1>3, <1>4, <1>5, <2>1, <2>3, <3>1
  <2> QED
    BY <2>2, <2>3
<1>7. Len(v) = c - a
  BY <1>1, <1>2, <1>3, <1>5
<1>8. v = w
  BY <1>4, <1>5, <1>6, <1>7, SeqEqual
<1> QED
  BY <1>8 DEF Cat, v, w, t, u

\* Two strings are spans of what they make up.
LEMMA CatSpans ==
  ASSUME NEW E, NEW s \in Seq(E), NEW e \in Seq(E)
  PROVE  LET v == Cat(s, e) IN
         /\ v \in Seq(E) /\ Len(v) = Len(s) + Len(e)
         /\ Span(v, 0, Len(s)) = s /\ Span(v, Len(s), Len(v)) = e
<1> DEFINE v == s \o e
           t == Span(v, 0, Len(s))
           u == Span(v, Len(s), Len(v))
<1>1. /\ v \in Seq(E) /\ Len(v) = Len(s) + Len(e)
      /\ \A i \in 1 .. Len(s) + Len(e) : v[i] = IF i <= Len(s) THEN s[i] ELSE e[i - Len(s)]
  BY ConcatProperties
<1> HIDE DEF v
<1>2. Len(s) \in Nat /\ Len(e) \in Nat
  BY LenProperties
<1>3. Len(s) \in 0 .. Len(v) /\ Len(v) \in 0 .. Len(v) /\ 0 \in 0 .. Len(s)
  BY <1>1, <1>2
<1>4. t \in Seq(E) /\ Len(t) = Len(s) - 0 /\ \A i \in 1 .. Len(s) - 0 : t[i] = v[0 + i]
  BY <1>1, <1>3, SpanIs
<1>5. u \in Seq(E) /\ Len(u) = Len(v) - Len(s) /\ \A i \in 1 .. Len(v) - Len(s) : u[i] = v[Len(s) + i]
  BY <1>1, <1>3, SpanIs
<1> HIDE DEF t, u
<1>6. Len(t) = Len(s) /\ \A i \in 1 .. Len(s) : t[i] = s[i]
  BY <1>1, <1>2, <1>4
<1>7. Len(u) = Len(e) /\ \A i \in 1 .. Len(e) : u[i] = e[i]
  <2>1. Len(u) = Len(e)
    BY <1>1, <1>2, <1>5
  <2>2. ASSUME NEW i \in 1 .. Len(e) PROVE u[i] = e[i]
    <3>1. Len(s) + i \in 1 .. Len(s) + Len(e) /\ ~(Len(s) + i <= Len(s)) /\ (Len(s) + i) - Len(s) = i /\ i \in 1 .. Len(v) - Len(s)
      BY <1>1, <1>2
    <3> QED
      BY <1>1, <1>5, <3>1
  <2> QED
    BY <2>1, <2>2
<1>8. t = s
  BY <1>4, <1>6, SeqEqual
<1>9. u = e
  BY <1>5, <1>7, SeqEqual
<1> QED
  BY <1>1, <1>8, <1>9 DEF Cat, v, t, u

\* The first n characters at most, and what is behind the first ones.
LEMMA LimitedIs ==
  ASSUME NEW E, NEW s \in Seq(E), NEW n \in Nat
  PROVE  LET m == IF n < Len(s) THEN n ELSE Len(s) IN m \in 0 .. Len(s) /\ Limited(s, n) = Span(s, 0, m)
BY LenProperties DEF Limited, Lesser, Span

LEMMA AfterSpan ==
  ASSUME NEW E, NEW s \in Seq(E), NEW b \in 0 .. Len(s), NEW a \in 0 .. b, NEW t, Len(t) = b - a
  PROVE  After(Span(s, a, Len(s)), t) = Span(s, b, Len(s))
<1> DEFINE u == Span(s, a, Len(s))
           n == Len(s) - a
           d == b - a
<1>1. Len(s) \in Nat
  BY LenProperties
<1>2. Len(s) \in 0 .. Len(s) /\ a \in 0 .. Len(s) /\ n \in 0 .. n /\ d \in 0 .. n
  BY <1>1
<1>3. Len(u) = n
  BY <1>2, SpanIs
<1>4. Span(u, d, n) = Span(s, a + d, a + n)
  BY <1>2, SpanSpan
<1>5. a + d = b /\ a + n = Len(s)
  BY <1>1
<1> HIDE DEF u, n, d
<1>6. After(u, t) = Span(u, d, n)
  BY <1>3 DEF After, Span, d
<1> QED
  BY <1>4, <1>5, <1>6 DEF u

LEMMA LimitedCat ==
  ASSUME NEW E, NEW s \in Seq(E), NEW e \in Seq(E), NEW n \in Nat
  PROVE  Limited(Cat(s, e), n) = IF n <= Len(s) THEN Limited(s, n) ELSE Cat(s, Limited(e, n - Len(s)))
<1> DEFINE v == Cat(s, e)
           l == Len(s)
           L == Len(v)
           m == IF n < L THEN n ELSE L
<1>1. /\ v \in Seq(E) /\ Len(v) = Len(s) + Len(e)
      /\ Span(v, 0, l) = s /\ Span(v, l, L) = e
  BY CatSpans
<1> HIDE DEF v
<1>2. l \in Nat /\ Len(e) \in Nat /\ L = l + Len(e)
  BY <1>1, LenProperties
<1>3. m \in 0 .. L /\ Limited(v, n) = Span(v, 0, m)
  BY <1>1, LimitedIs
<1>4. CASE n <= l
  <2>1. m = n /\ n \in 0 .. l /\ 0 \in 0 .. l /\ l \in 0 .. L /\ n \in 0 .. l - 0 /\ 0 \in 0 .. n
    BY <1>2, <1>4
  <2>2. Span(Span(v, 0, l), 0, n) = Span(v, 0 + 0, 0 + n)
    BY <1>1, <2>1, SpanSpan
  <2>3. (IF n < l THEN n ELSE l) = n
    BY <1>2, <1>4
  <2>4. Limited(s, n) = Span(s, 0, n)
    BY <2>3, LimitedIs
  <2>5. 0 + n = n
    OBVIOUS
  <2> QED
    <3>1. Limited(v, n) = Limited(s, n)
      BY <1>1, <1>3, <2>1, <2>2, <2>4, <2>5
    <3> QED
      BY <1>4, <3>1 DEF v
<1>5. CASE ~(n <= l)
  <2> DEFINE k == n - l
             j == IF k < Len(e) THEN k ELSE Len(e)
  <2>1. k \in Nat /\ l + j = m /\ j \in 0 .. Len(e)
    BY <1>2, <1>5
  <2>2. Limited(e, k) = Span(e, 0, j)
    BY <2>1, LimitedIs
  <2>3. L \in 0 .. L /\ l \in 0 .. L /\ j \in 0 .. L - l /\ 0 \in 0 .. j /\ l \in 0 .. m /\ 0 \in 0 .. l /\ m \in 0 .. L
    BY <1>2, <1>3, <2>1
  <2> HIDE DEF j, k
  <2>4. Span(Span(v, l, L), 0, j) = Span(v, l + 0, l + j)
    BY <1>1, <2>3, SpanSpan
  <2>5. l + 0 = l
    BY <1>2
  <2>6. Span(e, 0, j) = Span(v, l, m)
    BY <1>1, <2>1, <2>4, <2>5
  <2>7. Cat(Span(v, 0, l), Span(v, l, m)) = Span(v, 0, m)
    BY <1>1, <2>3, SpanCat
  <2> QED
    <3>1. Limited(v, n) = Cat(s, Limited(e, k))
      BY <1>1, <1>3, <2>2, <2>6, <2>7
    <3> QED
      BY <1>5, <3>1 DEF v, k
<1> QED
  BY <1>4, <1>5 DEF v

-----------------------------------------------------------------------------
(* The loops of misc.c: a state before and after every turn                 *)

Char == Nat \ {0}
Table == Seq([var : Seq(Char), exp : Seq(Char)])

LEMMA CharsAreNumbers == ASSUME NEW s \in Seq(Char) PROVE s \in Seq(Nat)
<1> DEFINE m == Len(s)
<1>1. m \in Nat /\ \A i \in 1 .. m : s[i] \in Nat
  BY LenProperties, ElementOfSeq DEF Char
<1>2. s \in [1 .. m -> Nat]
  BY <1>1, LenProperties
<1> HIDE DEF m
<1> QED
  BY <1>1, <1>2, SeqDef

\* What is found is there.
LEMMA MatchIs ==
  ASSUME NEW args \in Table, NEW p \in Seq(Char), Match(args, p) # 0
  PROVE  LET a == Match(args, p) IN
         /\ a \in 1 .. Len(args) /\ args[a].var \in Seq(Char) /\ args[a].exp \in Seq(Char)
         /\ args[a].var # << >> /\ Begins(p, args[a].var)
<1> DEFINE hits == {a \in DOMAIN args : /\ args[a].var # << >> /\ Len(args[a].var) <= Len(p)
                                        /\ SubSeq(p, 1, Len(args[a].var)) = args[a].var}
           a == Match(args, p)
<1>1. a = IF hits = {} THEN 0 ELSE CHOOSE x \in hits : \A y \in hits : x <= y
  BY DEF Match
<1>2. DOMAIN args = 1 .. Len(args) /\ Len(args) \in Nat
  BY LenProperties DEF Table
<1>3. hits \in SUBSET Nat /\ hits # {}
  <2>1. hits \in SUBSET Nat
    BY <1>2
  <2>2. hits # {}
    <3> HIDE DEF hits
    <3> QED
      BY <1>1
  <2> QED
    BY <2>1, <2>2
<1>4. a \in hits
  <2> HIDE DEF hits
  <2>1. \E x \in hits : \A y \in hits : x <= y
    BY <1>3, MinExists
  <2> QED
    BY <1>1, <1>3, <2>1
<1>5. /\ a \in 1 .. Len(args) /\ args[a].var # << >> /\ Len(args[a].var) <= Len(p)
      /\ SubSeq(p, 1, Len(args[a].var)) = args[a].var
  BY <1>2, <1>4
<1> HIDE DEF a
<1>6. args[a] \in [var : Seq(Char), exp : Seq(Char)]
  BY <1>5, ElementOfSeq DEF Table
<1> DEFINE var == args[a].var
<1>7. var \in Seq(Char) /\ args[a].exp \in Seq(Char)
  BY <1>6
<1>8. Begins(p, var)
  <2> HIDE DEF var
  <2>1. Len(var) \in 0 .. Len(p) /\ SubSeq(p, 1, Len(var)) = var
    BY <1>5, <1>7, LenProperties DEF var
  <2>2. \A i \in 1 .. Len(var) : SubSeq(p, 1, Len(var))[i] = p[i]
    BY <2>1, PrefixOf
  <2> QED
    BY <2>1, <2>2, LenProperties DEF Begins
<1> QED
  BY <1>5, <1>7, <1>8 DEF a

\* The states of the loops, and what a turn makes of one.
Filling == [pattern : Seq(Char), buf : Seq(Char)]
Replacing == [pattern : Seq(Char), text : Seq(Char)]
Splitting == [buffer : Seq(Char), res : Seq(Seq(Char))]
Lining == [text : Seq(Char), lines : Seq(Seq(Char))]
Reading == [dst : Seq(Char), remaining : Int]

\* A pattern goes on behind its first character or the variable it starts with.
LEMMA PatternGoesOn ==
  ASSUME NEW args \in Table, NEW p \in Seq(Char), p # << >>
  PROVE  LET a == Match(args, p) IN
         /\ Tail(p) \in Seq(Char) /\ p[1] \in Char
         /\ a # 0 => After(p, args[a].var) \in Seq(Char) /\ args[a].exp \in Seq(Char)
<1> DEFINE a == Match(args, p)
<1>1. Tail(p) \in Seq(Char) /\ 1 \in 1 .. Len(p)
  BY HeadTailProperties, EmptySeq
<1>2. p[1] \in Char
  BY <1>1, ElementOfSeq
<1>3. ASSUME a # 0 PROVE After(p, args[a].var) \in Seq(Char) /\ args[a].exp \in Seq(Char)
  <2>1. args[a].var \in Seq(Char) /\ args[a].exp \in Seq(Char) /\ Begins(p, args[a].var)
    BY <1>3, MatchIs
  <2> DEFINE var == args[a].var
  <2>2. var \in Seq(Char)
    BY <2>1
  <2>3. Begins(p, var)
    BY <2>1
  <2> HIDE DEF var
  <2>4. After(p, var) \in Seq(Char)
    BY <2>2, <2>3, AfterIs
  <2> QED
    BY <2>1, <2>4 DEF var
<1> QED
  BY <1>1, <1>2, <1>3

LEMMA SubstituteIs ==
  ASSUME NEW args \in Table, NEW t \in Filling
  PROVE  LET a == Match(args, t.pattern) IN
         /\ Substitute(t, args) \in Filling
         /\ Substitute(t, args) =
              IF t.pattern = << >> \/ Len(t.buf) >= BufSize - 1 THEN t
              ELSE IF a = 0 THEN [pattern |-> Tail(t.pattern), buf |-> Cat(t.buf, <<t.pattern[1]>>)]
              ELSE [pattern |-> After(t.pattern, args[a].var),
                    buf |-> Cat(t.buf, Limited(args[a].exp, BufSize - Len(t.buf) - 1))]
<1> DEFINE a == Match(args, t.pattern)
<1>1. t.pattern \in Seq(Char) /\ t.buf \in Seq(Char)
  BY DEF Filling
<1>2. CASE t.pattern = << >> \/ Len(t.buf) >= BufSize - 1
  BY <1>2 DEF Substitute
<1>3. CASE ~(t.pattern = << >> \/ Len(t.buf) >= BufSize - 1)
  <2>1. /\ Tail(t.pattern) \in Seq(Char) /\ t.pattern[1] \in Char
        /\ a # 0 => After(t.pattern, args[a].var) \in Seq(Char) /\ args[a].exp \in Seq(Char)
    BY <1>1, <1>3, PatternGoesOn
  <2>2. CASE a = 0
    <3>1. Substitute(t, args) = [pattern |-> Tail(t.pattern), buf |-> Append(t.buf, t.pattern[1])]
      BY <1>3, <2>2 DEF Substitute
    <3> DEFINE c == t.pattern[1]
               u == t.buf
    <3>2. c \in Char /\ u \in Seq(Char)
      BY <1>1, <2>1
    <3> HIDE DEF c, u
    <3>3. Append(u, c) \in Seq(Char) /\ Append(u, c) = Cat(u, <<c>>)
      BY <3>2, AppendProperties, AppendIsConcat DEF Cat
    <3> QED
      BY <1>3, <2>1, <2>2, <3>1, <3>3 DEF Filling, c, u
  <2>3. CASE a # 0
    <3>1. Substitute(t, args) = [pattern |-> After(t.pattern, args[a].var),
                                 buf |-> Cat(t.buf, Limited(args[a].exp, BufSize - Len(t.buf) - 1))]
      BY <1>3, <2>3 DEF Substitute, Cat
    <3> DEFINE k == BufSize - Len(t.buf) - 1
               e == Limited(args[a].exp, k)
               x == args[a].exp
               u == t.buf
    <3>2. k \in Nat
      BY <1>1, <1>3, LenProperties, TextAssumption
    <3>3. x \in Seq(Char)
      BY <2>1, <2>3
    <3>7. u \in Seq(Char)
      BY <1>1
    <3>4. e \in Seq(Char)
      <4> HIDE DEF k, x
      <4> DEFINE m == IF k < Len(x) THEN k ELSE Len(x)
      <4>1. m \in 0 .. Len(x) /\ Limited(x, k) = Span(x, 0, m)
        BY <3>2, <3>3, LimitedIs
      <4> HIDE DEF m
      <4>2. 0 \in 0 .. m
        BY <4>1
      <4>3. Span(x, 0, m) \in Seq(Char)
        BY <3>3, <4>1, <4>2, SpanIs
      <4> QED
        BY <4>1, <4>3 DEF x
    <3> HIDE DEF e, u
    <3>5. Cat(u, e) \in Seq(Char)
      BY <3>4, <3>7, CatIs
    <3> QED
      BY <1>3, <2>1, <2>3, <3>1, <3>5 DEF Filling, e, u
  <2> QED
    BY <2>2, <2>3
<1> QED
  BY <1>2, <1>3

LEMMA ReplaceIs ==
  ASSUME NEW args \in Table, NEW t \in Replacing
  PROVE  LET a == Match(args, t.pattern) IN
         /\ Replace(t, args) \in Replacing
         /\ Replace(t, args) =
              IF t.pattern = << >> THEN t
              ELSE IF a = 0 THEN [pattern |-> Tail(t.pattern), text |-> Cat(t.text, <<t.pattern[1]>>)]
              ELSE [pattern |-> After(t.pattern, args[a].var), text |-> Cat(t.text, args[a].exp)]
<1> DEFINE a == Match(args, t.pattern)
           u == t.text
<1>1. t.pattern \in Seq(Char) /\ u \in Seq(Char)
  BY DEF Replacing
<1>2. CASE t.pattern = << >>
  BY <1>2 DEF Replace
<1>3. CASE t.pattern # << >>
  <2>1. /\ Tail(t.pattern) \in Seq(Char) /\ t.pattern[1] \in Char
        /\ a # 0 => After(t.pattern, args[a].var) \in Seq(Char) /\ args[a].exp \in Seq(Char)
    BY <1>1, <1>3, PatternGoesOn
  <2>2. CASE a = 0
    <3>1. Replace(t, args) = [pattern |-> Tail(t.pattern), text |-> Append(t.text, t.pattern[1])]
      BY <1>3, <2>2 DEF Replace
    <3> DEFINE c == t.pattern[1]
    <3>2. c \in Char /\ u \in Seq(Char)
      BY <1>1, <2>1
    <3> HIDE DEF c, u
    <3>3. Append(u, c) \in Seq(Char) /\ Append(u, c) = Cat(u, <<c>>)
      BY <3>2, AppendProperties, AppendIsConcat DEF Cat
    <3> QED
      BY <1>3, <2>1, <2>2, <3>1, <3>3 DEF Replacing, c, u
  <2>3. CASE a # 0
    <3>1. Replace(t, args) = [pattern |-> After(t.pattern, args[a].var), text |-> Cat(t.text, args[a].exp)]
      BY <1>3, <2>3 DEF Replace, Cat
    <3> DEFINE e == args[a].exp
    <3>2. e \in Seq(Char)
      BY <2>1, <2>3
    <3>3. u \in Seq(Char)
      BY <1>1
    <3> HIDE DEF e, u
    <3>4. Cat(u, e) \in Seq(Char)
      BY <3>2, <3>3, CatIs
    <3> QED
      BY <1>3, <2>1, <2>3, <3>1, <3>4 DEF Replacing, e, u
  <2> QED
    BY <2>2, <2>3
<1> QED
  BY <1>2, <1>3

\* What fmtsub() has in its buffer, turn by turn.
LEMMA FmtBufLoop ==
  ASSUME NEW args \in Table, NEW pattern \in Seq(Char)
  PROVE  \E f : /\ f[0] = [pattern |-> pattern, buf |-> << >>] /\ \A n \in 1 .. Len(pattern) : f[n] = Substitute(f[n - 1], args)
               /\ (\A n \in 0 .. Len(pattern) : f[n] \in Filling)
               /\ FmtBuf(pattern, args) = f[Len(pattern)].buf
<1> DEFINE W == [n \in 0 .. Len(pattern) |-> Filling]
           Turned(t, n) == Substitute(t, args)
           D == [vn \in Filling \X (1 .. Len(pattern)) |-> Turned(vn[1], vn[2])]
           Is(f) == f = [n \in 0 .. Len(pattern) |-> IF n = 0 THEN [pattern |-> pattern, buf |-> << >>] ELSE Turned(f[n - 1], n)]
           turns == CHOOSE f : Is(f)
<1>1. Len(pattern) \in Nat
  BY LenProperties
<1>2. [pattern |-> pattern, buf |-> << >>] \in Filling
  BY EmptySeq DEF Filling
<1>3. ASSUME NEW n \in 1 .. Len(pattern), NEW t \in Filling PROVE Turned(t, n) \in Filling
  BY <1>3, SubstituteIs
<1>9. FmtBuf(pattern, args) = turns[Len(pattern)].buf
  BY DEF FmtBuf
<1> HIDE DEF Turned
<1>4. Leads(Len(pattern), W, [pattern |-> pattern, buf |-> << >>], D)
  BY <1>1, <1>2, <1>3 DEF Leads
<1> HIDE DEF W, D
<1>5. PICK f : IsLoop(f, Len(pattern), [pattern |-> pattern, buf |-> << >>], D)
  BY <1>1, <1>4, LoopExists
<1>6. \A n \in 0 .. Len(pattern) : f[n] \in W[n]
  BY <1>1, <1>4, <1>5, LoopStates
<1>7. Is(f)
  <2>1. \A n \in 1 .. Len(pattern) : f[n - 1] \in Filling
    BY <1>1, <1>6 DEF W
  <2>2. \A n \in 1 .. Len(pattern) : D[<<f[n - 1], n>>] = Turned(f[n - 1], n)
    BY <2>1 DEF D
  <2>3. \A n \in 0 .. Len(pattern) : (IF n = 0 THEN [pattern |-> pattern, buf |-> << >>] ELSE D[<<f[n - 1], n>>])
                              = (IF n = 0 THEN [pattern |-> pattern, buf |-> << >>] ELSE Turned(f[n - 1], n))
    BY <1>1, <2>2
  <2>4. f = [n \in 0 .. Len(pattern) |-> IF n = 0 THEN [pattern |-> pattern, buf |-> << >>] ELSE D[<<f[n - 1], n>>]]
    BY <1>5 DEF IsLoop
  <2> QED
    BY <2>3, <2>4, Zenon
<1>8. Is(turns)
  <2> HIDE DEF Is
  <2> QED
    BY <1>7
<1> HIDE DEF turns
<1>10. turns[0] = [pattern |-> pattern, buf |-> << >>] /\ \A n \in 1 .. Len(pattern) : turns[n] = Turned(turns[n - 1], n)
  BY <1>1, <1>8
<1>11. \A n \in 0 .. Len(pattern) : turns[n] \in Filling
  <2>1. turns[0] \in W[0]
    BY <1>1, <1>2, <1>10 DEF W
  <2>2. \A n \in 1 .. Len(pattern) : turns[n - 1] \in W[n - 1] => turns[n] \in W[n]
    BY <1>1, <1>3, <1>10 DEF W
  <2>3. \A n \in 0 .. Len(pattern) : turns[n] \in W[n]
    BY <1>1, <2>1, <2>2, LoopInvariant
  <2> QED
    BY <2>3 DEF W
<1>12. \A n \in 1 .. Len(pattern) : turns[n] = Substitute(turns[n - 1], args)
  BY <1>10 DEF Turned
<1> QED
  BY <1>9, <1>10, <1>11, <1>12

\* The same with a buffer that has no end.
LEMMA SubstitutedLoop ==
  ASSUME NEW args \in Table, NEW pattern \in Seq(Char)
  PROVE  \E f : /\ f[0] = [pattern |-> pattern, text |-> << >>] /\ \A n \in 1 .. Len(pattern) : f[n] = Replace(f[n - 1], args)
               /\ (\A n \in 0 .. Len(pattern) : f[n] \in Replacing)
               /\ Substituted(pattern, args) = f[Len(pattern)].text
<1> DEFINE W == [n \in 0 .. Len(pattern) |-> Replacing]
           Turned(t, n) == Replace(t, args)
           D == [vn \in Replacing \X (1 .. Len(pattern)) |-> Turned(vn[1], vn[2])]
           Is(f) == f = [n \in 0 .. Len(pattern) |-> IF n = 0 THEN [pattern |-> pattern, text |-> << >>] ELSE Turned(f[n - 1], n)]
           turns == CHOOSE f : Is(f)
<1>1. Len(pattern) \in Nat
  BY LenProperties
<1>2. [pattern |-> pattern, text |-> << >>] \in Replacing
  BY EmptySeq DEF Replacing
<1>3. ASSUME NEW n \in 1 .. Len(pattern), NEW t \in Replacing PROVE Turned(t, n) \in Replacing
  BY <1>3, ReplaceIs
<1>9. Substituted(pattern, args) = turns[Len(pattern)].text
  BY DEF Substituted
<1> HIDE DEF Turned
<1>4. Leads(Len(pattern), W, [pattern |-> pattern, text |-> << >>], D)
  BY <1>1, <1>2, <1>3 DEF Leads
<1> HIDE DEF W, D
<1>5. PICK f : IsLoop(f, Len(pattern), [pattern |-> pattern, text |-> << >>], D)
  BY <1>1, <1>4, LoopExists
<1>6. \A n \in 0 .. Len(pattern) : f[n] \in W[n]
  BY <1>1, <1>4, <1>5, LoopStates
<1>7. Is(f)
  <2>1. \A n \in 1 .. Len(pattern) : f[n - 1] \in Replacing
    BY <1>1, <1>6 DEF W
  <2>2. \A n \in 1 .. Len(pattern) : D[<<f[n - 1], n>>] = Turned(f[n - 1], n)
    BY <2>1 DEF D
  <2>3. \A n \in 0 .. Len(pattern) : (IF n = 0 THEN [pattern |-> pattern, text |-> << >>] ELSE D[<<f[n - 1], n>>])
                              = (IF n = 0 THEN [pattern |-> pattern, text |-> << >>] ELSE Turned(f[n - 1], n))
    BY <1>1, <2>2
  <2>4. f = [n \in 0 .. Len(pattern) |-> IF n = 0 THEN [pattern |-> pattern, text |-> << >>] ELSE D[<<f[n - 1], n>>]]
    BY <1>5 DEF IsLoop
  <2> QED
    BY <2>3, <2>4, Zenon
<1>8. Is(turns)
  <2> HIDE DEF Is
  <2> QED
    BY <1>7
<1> HIDE DEF turns
<1>10. turns[0] = [pattern |-> pattern, text |-> << >>] /\ \A n \in 1 .. Len(pattern) : turns[n] = Turned(turns[n - 1], n)
  BY <1>1, <1>8
<1>11. \A n \in 0 .. Len(pattern) : turns[n] \in Replacing
  <2>1. turns[0] \in W[0]
    BY <1>1, <1>2, <1>10 DEF W
  <2>2. \A n \in 1 .. Len(pattern) : turns[n - 1] \in W[n - 1] => turns[n] \in W[n]
    BY <1>1, <1>3, <1>10 DEF W
  <2>3. \A n \in 0 .. Len(pattern) : turns[n] \in W[n]
    BY <1>1, <2>1, <2>2, LoopInvariant
  <2> QED
    BY <2>3 DEF W
<1>12. \A n \in 1 .. Len(pattern) : turns[n] = Replace(turns[n - 1], args)
  BY <1>10 DEF Turned
<1> QED
  BY <1>9, <1>10, <1>11, <1>12

-----------------------------------------------------------------------------
(* fmtsub()                                                                 *)

\* As long as there is room both have the same; afterwards the buffer has what fits.
Alike(t, u) ==
  t.buf = Limited(u.text, BufSize - 1) /\ (Len(u.text) < BufSize - 1 => t.pattern = u.pattern)

LEMMA AlikeStays ==
  ASSUME NEW args \in Table, NEW t \in Filling, NEW u \in Replacing, Alike(t, u)
  PROVE  Alike(Substitute(t, args), Replace(u, args))
<1> DEFINE B == BufSize - 1
           s == u.text
           t2 == Substitute(t, args)
           u2 == Replace(u, args)
           a == Match(args, u.pattern)
           e == IF a = 0 THEN <<u.pattern[1]>> ELSE args[a].exp
           m == IF B < Len(s) THEN B ELSE Len(s)
<1>1. B \in Nat
  BY TextAssumption
<1>2. s \in Seq(Char) /\ u.pattern \in Seq(Char)
  BY DEF Replacing
<1>3. Len(s) \in Nat
  BY <1>2, LenProperties
<1>4. t.buf = Span(s, 0, m) /\ m \in 0 .. Len(s)
  <2>1. t.buf = Limited(s, B)
    BY DEF Alike
  <2> HIDE DEF s, B
  <2>2. m \in 0 .. Len(s) /\ Limited(s, B) = Span(s, 0, m)
    BY <1>1, <1>2, LimitedIs
  <2> QED
    BY <2>1, <2>2
<1>5. Len(t.buf) = m
  <2> HIDE DEF s, m
  <2>1. 0 \in 0 .. m
    BY <1>4
  <2>2. Len(Span(s, 0, m)) = m - 0
    BY <1>2, <1>4, <2>1, SpanIs
  <2> QED
    BY <1>4, <2>2
<1>6. u.pattern # << >> => e \in Seq(Char)
  <2> SUFFICES ASSUME u.pattern # << >> PROVE e \in Seq(Char)
    OBVIOUS
  <2>1. u.pattern[1] \in Char /\ (a # 0 => args[a].exp \in Seq(Char))
    BY <1>2, PatternGoesOn
  <2> QED
    BY <2>1
<1>7. u2 = IF u.pattern = << >> THEN u
           ELSE [pattern |-> IF a = 0 THEN Tail(u.pattern) ELSE After(u.pattern, args[a].var), text |-> Cat(s, e)]
  BY ReplaceIs
<1>8. CASE u.pattern = << >>
  <2>1. u2 = u
    BY <1>7, <1>8
  <2>2. t2 = t
    <3>1. CASE Len(s) < B
      BY <1>8, <3>1, SubstituteIs DEF Alike
    <3>2. CASE ~(Len(s) < B)
      <4>1. Len(t.buf) >= B
        BY <1>1, <1>3, <1>5, <3>2
      <4> QED
        BY <4>1, SubstituteIs
    <3> QED
      BY <3>1, <3>2
  <2> QED
    BY <2>1, <2>2
<1>9. CASE u.pattern # << >>
  <2> DEFINE v == Cat(s, e)
  <2>1. u2.text = v /\ u2.pattern = IF a = 0 THEN Tail(u.pattern) ELSE After(u.pattern, args[a].var)
    BY <1>7, <1>9
  <2>2. e \in Seq(Char)
    BY <1>6, <1>9
  <2> HIDE DEF e, u2
  <2>3. v \in Seq(Char) /\ Len(v) = Len(s) + Len(e) /\ Len(e) \in Nat
    <3> HIDE DEF s
    <3> QED
      BY <1>2, <2>2, CatSpans, LenProperties
  <2>4. Limited(v, B) = IF B <= Len(s) THEN Limited(s, B) ELSE Cat(s, Limited(e, B - Len(s)))
    <3> HIDE DEF s, B
    <3> QED
      BY <1>1, <1>2, <2>2, LimitedCat
  <2> HIDE DEF v
  <2>5. CASE B <= Len(s)
    <3>1. t2 = t
      <4>1. Len(t.buf) >= B
        BY <1>1, <1>3, <1>5, <2>5
      <4> QED
        BY <4>1, SubstituteIs
    <3>2. ~(Len(v) < B)
      BY <1>1, <1>3, <2>3, <2>5
    <3> QED
      <4>1. t2.buf = Limited(u2.text, B) /\ ~(Len(u2.text) < B)
        BY <2>1, <2>4, <2>5, <3>1, <3>2 DEF Alike
      <4> HIDE DEF t2
      <4>2. Alike(t2, u2)
        BY <4>1 DEF Alike
      <4> QED
        BY <4>2 DEF t2, u2
  <2>6. CASE ~(B <= Len(s))
    <3>1. t.pattern = u.pattern
      BY <1>1, <1>3, <2>6 DEF Alike
    <3>2. t.buf = s
      <4>1. m = Len(s)
        BY <1>1, <1>3, <2>6
      <4> HIDE DEF m, s
      <4>2. Span(s, 0, Len(s)) = s
        BY <1>2, SpanWhole
      <4> QED
        BY <1>4, <4>1, <4>2
    <3>3. Len(t.buf) < B /\ B - Len(s) = BufSize - Len(t.buf) - 1
      BY <1>1, <1>3, <2>6, <3>2, TextAssumption
    <3> DEFINE k == B - Len(s)
    <3>4. t2 = IF a = 0 THEN [pattern |-> Tail(u.pattern), buf |-> Cat(s, <<u.pattern[1]>>)]
               ELSE [pattern |-> After(u.pattern, args[a].var), buf |-> Cat(s, Limited(args[a].exp, k))]
      <4>1. ~(t.pattern = << >> \/ Len(t.buf) >= B)
        BY <1>1, <1>3, <1>9, <3>1, <3>2, <3>3
      <4> QED
        BY <3>1, <3>2, <3>3, <4>1, SubstituteIs
    <3>5. t2.pattern = u2.pattern
      BY <2>1, <3>4
    <3>6. t2.buf = Cat(s, Limited(e, k))
      <4>1. CASE a # 0
        BY <3>4, <4>1 DEF e
      <4>2. CASE a = 0
        <5>1. e = <<u.pattern[1]>>
          BY <4>2 DEF e
        <5>2. Len(e) = 1
          BY <5>1
        <5>3. k \in Nat \ {0}
          BY <1>1, <1>3, <2>6
        <5> HIDE DEF k
        <5>4. (IF k < Len(e) THEN k ELSE Len(e)) = Len(e)
          BY <5>2, <5>3
        <5>5. Limited(e, k) = Span(e, 0, Len(e))
          BY <2>2, <5>3, <5>4, LimitedIs
        <5>6. Span(e, 0, Len(e)) = e
          BY <2>2, SpanWhole
        <5> QED
          BY <3>4, <4>2, <5>1, <5>5, <5>6
      <4> QED
        BY <4>1, <4>2
    <3> QED
      <4>1. t2.buf = Limited(u2.text, B)
        BY <2>1, <2>4, <2>6, <3>6
      <4> HIDE DEF t2
      <4>2. Alike(t2, u2)
        BY <3>5, <4>1 DEF Alike
      <4> QED
        BY <4>2 DEF t2, u2
  <2> QED
    BY <2>5, <2>6
<1> QED
  BY <1>8, <1>9

\* The buffer has as much as fits of what should be in it, and nothing else.
LEMMA FmtBufIs ==
  ASSUME NEW args \in Table, NEW pattern \in Seq(Char)
  PROVE  /\ FmtBuf(pattern, args) = Limited(Substituted(pattern, args), BufSize - 1)
         /\ Substituted(pattern, args) \in Seq(Char)
         /\ pattern = << >> => Substituted(pattern, args) = << >>
<1> DEFINE N == Len(pattern)
<1>1. N \in Nat
  BY LenProperties
<1>2. PICK f : /\ f[0] = [pattern |-> pattern, buf |-> << >>] /\ \A n \in 1 .. N : f[n] = Substitute(f[n - 1], args)
               /\ (\A n \in 0 .. N : f[n] \in Filling)
               /\ FmtBuf(pattern, args) = f[N].buf
  BY FmtBufLoop
<1>3. PICK g : /\ g[0] = [pattern |-> pattern, text |-> << >>] /\ \A n \in 1 .. N : g[n] = Replace(g[n - 1], args)
               /\ (\A n \in 0 .. N : g[n] \in Replacing)
               /\ Substituted(pattern, args) = g[N].text
  BY SubstitutedLoop
<1> DEFINE W == [n \in 0 .. N |-> {t \in Filling : Alike(t, g[n])}]
<1>4. f[0] \in W[0]
  <2> DEFINE z == g[0].text
             m == IF BufSize - 1 < Len(z) THEN BufSize - 1 ELSE Len(z)
  <2>1. z = << >> /\ f[0].buf = << >> /\ f[0].pattern = g[0].pattern
    BY <1>2, <1>3
  <2>2. z \in Seq(Char) /\ Len(z) = 0 /\ BufSize - 1 \in Nat
    BY <2>1, EmptySeq, TextAssumption
  <2>3. m = 0
    BY <2>2
  <2> HIDE DEF z
  <2>4. Limited(z, BufSize - 1) = Span(z, 0, m)
    BY <2>2, LimitedIs
  <2>5. Span(z, 0, 0) = << >>
    <3>1. 0 \in 0 .. Len(z)
      BY <2>2
    <3> QED
      BY <2>2, <3>1, SpanEmpty
  <2>6. Alike(f[0], g[0])
    BY <2>1, <2>3, <2>4, <2>5 DEF Alike, z
  <2> QED
    BY <1>1, <1>2, <2>6
<1>5. ASSUME NEW n \in 1 .. N, f[n - 1] \in W[n - 1] PROVE f[n] \in W[n]
  <2>1. n - 1 \in 0 .. N /\ n \in 0 .. N
    BY <1>1
  <2>2. f[n - 1] \in Filling /\ Alike(f[n - 1], g[n - 1]) /\ g[n - 1] \in Replacing
    BY <1>3, <1>5, <2>1
  <2>3. Alike(Substitute(f[n - 1], args), Replace(g[n - 1], args))
    BY <2>2, AlikeStays
  <2>4. f[n] \in Filling /\ Alike(f[n], g[n])
    BY <1>2, <1>3, <2>1, <2>3
  <2> QED
    BY <2>1, <2>4
<1>6. \A n \in 0 .. N : f[n] \in W[n]
  <2> HIDE DEF W
  <2> QED
    BY <1>1, <1>4, <1>5, LoopInvariant
<1>7. Alike(f[N], g[N]) /\ g[N].text \in Seq(Char)
  BY <1>1, <1>3, <1>6 DEF Replacing
<1>8. ASSUME pattern = << >> PROVE g[N].text = << >>
  <2>1. N = 0
    BY <1>8, EmptySeq
  <2> QED
    BY <1>3, <2>1
<1> QED
  BY <1>2, <1>3, <1>7, <1>8 DEF Alike

\* dest of any size.
LEMMA SubstitutedIs ==
  ASSUME NEW args \in Table, NEW pattern \in Seq(Char), NEW dest \in Seq(Nat), dest # << >>
  PROVE  SubstitutedRight(pattern, args, dest)
<1> DEFINE full == Substituted(pattern, args)
           buf == FmtBuf(pattern, args)
           got == Fmtsub(dest, pattern, args)
           size == Len(dest)
           B == BufSize - 1
           n == Lesser(Len(full), Lesser(size - 1, B))
           k == IF B < Len(full) THEN B ELSE Len(full)
<1>1. size \in Nat \ {0} /\ DOMAIN dest = 1 .. size
  BY EmptySeq, LenProperties
<1>2. full \in Seq(Char) /\ buf = Limited(full, B) /\ (pattern = << >> => full = << >>)
  BY FmtBufIs
<1>3. B \in Nat
  BY TextAssumption
<1>4. got = IF pattern = << >> THEN [dest EXCEPT ![1] = 0]
            ELSE [i \in DOMAIN dest |->
                    IF i = size THEN dest[i] ELSE IF i <= Len(buf) THEN buf[i] ELSE 0]
  BY DEF Fmtsub
<1> HIDE DEF full, buf, got
<1>5. Len(full) \in Nat /\ k \in 0 .. Len(full) /\ buf = Span(full, 0, k)
  BY <1>2, <1>3, LimitedIs, LenProperties
<1>6. buf \in Seq(Char) /\ Len(buf) = k /\ \A i \in 1 .. k : buf[i] = full[i]
  <2> HIDE DEF k
  <2>1. 0 \in 0 .. k
    BY <1>5
  <2>2. Span(full, 0, k) \in Seq(Char) /\ Len(Span(full, 0, k)) = k - 0 /\ \A i \in 1 .. k - 0 : Span(full, 0, k)[i] = full[0 + i]
    BY <1>2, <1>5, <2>1, SpanIs
  <2> QED
    BY <1>5, <2>2
<1>7. \A i \in 1 .. size : dest[i] \in Nat
  BY ElementOfSeq
<1>8. \A i \in 1 .. k : buf[i] \in Char
  BY <1>6, ElementOfSeq
<1>9. \A i \in 1 .. size :
        got[i] = IF pattern = << >> THEN IF i = 1 THEN 0 ELSE dest[i]
                 ELSE IF i = size THEN dest[i] ELSE IF i <= k THEN buf[i] ELSE 0
  BY <1>1, <1>4, <1>6
<1>10. got \in Seq(Nat) /\ Len(got) = size
  <2>1. ASSUME NEW i \in 1 .. size PROVE got[i] \in Nat
    <3>1. got[i] \in {0, dest[i]} \/ (i <= k /\ got[i] = buf[i])
      BY <1>9
    <3>2. CASE got[i] \in {0, dest[i]}
      BY <1>7, <3>2
    <3>3. CASE i <= k /\ got[i] = buf[i]
      <4>1. i \in 1 .. k
        BY <1>5, <3>3
      <4> QED
        BY <1>8, <3>3, <4>1 DEF Char
    <3> QED
      BY <3>1, <3>2, <3>3
  <2>2. DOMAIN got = 1 .. size /\ got = [i \in DOMAIN got |-> got[i]]
    BY <1>1, <1>4
  <2>3. got \in [1 .. size -> Nat]
    BY <2>1, <2>2
  <2>6. size \in Nat
    BY <1>1
  <2> HIDE DEF got, size
  <2>4. got \in Seq(Nat)
    BY <2>3, <2>6, SeqDef
  <2>5. Len(got) \in Nat /\ DOMAIN got = 1 .. Len(got)
    BY <2>4, LenProperties
  <2> QED
    BY <2>2, <2>4, <2>5, <2>6
<1>11. /\ n \in Nat /\ n <= size - 1 /\ n <= k /\ n <= Len(full)
       /\ n < size - 1 => n = k
       /\ k \in Nat
  BY <1>1, <1>3, <1>5 DEF Lesser
<1>12. pattern = << >> => n = 0
  <2> SUFFICES ASSUME pattern = << >> PROVE n = 0
    OBVIOUS
  <2>1. Len(full) = 0
    BY <1>2, EmptySeq
  <2> QED
    BY <1>11, <2>1
<1> HIDE DEF n, k
<1>23. size \in Nat \ {0} /\ n <= size - 1 /\ (n < size - 1 => n = k)
  BY <1>1, <1>11
<1> HIDE DEF size, B
<1>13. \A i \in 1 .. n : got[i] = full[i] /\ got[i] # 0
  <2> SUFFICES ASSUME NEW i \in 1 .. n PROVE got[i] = full[i] /\ got[i] # 0
    OBVIOUS
  <2>1. i \in 1 .. size /\ i # size /\ i \in 1 .. k /\ pattern # << >>
    BY <1>11, <1>12, <1>23
  <2>2. got[i] = buf[i] /\ buf[i] = full[i] /\ buf[i] \in Char
    BY <1>5, <1>6, <1>8, <1>9, <2>1
  <2> QED
    BY <2>2 DEF Char
<1>14. Limited(got, n) = Span(got, 0, n) /\ Limited(full, n) = Span(full, 0, n)
  <2>1. (IF n < Len(got) THEN n ELSE Len(got)) = n
    BY <1>10, <1>11, <1>23
  <2>2. (IF n < Len(full) THEN n ELSE Len(full)) = n
    BY <1>5, <1>11
  <2>3. Limited(got, n) = Span(got, 0, n)
    BY <1>10, <1>11, <2>1, LimitedIs
  <2>4. Limited(full, n) = Span(full, 0, n)
    BY <1>2, <1>11, <2>2, LimitedIs
  <2> QED
    BY <2>3, <2>4
<1>15. full \in Seq(Nat)
  BY <1>2, CharsAreNumbers
<1> DEFINE x == Span(got, 0, n)
           y == Span(full, 0, n)
<1>16. n \in 0 .. Len(got) /\ n \in 0 .. Len(full) /\ 0 \in 0 .. n
  BY <1>5, <1>10, <1>11, <1>23
<1>17. x \in Seq(Nat) /\ Len(x) = n - 0 /\ \A i \in 1 .. n - 0 : x[i] = got[0 + i]
  BY <1>10, <1>16, SpanIs
<1>18. y \in Seq(Nat) /\ Len(y) = n - 0 /\ \A i \in 1 .. n - 0 : y[i] = full[0 + i]
  BY <1>15, <1>16, SpanIs
<1> HIDE DEF x, y
<1>19. y \in Seq(Nat) /\ Len(y) = n /\ \A i \in 1 .. n : y[i] = full[i]
  BY <1>11, <1>18
<1>20. x = y
  <2>1. Len(x) = Len(y)
    BY <1>17, <1>18
  <2>2. \A i \in 1 .. Len(x) : x[i] = y[i]
    <3>1. Len(x) = n /\ \A i \in 1 .. n : x[i] = got[i]
      BY <1>11, <1>17
    <3> QED
      BY <1>13, <1>19, <3>1
  <2> QED
    BY <1>17, <1>19, <2>1, <2>2, SeqEqual
<1>21. n < size - 1 => String(got) = y
  <2> SUFFICES ASSUME n < size - 1 PROVE String(got) = y
    OBVIOUS
  <2> DEFINE z == Until(got, {0})
  <2>1. /\ z \in Seq(Nat) /\ Begins(got, z) /\ \A i \in 1 .. Len(z) : z[i] \notin {0}
        /\ Len(z) < Len(got) => got[Len(z) + 1] \in {0}
    BY <1>10, UntilIs
  <2> HIDE DEF z
  <2>2. Len(z) \in Nat /\ Len(z) <= size /\ \A i \in 1 .. Len(z) : z[i] = got[i] /\ got[i] # 0
    BY <1>10, <2>1, LenProperties DEF Begins
  <2>3. got[n + 1] = 0
    <3>1. n + 1 \in 1 .. size /\ n + 1 # size /\ ~(n + 1 <= k) /\ n = k
      BY <1>11, <1>23
    <3>2. pattern = << >> => n + 1 = 1
      BY <1>12
    <3> QED
      BY <1>9, <3>1, <3>2
  <2>4. Len(z) <= n
    <3> SUFFICES ASSUME Len(z) > n PROVE FALSE
      BY <1>11, <2>2
    <3>1. n + 1 \in 1 .. Len(z)
      BY <1>11, <2>2
    <3> QED
      BY <2>2, <2>3, <3>1
  <2>5. Len(z) >= n
    <3> SUFFICES ASSUME Len(z) < n PROVE FALSE
      BY <1>11, <2>2
    <3>1. Len(z) + 1 \in 1 .. n /\ Len(z) < Len(got)
      BY <1>10, <1>11, <1>23, <2>2
    <3> QED
      BY <1>13, <2>1, <3>1
  <2>6. Len(z) = n
    BY <1>11, <2>2, <2>4, <2>5
  <2>7. z = y
    <3>1. \A i \in 1 .. Len(z) : z[i] = y[i]
      BY <1>13, <1>19, <2>2, <2>6
    <3> QED
      BY <1>19, <2>1, <2>6, <3>1, SeqEqual
  <2> QED
    BY <2>7 DEF String, z
<1>22. pattern # << >> => got[size] = dest[size]
  BY <1>9, <1>23
<1> QED
  BY <1>14, <1>20, <1>21, <1>22 DEF SubstitutedRight, full, got, n, x, y, size, B

-----------------------------------------------------------------------------
(* read_lines_from_stdin()                                                  *)

LEMMA BeginsSpan ==
  ASSUME NEW E, NEW s \in Seq(E), NEW t \in Seq(E), Begins(s, t)
  PROVE  Len(t) \in 0 .. Len(s) /\ t = Span(s, 0, Len(t))
<1> DEFINE n == Len(t)
           u == Span(s, 0, n)
<1>1. n \in 0 .. Len(s) /\ 0 \in 0 .. n
  BY LenProperties DEF Begins
<1>2. u \in Seq(E) /\ Len(u) = n - 0 /\ \A i \in 1 .. n - 0 : u[i] = s[0 + i]
  BY <1>1, SpanIs
<1> HIDE DEF u
<1>3. Len(u) = n /\ \A i \in 1 .. n : t[i] = u[i]
  BY <1>1, <1>2 DEF Begins
<1>4. t = u
  BY <1>2, <1>3, SeqEqual
<1> QED
  BY <1>1, <1>4 DEF u

\* The start of what is behind the first k characters, and what is behind that.
LEMMA StartOfSpan ==
  ASSUME NEW E, NEW s \in Seq(E), NEW k \in 0 .. Len(s), NEW t \in Seq(E), Begins(Span(s, k, Len(s)), t)
  PROVE  /\ k + Len(t) \in k .. Len(s)
         /\ t = Span(s, k, k + Len(t))
         /\ After(Span(s, k, Len(s)), t) = Span(s, k + Len(t), Len(s))
<1> DEFINE u == Span(s, k, Len(s))
           n == Len(t)
           j == k + n
<1>1. Len(s) \in Nat /\ Len(s) \in 0 .. Len(s) /\ k \in 0 .. Len(s)
  BY LenProperties
<1>2. u \in Seq(E) /\ Len(u) = Len(s) - k
  BY <1>1, SpanIs
<1> HIDE DEF u
<1>3. n \in 0 .. Len(u) /\ t = Span(u, 0, n)
  BY <1>2, BeginsSpan DEF u
<1>4. n \in 0 .. Len(s) - k /\ 0 \in 0 .. n /\ j \in k .. Len(s) /\ j \in 0 .. Len(s) /\ k \in 0 .. j /\ n = j - k
  BY <1>1, <1>2, <1>3
<1>5. Span(u, 0, n) = Span(s, k + 0, k + n)
  <2> HIDE DEF n
  <2> QED
    BY <1>1, <1>4, SpanSpan DEF u
<1>6. k + 0 = k
  OBVIOUS
<1> HIDE DEF j
<1>7. After(u, t) = Span(s, j, Len(s))
  BY <1>4, AfterSpan DEF u
<1> QED
  BY <1>3, <1>4, <1>5, <1>6, <1>7 DEF u, j

\* A line is taken off, with its end if it has one.
LEMMA LineTaken ==
  ASSUME NEW s \in Seq(Char), NEW k \in 0 .. Len(s) - 1, NEW l
  PROVE  \E j \in k + 1 .. Len(s) :
           TakeLine([text |-> Span(s, k, Len(s)), lines |-> l])
             = [text |-> Span(s, j, Len(s)), lines |-> Append(l, Span(s, k, j))]
<1> DEFINE u == Span(s, k, Len(s))
           line == Until(u, {NewLine})
           whole == IF line = u THEN line ELSE Append(line, NewLine)
           t == [text |-> u, lines |-> l]
<1>1. Len(s) \in Nat /\ Len(s) \in 0 .. Len(s) /\ k \in 0 .. Len(s)
  BY LenProperties
<1>2. u \in Seq(Char) /\ Len(u) = Len(s) - k
  BY <1>1, SpanIs
<1>3. u # << >>
  BY <1>1, <1>2, EmptySeq
<1>4. TakeLine(t) = [text |-> After(u, whole), lines |-> Append(l, whole)]
  BY <1>3 DEF TakeLine
<1> HIDE DEF u
<1>5. /\ line \in Seq(Char) /\ Begins(u, line)
      /\ Len(line) < Len(u) => u[Len(line) + 1] \in {NewLine}
  BY <1>2, UntilIs
<1> HIDE DEF line
<1>6. Len(line) \in Nat /\ Len(line) <= Len(u) /\ \A i \in 1 .. Len(line) : line[i] = u[i]
  BY <1>5, LenProperties DEF Begins
<1>7. whole \in Seq(Char) /\ Begins(u, whole) /\ Len(whole) > 0
  <2>1. CASE line = u
    BY <1>1, <1>2, <1>5, <2>1
  <2>2. CASE line # u
    <3> DEFINE w == Append(line, NewLine)
    <3>1. NewLine \in Char
      BY DEF NewLine, Char
    <3>2. w \in Seq(Char) /\ Len(w) = Len(line) + 1 /\ w[Len(line) + 1] = NewLine /\ \A i \in 1 .. Len(line) : w[i] = line[i]
      BY <1>5, <3>1, AppendProperties
    <3> HIDE DEF w
    <3>3. Len(line) < Len(u)
      <4>1. Len(line) = Len(u) => line = u
        BY <1>2, <1>5, <1>6, SeqEqual
      <4> QED
        BY <1>1, <1>2, <1>6, <2>2, <4>1
    <3>4. ASSUME NEW i \in 1 .. Len(w) PROVE w[i] = u[i]
      <4>1. CASE i \in 1 .. Len(line)
        BY <1>6, <3>2, <4>1
      <4>2. CASE i = Len(line) + 1
        BY <1>5, <3>2, <3>3, <4>2
      <4> QED
        BY <1>6, <3>2, <4>1, <4>2
    <3>5. Len(w) <= Len(u) /\ Len(w) > 0
      BY <1>1, <1>2, <1>6, <3>2, <3>3
    <3>6. Begins(u, w)
      BY <3>4, <3>5 DEF Begins
    <3>7. whole = w
      BY <2>2 DEF w
    <3> QED
      BY <3>2, <3>5, <3>6, <3>7
  <2> QED
    BY <2>1, <2>2
<1> HIDE DEF whole
<1> DEFINE j == k + Len(whole)
<1>8. j \in k .. Len(s) /\ whole = Span(s, k, j) /\ After(u, whole) = Span(s, j, Len(s))
  BY <1>1, <1>7, StartOfSpan DEF u
<1>9. j \in k + 1 .. Len(s)
  BY <1>7, <1>8, LenProperties
<1> HIDE DEF j
<1>10. TakeLine(t) = [text |-> Span(s, j, Len(s)), lines |-> Append(l, Span(s, k, j))]
  BY <1>4, <1>8
<1> QED
  BY <1>9, <1>10 DEF u

LEMMA TakeLineIs == ASSUME NEW t \in Lining PROVE TakeLine(t) \in Lining
<1> DEFINE s == t.text
           l == t.lines
<1>1. t = [text |-> s, lines |-> l] /\ s \in Seq(Char) /\ l \in Seq(Seq(Char))
  BY DEF Lining
<1>2. CASE s = << >>
  BY <1>2 DEF TakeLine
<1>3. CASE s # << >>
  <2> HIDE DEF s, l
  <2>1. Len(s) \in Nat \ {0}
    BY <1>1, <1>3, EmptySeq
  <2>2. 0 \in 0 .. Len(s) - 1
    BY <2>1
  <2>3. Span(s, 0, Len(s)) = s
    BY <1>1, SpanWhole
  <2>4. PICK j \in 0 + 1 .. Len(s) :
           TakeLine([text |-> Span(s, 0, Len(s)), lines |-> l])
             = [text |-> Span(s, j, Len(s)), lines |-> Append(l, Span(s, 0, j))]
    BY <1>1, <2>2, LineTaken
  <2>5. j \in 0 .. Len(s) /\ Len(s) \in 0 .. Len(s) /\ 0 \in 0 .. j
    BY <2>1
  <2>6. Span(s, j, Len(s)) \in Seq(Char) /\ Span(s, 0, j) \in Seq(Char)
    BY <1>1, <2>5, SpanIs
  <2> DEFINE x == Span(s, 0, j)
  <2>7. Append(l, x) \in Seq(Seq(Char))
    <3> HIDE DEF x
    <3> QED
      BY <1>1, <2>6, AppendProperties DEF x
  <2>8. TakeLine(t) = [text |-> Span(s, j, Len(s)), lines |-> Append(l, x)]
    <3>1. TakeLine([text |-> s, lines |-> l]) = [text |-> Span(s, j, Len(s)), lines |-> Append(l, x)]
      BY <2>3, <2>4
    <3> QED
      BY <1>1, <3>1
  <2> HIDE DEF x
  <2>9. [text |-> Span(s, j, Len(s)), lines |-> Append(l, x)] \in Lining
    <3> DEFINE y == Append(l, x)
               z == Span(s, j, Len(s))
    <3>1. y \in Seq(Seq(Char)) /\ z \in Seq(Char)
      BY <2>6, <2>7
    <3> HIDE DEF y, z
    <3>2. [text |-> z, lines |-> y] \in Lining
      BY <3>1 DEF Lining
    <3> QED
      BY <3>2 DEF y, z
  <2> QED
    BY <2>8, <2>9
<1> QED
  BY <1>2, <1>3

\* The lines of a text, one by one.
LEMMA LinesLoop ==
  ASSUME NEW text \in Seq(Char)
  PROVE  \E f : /\ f[0] = [text |-> text, lines |-> << >>] /\ \A n \in 1 .. Len(text) : f[n] = TakeLine(f[n - 1])
               /\ (\A n \in 0 .. Len(text) : f[n] \in Lining)
               /\ LinesOf(text) = f[Len(text)].lines
<1> DEFINE W == [n \in 0 .. Len(text) |-> Lining]
           Turned(t, n) == TakeLine(t)
           D == [vn \in Lining \X (1 .. Len(text)) |-> Turned(vn[1], vn[2])]
           Is(f) == f = [n \in 0 .. Len(text) |-> IF n = 0 THEN [text |-> text, lines |-> << >>] ELSE Turned(f[n - 1], n)]
           turns == CHOOSE f : Is(f)
<1>1. Len(text) \in Nat
  BY LenProperties
<1>2. [text |-> text, lines |-> << >>] \in Lining
  BY EmptySeq DEF Lining
<1>3. ASSUME NEW n \in 1 .. Len(text), NEW t \in Lining PROVE Turned(t, n) \in Lining
  BY <1>3, TakeLineIs
<1>9. LinesOf(text) = turns[Len(text)].lines
  BY DEF LinesOf
<1> HIDE DEF Turned
<1>4. Leads(Len(text), W, [text |-> text, lines |-> << >>], D)
  BY <1>1, <1>2, <1>3 DEF Leads
<1> HIDE DEF W, D
<1>5. PICK f : IsLoop(f, Len(text), [text |-> text, lines |-> << >>], D)
  BY <1>1, <1>4, LoopExists
<1>6. \A n \in 0 .. Len(text) : f[n] \in W[n]
  BY <1>1, <1>4, <1>5, LoopStates
<1>7. Is(f)
  <2>1. \A n \in 1 .. Len(text) : f[n - 1] \in Lining
    BY <1>1, <1>6 DEF W
  <2>2. \A n \in 1 .. Len(text) : D[<<f[n - 1], n>>] = Turned(f[n - 1], n)
    BY <2>1 DEF D
  <2>3. \A n \in 0 .. Len(text) : (IF n = 0 THEN [text |-> text, lines |-> << >>] ELSE D[<<f[n - 1], n>>])
                              = (IF n = 0 THEN [text |-> text, lines |-> << >>] ELSE Turned(f[n - 1], n))
    BY <1>1, <2>2
  <2>4. f = [n \in 0 .. Len(text) |-> IF n = 0 THEN [text |-> text, lines |-> << >>] ELSE D[<<f[n - 1], n>>]]
    BY <1>5 DEF IsLoop
  <2> QED
    BY <2>3, <2>4, Zenon
<1>8. Is(turns)
  <2> HIDE DEF Is
  <2> QED
    BY <1>7
<1> HIDE DEF turns
<1>10. turns[0] = [text |-> text, lines |-> << >>] /\ \A n \in 1 .. Len(text) : turns[n] = Turned(turns[n - 1], n)
  BY <1>1, <1>8
<1>11. \A n \in 0 .. Len(text) : turns[n] \in Lining
  <2>1. turns[0] \in W[0]
    BY <1>1, <1>2, <1>10 DEF W
  <2>2. \A n \in 1 .. Len(text) : turns[n - 1] \in W[n - 1] => turns[n] \in W[n]
    BY <1>1, <1>3, <1>10 DEF W
  <2>3. \A n \in 0 .. Len(text) : turns[n] \in W[n]
    BY <1>1, <2>1, <2>2, LoopInvariant
  <2> QED
    BY <2>3 DEF W
<1>12. \A n \in 1 .. Len(text) : turns[n] = TakeLine(turns[n - 1])
  BY <1>10 DEF Turned
<1> QED
  BY <1>9, <1>10, <1>11, <1>12

\* Line by line: the i-th ends with the e[i]-th character, the last one with the k-th.
Ends(s, lines, k, e) ==
  /\ e \in [0 .. Len(lines) -> 0 .. Len(s)] /\ e[0] = 0 /\ e[Len(lines)] = k
  /\ \A i \in 1 .. Len(lines) : e[i - 1] <= e[i] /\ lines[i] = Span(s, e[i - 1], e[i])
LinedUp(s, t, n) ==
  \E k \in 0 .. Len(s) : /\ k >= n \/ k = Len(s)
                         /\ t.text = Span(s, k, Len(s)) /\ \E e : Ends(s, t.lines, k, e)

LEMMA EndsMore ==
  ASSUME NEW s \in Seq(Char), NEW l \in Seq(Seq(Char)), NEW k \in 0 .. Len(s), NEW e, Ends(s, l, k, e),
         NEW j \in k .. Len(s)
  PROVE  \E f : Ends(s, Append(l, Span(s, k, j)), j, f)
<1> DEFINE m == Len(l)
           x == Span(s, k, j)
           l2 == Append(l, x)
           f == [i \in 0 .. m + 1 |-> IF i = m + 1 THEN j ELSE e[i]]
<1>1. m \in Nat /\ Len(s) \in Nat /\ j \in 0 .. Len(s) /\ k \in 0 .. j
  BY LenProperties
<1>2. x \in Seq(Char)
  BY <1>1, SpanIs
<1> HIDE DEF x
<1>3. l2 \in Seq(Seq(Char)) /\ Len(l2) = m + 1 /\ l2[m + 1] = x /\ \A i \in 1 .. m : l2[i] = l[i]
  BY <1>2, AppendProperties
<1> HIDE DEF l2, m
<1>4. e \in [0 .. m -> 0 .. Len(s)] /\ e[0] = 0 /\ e[m] = k
      /\ \A i \in 1 .. m : e[i - 1] <= e[i] /\ l[i] = Span(s, e[i - 1], e[i])
  BY DEF Ends, m
<1>5. f \in [0 .. m + 1 -> 0 .. Len(s)] /\ f[0] = 0 /\ f[m + 1] = j /\ f[m] = k
  BY <1>1, <1>4
<1>6. ASSUME NEW i \in 1 .. m + 1 PROVE f[i - 1] <= f[i] /\ l2[i] = Span(s, f[i - 1], f[i])
  <2>1. CASE i = m + 1
    <3>1. i - 1 = m
      BY <1>1, <2>1
    <3> QED
      BY <1>1, <1>3, <1>5, <2>1, <3>1 DEF x
  <2>2. CASE i # m + 1
    <3>1. i \in 1 .. m /\ i - 1 \in 0 .. m /\ i - 1 # m + 1 /\ i \in 0 .. m + 1 /\ i - 1 \in 0 .. m + 1
      BY <1>1, <2>2
    <3>2. f[i] = e[i] /\ f[i - 1] = e[i - 1]
      BY <2>2, <3>1
    <3> HIDE DEF f
    <3> QED
      BY <1>3, <1>4, <3>1, <3>2
  <2> QED
    BY <2>1, <2>2
<1> HIDE DEF f
<1>7. Ends(s, l2, j, f)
  BY <1>3, <1>5, <1>6 DEF Ends
<1> QED
  BY <1>7 DEF l2, x

LEMMA LinedUpStays ==
  ASSUME NEW s \in Seq(Char), NEW n \in 1 .. Len(s), NEW t \in Lining, LinedUp(s, t, n - 1)
  PROVE  LinedUp(s, TakeLine(t), n)
<1> DEFINE l == t.lines
<1>1. PICK k \in 0 .. Len(s) : /\ k >= n - 1 \/ k = Len(s)
                               /\ t.text = Span(s, k, Len(s)) /\ \E e : Ends(s, l, k, e)
  BY DEF LinedUp
<1>2. PICK e : Ends(s, l, k, e)
  BY <1>1
<1>3. Len(s) \in Nat /\ l \in Seq(Seq(Char)) /\ t = [text |-> t.text, lines |-> l]
  BY LenProperties DEF Lining
<1>4. CASE k = Len(s)
  <2>1. Len(s) \in 0 .. Len(s)
    BY <1>3
  <2>2. t.text = << >>
    BY <1>1, <1>4, <2>1, SpanEmpty
  <2>3. TakeLine(t) = t
    BY <2>2 DEF TakeLine
  <2> QED
    BY <1>1, <1>4, <2>3 DEF LinedUp
<1>5. CASE k # Len(s)
  <2> HIDE DEF l
  <2>1. k \in 0 .. Len(s) - 1
    BY <1>3, <1>5
  <2>2. PICK j \in k + 1 .. Len(s) :
           TakeLine([text |-> Span(s, k, Len(s)), lines |-> l])
             = [text |-> Span(s, j, Len(s)), lines |-> Append(l, Span(s, k, j))]
    BY <2>1, LineTaken, ZenonT(60)
  <2> DEFINE t2 == TakeLine(t)
  <2>3. t2 = [text |-> Span(s, j, Len(s)), lines |-> Append(l, Span(s, k, j))]
    BY <1>1, <1>3, <2>2
  <2> HIDE DEF t2
  <2>4. t2.text = Span(s, j, Len(s)) /\ t2.lines = Append(l, Span(s, k, j))
    BY <2>3
  <2>5. j \in k .. Len(s) /\ j \in 0 .. Len(s) /\ (j >= n \/ j = Len(s))
    BY <1>1, <1>3, <1>5, <2>1
  <2>6. \E f : Ends(s, t2.lines, j, f)
    BY <1>2, <1>3, <2>4, <2>5, EndsMore
  <2>7. LinedUp(s, t2, n)
    BY <2>4, <2>5, <2>6 DEF LinedUp
  <2> QED
    BY <2>7 DEF t2
<1> QED
  BY <1>4, <1>5

\* The lines of a text are all of it.
LEMMA LinesAre ==
  ASSUME NEW s \in Seq(Char)
  PROVE  LinesOf(s) \in Seq(Seq(Char)) /\ \E e : Ends(s, LinesOf(s), Len(s), e)
<1> DEFINE N == Len(s)
<1>1. N \in Nat
  BY LenProperties
<1>2. PICK f : /\ f[0] = [text |-> s, lines |-> << >>] /\ \A n \in 1 .. N : f[n] = TakeLine(f[n - 1])
               /\ (\A n \in 0 .. N : f[n] \in Lining)
               /\ LinesOf(s) = f[N].lines
  BY LinesLoop
<1> DEFINE W == [n \in 0 .. N |-> {t \in Lining : LinedUp(s, t, n)}]
<1>3. f[0] \in W[0]
  <2> DEFINE l == f[0].lines
             e == [i \in 0 .. 0 |-> 0]
  <2>1. f[0].text = s /\ l = << >> /\ Len(l) = 0
    BY <1>2
  <2>2. Span(s, 0, N) = s
    BY SpanWhole
  <2> HIDE DEF l
  <2>3. Ends(s, l, 0, e)
    BY <1>1, <2>1 DEF Ends
  <2>4. LinedUp(s, f[0], 0)
    BY <1>1, <2>1, <2>2, <2>3 DEF LinedUp, l
  <2> QED
    BY <1>1, <1>2, <2>4
<1>4. ASSUME NEW n \in 1 .. N, f[n - 1] \in W[n - 1] PROVE f[n] \in W[n]
  <2>1. n - 1 \in 0 .. N /\ n \in 0 .. N
    BY <1>1
  <2>2. f[n - 1] \in Lining /\ LinedUp(s, f[n - 1], n - 1)
    BY <1>4, <2>1
  <2>3. LinedUp(s, TakeLine(f[n - 1]), n)
    BY <2>2, LinedUpStays
  <2> QED
    BY <1>2, <2>1, <2>3
<1>5. \A n \in 0 .. N : f[n] \in W[n]
  <2> HIDE DEF W
  <2> QED
    BY <1>1, <1>3, <1>4, LoopInvariant
<1>6. N \in 0 .. N
  BY <1>1
<1>7. f[N] \in Lining /\ LinedUp(s, f[N], N)
  BY <1>5, <1>6
<1>8. PICK k \in 0 .. Len(s) : (k >= N \/ k = Len(s)) /\ \E e : Ends(s, f[N].lines, k, e)
  BY <1>7 DEF LinedUp
<1>9. k = Len(s)
  BY <1>1, <1>8
<1> QED
  BY <1>2, <1>7, <1>8, <1>9 DEF Lining

LEMMA ReadLineIs ==
  ASSUME NEW t \in Reading, NEW line \in Seq(Char)
  PROVE  /\ ReadLine(t, line) \in Reading
         /\ t.remaining > 0 => ReadLine(t, line) = [dst |-> Cat(t.dst, Limited(line, t.remaining)),
                                                    remaining |-> t.remaining - Len(line)]
         /\ t.remaining <= 0 => ReadLine(t, line) = t
<1> DEFINE r == t.remaining
           l == Limited(line, r)
           d == Cat(t.dst, l)
           x == [dst |-> d, remaining |-> r - Len(line)]
<1>1. r \in Int /\ t.dst \in Seq(Char) /\ Len(line) \in Nat
  BY LenProperties DEF Reading
<1>2. CASE r <= 0
  <2>1. ReadLine(t, line) = t
    BY <1>2 DEF ReadLine
  <2>2. ~(r > 0)
    BY <1>1, <1>2
  <2> QED
    BY <2>1, <2>2
<1>3. CASE ~(r <= 0)
  <2>1. r \in Nat
    BY <1>1, <1>3
  <2> DEFINE m == IF r < Len(line) THEN r ELSE Len(line)
  <2>2. m \in 0 .. Len(line) /\ l = Span(line, 0, m)
    <3> HIDE DEF r
    <3> QED
      BY <2>1, LimitedIs
  <2> HIDE DEF m
  <2>3. 0 \in 0 .. m
    BY <2>2
  <2>4. Span(line, 0, m) \in Seq(Char)
    BY <2>2, <2>3, SpanIs
  <2>5. l \in Seq(Char)
    BY <2>2, <2>4
  <2> HIDE DEF l
  <2>6. d \in Seq(Char)
    BY <1>1, <2>5, CatIs
  <2>7. ReadLine(t, line) = x
    BY <1>3 DEF ReadLine, Cat, l
  <2> HIDE DEF d, r
  <2>8. r - Len(line) \in Int
    BY <1>1
  <2>9. x \in Reading
    BY <2>6, <2>8 DEF Reading
  <2>10. r > 0
    BY <1>1, <1>3
  <2> QED
    BY <1>3, <2>7, <2>9, <2>10 DEF d, l, r
<1>4. ~(r > 0) \/ ~(r <= 0)
  BY <1>1
<1> QED
  BY <1>2, <1>3, <1>4

\* The lines are read, one by one.
LEMMA ReadLinesLoop ==
  ASSUME NEW lines \in Seq(Seq(Char)), NEW size \in Nat
  PROVE  \E f : /\ f[0] = [dst |-> << >>, remaining |-> size - 1] /\ \A n \in 1 .. Len(lines) : f[n] = ReadLine(f[n - 1], lines[n])
               /\ (\A n \in 0 .. Len(lines) : f[n] \in Reading)
               /\ ReadLinesFromStdin(lines, size) = Chomp(f[Len(lines)].dst)
<1> DEFINE W == [n \in 0 .. Len(lines) |-> Reading]
           Turned(t, n) == ReadLine(t, lines[n])
           D == [vn \in Reading \X (1 .. Len(lines)) |-> Turned(vn[1], vn[2])]
           Is(f) == f = [n \in 0 .. Len(lines) |-> IF n = 0 THEN [dst |-> << >>, remaining |-> size - 1] ELSE Turned(f[n - 1], n)]
           turns == CHOOSE f : Is(f)
<1>1. Len(lines) \in Nat
  BY LenProperties
<1>2. [dst |-> << >>, remaining |-> size - 1] \in Reading
  BY EmptySeq DEF Reading
<1>3. ASSUME NEW n \in 1 .. Len(lines), NEW t \in Reading PROVE Turned(t, n) \in Reading
  BY <1>3, ReadLineIs, ElementOfSeq
<1>9. ReadLinesFromStdin(lines, size) = Chomp(turns[Len(lines)].dst)
  BY DEF ReadLinesFromStdin
<1> HIDE DEF Turned
<1>4. Leads(Len(lines), W, [dst |-> << >>, remaining |-> size - 1], D)
  BY <1>1, <1>2, <1>3 DEF Leads
<1> HIDE DEF W, D
<1>5. PICK f : IsLoop(f, Len(lines), [dst |-> << >>, remaining |-> size - 1], D)
  BY <1>1, <1>4, LoopExists
<1>6. \A n \in 0 .. Len(lines) : f[n] \in W[n]
  BY <1>1, <1>4, <1>5, LoopStates
<1>7. Is(f)
  <2>1. \A n \in 1 .. Len(lines) : f[n - 1] \in Reading
    BY <1>1, <1>6 DEF W
  <2>2. \A n \in 1 .. Len(lines) : D[<<f[n - 1], n>>] = Turned(f[n - 1], n)
    BY <2>1 DEF D
  <2>3. \A n \in 0 .. Len(lines) : (IF n = 0 THEN [dst |-> << >>, remaining |-> size - 1] ELSE D[<<f[n - 1], n>>])
                              = (IF n = 0 THEN [dst |-> << >>, remaining |-> size - 1] ELSE Turned(f[n - 1], n))
    BY <1>1, <2>2
  <2>4. f = [n \in 0 .. Len(lines) |-> IF n = 0 THEN [dst |-> << >>, remaining |-> size - 1] ELSE D[<<f[n - 1], n>>]]
    BY <1>5 DEF IsLoop
  <2> QED
    BY <2>3, <2>4, Zenon
<1>8. Is(turns)
  <2> HIDE DEF Is
  <2> QED
    BY <1>7
<1> HIDE DEF turns
<1>10. turns[0] = [dst |-> << >>, remaining |-> size - 1] /\ \A n \in 1 .. Len(lines) : turns[n] = Turned(turns[n - 1], n)
  <2> DEFINE c == [dst |-> << >>, remaining |-> size - 1]
  <2>1. turns = [n \in 0 .. Len(lines) |-> IF n = 0 THEN c ELSE Turned(turns[n - 1], n)]
    BY <1>8, Zenon
  <2> HIDE DEF c
  <2> DEFINE N == Len(lines)
  <2> HIDE DEF N
  <2>3. N \in Nat /\ turns = [n \in 0 .. N |-> IF n = 0 THEN c ELSE Turned(turns[n - 1], n)]
    BY <1>1, <2>1 DEF N
  <2>4. 0 \in 0 .. N
    BY <2>3
  <2>5. turns[0] = c
    BY <2>3, <2>4, Zenon
  <2>6. ASSUME NEW n \in 1 .. N PROVE turns[n] = Turned(turns[n - 1], n)
    <3>1. n \in 0 .. N /\ n # 0
      BY <2>3
    <3> QED
      BY <2>3, <3>1, Zenon
  <2>2. turns[0] = c /\ \A n \in 1 .. Len(lines) : turns[n] = Turned(turns[n - 1], n)
    BY <2>5, <2>6 DEF N
  <2> QED
    BY <2>2, Zenon DEF c
<1>11. \A n \in 0 .. Len(lines) : turns[n] \in Reading
  <2>1. turns[0] \in W[0]
    BY <1>1, <1>2, <1>10 DEF W
  <2>2. \A n \in 1 .. Len(lines) : turns[n - 1] \in W[n - 1] => turns[n] \in W[n]
    BY <1>1, <1>3, <1>10 DEF W
  <2>3. \A n \in 0 .. Len(lines) : turns[n] \in W[n]
    BY <1>1, <2>1, <2>2, LoopInvariant
  <2> QED
    BY <2>3 DEF W
<1>12. \A n \in 1 .. Len(lines) : turns[n] = ReadLine(turns[n - 1], lines[n])
  BY <1>10 DEF Turned
<1> QED
  BY <1>9, <1>10, <1>11, <1>12

\* The first k characters of s are read, as far as there is room for m.
ReadUpTo(s, m, k, t) ==
  \/ t.remaining > 0 /\ t.remaining = m - k /\ t.dst = Span(s, 0, k)
  \/ t.remaining <= 0 /\ m <= k /\ t.dst = Span(s, 0, m)

LEMMA ReadMore ==
  ASSUME NEW s \in Seq(Char), NEW b \in 0 .. Len(s), NEW a \in 0 .. b, NEW m \in Nat,
         NEW t \in Reading, ReadUpTo(s, m, a, t)
  PROVE  ReadUpTo(s, m, b, ReadLine(t, Span(s, a, b)))
<1> DEFINE line == Span(s, a, b)
           r == t.remaining
           u == ReadLine(t, line)
<1>1. Len(s) \in Nat /\ 0 \in 0 .. a /\ a \in 0 .. Len(s) /\ r \in Int
  BY LenProperties DEF Reading
<1>2. line \in Seq(Char) /\ Len(line) = b - a
  BY <1>1, SpanIs
<1> HIDE DEF line
<1>3. CASE r <= 0
  <2>1. u = t
    BY <1>2, <1>3, ReadLineIs
  <2>2. m <= a /\ t.dst = Span(s, 0, m)
    BY <1>1, <1>3 DEF ReadUpTo
  <2>3. m <= b
    BY <1>1, <2>2
  <2> HIDE DEF u
  <2> QED
    BY <1>3, <2>1, <2>2, <2>3 DEF ReadUpTo, u, line
<1>4. CASE ~(r <= 0)
  <2>1. r > 0 /\ r \in Nat
    BY <1>1, <1>4
  <2>2. r = m - a /\ t.dst = Span(s, 0, a)
    BY <1>4 DEF ReadUpTo
  <2>3. u = [dst |-> Cat(t.dst, Limited(line, r)), remaining |-> r - Len(line)]
    BY <1>2, <2>1, ReadLineIs
  <2> HIDE DEF u
  <2>4. u.dst = Cat(Span(s, 0, a), Limited(line, r)) /\ u.remaining = r - Len(line)
    BY <2>2, <2>3
  <2> HIDE DEF r
  <2>5. u.remaining = m - b
    BY <1>1, <1>2, <2>2, <2>4
  <2> DEFINE n == IF r < Len(line) THEN r ELSE Len(line)
  <2>6. n \in 0 .. Len(line) /\ Limited(line, r) = Span(line, 0, n)
    BY <1>2, <2>1, LimitedIs
  <2> HIDE DEF n
  <2>7. n \in 0 .. b - a /\ 0 \in 0 .. n
    BY <1>2, <2>6
  <2>8. Span(line, 0, n) = Span(s, a + 0, a + n)
    BY <2>7, SpanSpan DEF line
  <2> DEFINE j == a + n
  <2>9. a + 0 = a
    BY <1>1
  <2>10. Limited(line, r) = Span(s, a, j)
    BY <2>6, <2>8, <2>9
  <2>11. j \in 0 .. Len(s) /\ a \in 0 .. j
    BY <1>1, <2>7
  <2> HIDE DEF j
  <2>12. Cat(Span(s, 0, a), Span(s, a, j)) = Span(s, 0, j)
    BY <1>1, <2>11, SpanCat
  <2>13. u.dst = Span(s, 0, j)
    BY <2>4, <2>10, <2>12
  <2>14. CASE m <= b
    <3>1. n = r
      BY <1>1, <1>2, <2>1, <2>2, <2>14 DEF n
    <3>2. j = m
      BY <1>1, <2>2, <3>1 DEF j
    <3>3. u.remaining <= 0
      BY <2>5, <2>14
    <3> QED
      BY <2>13, <2>14, <3>2, <3>3 DEF ReadUpTo, u, line
  <2>15. CASE ~(m <= b)
    <3>1. n = Len(line)
      BY <1>1, <1>2, <2>1, <2>2, <2>15 DEF n
    <3>2. j = b
      BY <1>1, <1>2, <3>1 DEF j
    <3>3. u.remaining > 0
      BY <2>5, <2>15
    <3> QED
      BY <2>5, <2>13, <3>2, <3>3 DEF ReadUpTo, u, line
  <2> QED
    BY <2>14, <2>15
<1> QED
  BY <1>3, <1>4

\* The lines of a text are put together as they were, as far as there is room.
LEMMA LinesPutTogether == ASSUME NEW s \in Seq(Char), NEW size \in Nat \ {0} PROVE LinesRight(s, size)
<1> DEFINE lines == LinesOf(s)
           L == Len(lines)
           m == size - 1
<1>1. lines \in Seq(Seq(Char)) /\ \E e : Ends(s, lines, Len(s), e)
  BY LinesAre
<1> HIDE DEF lines
<1>2. L \in Nat /\ m \in Nat /\ Len(s) \in Nat /\ size \in Nat
  BY <1>1, LenProperties
<1>3. PICK e : Ends(s, lines, Len(s), e)
  BY <1>1
<1>4. e \in [0 .. L -> 0 .. Len(s)] /\ e[0] = 0 /\ e[L] = Len(s)
      /\ \A i \in 1 .. L : e[i - 1] <= e[i] /\ lines[i] = Span(s, e[i - 1], e[i])
  BY <1>3 DEF Ends
<1>5. PICK f : /\ f[0] = [dst |-> << >>, remaining |-> size - 1]
               /\ \A n \in 1 .. L : f[n] = ReadLine(f[n - 1], lines[n])
               /\ (\A n \in 0 .. L : f[n] \in Reading)
               /\ ReadLinesFromStdin(lines, size) = Chomp(f[L].dst)
  BY <1>1, <1>2, ReadLinesLoop
<1> HIDE DEF L
<1> DEFINE W == [n \in 0 .. L |-> {t \in Reading : ReadUpTo(s, m, e[n], t)}]
<1>6. f[0] \in W[0]
  <2>1. f[0].dst = << >> /\ f[0].remaining = m
    BY <1>5
  <2>2. 0 \in 0 .. Len(s)
    BY <1>2
  <2>3. Span(s, 0, 0) = << >>
    BY <2>2, SpanEmpty
  <2> HIDE DEF m
  <2>4. m - 0 = m /\ (m > 0 \/ (m = 0 /\ m <= 0))
    BY <1>2
  <2>5. ReadUpTo(s, m, 0, f[0])
    BY <2>1, <2>3, <2>4 DEF ReadUpTo
  <2> QED
    BY <1>2, <1>4, <1>5, <2>5 DEF m
<1> HIDE DEF m
<1>7. ASSUME NEW n \in 1 .. L, f[n - 1] \in W[n - 1] PROVE f[n] \in W[n]
  <2>1. n - 1 \in 0 .. L /\ n \in 0 .. L
    BY <1>2
  <2>2. f[n - 1] \in Reading /\ ReadUpTo(s, m, e[n - 1], f[n - 1])
    BY <1>7, <2>1
  <2> DEFINE a == e[n - 1]
             b == e[n]
  <2>3. b \in 0 .. Len(s) /\ a \in 0 .. b /\ lines[n] = Span(s, a, b)
    <3>1. a \in 0 .. Len(s) /\ b \in 0 .. Len(s) /\ a <= b /\ lines[n] = Span(s, a, b)
      BY <1>4, <2>1
    <3> QED
      BY <1>2, <3>1
  <2> DEFINE t == f[n - 1]
  <2>4. t \in Reading /\ ReadUpTo(s, m, a, t)
    BY <2>2
  <2>5. f[n] = ReadLine(t, Span(s, a, b))
    BY <1>5, <2>3
  <2> HIDE DEF a, b, t
  <2>6. ReadUpTo(s, m, b, ReadLine(t, Span(s, a, b)))
    BY <1>2, <2>3, <2>4, ReadMore
  <2>7. ReadUpTo(s, m, e[n], f[n])
    BY <2>5, <2>6 DEF b
  <2> QED
    BY <1>5, <2>1, <2>7
<1>8. \A n \in 0 .. L : f[n] \in W[n]
  <2> HIDE DEF W
  <2> QED
    BY <1>2, <1>6, <1>7, LoopInvariant
<1>9. f[L] \in Reading /\ ReadUpTo(s, m, Len(s), f[L])
  <2>1. L \in 0 .. L
    BY <1>2
  <2> QED
    BY <1>4, <1>8, <2>1
<1> DEFINE k == IF m < Len(s) THEN m ELSE Len(s)
<1>10. Limited(s, m) = Span(s, 0, k)
  BY <1>2, LimitedIs
<1>11. f[L].dst = Span(s, 0, k)
  <2>1. CASE f[L].remaining > 0
    <3>1. f[L].remaining \in Int
      BY <1>9 DEF Reading
    <3>2. f[L].remaining = m - Len(s) /\ f[L].dst = Span(s, 0, Len(s))
      BY <1>9, <2>1, <3>1 DEF ReadUpTo
    <3>3. k = Len(s)
      BY <1>2, <2>1, <3>2
    <3> HIDE DEF k
    <3> QED
      BY <3>2, <3>3
  <2>2. CASE ~(f[L].remaining > 0)
    <3>1. m <= Len(s) /\ f[L].dst = Span(s, 0, m)
      BY <1>9, <2>2 DEF ReadUpTo
    <3>2. k = m
      BY <1>2, <3>1
    <3> HIDE DEF k
    <3> QED
      BY <3>1, <3>2
  <2> QED
    BY <2>1, <2>2
<1> HIDE DEF k
<1>12. ReadLinesFromStdin(lines, size) = Chomp(Limited(s, m))
  BY <1>5, <1>10, <1>11
<1> QED
  BY <1>12 DEF LinesRight, lines, m

-----------------------------------------------------------------------------
(* split()                                                                  *)

LEMMA TailOfSpan ==
  ASSUME NEW E, NEW s \in Seq(E), NEW a \in 0 .. Len(s) - 1
  PROVE  Span(s, a, Len(s)) # << >> /\ Tail(Span(s, a, Len(s))) = Span(s, a + 1, Len(s))
<1> DEFINE u == Span(s, a, Len(s))
           v == Span(s, a + 1, Len(s))
           t == Tail(u)
           n == Len(s)
<1>1. n \in Nat
  BY LenProperties
<1>2. n \in 0 .. Len(s) /\ a \in 0 .. n /\ a + 1 \in 0 .. n
  BY <1>1
<1>3. u \in Seq(E) /\ Len(u) = n - a /\ \A i \in 1 .. n - a : u[i] = s[a + i]
  BY <1>2, SpanIs
<1>4. v \in Seq(E) /\ Len(v) = n - (a + 1) /\ \A i \in 1 .. n - (a + 1) : v[i] = s[(a + 1) + i]
  BY <1>2, SpanIs
<1> HIDE DEF u, v
<1>5. u # << >>
  BY <1>1, <1>3, EmptySeq
<1>6. t \in Seq(E) /\ Len(t) = Len(u) - 1 /\ \A i \in 1 .. Len(u) - 1 : t[i] = u[i + 1]
  BY <1>3, <1>5, HeadTailProperties
<1> HIDE DEF t
<1>7. Len(t) = Len(v)
  BY <1>1, <1>3, <1>4, <1>6
<1>8. ASSUME NEW i \in 1 .. Len(t) PROVE t[i] = v[i]
  <2>1. i \in 1 .. n - (a + 1) /\ i + 1 \in 1 .. n - a /\ i \in 1 .. Len(u) - 1 /\ a + (i + 1) = (a + 1) + i
    BY <1>1, <1>3, <1>6
  <2>2. t[i] = u[i + 1] /\ u[i + 1] = s[a + (i + 1)] /\ v[i] = s[(a + 1) + i]
    BY <1>3, <1>4, <1>6, <2>1
  <2> QED
    BY <2>1, <2>2
<1>9. t = v
  BY <1>4, <1>6, <1>7, <1>8, SeqEqual
<1> QED
  BY <1>5, <1>9 DEF t, u, v, n

\* An element is taken off: its first character, and what goes up to the next d.
LEMMA ElementTaken ==
  ASSUME NEW s \in Seq(Char), NEW k \in 0 .. Len(s) - 1, NEW l, NEW d
  PROVE  \E j \in k + 1 .. Len(s), n \in 0 .. Len(s) :
           /\ (j < Len(s) /\ n = j + 1 /\ s[j + 1] = d) \/ (j = Len(s) /\ n = j)
           /\ \A i \in 2 .. j - k : s[k + i] # d
           /\ SplitOff([buffer |-> Span(s, k, Len(s)), res |-> l], d)
                = [buffer |-> Span(s, n, Len(s)), res |-> Append(l, Span(s, k, j))]
<1> DEFINE u == Span(s, k, Len(s))
           rest == Tail(u)
           one == <<u[1]>>
           v == Until(rest, {d})
           e == Cat(one, v)
           t == [buffer |-> u, res |-> l]
           behind == After(u, e)
<1>1. Len(s) \in Nat /\ Len(s) \in 0 .. Len(s) /\ k \in 0 .. Len(s)
  BY LenProperties
<1>2. u \in Seq(Char) /\ Len(u) = Len(s) - k /\ \A i \in 1 .. Len(s) - k : u[i] = s[k + i]
  BY <1>1, SpanIs
<1>3. u # << >>
  BY <1>1, <1>2, EmptySeq
<1>4. SplitOff(t, d) = [buffer |-> IF behind = << >> THEN << >> ELSE Tail(behind), res |-> Append(l, e)]
  BY <1>3 DEF SplitOff, Cat
<1> HIDE DEF u
<1>5. one \in Seq(Char) /\ Len(one) = 1 /\ one[1] = u[1]
  <2>1. u[1] \in Char
    BY <1>1, <1>2, ElementOfSeq
  <2> QED
    BY <2>1
<1>6. rest \in Seq(Char) /\ Len(rest) = Len(u) - 1 /\ \A i \in 1 .. Len(u) - 1 : rest[i] = u[i + 1]
  BY <1>2, <1>3, HeadTailProperties
<1> HIDE DEF one, rest
<1>7. /\ v \in Seq(Char) /\ Begins(rest, v) /\ \A i \in 1 .. Len(v) : v[i] \notin {d}
      /\ Len(v) < Len(rest) => rest[Len(v) + 1] \in {d}
  BY <1>6, UntilIs
<1> HIDE DEF v
<1>8. Len(v) \in Nat /\ Len(v) <= Len(rest) /\ \A i \in 1 .. Len(v) : v[i] = rest[i]
  BY <1>7, LenProperties DEF Begins
<1>9. /\ e \in Seq(Char) /\ Len(e) = Len(one) + Len(v)
      /\ \A i \in 1 .. Len(one) + Len(v) : e[i] = IF i <= Len(one) THEN one[i] ELSE v[i - Len(one)]
  BY <1>5, <1>7, ConcatProperties DEF Cat
<1> HIDE DEF e
<1>10. Len(e) = 1 + Len(v) /\ Len(e) \in 1 .. Len(s) - k
  BY <1>1, <1>2, <1>5, <1>6, <1>8, <1>9
<1>11. e[1] = u[1]
  BY <1>5, <1>8, <1>9
<1>12. ASSUME NEW i \in 2 .. Len(e) PROVE e[i] = u[i] /\ u[i] # d
  <2>1. i - 1 \in 1 .. Len(v) /\ i - 1 \in 1 .. Len(u) - 1 /\ (i - 1) + 1 = i /\ i \in 1 .. Len(one) + Len(v)
        /\ ~(i <= Len(one)) /\ i - Len(one) = i - 1
    BY <1>5, <1>6, <1>8, <1>10
  <2>2. e[i] = v[i - 1]
    BY <1>9, <2>1
  <2>3. v[i - 1] = rest[i - 1] /\ rest[i - 1] = u[i] /\ v[i - 1] # d
    BY <1>6, <1>7, <1>8, <2>1
  <2> QED
    BY <2>2, <2>3
<1>13. Begins(u, e)
  <2>1. ASSUME NEW i \in 1 .. Len(e) PROVE e[i] = u[i]
    <3>1. i = 1 \/ i \in 2 .. Len(e)
      BY <1>10
    <3> QED
      BY <1>11, <1>12, <3>1
  <2>2. Len(e) <= Len(u)
    BY <1>2, <1>10
  <2> QED
    BY <2>1, <2>2 DEF Begins
<1> DEFINE j == k + Len(e)
<1>14. j \in k .. Len(s) /\ e = Span(s, k, j) /\ behind = Span(s, j, Len(s))
  <2>1. e \in Seq(Char) /\ Begins(Span(s, k, Len(s)), e)
    BY <1>9, <1>13 DEF u
  <2>2. /\ k + Len(e) \in k .. Len(s)
        /\ e = Span(s, k, k + Len(e))
        /\ After(Span(s, k, Len(s)), e) = Span(s, k + Len(e), Len(s))
    BY <1>1, <2>1, StartOfSpan
  <2> QED
    BY <2>2 DEF u
<1>15. j \in k + 1 .. Len(s) /\ j - k = Len(e) /\ j = k + 1 + Len(v)
  BY <1>1, <1>10
<1> HIDE DEF j, behind
<1>16. ASSUME NEW i \in 2 .. j - k PROVE s[k + i] # d
  <2>1. i \in 2 .. Len(e) /\ i \in 1 .. Len(s) - k
    BY <1>10, <1>15
  <2> QED
    BY <1>2, <1>12, <2>1
<1>17. ASSUME j < Len(s) PROVE s[j + 1] = d
  <2>1. Len(v) < Len(rest) /\ Len(v) + 1 \in 1 .. Len(u) - 1 /\ (Len(v) + 1) + 1 \in 1 .. Len(s) - k
        /\ k + ((Len(v) + 1) + 1) = j + 1
    BY <1>1, <1>2, <1>6, <1>8, <1>15, <1>17
  <2>2. rest[Len(v) + 1] = d /\ rest[Len(v) + 1] = u[(Len(v) + 1) + 1]
    BY <1>6, <1>7, <2>1
  <2>3. u[(Len(v) + 1) + 1] = s[j + 1]
    BY <1>2, <2>1
  <2> QED
    BY <2>2, <2>3
<1> DEFINE n == IF j < Len(s) THEN j + 1 ELSE j
           b == IF behind = << >> THEN << >> ELSE Tail(behind)
<1>18. b = Span(s, n, Len(s))
  <2>1. CASE j < Len(s)
    <3>1. j \in 0 .. Len(s) - 1
      BY <1>1, <1>15, <2>1
    <3>2. behind # << >> /\ Tail(behind) = Span(s, j + 1, Len(s))
      BY <1>14, <3>1, TailOfSpan
    <3> QED
      BY <2>1, <3>2
  <2>2. CASE ~(j < Len(s))
    <3>1. j = Len(s)
      BY <1>1, <1>15, <2>2
    <3>2. behind = << >>
      BY <1>1, <1>14, <3>1, SpanEmpty
    <3>3. Span(s, Len(s), Len(s)) = << >>
      BY <1>1, SpanEmpty
    <3> QED
      BY <2>2, <3>1, <3>2, <3>3
  <2> QED
    BY <2>1, <2>2
<1>19. SplitOff(t, d) = [buffer |-> b, res |-> Append(l, e)]
  BY <1>4 DEF behind
<1> HIDE DEF n, b
<1>20. SplitOff(t, d) = [buffer |-> Span(s, n, Len(s)), res |-> Append(l, Span(s, k, j))]
  BY <1>14, <1>18, <1>19
<1> QED
  <2>1. n \in 0 .. Len(s) /\ ((j < Len(s) /\ n = j + 1 /\ s[j + 1] = d) \/ (j = Len(s) /\ n = j))
    BY <1>1, <1>15, <1>17 DEF n
  <2>2. SplitOff([buffer |-> Span(s, k, Len(s)), res |-> l], d)
          = [buffer |-> Span(s, n, Len(s)), res |-> Append(l, Span(s, k, j))]
    BY <1>20 DEF u
  <2> QED
    BY <1>15, <1>16, <2>1, <2>2

LEMMA ElementOffIs ==
  ASSUME NEW s \in Seq(Char), NEW k \in 0 .. Len(s) - 1, NEW l \in Seq(Seq(Char)), NEW d
  PROVE  SplitOff([buffer |-> Span(s, k, Len(s)), res |-> l], d) \in Splitting
<1>1. PICK j \in k + 1 .. Len(s), n \in 0 .. Len(s) :
         /\ (j < Len(s) /\ n = j + 1 /\ s[j + 1] = d) \/ (j = Len(s) /\ n = j)
         /\ \A i \in 2 .. j - k : s[k + i] # d
         /\ SplitOff([buffer |-> Span(s, k, Len(s)), res |-> l], d)
              = [buffer |-> Span(s, n, Len(s)), res |-> Append(l, Span(s, k, j))]
  BY ElementTaken, ZenonT(60)
<1>2. j \in 0 .. Len(s) /\ Len(s) \in 0 .. Len(s) /\ k \in 0 .. j
  BY LenProperties
<1> DEFINE x == Span(s, k, j)
           z == Span(s, n, Len(s))
           y == Append(l, x)
<1>3. x \in Seq(Char) /\ z \in Seq(Char)
  BY <1>2, SpanIs
<1> HIDE DEF x, z
<1>4. y \in Seq(Seq(Char))
  BY <1>3, AppendProperties
<1> HIDE DEF y
<1>5. [buffer |-> z, res |-> y] \in Splitting
  BY <1>3, <1>4 DEF Splitting
<1> QED
  BY <1>1, <1>5 DEF x, y, z

LEMMA SplitOffIs == ASSUME NEW t \in Splitting, NEW d PROVE SplitOff(t, d) \in Splitting
<1> DEFINE s == t.buffer
           l == t.res
           k == 0
<1>1. t = [buffer |-> s, res |-> l] /\ s \in Seq(Char) /\ l \in Seq(Seq(Char))
  BY DEF Splitting
<1>2. CASE s = << >>
  BY <1>2 DEF SplitOff
<1>3. CASE s # << >>
  <2> HIDE DEF s, l
  <2>1. Len(s) \in Nat \ {0}
    BY <1>1, <1>3, EmptySeq
  <2>2. k \in 0 .. Len(s) - 1
    BY <2>1
  <2>3. Span(s, k, Len(s)) = s
    BY <1>1, SpanWhole
  <2> HIDE DEF k
  <2>4. SplitOff([buffer |-> Span(s, k, Len(s)), res |-> l], d) \in Splitting
    <3>1. s \in Seq(Char) /\ l \in Seq(Seq(Char))
      BY <1>1
    <3> QED
      BY <2>2, <3>1, ElementOffIs
  <2> QED
    BY <1>1, <2>3, <2>4
<1> QED
  BY <1>2, <1>3

\* The elements of a buffer, one by one.
LEMMA SplitLoop ==
  ASSUME NEW buffer \in Seq(Char), NEW d
  PROVE  \E f : /\ f[0] = [buffer |-> buffer, res |-> << >>] /\ \A n \in 1 .. Len(buffer) : f[n] = SplitOff(f[n - 1], d)
               /\ (\A n \in 0 .. Len(buffer) : f[n] \in Splitting)
               /\ Split(buffer, d) = f[Len(buffer)].res
<1> DEFINE W == [n \in 0 .. Len(buffer) |-> Splitting]
           Turned(t, n) == SplitOff(t, d)
           D == [vn \in Splitting \X (1 .. Len(buffer)) |-> Turned(vn[1], vn[2])]
           Is(f) == f = [n \in 0 .. Len(buffer) |-> IF n = 0 THEN [buffer |-> buffer, res |-> << >>] ELSE Turned(f[n - 1], n)]
           turns == CHOOSE f : Is(f)
<1>1. Len(buffer) \in Nat
  BY LenProperties
<1>2. [buffer |-> buffer, res |-> << >>] \in Splitting
  BY EmptySeq DEF Splitting
<1>3. ASSUME NEW n \in 1 .. Len(buffer), NEW t \in Splitting PROVE Turned(t, n) \in Splitting
  BY <1>3, SplitOffIs
<1>9. Split(buffer, d) = turns[Len(buffer)].res
  BY DEF Split
<1> HIDE DEF Turned
<1>4. Leads(Len(buffer), W, [buffer |-> buffer, res |-> << >>], D)
  BY <1>1, <1>2, <1>3 DEF Leads
<1> HIDE DEF W, D
<1>5. PICK f : IsLoop(f, Len(buffer), [buffer |-> buffer, res |-> << >>], D)
  BY <1>1, <1>4, LoopExists
<1>6. \A n \in 0 .. Len(buffer) : f[n] \in W[n]
  BY <1>1, <1>4, <1>5, LoopStates
<1>7. Is(f)
  <2>1. \A n \in 1 .. Len(buffer) : f[n - 1] \in Splitting
    BY <1>1, <1>6 DEF W
  <2>2. \A n \in 1 .. Len(buffer) : D[<<f[n - 1], n>>] = Turned(f[n - 1], n)
    BY <2>1 DEF D
  <2>3. \A n \in 0 .. Len(buffer) : (IF n = 0 THEN [buffer |-> buffer, res |-> << >>] ELSE D[<<f[n - 1], n>>])
                              = (IF n = 0 THEN [buffer |-> buffer, res |-> << >>] ELSE Turned(f[n - 1], n))
    BY <1>1, <2>2
  <2>4. f = [n \in 0 .. Len(buffer) |-> IF n = 0 THEN [buffer |-> buffer, res |-> << >>] ELSE D[<<f[n - 1], n>>]]
    BY <1>5 DEF IsLoop
  <2> QED
    BY <2>3, <2>4, Zenon
<1>8. Is(turns)
  <2> HIDE DEF Is
  <2> QED
    BY <1>7
<1> HIDE DEF turns
<1>10. turns[0] = [buffer |-> buffer, res |-> << >>] /\ \A n \in 1 .. Len(buffer) : turns[n] = Turned(turns[n - 1], n)
  BY <1>1, <1>8
<1>11. \A n \in 0 .. Len(buffer) : turns[n] \in Splitting
  <2>1. turns[0] \in W[0]
    BY <1>1, <1>2, <1>10 DEF W
  <2>2. \A n \in 1 .. Len(buffer) : turns[n - 1] \in W[n - 1] => turns[n] \in W[n]
    BY <1>1, <1>3, <1>10 DEF W
  <2>3. \A n \in 0 .. Len(buffer) : turns[n] \in W[n]
    BY <1>1, <2>1, <2>2, LoopInvariant
  <2> QED
    BY <2>3 DEF W
<1>12. \A n \in 1 .. Len(buffer) : turns[n] = SplitOff(turns[n - 1], d)
  BY <1>10 DEF Turned
<1> QED
  BY <1>9, <1>10, <1>11, <1>12

\* Element by element: the i-th ends before the b[i]-th character, which is a d if there is one;
\* what is left is behind the k-th.
Cuts(s, d, l, k, b) ==
  /\ b \in [0 .. Len(l) -> 0 .. Len(s) + 1] /\ b[0] = 0
  /\ k = b[Len(l)] \/ (k = Len(s) /\ b[Len(l)] = Len(s) + 1)
  /\ \A i \in 1 .. Len(l) :
       /\ b[i - 1] + 2 <= b[i] /\ l[i] = Span(s, b[i - 1], b[i] - 1)
       /\ b[i] <= Len(s) => s[b[i]] = d
       /\ \A j \in 2 .. (b[i] - 1) - b[i - 1] : s[b[i - 1] + j] # d
Apart(s, d, t, n) ==
  \E k \in 0 .. Len(s) : /\ k >= n \/ k = Len(s)
                         /\ t.buffer = Span(s, k, Len(s)) /\ \E b : Cuts(s, d, t.res, k, b)

LEMMA CutsMore ==
  ASSUME NEW s \in Seq(Char), NEW d, NEW l \in Seq(Seq(Char)), NEW k \in 0 .. Len(s) - 1, NEW b, Cuts(s, d, l, k, b),
         NEW j \in k + 1 .. Len(s), NEW n \in 0 .. Len(s),
         (j < Len(s) /\ n = j + 1 /\ s[j + 1] = d) \/ (j = Len(s) /\ n = j),
         \A i \in 2 .. j - k : s[k + i] # d
  PROVE  \E f : Cuts(s, d, Append(l, Span(s, k, j)), n, f)
<1> DEFINE m == Len(l)
           x == Span(s, k, j)
           l2 == Append(l, x)
           f == [i \in 0 .. m + 1 |-> IF i = m + 1 THEN j + 1 ELSE b[i]]
<1>1. m \in Nat /\ Len(s) \in Nat /\ j \in 0 .. Len(s) /\ k \in 0 .. j
  BY LenProperties
<1>2. x \in Seq(Char)
  BY <1>1, SpanIs
<1> HIDE DEF x
<1>3. l2 \in Seq(Seq(Char)) /\ Len(l2) = m + 1 /\ l2[m + 1] = x /\ \A i \in 1 .. m : l2[i] = l[i]
  BY <1>2, AppendProperties
<1> HIDE DEF l2, m
<1>4. b \in [0 .. m -> 0 .. Len(s) + 1] /\ b[0] = 0 /\ b[m] = k
      /\ \A i \in 1 .. m :
           /\ b[i - 1] + 2 <= b[i] /\ l[i] = Span(s, b[i - 1], b[i] - 1)
           /\ b[i] <= Len(s) => s[b[i]] = d
           /\ \A h \in 2 .. (b[i] - 1) - b[i - 1] : s[b[i - 1] + h] # d
  <2>1. k # Len(s)
    BY <1>1
  <2> QED
    BY <2>1 DEF Cuts, m
<1>5. f \in [0 .. m + 1 -> 0 .. Len(s) + 1] /\ f[0] = 0 /\ f[m + 1] = j + 1 /\ f[m] = k
  BY <1>1, <1>4
<1>6. ASSUME NEW i \in 1 .. m + 1
      PROVE  /\ f[i - 1] + 2 <= f[i] /\ l2[i] = Span(s, f[i - 1], f[i] - 1)
             /\ f[i] <= Len(s) => s[f[i]] = d
             /\ \A h \in 2 .. (f[i] - 1) - f[i - 1] : s[f[i - 1] + h] # d
  <2>1. CASE i = m + 1
    <3>1. i - 1 = m /\ (j + 1) - 1 = j
      BY <1>1, <2>1
    <3>2. f[i] = j + 1 /\ f[i - 1] = k
      BY <1>5, <2>1, <3>1
    <3> HIDE DEF f
    <3>3. f[i - 1] + 2 <= f[i]
      BY <1>1, <3>2
    <3>4. l2[i] = Span(s, f[i - 1], f[i] - 1)
      BY <1>3, <2>1, <3>1, <3>2 DEF x
    <3>5. f[i] <= Len(s) => s[f[i]] = d
      BY <1>1, <3>2
    <3>6. \A h \in 2 .. (f[i] - 1) - f[i - 1] : s[f[i - 1] + h] # d
      BY <1>1, <3>1, <3>2
    <3> QED
      BY <3>3, <3>4, <3>5, <3>6
  <2>2. CASE i # m + 1
    <3>1. i \in 1 .. m /\ i - 1 \in 0 .. m /\ i - 1 # m + 1 /\ i \in 0 .. m + 1 /\ i - 1 \in 0 .. m + 1
      BY <1>1, <2>2
    <3>2. f[i] = b[i] /\ f[i - 1] = b[i - 1]
      BY <2>2, <3>1
    <3> HIDE DEF f
    <3> QED
      BY <1>3, <1>4, <3>1, <3>2
  <2> QED
    BY <2>1, <2>2
<1> HIDE DEF f
<1>7. n = f[m + 1] \/ (n = Len(s) /\ f[m + 1] = Len(s) + 1)
  <2> DEFINE g == f[m + 1]
  <2>1. g = j + 1
    BY <1>5
  <2> HIDE DEF g
  <2>2. n = g \/ (n = Len(s) /\ g = Len(s) + 1)
    BY <2>1
  <2> QED
    BY <2>2 DEF g
<1>8. Cuts(s, d, l2, n, f)
  BY <1>3, <1>5, <1>6, <1>7 DEF Cuts
<1> QED
  BY <1>8 DEF l2, x

LEMMA ApartStays ==
  ASSUME NEW s \in Seq(Char), NEW d, NEW n \in 1 .. Len(s), NEW t \in Splitting, Apart(s, d, t, n - 1)
  PROVE  Apart(s, d, SplitOff(t, d), n)
<1> DEFINE l == t.res
<1>1. PICK k \in 0 .. Len(s) : /\ k >= n - 1 \/ k = Len(s)
                               /\ t.buffer = Span(s, k, Len(s)) /\ \E b : Cuts(s, d, l, k, b)
  BY DEF Apart
<1>2. PICK b : Cuts(s, d, l, k, b)
  BY <1>1
<1>3. Len(s) \in Nat /\ l \in Seq(Seq(Char)) /\ t = [buffer |-> t.buffer, res |-> l]
  BY LenProperties DEF Splitting
<1>4. CASE k = Len(s)
  <2>1. Len(s) \in 0 .. Len(s)
    BY <1>3
  <2>2. t.buffer = << >>
    BY <1>1, <1>4, <2>1, SpanEmpty
  <2>3. SplitOff(t, d) = t
    BY <2>2 DEF SplitOff
  <2> QED
    BY <1>1, <1>4, <2>3 DEF Apart
<1>5. CASE k # Len(s)
  <2> HIDE DEF l
  <2>1. k \in 0 .. Len(s) - 1
    BY <1>3, <1>5
  <2>2. PICK j \in k + 1 .. Len(s), m \in 0 .. Len(s) :
           /\ (j < Len(s) /\ m = j + 1 /\ s[j + 1] = d) \/ (j = Len(s) /\ m = j)
           /\ \A i \in 2 .. j - k : s[k + i] # d
           /\ SplitOff([buffer |-> Span(s, k, Len(s)), res |-> l], d)
                = [buffer |-> Span(s, m, Len(s)), res |-> Append(l, Span(s, k, j))]
    BY <2>1, ElementTaken, ZenonT(60)
  <2> DEFINE t2 == SplitOff(t, d)
  <2>3. m >= n \/ m = Len(s)
    BY <1>1, <1>3, <1>5, <2>1, <2>2
  <2>4. t2 = [buffer |-> Span(s, m, Len(s)), res |-> Append(l, Span(s, k, j))]
    BY <1>1, <1>3, <2>2
  <2> HIDE DEF t2
  <2>5. t2.buffer = Span(s, m, Len(s)) /\ t2.res = Append(l, Span(s, k, j))
    BY <2>4
  <2>7. \E f : Cuts(s, d, Append(l, Span(s, k, j)), m, f)
    BY <1>2, <1>3, <2>1, <2>2, CutsMore
  <2>8. Apart(s, d, t2, n)
    BY <2>3, <2>5, <2>7 DEF Apart
  <2> QED
    BY <2>8 DEF t2
<1> QED
  BY <1>4, <1>5

\* The elements of a string are all of it but one delimiter behind each.
LEMMA SplitIs ==
  ASSUME NEW s \in Seq(Char), NEW d
  PROVE  Split(s, d) \in Seq(Seq(Char)) /\ \E b : Cuts(s, d, Split(s, d), Len(s), b)
<1> DEFINE N == Len(s)
<1>1. N \in Nat
  BY LenProperties
<1>2. PICK f : /\ f[0] = [buffer |-> s, res |-> << >>] /\ \A n \in 1 .. N : f[n] = SplitOff(f[n - 1], d)
               /\ (\A n \in 0 .. N : f[n] \in Splitting)
               /\ Split(s, d) = f[N].res
  BY SplitLoop
<1> DEFINE W == [n \in 0 .. N |-> {t \in Splitting : Apart(s, d, t, n)}]
<1>3. f[0] \in W[0]
  <2> DEFINE l == f[0].res
             b == [i \in 0 .. 0 |-> 0]
  <2>1. f[0].buffer = s /\ l = << >> /\ Len(l) = 0
    BY <1>2
  <2>2. Span(s, 0, N) = s
    BY SpanWhole
  <2> HIDE DEF l
  <2>3. Cuts(s, d, l, 0, b)
    BY <1>1, <2>1 DEF Cuts
  <2>4. Apart(s, d, f[0], 0)
    BY <1>1, <2>1, <2>2, <2>3 DEF Apart, l
  <2> QED
    BY <1>1, <1>2, <2>4
<1>4. ASSUME NEW n \in 1 .. N, f[n - 1] \in W[n - 1] PROVE f[n] \in W[n]
  <2>1. n - 1 \in 0 .. N /\ n \in 0 .. N
    BY <1>1
  <2>2. f[n - 1] \in Splitting /\ Apart(s, d, f[n - 1], n - 1)
    BY <1>4, <2>1
  <2>3. Apart(s, d, SplitOff(f[n - 1], d), n)
    BY <2>2, ApartStays
  <2> QED
    BY <1>2, <2>1, <2>3
<1>5. \A n \in 0 .. N : f[n] \in W[n]
  <2> HIDE DEF W
  <2> QED
    BY <1>1, <1>3, <1>4, LoopInvariant
<1>6. N \in 0 .. N
  BY <1>1
<1>7. f[N] \in Splitting /\ Apart(s, d, f[N], N)
  BY <1>5, <1>6
<1>8. PICK k \in 0 .. Len(s) : (k >= N \/ k = Len(s)) /\ \E b : Cuts(s, d, f[N].res, k, b)
  BY <1>7 DEF Apart
<1>9. k = Len(s)
  BY <1>1, <1>8
<1> QED
  BY <1>2, <1>7, <1>8, <1>9 DEF Splitting

LEMMA OneSpan ==
  ASSUME NEW s \in Seq(Char), NEW a \in 1 .. Len(s) PROVE <<s[a]>> = Span(s, a - 1, a)
<1> DEFINE k == a - 1
           u == Span(s, k, a)
           v == <<s[a]>>
<1>1. Len(s) \in Nat /\ a \in 0 .. Len(s) /\ k \in 0 .. a /\ a - k = 1 /\ k + 1 = a
  BY LenProperties
<1>3. s[a] \in Char
  BY ElementOfSeq
<1>4. v \in Seq(Char) /\ Len(v) = 1 /\ v[1] = s[a]
  BY <1>3
<1> HIDE DEF k
<1>2. u \in Seq(Char) /\ Len(u) = a - k /\ \A i \in 1 .. a - k : u[i] = s[k + i]
  BY <1>1, SpanIs
<1> HIDE DEF u, v
<1>5. Len(u) = 1 /\ u[1] = s[a]
  BY <1>1, <1>2
<1>6. v = u
  <2>1. \A i \in 1 .. Len(v) : v[i] = u[i]
    BY <1>4, <1>5
  <2> QED
    BY <1>2, <1>4, <1>5, <2>1, SeqEqual
<1> QED
  BY <1>6 DEF u, v, k

JoinOn(t, d, x) == Cat(Cat(t, <<d>>), x)

LEMMA JoinOnIs ==
  ASSUME NEW t \in Seq(Char), NEW d \in Char, NEW x \in Seq(Char) PROVE JoinOn(t, d, x) \in Seq(Char)
<1>1. <<d>> \in Seq(Char)
  OBVIOUS
<1>2. Cat(t, <<d>>) \in Seq(Char)
  BY <1>1, CatIs
<1> QED
  BY <1>2, CatIs DEF JoinOn

LEMMA JoinOnSpans ==
  ASSUME NEW s \in Seq(Char), NEW c \in 0 .. Len(s), NEW a \in 1 .. c
  PROVE  JoinOn(Span(s, 0, a - 1), s[a], Span(s, a, c)) = Span(s, 0, c)
<1>1. Len(s) \in Nat /\ a \in 1 .. Len(s) /\ a \in 0 .. Len(s) /\ a - 1 \in 0 .. a /\ 0 \in 0 .. a - 1 /\ 0 \in 0 .. a
      /\ a \in 0 .. c
  BY LenProperties
<1>2. <<s[a]>> = Span(s, a - 1, a)
  BY <1>1, OneSpan
<1>3. Cat(Span(s, 0, a - 1), Span(s, a - 1, a)) = Span(s, 0, a)
  BY <1>1, SpanCat
<1>4. Cat(Span(s, 0, a), Span(s, a, c)) = Span(s, 0, c)
  BY <1>1, SpanCat
<1> QED
  BY <1>2, <1>3, <1>4 DEF JoinOn

\* The elements are joined, one by one.
LEMMA JoinedLoop ==
  ASSUME NEW elements \in Seq(Seq(Char)), NEW d \in Char
  PROVE  \E f : /\ f[0] = << >> /\ \A n \in 1 .. Len(elements) : f[n] = (IF n = 1 THEN elements[1] ELSE JoinOn(f[n - 1], d, elements[n]))
               /\ (\A n \in 0 .. Len(elements) : f[n] \in Seq(Char))
               /\ JoinedWith(elements, d) = f[Len(elements)]
<1> DEFINE W == [n \in 0 .. Len(elements) |-> Seq(Char)]
           Turned(t, n) == (IF n = 1 THEN elements[1] ELSE JoinOn(t, d, elements[n]))
           D == [vn \in Seq(Char) \X (1 .. Len(elements)) |-> Turned(vn[1], vn[2])]
           Is(f) == f = [n \in 0 .. Len(elements) |-> IF n = 0 THEN << >> ELSE Turned(f[n - 1], n)]
           turns == CHOOSE f : Is(f)
<1>1. Len(elements) \in Nat
  BY LenProperties
<1>2. << >> \in Seq(Char)
  BY EmptySeq
<1>3. ASSUME NEW n \in 1 .. Len(elements), NEW t \in Seq(Char) PROVE Turned(t, n) \in Seq(Char)
  <2>1. elements[n] \in Seq(Char)
    BY ElementOfSeq
  <2>2. JoinOn(t, d, elements[n]) \in Seq(Char)
    BY <1>3, <2>1, JoinOnIs
  <2> QED
    BY <2>1, <2>2
<1>9. JoinedWith(elements, d) = turns[Len(elements)]
  BY DEF JoinedWith, JoinOn, Cat
<1> HIDE DEF Turned
<1>4. Leads(Len(elements), W, << >>, D)
  BY <1>1, <1>2, <1>3 DEF Leads
<1> HIDE DEF W, D
<1>5. PICK f : IsLoop(f, Len(elements), << >>, D)
  BY <1>1, <1>4, LoopExists
<1>6. \A n \in 0 .. Len(elements) : f[n] \in W[n]
  BY <1>1, <1>4, <1>5, LoopStates
<1>7. Is(f)
  <2>1. \A n \in 1 .. Len(elements) : f[n - 1] \in Seq(Char)
    BY <1>1, <1>6 DEF W
  <2>2. \A n \in 1 .. Len(elements) : D[<<f[n - 1], n>>] = Turned(f[n - 1], n)
    BY <2>1 DEF D
  <2>3. \A n \in 0 .. Len(elements) : (IF n = 0 THEN << >> ELSE D[<<f[n - 1], n>>])
                              = (IF n = 0 THEN << >> ELSE Turned(f[n - 1], n))
    BY <1>1, <2>2
  <2>4. f = [n \in 0 .. Len(elements) |-> IF n = 0 THEN << >> ELSE D[<<f[n - 1], n>>]]
    BY <1>5 DEF IsLoop
  <2> QED
    BY <2>3, <2>4, Zenon
<1>8. Is(turns)
  <2> HIDE DEF Is
  <2> QED
    BY <1>7
<1> HIDE DEF turns
<1>10. turns[0] = << >> /\ \A n \in 1 .. Len(elements) : turns[n] = Turned(turns[n - 1], n)
  <2> DEFINE N == Len(elements)
  <2>1. N \in Nat /\ turns = [n \in 0 .. N |-> IF n = 0 THEN << >> ELSE Turned(turns[n - 1], n)]
    BY <1>1, <1>8
  <2> HIDE DEF N
  <2>2. 0 \in 0 .. N
    BY <2>1
  <2>3. turns[0] = << >>
    BY <2>1, <2>2, Zenon
  <2>4. ASSUME NEW n \in 1 .. N PROVE turns[n] = Turned(turns[n - 1], n)
    <3>1. n \in 0 .. N /\ n # 0
      BY <2>1
    <3> QED
      BY <2>1, <3>1, Zenon
  <2> QED
    BY <2>3, <2>4 DEF N
<1>11. \A n \in 0 .. Len(elements) : turns[n] \in Seq(Char)
  <2>1. turns[0] \in W[0]
    BY <1>1, <1>2, <1>10 DEF W
  <2>2. \A n \in 1 .. Len(elements) : turns[n - 1] \in W[n - 1] => turns[n] \in W[n]
    BY <1>1, <1>3, <1>10 DEF W
  <2>3. \A n \in 0 .. Len(elements) : turns[n] \in W[n]
    BY <1>1, <2>1, <2>2, LoopInvariant
  <2> QED
    BY <2>3 DEF W
<1>12. \A n \in 1 .. Len(elements) : turns[n] = (IF n = 1 THEN elements[1] ELSE JoinOn(turns[n - 1], d, elements[n]))
  BY <1>10 DEF Turned
<1> QED
  BY <1>9, <1>10, <1>11, <1>12

\* What is joined is what the elements are spans of.
LEMMA ElementsJoined ==
  ASSUME NEW s \in Seq(Char), NEW d \in Char, NEW l \in Seq(Seq(Char)), l # << >>, NEW b, Cuts(s, d, l, Len(s), b)
  PROVE  JoinedWith(l, d) = Span(s, 0, b[Len(l)] - 1)
<1> DEFINE L == Len(l)
<1>1. L \in Nat \ {0} /\ Len(s) \in Nat
  BY EmptySeq, LenProperties
<1>2. PICK f : /\ f[0] = << >>
               /\ \A n \in 1 .. L : f[n] = (IF n = 1 THEN l[1] ELSE JoinOn(f[n - 1], d, l[n]))
               /\ (\A n \in 0 .. L : f[n] \in Seq(Char))
               /\ JoinedWith(l, d) = f[L]
  BY JoinedLoop
<1>3. b \in [0 .. L -> 0 .. Len(s) + 1] /\ b[0] = 0
      /\ \A i \in 1 .. L :
           /\ b[i - 1] + 2 <= b[i] /\ l[i] = Span(s, b[i - 1], b[i] - 1)
           /\ b[i] <= Len(s) => s[b[i]] = d
  BY DEF Cuts
<1> HIDE DEF L
<1> DEFINE W == [n \in 0 .. L |-> {t \in Seq(Char) : n = 0 \/ t = Span(s, 0, b[n] - 1)}]
<1>4. f[0] \in W[0]
  BY <1>1, <1>2, EmptySeq
<1>5. ASSUME NEW n \in 1 .. L, f[n - 1] \in W[n - 1] PROVE f[n] \in W[n]
  <2>1. n - 1 \in 0 .. L /\ n \in 0 .. L
    BY <1>1
  <2>2. CASE n = 1
    <3>1. f[n] = l[1] /\ l[1] = Span(s, b[0], b[1] - 1)
      BY <1>1, <1>2, <1>3, <2>2
    <3>2. f[n] = Span(s, 0, b[n] - 1)
      BY <1>3, <2>2, <3>1
    <3> QED
      BY <1>2, <2>1, <3>2
  <2>3. CASE n # 1
    <3>1. f[n - 1] = Span(s, 0, b[n - 1] - 1)
      BY <1>5, <2>1, <2>3
    <3> DEFINE a == b[n - 1]
               c == b[n] - 1
    <3>2. b[n] \in 0 .. Len(s) + 1 /\ a \in 0 .. Len(s) + 1 /\ a + 2 <= b[n] /\ l[n] = Span(s, a, c)
      BY <1>3, <2>1
    <3>3. a >= 2 /\ (a <= Len(s) => s[a] = d)
      <4>1. n - 1 \in 1 .. L /\ (n - 1) - 1 \in 0 .. L
        BY <1>1, <2>3
      <4>2. b[(n - 1) - 1] \in 0 .. Len(s) + 1 /\ b[(n - 1) - 1] + 2 <= b[n - 1]
        BY <1>3, <4>1
      <4> QED
        <5>1. a >= 2
          BY <3>2, <4>2
        <5>2. b[n - 1] <= Len(s) => s[b[n - 1]] = d
          BY <1>3, <4>1
        <5> QED
          BY <5>1, <5>2
    <3>4. c \in 0 .. Len(s) /\ a \in 1 .. c /\ a <= Len(s)
      <4> DEFINE e == b[n]
      <4>1. a \in Int /\ e \in Int /\ a + 2 <= e /\ e <= Len(s) + 1 /\ a >= 2 /\ c = e - 1
        BY <1>1, <3>2, <3>3
      <4> HIDE DEF a, c, e
      <4> QED
        BY <1>1, <4>1
    <3>5. f[n] = JoinOn(f[n - 1], d, l[n])
      BY <1>2, <2>3
    <3> HIDE DEF a, c
    <3>6. JoinOn(Span(s, 0, a - 1), s[a], Span(s, a, c)) = Span(s, 0, c)
      BY <3>4, JoinOnSpans
    <3>7. f[n] = JoinOn(Span(s, 0, a - 1), s[a], Span(s, a, c))
      BY <3>1, <3>2, <3>3, <3>4, <3>5 DEF a
    <3>8. f[n] = Span(s, 0, b[n] - 1)
      BY <3>6, <3>7 DEF c
    <3> QED
      BY <1>2, <2>1, <3>8
  <2> QED
    BY <2>2, <2>3
<1>6. \A n \in 0 .. L : f[n] \in W[n]
  <2> HIDE DEF W
  <2> QED
    BY <1>1, <1>4, <1>5, LoopInvariant
<1>7. f[L] = Span(s, 0, b[L] - 1)
  <2>1. L \in 0 .. L /\ L # 0
    BY <1>1
  <2> QED
    BY <1>6, <2>1
<1> QED
  BY <1>2, <1>7 DEF L

\* There is a delimiter behind each element but the last.
LEMMA CountIs ==
  ASSUME NEW s \in Seq(Char), NEW d, NEW l \in Seq(Seq(Char)), NEW b, Cuts(s, d, l, Len(s), b)
  PROVE  Len(l) <= SplitGetSize(s, d)
<1> DEFINE L == Len(l)
           P == {i \in DOMAIN s : s[i] = d}
           Q == 1 .. L - 1
           g == [i \in Q |-> b[i]]
<1>1. L \in Nat /\ Len(s) \in Nat /\ DOMAIN s = 1 .. Len(s)
  BY LenProperties
<1>2. b \in [0 .. L -> 0 .. Len(s) + 1] /\ b[0] = 0
      /\ \A i \in 1 .. L : b[i - 1] + 2 <= b[i] /\ (b[i] <= Len(s) => s[b[i]] = d)
  BY DEF Cuts
<1>3. IsFiniteSet(P) /\ Cardinality(P) \in Nat
  <2>1. IsFiniteSet(1 .. Len(s))
    BY <1>1, FS_Interval
  <2>2. P \in SUBSET (1 .. Len(s))
    BY <1>1
  <2> HIDE DEF P
  <2>3. IsFiniteSet(P)
    BY <2>1, <2>2, FS_Subset
  <2> QED
    BY <2>3, FS_CardinalityType
<1> HIDE DEF L
<1>4. \A i \in Q : g[i] \in P
  <2> SUFFICES ASSUME NEW i \in Q PROVE b[i] \in P
    OBVIOUS
  <2>1. i \in 1 .. L /\ i + 1 \in 1 .. L /\ (i + 1) - 1 = i /\ i \in 0 .. L /\ i - 1 \in 0 .. L /\ i + 1 \in 0 .. L
    BY <1>1
  <2>2. b[i - 1] \in 0 .. Len(s) + 1 /\ b[i] \in 0 .. Len(s) + 1 /\ b[i + 1] \in 0 .. Len(s) + 1
        /\ b[i - 1] + 2 <= b[i] /\ b[i] + 2 <= b[i + 1]
    BY <1>2, <2>1
  <2>3. b[i] \in 1 .. Len(s) /\ b[i] <= Len(s)
    <3> DEFINE x == b[i - 1]
               y == b[i]
               z == b[i + 1]
    <3>1. x \in Nat /\ y \in Nat /\ z \in Nat /\ x + 2 <= y /\ y + 2 <= z /\ z <= Len(s) + 1
      BY <1>1, <2>2
    <3> HIDE DEF x, y, z
    <3>2. y \in 1 .. Len(s) /\ y <= Len(s)
      BY <1>1, <3>1
    <3> QED
      BY <3>2 DEF y
  <2>4. s[b[i]] = d
    BY <1>2, <2>1, <2>3
  <2> QED
    BY <1>1, <2>3, <2>4
<1>5. ASSUME NEW i \in Q PROVE \A h \in 0 .. L : (h > i => b[h] > b[i]) 
  <2> DEFINE W == [h \in 0 .. L |-> {x \in 0 .. Len(s) + 1 : h > i => x > b[i]}]
  <2>1. i \in 0 .. L /\ b[i] \in 0 .. Len(s) + 1
    BY <1>1, <1>2
  <2>2. b[0] \in W[0]
    BY <1>1, <1>2
  <2>3. ASSUME NEW h \in 1 .. L, b[h - 1] \in W[h - 1] PROVE b[h] \in W[h]
    <3>1. h - 1 \in 0 .. L /\ h \in 0 .. L
      BY <1>1
    <3>2. b[h - 1] + 2 <= b[h] /\ b[h] \in 0 .. Len(s) + 1 /\ b[h - 1] \in 0 .. Len(s) + 1 /\ (h - 1 > i => b[h - 1] > b[i])
      BY <1>2, <2>3, <3>1
    <3>3. h > i => b[h] > b[i]
      <4>1. CASE h - 1 > i
        BY <2>1, <3>2, <4>1
      <4>2. CASE h - 1 = i
        BY <2>1, <3>2, <4>2
      <4> QED
        BY <1>1, <2>1, <4>1, <4>2
    <3> QED
      BY <3>1, <3>2, <3>3
  <2>4. \A h \in 0 .. L : b[h] \in W[h]
    <3> HIDE DEF W
    <3> QED
      BY <1>1, <2>2, <2>3, LoopInvariant
  <2> QED
    BY <2>4
<1>6. g \in Injection(Q, P)
  <2>1. ASSUME NEW i \in Q, NEW h \in Q, g[i] = g[h] PROVE i = h
    <3>1. i \in 0 .. L /\ h \in 0 .. L /\ b[i] = b[h] /\ b[i] \in 0 .. Len(s) + 1
      BY <1>1, <1>2, <2>1
    <3>2. ~(h > i) /\ ~(i > h)
      BY <1>5, <3>1
    <3> QED
      BY <3>1, <3>2
  <2>2. g \in [Q -> P]
    BY <1>4
  <2> HIDE DEF g, P, Q
  <2> QED
    BY <2>1, <2>2 DEF Injection, IsInjective
<1>7. Cardinality(Q) <= Cardinality(P)
  <2> HIDE DEF g, P, Q
  <2> QED
    BY <1>3, <1>6, FS_Injection
<1>8. Cardinality(Q) = IF 1 > L - 1 THEN 0 ELSE (L - 1) - 1 + 1
  BY <1>1, FS_Interval
<1>9. L <= Cardinality(P) + 1
  <2> HIDE DEF P, Q
  <2> QED
    BY <1>1, <1>3, <1>7, <1>8
<1>10. CASE s = << >>
  <2>1. Len(s) = 0
    BY <1>10, EmptySeq
  <2>2. L = 0
    <3> SUFFICES ASSUME L # 0 PROVE FALSE
      OBVIOUS
    <3>1. 1 \in 1 .. L /\ 1 - 1 = 0 /\ 1 \in 0 .. L
      BY <1>1
    <3>2. b[0] + 2 <= b[1] /\ b[1] \in 0 .. Len(s) + 1
      BY <1>2, <3>1
    <3> QED
      BY <1>2, <2>1, <3>2
  <2>3. SplitGetSize(s, d) = 0
    BY <1>10 DEF SplitGetSize
  <2> QED
    BY <2>2, <2>3 DEF L
<1>11. CASE s # << >>
  <2>1. SplitGetSize(s, d) = Cardinality(P) + 1
    BY <1>11 DEF SplitGetSize
  <2> QED
    BY <1>9, <2>1 DEF L
<1> QED
  BY <1>10, <1>11

\* No element is lost, there is a pointer for each, and no other delimiter is in one but as its first.
LEMMA SplitSound == ASSUME NEW s \in Seq(Char), NEW d \in Char PROVE SplitRight(s, d)
<1> DEFINE l == Split(s, d)
           L == Len(l)
           x == JoinedWith(l, d)
<1>1. l \in Seq(Seq(Char)) /\ \E b : Cuts(s, d, l, Len(s), b)
  BY SplitIs
<1>2. PICK b : Cuts(s, d, l, Len(s), b)
  BY <1>1
<1> HIDE DEF l
<1>3. Len(l) <= SplitGetSize(s, d)
  BY <1>1, <1>2, CountIs
<1>4. L \in Nat /\ Len(s) \in Nat /\ DOMAIN l = 1 .. L
  BY <1>1, LenProperties
<1>5. b \in [0 .. L -> 0 .. Len(s) + 1] /\ b[0] = 0
      /\ (Len(s) = b[L] \/ b[L] = Len(s) + 1)
      /\ \A i \in 1 .. L :
           /\ b[i - 1] + 2 <= b[i] /\ l[i] = Span(s, b[i - 1], b[i] - 1)
           /\ b[i] <= Len(s) => s[b[i]] = d
           /\ \A j \in 2 .. (b[i] - 1) - b[i - 1] : s[b[i - 1] + j] # d
  BY <1>2 DEF Cuts
<1>6. ASSUME NEW i \in 1 .. L, NEW j \in 2 .. Len(l[i]) PROVE l[i][j] # d
  <2> DEFINE a == b[i - 1]
             e == b[i]
             c == e - 1
             u == Span(s, a, c)
  <2>1. i - 1 \in 0 .. L /\ i \in 0 .. L
    BY <1>4
  <2>2. a \in 0 .. Len(s) + 1 /\ e \in 0 .. Len(s) + 1 /\ a + 2 <= e /\ l[i] = u
    BY <1>5, <2>1
  <2>3. \A h \in 2 .. c - a : s[a + h] # d
    BY <1>5
  <2> HIDE DEF a, e
  <2>4. c \in 0 .. Len(s) /\ a \in 0 .. c
    BY <1>4, <2>2
  <2> HIDE DEF c
  <2>5. Len(u) = c - a /\ \A h \in 1 .. c - a : u[h] = s[a + h]
    BY <2>4, SpanIs
  <2> HIDE DEF u
  <2>6. j \in 2 .. c - a /\ j \in 1 .. c - a
    BY <2>2, <2>4, <2>5
  <2> QED
    BY <2>2, <2>3, <2>5, <2>6
<1>7. x = s \/ Append(x, d) = s
  <2>1. CASE l = << >>
    <3>1. L = 0
      BY <2>1, EmptySeq
    <3>2. Len(s) = 0
      BY <1>4, <1>5, <3>1
    <3>3. s = << >>
      BY <3>2, EmptySeq
    <3>4. x = << >>
      BY <1>1, <3>1, JoinedLoop
    <3> QED
      BY <3>3, <3>4
  <2>2. CASE l # << >>
    <3> DEFINE k == b[L] - 1
    <3>1. L \in 1 .. L /\ L - 1 \in 0 .. L
      BY <1>1, <1>4, <2>2, EmptySeq
    <3>2. b[L] >= 2 /\ (b[L] <= Len(s) => s[b[L]] = d)
      <4> DEFINE e == b[L - 1]
      <4>1. e \in 0 .. Len(s) + 1 /\ e + 2 <= b[L] /\ (b[L] <= Len(s) => s[b[L]] = d)
        BY <1>5, <3>1
      <4>2. b[L] \in 0 .. Len(s) + 1
        BY <1>4, <1>5
      <4> HIDE DEF e
      <4> QED
        BY <4>1, <4>2
    <3>3. x = Span(s, 0, k)
      BY <1>1, <1>2, <2>2, ElementsJoined
    <3>4. CASE b[L] = Len(s) + 1
      <4>1. k = Len(s)
        BY <1>4, <3>4
      <4> QED
        BY <3>3, <4>1, SpanWhole
    <3>5. CASE b[L] = Len(s)
      <4>1. k = Len(s) - 1 /\ s[Len(s)] = d /\ Len(s) \in 1 .. Len(s)
        BY <1>4, <3>2, <3>5
      <4> HIDE DEF k
      <4>2. k \in 0 .. Len(s) /\ 0 \in 0 .. k /\ Len(s) \in 0 .. Len(s) /\ k \in 0 .. Len(s)
        BY <1>4, <4>1
      <4>3. <<d>> = Span(s, k, Len(s))
        BY <4>1, OneSpan
      <4>4. Cat(Span(s, 0, k), Span(s, k, Len(s))) = Span(s, 0, Len(s))
        BY <4>2, SpanCat
      <4>5. Cat(x, <<d>>) = s
        BY <3>3, <4>3, <4>4, SpanWhole
      <4>6. x \in Seq(Char)
        BY <3>3, <4>2, SpanIs
      <4> HIDE DEF x
      <4>7. Append(x, d) = Cat(x, <<d>>)
        BY <4>6, AppendIsConcat DEF Cat
      <4> QED
        BY <4>5, <4>7
    <3> QED
      BY <1>5, <3>4, <3>5
  <2> QED
    BY <2>1, <2>2
<1>8. \A i \in DOMAIN l : \A j \in 2 .. Len(l[i]) : l[i][j] # d
  BY <1>4, <1>6
<1> QED
  BY <1>3, <1>7, <1>8 DEF SplitRight, l, x

-----------------------------------------------------------------------------
(* trim(), chomp(), rot13(), strcutpbrk(), strdelchars()                    *)

\* Where the end is cut off, and that it is nowhere else.
LEMMA CutRightIs ==
  ASSUME NEW E, NEW s \in Seq(E), NEW set
  PROVE  \E n \in 0 .. Len(s) : /\ CutRight(s, set) = Span(s, 0, n)
                                /\ \A i \in n + 1 .. Len(s) : s[i] \in set
                                /\ n # 0 => s[n] \notin set
<1> DEFINE ends == {n \in 0 .. Len(s) : \A i \in n + 1 .. Len(s) : s[i] \in set}
           n == CHOOSE n \in ends : \A m \in ends : n <= m
<1>1. Len(s) \in Nat
  BY LenProperties
<1>2. ends \subseteq Nat /\ Len(s) \in ends
  BY <1>1
<1>3. \E x \in ends : \A m \in ends : x <= m
  <2> HIDE DEF ends
  <2> QED
    BY <1>2, MinExists
<1>4. n \in ends /\ \A m \in ends : n <= m
  <2> HIDE DEF ends
  <2> QED
    BY <1>3
<1>5. CutRight(s, set) = SubSeq(s, 1, n)
  BY DEF CutRight
<1> HIDE DEF n
<1>6. n \in 0 .. Len(s) /\ \A i \in n + 1 .. Len(s) : s[i] \in set
  BY <1>4
<1>7. ASSUME n # 0, s[n] \in set PROVE FALSE
  <2>1. n - 1 \in 0 .. Len(s)
    BY <1>1, <1>6, <1>7
  <2>2. ASSUME NEW i \in (n - 1) + 1 .. Len(s) PROVE s[i] \in set
    <3>1. i = n \/ i \in n + 1 .. Len(s)
      BY <1>1, <1>6
    <3> QED
      BY <1>6, <1>7, <3>1
  <2>3. n - 1 \in ends
    BY <2>1, <2>2
  <2>4. n <= n - 1
    BY <1>4, <2>3
  <2> QED
    BY <1>6, <2>4
<1>8. CutRight(s, set) = Span(s, 0, n)
  BY <1>5 DEF Span
<1> QED
  BY <1>6, <1>7, <1>8

LEMMA CutRightAt ==
  ASSUME NEW E, NEW s \in Seq(E), NEW set, NEW n \in 0 .. Len(s),
         \A i \in n + 1 .. Len(s) : s[i] \in set, n # 0 => s[n] \notin set
  PROVE  CutRight(s, set) = Span(s, 0, n)
<1>1. PICK m \in 0 .. Len(s) : /\ CutRight(s, set) = Span(s, 0, m)
                               /\ \A i \in m + 1 .. Len(s) : s[i] \in set
                               /\ m # 0 => s[m] \notin set
  BY CutRightIs
<1>2. Len(s) \in Nat
  BY LenProperties
<1>3. ~(m < n)
  <2> SUFFICES ASSUME m < n PROVE FALSE
    OBVIOUS
  <2>1. n \in m + 1 .. Len(s) /\ n # 0
    BY <1>2
  <2> QED
    BY <1>1, <2>1
<1>4. ~(n < m)
  <2> SUFFICES ASSUME n < m PROVE FALSE
    OBVIOUS
  <2>1. m \in n + 1 .. Len(s) /\ m # 0
    BY <1>2
  <2> QED
    BY <1>1, <2>1
<1>5. n = m
  BY <1>2, <1>3, <1>4
<1> QED
  BY <1>1, <1>5

LEMMA CutLeftIs ==
  ASSUME NEW E, NEW s \in Seq(E), NEW set
  PROVE  \E m \in 0 .. Len(s) : /\ CutLeft(s, set) = Span(s, m, Len(s))
                                /\ \A i \in 1 .. m : s[i] \in set
                                /\ m # Len(s) => s[m + 1] \notin set
<1> DEFINE starts == {n \in 0 .. Len(s) : \A i \in 1 .. n : s[i] \in set}
           n == CHOOSE n \in starts : \A m \in starts : m <= n
<1>1. Len(s) \in Nat
  BY LenProperties
<1>2. starts \in SUBSET (0 .. Len(s)) /\ 0 \in starts
  BY <1>1
<1>3. \E x \in starts : \A m \in starts : m <= x
  <2> HIDE DEF starts
  <2> QED
    BY <1>1, <1>2, MaxExists
<1>4. n \in starts /\ \A m \in starts : m <= n
  <2> HIDE DEF starts
  <2> QED
    BY <1>3
<1>5. CutLeft(s, set) = SubSeq(s, n + 1, Len(s))
  BY DEF CutLeft
<1> HIDE DEF n
<1>6. n \in 0 .. Len(s) /\ \A i \in 1 .. n : s[i] \in set
  BY <1>4
<1>7. ASSUME n # Len(s), s[n + 1] \in set PROVE FALSE
  <2>1. n + 1 \in 0 .. Len(s)
    BY <1>1, <1>6, <1>7
  <2>2. ASSUME NEW i \in 1 .. n + 1 PROVE s[i] \in set
    <3>1. i = n + 1 \/ i \in 1 .. n
      BY <1>1, <1>6
    <3> QED
      BY <1>6, <1>7, <3>1
  <2>3. n + 1 \in starts
    BY <2>1, <2>2
  <2>4. n + 1 <= n
    BY <1>4, <2>3
  <2> QED
    BY <1>6, <2>4
<1>8. CutLeft(s, set) = Span(s, n, Len(s))
  BY <1>5 DEF Span
<1> QED
  BY <1>6, <1>7, <1>8

LEMMA CutLeftAt ==
  ASSUME NEW E, NEW s \in Seq(E), NEW set, NEW m \in 0 .. Len(s),
         \A i \in 1 .. m : s[i] \in set, m # Len(s) => s[m + 1] \notin set
  PROVE  CutLeft(s, set) = Span(s, m, Len(s))
<1>1. PICK n \in 0 .. Len(s) : /\ CutLeft(s, set) = Span(s, n, Len(s))
                               /\ \A i \in 1 .. n : s[i] \in set
                               /\ n # Len(s) => s[n + 1] \notin set
  BY CutLeftIs
<1>2. Len(s) \in Nat
  BY LenProperties
<1>3. ~(m < n)
  <2> SUFFICES ASSUME m < n PROVE FALSE
    OBVIOUS
  <2>1. m + 1 \in 1 .. n /\ m # Len(s)
    BY <1>2
  <2> QED
    BY <1>1, <2>1
<1>4. ~(n < m)
  <2> SUFFICES ASSUME n < m PROVE FALSE
    OBVIOUS
  <2>1. n + 1 \in 1 .. m /\ n # Len(s)
    BY <1>2
  <2> QED
    BY <1>1, <2>1
<1>5. n = m
  BY <1>2, <1>3, <1>4
<1> QED
  BY <1>1, <1>5

\* Either end may be cut off first.
LEMMA CutsCommute ==
  ASSUME NEW E, NEW s \in Seq(E), NEW set
  PROVE  CutRight(CutLeft(s, set), set) = CutLeft(CutRight(s, set), set)
<1> DEFINE L == Len(s)
<1>1. PICK n \in 0 .. L : /\ CutRight(s, set) = Span(s, 0, n)
                          /\ \A i \in n + 1 .. L : s[i] \in set
                          /\ n # 0 => s[n] \notin set
  BY CutRightIs
<1>2. PICK m \in 0 .. L : /\ CutLeft(s, set) = Span(s, m, L)
                          /\ \A i \in 1 .. m : s[i] \in set
                          /\ m # L => s[m + 1] \notin set
  BY CutLeftIs
<1>3. L \in Nat /\ L \in 0 .. Len(s) /\ n \in 0 .. Len(s) /\ m \in 0 .. L /\ 0 \in 0 .. n
  BY LenProperties
<1> DEFINE u == Span(s, 0, n)
           v == Span(s, m, L)
<1>4. u \in Seq(E) /\ Len(u) = n - 0 /\ \A i \in 1 .. n - 0 : u[i] = s[0 + i]
  BY <1>3, SpanIs
<1>5. v \in Seq(E) /\ Len(v) = L - m /\ \A i \in 1 .. L - m : v[i] = s[m + i]
  BY <1>3, SpanIs
<1> HIDE DEF u, v
<1>6. CASE n = 0
  <2>1. m = L
    <3> SUFFICES ASSUME m # L PROVE FALSE
      OBVIOUS
    <3>1. m + 1 \in n + 1 .. L
      BY <1>3, <1>6
    <3> QED
      BY <1>1, <1>2, <3>1
  <2>2. v = << >> /\ u = << >>
    BY <1>3, <1>4, <1>5, <1>6, <2>1, EmptySeq
  <2>3. Len(v) = 0 /\ Len(u) = 0 /\ 0 \in 0 .. Len(v) /\ 0 \in 0 .. Len(u)
    BY <1>4, <1>5, <2>2, EmptySeq
  <2>4. CutRight(v, set) = Span(v, 0, 0)
    <3>1. PICK a \in 0 .. Len(v) : /\ CutRight(v, set) = Span(v, 0, a)
                                   /\ \A i \in a + 1 .. Len(v) : v[i] \in set
                                   /\ a # 0 => v[a] \notin set
      BY <1>5, CutRightIs
    <3>2. a = 0
      BY <2>3
    <3> QED
      BY <3>1, <3>2
  <2>5. CutLeft(u, set) = Span(u, 0, Len(u))
    <3>1. PICK a \in 0 .. Len(u) : /\ CutLeft(u, set) = Span(u, a, Len(u))
                                   /\ \A i \in 1 .. a : u[i] \in set
                                   /\ a # Len(u) => u[a + 1] \notin set
      BY <1>4, CutLeftIs
    <3>2. a = 0
      BY <2>3
    <3> QED
      BY <3>1, <3>2
  <2>6. CutRight(v, set) = CutLeft(u, set)
    BY <2>2, <2>3, <2>4, <2>5
  <2> QED
    BY <1>1, <1>2, <2>6 DEF u, v
<1>7. CASE n # 0
  <2>1. n \in 1 .. L /\ s[n] \notin set
    BY <1>1, <1>3, <1>7
  <2>2. m < n
    <3> SUFFICES ASSUME ~(m < n) PROVE FALSE
      OBVIOUS
    <3>1. n \in 1 .. m
      BY <1>3, <2>1
    <3> QED
      BY <1>2, <2>1, <3>1
  <2> DEFINE k == n - m
  <2>3. k \in 1 .. Len(v) /\ k \in 0 .. Len(v) /\ k # 0 /\ m + k = n
    BY <1>3, <1>5, <2>2
  <2>4. v[k] \notin set
    <3>1. k \in 1 .. L - m
      BY <1>5, <2>3
    <3>2. v[k] = s[n]
      BY <1>5, <2>3, <3>1
    <3> QED
      BY <2>1, <3>2
  <2>5. ASSUME NEW i \in k + 1 .. Len(v) PROVE v[i] \in set
    <3>1. i \in 1 .. L - m /\ m + i \in n + 1 .. L
      BY <1>3, <1>5, <2>3
    <3> QED
      BY <1>1, <1>5, <3>1
  <2> HIDE DEF k
  <2>6. CutRight(v, set) = Span(v, 0, k)
    BY <1>5, <2>3, <2>4, <2>5, CutRightAt
  <2>7. m \in 0 .. Len(u) /\ m # Len(u) /\ m + 1 \in 1 .. n - 0
    BY <1>3, <1>4, <2>2
  <2>8. u[m + 1] \notin set
    <3>1. u[m + 1] = s[0 + (m + 1)] /\ 0 + (m + 1) = m + 1 /\ m # L
      BY <1>3, <1>4, <2>2, <2>7
    <3> QED
      BY <1>2, <3>1
  <2>9. ASSUME NEW i \in 1 .. m PROVE u[i] \in set
    <3>1. i \in 1 .. n - 0 /\ 0 + i = i
      BY <1>3, <2>2
    <3> QED
      BY <1>2, <1>4, <3>1
  <2>10. CutLeft(u, set) = Span(u, m, Len(u))
    BY <1>4, <2>7, <2>8, <2>9, CutLeftAt
  <2>11. Len(u) = n
    BY <1>3, <1>4
  <2>12. Span(v, 0, k) = Span(s, m + 0, m + k)
    <3>1. k \in 0 .. L - m /\ 0 \in 0 .. k
      BY <1>5, <2>3
    <3> QED
      BY <1>3, <3>1, SpanSpan DEF v
  <2>13. Span(u, m, n) = Span(s, 0 + m, 0 + n)
    <3>1. n \in 0 .. n - 0 /\ m \in 0 .. n
      BY <1>3, <2>2
    <3> QED
      BY <1>3, <3>1, SpanSpan DEF u
  <2>14. m + 0 = m /\ m + k = n /\ 0 + m = m /\ 0 + n = n
    BY <1>3, <2>3
  <2>15. CutRight(v, set) = CutLeft(u, set)
    BY <2>6, <2>10, <2>11, <2>12, <2>13, <2>14
  <2> QED
    BY <1>1, <1>2, <2>15 DEF u, v
<1> QED
  BY <1>6, <1>7

\* One character.
Turn13(c) == IF c \in 97 .. 109 \cup 65 .. 77 THEN c + 13 ELSE IF c \in 110 .. 122 \cup 78 .. 90 THEN c - 13 ELSE c
Blank == {9, 10, 13, 32}

LEMMA Turn13Is ==
  ASSUME NEW c \in Char
  PROVE  Turn13(c) \in Char /\ Turn13(Turn13(c)) = c /\ \A x \in Blank : Turn13(c) = x <=> c = x
BY DEF Turn13, Blank, Char

LEMMA Rot13Is ==
  ASSUME NEW s \in Seq(Char)
  PROVE  Rot13(s) \in Seq(Char) /\ Len(Rot13(s)) = Len(s) /\ \A i \in 1 .. Len(s) : Rot13(s)[i] = Turn13(s[i])
<1> DEFINE r == Rot13(s)
           n == Len(s)
<1>1. n \in Nat /\ DOMAIN s = 1 .. n /\ \A i \in 1 .. n : s[i] \in Char
  BY LenProperties, ElementOfSeq
<1>2. ASSUME NEW i \in 1 .. n PROVE r[i] = Turn13(s[i])
  <2> DEFINE c == s[i]
  <2>1. c \in Nat
    BY <1>1 DEF Char
  <2>2. r[i] = CASE c \in 97 .. 109 \cup 65 .. 77 -> c + 13
                 [] c \in 110 .. 122 \cup 78 .. 90 -> c - 13
                 [] OTHER -> c
    BY <1>1 DEF Rot13
  <2> HIDE DEF c, r
  <2> DEFINE A == 97 .. 109 \cup 65 .. 77
             B == 110 .. 122 \cup 78 .. 90
  <2>4. r[i] = CASE c \in A -> c + 13 [] c \in B -> c - 13 [] OTHER -> c
    BY <2>2
  <2>5. ~(c \in A /\ c \in B)
    BY <2>1
  <2>6. Turn13(c) = IF c \in A THEN c + 13 ELSE IF c \in B THEN c - 13 ELSE c
    BY DEF Turn13
  <2> HIDE DEF A, B
  <2>3. r[i] = Turn13(c)
    <3>1. CASE c \in A
      BY <2>4, <2>5, <2>6, <3>1
    <3>2. CASE c \in B
      BY <2>4, <2>5, <2>6, <3>2
    <3>3. CASE c \notin A /\ c \notin B
      BY <2>4, <2>6, <3>3
    <3> QED
      BY <3>1, <3>2, <3>3
  <2> QED
    BY <2>3 DEF c, r
<1>3. DOMAIN r = 1 .. n /\ r = [i \in 1 .. n |-> r[i]]
  BY <1>1 DEF Rot13
<1> HIDE DEF r, n
<1>4. \A i \in 1 .. n : r[i] \in Char
  BY <1>1, <1>2, Turn13Is
<1>5. r \in [1 .. n -> Char]
  BY <1>3, <1>4
<1>6. r \in Seq(Char) /\ Len(r) = n
  BY <1>1, <1>3, <1>5, SeqDef, LenProperties
<1> QED
  BY <1>2, <1>6 DEF r, n

LEMMA Rot13Twice == ASSUME NEW s \in Seq(Char) PROVE Rot13(Rot13(s)) = s
<1> DEFINE r == Rot13(s)
           q == Rot13(r)
<1>1. r \in Seq(Char) /\ Len(r) = Len(s) /\ \A i \in 1 .. Len(s) : r[i] = Turn13(s[i])
  BY Rot13Is
<1> HIDE DEF r
<1>2. q \in Seq(Char) /\ Len(q) = Len(r) /\ \A i \in 1 .. Len(r) : q[i] = Turn13(r[i])
  BY <1>1, Rot13Is
<1> HIDE DEF q
<1>3. ASSUME NEW i \in 1 .. Len(q) PROVE q[i] = s[i]
  <2>1. s[i] \in Char
    BY <1>1, <1>2, ElementOfSeq
  <2>2. Turn13(Turn13(s[i])) = s[i]
    BY <2>1, Turn13Is
  <2> QED
    BY <1>1, <1>2, <2>2
<1>4. q = s
  BY <1>1, <1>2, <1>3, SeqEqual
<1> QED
  BY <1>4 DEF q, r

LEMMA Rot13Span ==
  ASSUME NEW s \in Seq(Char), NEW b \in 0 .. Len(s), NEW a \in 0 .. b
  PROVE  Rot13(Span(s, a, b)) = Span(Rot13(s), a, b)
<1> DEFINE r == Rot13(s)
           u == Span(s, a, b)
           v == Rot13(u)
           w == Span(r, a, b)
<1>1. r \in Seq(Char) /\ Len(r) = Len(s) /\ \A i \in 1 .. Len(s) : r[i] = Turn13(s[i])
  BY Rot13Is
<1> HIDE DEF r
<1>2. u \in Seq(Char) /\ Len(u) = b - a /\ \A i \in 1 .. b - a : u[i] = s[a + i]
  BY SpanIs
<1> HIDE DEF u
<1>3. v \in Seq(Char) /\ Len(v) = Len(u) /\ \A i \in 1 .. Len(u) : v[i] = Turn13(u[i])
  BY <1>2, Rot13Is
<1> HIDE DEF v
<1>4. b \in 0 .. Len(r)
  BY <1>1
<1>5. w \in Seq(Char) /\ Len(w) = b - a /\ \A i \in 1 .. b - a : w[i] = r[a + i]
  BY <1>1, <1>4, SpanIs
<1> HIDE DEF w
<1>6. ASSUME NEW i \in 1 .. Len(v) PROVE v[i] = w[i]
  <2>1. i \in 1 .. b - a /\ i \in 1 .. Len(u) /\ a + i \in 1 .. Len(s)
    BY <1>2, <1>3, LenProperties
  <2>2. v[i] = Turn13(s[a + i]) /\ w[i] = r[a + i] /\ r[a + i] = Turn13(s[a + i])
    BY <1>1, <1>2, <1>3, <1>5, <2>1
  <2> QED
    BY <2>2
<1>7. v = w
  BY <1>2, <1>3, <1>5, <1>6, SeqEqual
<1> QED
  BY <1>7 DEF v, w, u, r

\* rot13() leaves blanks alone, and makes none.
LEMMA Rot13Right ==
  ASSUME NEW s \in Seq(Char), NEW set \in SUBSET Blank
  PROVE  Rot13(CutRight(s, set)) = CutRight(Rot13(s), set) /\ CutRight(s, set) \in Seq(Char)
<1> DEFINE r == Rot13(s)
<1>1. r \in Seq(Char) /\ Len(r) = Len(s) /\ \A i \in 1 .. Len(s) : r[i] = Turn13(s[i])
  BY Rot13Is
<1> HIDE DEF r
<1>2. \A i \in 1 .. Len(s) : r[i] \in set <=> s[i] \in set
  <2> SUFFICES ASSUME NEW i \in 1 .. Len(s) PROVE r[i] \in set <=> s[i] \in set
    OBVIOUS
  <2> DEFINE c == s[i]
  <2>1. c \in Char /\ r[i] = Turn13(c)
    BY <1>1, ElementOfSeq
  <2> HIDE DEF c
  <2>2. \A x \in Blank : Turn13(c) = x <=> c = x
    BY <2>1, Turn13Is
  <2>3. Turn13(c) \in set <=> c \in set
    BY <2>2
  <2> QED
    BY <2>1, <2>3 DEF c
<1>3. PICK n \in 0 .. Len(s) : /\ CutRight(s, set) = Span(s, 0, n)
                               /\ \A i \in n + 1 .. Len(s) : s[i] \in set
                               /\ n # 0 => s[n] \notin set
  BY CutRightIs
<1>4. Len(s) \in Nat /\ n \in 0 .. Len(r) /\ 0 \in 0 .. n
  BY <1>1, LenProperties
<1>5. ASSUME NEW i \in n + 1 .. Len(r) PROVE r[i] \in set
  <2>1. i \in 1 .. Len(s) /\ i \in n + 1 .. Len(s)
    BY <1>1, <1>4
  <2> QED
    BY <1>2, <1>3, <2>1
<1>6. ASSUME n # 0 PROVE r[n] \notin set
  <2>1. n \in 1 .. Len(s)
    BY <1>4, <1>6
  <2> QED
    BY <1>2, <1>3, <1>6, <2>1
<1>7. CutRight(r, set) = Span(r, 0, n)
  BY <1>1, <1>4, <1>5, <1>6, CutRightAt
<1>8. Rot13(Span(s, 0, n)) = Span(r, 0, n)
  BY <1>4, Rot13Span DEF r
<1>9. Span(s, 0, n) \in Seq(Char)
  BY <1>4, SpanIs
<1> QED
  BY <1>3, <1>7, <1>8, <1>9 DEF r

LEMMA Rot13Left ==
  ASSUME NEW s \in Seq(Char), NEW set \in SUBSET Blank
  PROVE  Rot13(CutLeft(s, set)) = CutLeft(Rot13(s), set)
<1> DEFINE r == Rot13(s)
<1>1. r \in Seq(Char) /\ Len(r) = Len(s) /\ \A i \in 1 .. Len(s) : r[i] = Turn13(s[i])
  BY Rot13Is
<1> HIDE DEF r
<1>2. \A i \in 1 .. Len(s) : r[i] \in set <=> s[i] \in set
  <2> SUFFICES ASSUME NEW i \in 1 .. Len(s) PROVE r[i] \in set <=> s[i] \in set
    OBVIOUS
  <2> DEFINE c == s[i]
  <2>1. c \in Char /\ r[i] = Turn13(c)
    BY <1>1, ElementOfSeq
  <2> HIDE DEF c
  <2>2. \A x \in Blank : Turn13(c) = x <=> c = x
    BY <2>1, Turn13Is
  <2>3. Turn13(c) \in set <=> c \in set
    BY <2>2
  <2> QED
    BY <2>1, <2>3 DEF c
<1>3. PICK m \in 0 .. Len(s) : /\ CutLeft(s, set) = Span(s, m, Len(s))
                               /\ \A i \in 1 .. m : s[i] \in set
                               /\ m # Len(s) => s[m + 1] \notin set
  BY CutLeftIs
<1>4. Len(s) \in Nat /\ m \in 0 .. Len(r) /\ m \in 0 .. Len(s) /\ Len(s) \in 0 .. Len(s)
  BY <1>1, LenProperties
<1>5. ASSUME NEW i \in 1 .. m PROVE r[i] \in set
  <2>1. i \in 1 .. Len(s)
    BY <1>4
  <2> QED
    BY <1>2, <1>3, <2>1
<1>6. ASSUME m # Len(r) PROVE r[m + 1] \notin set
  <2>1. m + 1 \in 1 .. Len(s) /\ m # Len(s)
    BY <1>1, <1>4, <1>6
  <2> QED
    BY <1>2, <1>3, <2>1
<1>7. CutLeft(r, set) = Span(r, m, Len(r))
  BY <1>1, <1>4, <1>5, <1>6, CutLeftAt
<1>8. Rot13(Span(s, m, Len(s))) = Span(r, m, Len(s))
  BY <1>4, Rot13Span DEF r
<1> QED
  BY <1>1, <1>3, <1>7, <1>8 DEF r

\* One more character of a span.
LEMMA SpanAppend ==
  ASSUME NEW s \in Seq(Char), NEW n \in 1 .. Len(s)
  PROVE  Append(Span(s, 0, n - 1), s[n]) = Span(s, 0, n)
<1> DEFINE k == n - 1
           u == Span(s, 0, k)
<1>1. Len(s) \in Nat /\ n \in 0 .. Len(s) /\ k \in 0 .. n /\ k \in 0 .. Len(s) /\ 0 \in 0 .. k
  BY LenProperties
<1>2. <<s[n]>> = Span(s, k, n)
  BY OneSpan
<1> HIDE DEF k
<1>3. u \in Seq(Char)
  BY <1>1, SpanIs
<1>4. Cat(u, Span(s, k, n)) = Span(s, 0, n)
  BY <1>1, SpanCat
<1>5. s[n] \in Char
  BY ElementOfSeq
<1> HIDE DEF u
<1>6. Append(u, s[n]) = Cat(u, <<s[n]>>)
  BY <1>3, <1>5, AppendIsConcat DEF Cat
<1>7. Append(u, s[n]) = Span(s, 0, n)
  BY <1>2, <1>4, <1>6
<1> QED
  BY <1>7 DEF u, k

\* The characters are kept or left out, one by one.
LEMMA KeptLoop ==
  ASSUME NEW s \in Seq(Char), NEW dels
  PROVE  \E f : /\ f[0] = << >> /\ \A n \in 1 .. Len(s) : f[n] = (IF s[n] \in dels THEN f[n - 1] ELSE Append(f[n - 1], s[n]))
               /\ (\A n \in 0 .. Len(s) : f[n] \in Seq(Char))
               /\ StrDelChars(s, dels) = f[Len(s)]
<1> DEFINE W == [n \in 0 .. Len(s) |-> Seq(Char)]
           Turned(t, n) == (IF s[n] \in dels THEN t ELSE Append(t, s[n]))
           D == [vn \in Seq(Char) \X (1 .. Len(s)) |-> Turned(vn[1], vn[2])]
           Is(f) == f = [n \in 0 .. Len(s) |-> IF n = 0 THEN << >> ELSE Turned(f[n - 1], n)]
           turns == CHOOSE f : Is(f)
<1>1. Len(s) \in Nat
  BY LenProperties
<1>2. << >> \in Seq(Char)
  BY EmptySeq
<1>3. ASSUME NEW n \in 1 .. Len(s), NEW t \in Seq(Char) PROVE Turned(t, n) \in Seq(Char)
  <2>1. s[n] \in Char
    BY ElementOfSeq
  <2>2. Append(t, s[n]) \in Seq(Char)
    BY <1>3, <2>1, AppendProperties
  <2> QED
    BY <1>3, <2>2
<1>9. StrDelChars(s, dels) = turns[Len(s)]
  BY DEF StrDelChars
<1> HIDE DEF Turned
<1>4. Leads(Len(s), W, << >>, D)
  BY <1>1, <1>2, <1>3 DEF Leads
<1> HIDE DEF W, D
<1>5. PICK f : IsLoop(f, Len(s), << >>, D)
  BY <1>1, <1>4, LoopExists
<1>6. \A n \in 0 .. Len(s) : f[n] \in W[n]
  BY <1>1, <1>4, <1>5, LoopStates
<1>7. Is(f)
  <2>1. \A n \in 1 .. Len(s) : f[n - 1] \in Seq(Char)
    BY <1>1, <1>6 DEF W
  <2>2. \A n \in 1 .. Len(s) : D[<<f[n - 1], n>>] = Turned(f[n - 1], n)
    BY <2>1 DEF D
  <2>3. \A n \in 0 .. Len(s) : (IF n = 0 THEN << >> ELSE D[<<f[n - 1], n>>])
                              = (IF n = 0 THEN << >> ELSE Turned(f[n - 1], n))
    BY <1>1, <2>2
  <2>4. f = [n \in 0 .. Len(s) |-> IF n = 0 THEN << >> ELSE D[<<f[n - 1], n>>]]
    BY <1>5 DEF IsLoop
  <2> QED
    BY <2>3, <2>4, Zenon
<1>8. Is(turns)
  <2> HIDE DEF Is
  <2> QED
    BY <1>7
<1> HIDE DEF turns
<1>10. turns[0] = << >> /\ \A n \in 1 .. Len(s) : turns[n] = Turned(turns[n - 1], n)
  <2> DEFINE N == Len(s)
  <2>1. N \in Nat /\ turns = [n \in 0 .. N |-> IF n = 0 THEN << >> ELSE Turned(turns[n - 1], n)]
    BY <1>1, <1>8
  <2> HIDE DEF N
  <2>2. 0 \in 0 .. N
    BY <2>1
  <2>3. turns[0] = << >>
    BY <2>1, <2>2, Zenon
  <2>4. ASSUME NEW n \in 1 .. N PROVE turns[n] = Turned(turns[n - 1], n)
    <3>1. n \in 0 .. N /\ n # 0
      BY <2>1
    <3> QED
      BY <2>1, <3>1, Zenon
  <2> QED
    BY <2>3, <2>4 DEF N
<1>11. \A n \in 0 .. Len(s) : turns[n] \in Seq(Char)
  <2>1. turns[0] \in W[0]
    BY <1>1, <1>2, <1>10 DEF W
  <2>2. \A n \in 1 .. Len(s) : turns[n - 1] \in W[n - 1] => turns[n] \in W[n]
    BY <1>1, <1>3, <1>10 DEF W
  <2>3. \A n \in 0 .. Len(s) : turns[n] \in W[n]
    BY <1>1, <2>1, <2>2, LoopInvariant
  <2> QED
    BY <2>3 DEF W
<1>12. \A n \in 1 .. Len(s) : turns[n] = (IF s[n] \in dels THEN turns[n - 1] ELSE Append(turns[n - 1], s[n]))
  BY <1>10 DEF Turned
<1> QED
  BY <1>9, <1>10, <1>11, <1>12

\* What is left out makes it shorter.
Kept(s, dels, t, n) ==
  /\ Len(t) <= n
  /\ (\E i \in 1 .. n : s[i] \in dels) => Len(t) < n
  /\ (\A i \in 1 .. n : s[i] \notin dels) => t = Span(s, 0, n)

LEMMA KeptStays ==
  ASSUME NEW s \in Seq(Char), NEW dels, NEW n \in 1 .. Len(s), NEW t \in Seq(Char), Kept(s, dels, t, n - 1)
  PROVE  Kept(s, dels, IF s[n] \in dels THEN t ELSE Append(t, s[n]), n)
<1>1. Len(s) \in Nat /\ Len(t) \in Nat /\ s[n] \in Char
  BY LenProperties, ElementOfSeq
<1>2. Len(t) <= n - 1 /\ ((\E i \in 1 .. n - 1 : s[i] \in dels) => Len(t) < n - 1)
      /\ ((\A i \in 1 .. n - 1 : s[i] \notin dels) => t = Span(s, 0, n - 1))
  BY DEF Kept
<1>3. n \in 1 .. n /\ \A i \in 1 .. n : i = n \/ i \in 1 .. n - 1
  BY <1>1
<1>4. \A i \in 1 .. n - 1 : i \in 1 .. n
  BY <1>1
<1>5. CASE s[n] \in dels
  <2>1. Len(t) < n
    BY <1>1, <1>2
  <2>2. Kept(s, dels, t, n)
    BY <1>1, <1>3, <1>5, <2>1 DEF Kept
  <2> QED
    BY <1>5, <2>2
<1>6. CASE s[n] \notin dels
  <2> DEFINE u == Append(t, s[n])
  <2>1. Len(u) = Len(t) + 1
    BY <1>1, AppendProperties
  <2>2. ASSUME \A i \in 1 .. n : s[i] \notin dels PROVE u = Span(s, 0, n)
    <3>1. t = Span(s, 0, n - 1)
      BY <1>2, <1>4, <2>2
    <3> QED
      BY <3>1, SpanAppend
  <2> HIDE DEF u
  <2>3. Len(u) <= n
    BY <1>1, <1>2, <2>1
  <2>4. ASSUME NEW i \in 1 .. n, s[i] \in dels PROVE Len(u) < n
    <3>1. i \in 1 .. n - 1
      BY <1>3, <1>6, <2>4
    <3>2. Len(t) < n - 1
      BY <1>2, <2>4, <3>1
    <3> QED
      BY <1>1, <2>1, <3>2
  <2>5. Kept(s, dels, u, n)
    BY <2>2, <2>3, <2>4 DEF Kept
  <2> QED
    BY <1>6, <2>5 DEF u
<1> QED
  BY <1>5, <1>6

\* Both functions leave the strings alone that no character of the set is in, and only those.
LEMMA DelCharsIs ==
  ASSUME NEW s \in Seq(Char), NEW dels
  PROVE  StrDelChars(s, dels) = s <=> \A i \in 1 .. Len(s) : s[i] \notin dels
<1> DEFINE N == Len(s)
<1>1. N \in Nat
  BY LenProperties
<1>2. PICK f : /\ f[0] = << >>
               /\ \A n \in 1 .. N : f[n] = (IF s[n] \in dels THEN f[n - 1] ELSE Append(f[n - 1], s[n]))
               /\ (\A n \in 0 .. N : f[n] \in Seq(Char))
               /\ StrDelChars(s, dels) = f[N]
  BY KeptLoop
<1> DEFINE W == [n \in 0 .. N |-> {t \in Seq(Char) : Kept(s, dels, t, n)}]
<1>3. f[0] \in W[0]
  <2>1. 0 \in 0 .. Len(s)
    BY <1>1
  <2>2. Span(s, 0, 0) = << >> /\ Len(f[0]) = 0
    BY <1>2, <2>1, SpanEmpty, EmptySeq
  <2>3. Kept(s, dels, f[0], 0)
    BY <1>2, <2>2 DEF Kept
  <2> QED
    BY <1>1, <1>2, <2>3
<1>4. ASSUME NEW n \in 1 .. N, f[n - 1] \in W[n - 1] PROVE f[n] \in W[n]
  <2>1. n - 1 \in 0 .. N /\ n \in 0 .. N
    BY <1>1
  <2> DEFINE t == f[n - 1]
  <2>2. t \in Seq(Char) /\ Kept(s, dels, t, n - 1)
    BY <1>4, <2>1
  <2>3. f[n] = IF s[n] \in dels THEN t ELSE Append(t, s[n])
    BY <1>2
  <2> HIDE DEF t
  <2>4. Kept(s, dels, IF s[n] \in dels THEN t ELSE Append(t, s[n]), n)
    BY <2>2, KeptStays
  <2>5. Kept(s, dels, f[n], n)
    BY <2>3, <2>4
  <2> QED
    BY <1>2, <2>1, <2>5
<1>5. \A n \in 0 .. N : f[n] \in W[n]
  <2> HIDE DEF W
  <2> QED
    BY <1>1, <1>3, <1>4, LoopInvariant
<1>6. N \in 0 .. N
  BY <1>1
<1>7. Kept(s, dels, f[N], N)
  BY <1>5, <1>6
<1>8. ASSUME \A i \in 1 .. N : s[i] \notin dels PROVE f[N] = s
  <2>1. f[N] = Span(s, 0, N)
    BY <1>7, <1>8 DEF Kept
  <2> QED
    BY <2>1, SpanWhole
<1>9. ASSUME NEW i \in 1 .. N, s[i] \in dels PROVE f[N] # s
  <2>1. Len(f[N]) < N
    BY <1>7, <1>9 DEF Kept
  <2> QED
    BY <1>1, <2>1
<1> QED
  BY <1>2, <1>8, <1>9

LEMMA CutPbrkIs ==
  ASSUME NEW s \in Seq(Char), NEW accept
  PROVE  StrCutPbrk(s, accept) = s <=> \A i \in 1 .. Len(s) : s[i] \notin accept
<1> DEFINE u == Until(s, accept)
<1>1. ASSUME \A i \in 1 .. Len(s) : s[i] \notin accept PROVE u = s
  BY <1>1, UntilAll
<1>2. \A i \in 1 .. Len(u) : u[i] \notin accept
  BY UntilIs
<1> HIDE DEF u
<1> QED
  BY <1>1, <1>2 DEF StrCutPbrk, u

LEMMA EditsAre == ASSUME NEW s \in Seq(Char) PROVE EditsRight(s)
<1> DEFINE NL == {NewLine, CarriageReturn}
           ST == {Space, Tab}
           r == Rot13(s)
           c == CutRight(s, NL)
           x == CutRight(c, ST)
<1>1. NL \in SUBSET Blank /\ ST \in SUBSET Blank
  BY DEF NewLine, CarriageReturn, Space, Tab, Blank
<1>2. Rot13(Rot13(s)) = s
  BY Rot13Twice
<1>3. \A t : Chomp(t) = CutRight(t, NL)
  BY DEF Chomp
<1>4. \A t : Trim(t, TRUE, TRUE) = CutLeft(CutRight(t, ST), ST) /\ Trim(t, TRUE, FALSE) = CutLeft(t, ST)
             /\ Trim(t, FALSE, TRUE) = CutRight(t, ST)
  BY DEF Trim
<1> HIDE DEF NL, ST
<1>5. Rot13(c) = CutRight(r, NL) /\ c \in Seq(Char)
  BY <1>1, Rot13Right
<1> HIDE DEF c, r
<1>6. Rot13(x) = CutRight(Rot13(c), ST) /\ x \in Seq(Char)
  BY <1>1, <1>5, Rot13Right
<1> HIDE DEF x
<1>7. Rot13(CutLeft(x, ST)) = CutLeft(Rot13(x), ST)
  BY <1>1, <1>6, Rot13Left
<1>8. Rot13(Trim(Chomp(s), TRUE, TRUE)) = Trim(Chomp(Rot13(s)), TRUE, TRUE)
  <2>1. Trim(Chomp(s), TRUE, TRUE) = CutLeft(x, ST)
    BY <1>3, <1>4 DEF x, c
  <2>2. Trim(Chomp(Rot13(s)), TRUE, TRUE) = CutLeft(CutRight(CutRight(r, NL), ST), ST)
    BY <1>3, <1>4 DEF r
  <2> QED
    BY <1>5, <1>6, <1>7, <2>1, <2>2
<1>9. Trim(Trim(s, TRUE, FALSE), FALSE, TRUE) = Trim(s, TRUE, TRUE)
  <2>1. CutRight(CutLeft(s, ST), ST) = CutLeft(CutRight(s, ST), ST)
    BY CutsCommute
  <2> QED
    BY <1>4, <2>1
<1>10. \A set \in SUBSET {Space, NewLine} : StrCutPbrk(s, set) = s <=> StrDelChars(s, set) = s
  <2> SUFFICES ASSUME NEW set \in SUBSET {Space, NewLine}
               PROVE  StrCutPbrk(s, set) = s <=> StrDelChars(s, set) = s
    OBVIOUS
  <2>1. StrCutPbrk(s, set) = s <=> \A i \in 1 .. Len(s) : s[i] \notin set
    BY CutPbrkIs
  <2>2. StrDelChars(s, set) = s <=> \A i \in 1 .. Len(s) : s[i] \notin set
    BY DelCharsIs
  <2> QED
    BY <2>1, <2>2
<1> QED
  BY <1>2, <1>8, <1>9, <1>10 DEF EditsRight

\* misc.c: of a pattern, a text that is split and the lines that are read nothing is lost but what
\* there is no room for; the functions that edit a string may be nested as misc.h lets them be.
THEOREM TextSound == TextSpec => []TextRight
<1> DEFINE Str == str \in Seq(Char)
<1>1. TextInit => Str
  BY EmptySeq DEF TextInit
<1>2. Str /\ [TextNext]_str => Str'
  <2> SUFFICES ASSUME Str, [TextNext]_str PROVE Str'
    OBVIOUS
  <2>1. CASE UNCHANGED str
    BY <2>1
  <2>2. CASE TextNext
    <3>1. PICK c \in Chars : str' = Append(str, c)
      BY <2>2 DEF TextNext
    <3>2. c \in Char
      BY TextAssumption DEF Char
    <3> QED
      BY <3>1, <3>2, AppendProperties
  <2> QED
    BY <2>1, <2>2
<1>3. Str => TextRight
  <2> SUFFICES ASSUME Str PROVE TextRight
    OBVIOUS
  <2>1. Args \in Table
    BY TextAssumption DEF Table, Char
  <2>2. ASSUME NEW size \in Sizes PROVE SubstitutedRight(str, Args, [i \in 1 .. size |-> 1]) /\ LinesRight(str, size)
    <3> DEFINE dest == [i \in 1 .. size |-> 1]
    <3>1. size \in Nat \ {0}
      BY TextAssumption
    <3>2. dest \in Seq(Nat) /\ dest # << >>
      <4>1. dest \in [1 .. size -> Nat]
        OBVIOUS
      <4>2. dest \in Seq(Nat)
        BY <3>1, <4>1, SeqDef
      <4>3. Len(dest) = size
        BY <3>1, <4>2, LenProperties
      <4> QED
        BY <3>1, <4>2, <4>3, EmptySeq
    <3> HIDE DEF dest
    <3>3. SubstitutedRight(str, Args, dest)
      BY <2>1, <3>2, SubstitutedIs
    <3>4. LinesRight(str, size)
      BY <3>1, LinesPutTogether
    <3> QED
      BY <3>3, <3>4 DEF dest
  <2>3. ASSUME NEW c \in Chars PROVE SplitRight(str, c)
    <3>1. c \in Char
      BY TextAssumption DEF Char
    <3> QED
      BY <3>1, SplitSound
  <2>4. EditsRight(str)
    BY EditsAre
  <2> QED
    BY <2>2, <2>3, <2>4 DEF TextRight
<1> QED
  BY <1>1, <1>2, <1>3, PTL DEF TextSpec

-----------------------------------------------------------------------------
(* The records of an answer                                                 *)

\* The states of a pass over an answer for records of a type.
PState(typ) == [qdn : Dns, at : Places, qtyp : {typ}, qcls : {"IN"}, cur : Nat, rrl : Nat, ttl : 0 .. TtlMax, nrr : Nat]
Passing(typ, ans) == {t \in [rrs : Seq(Rrs), r : {0, -1}, p : PState(typ)] : t.p.cur + t.p.rrl = Len(ans)}

LEMMA RrIs ==
  ASSUME NEW rr \in Rrs
  PROVE  rr.bad \in BOOLEAN /\ rr.own \in Dns /\ rr.ttl \in 0 .. TtlMax /\ rr.name \in Dns \cup {NoDn}
  BY RecordsAssumption

\* What a turn does if it is not behind the end: the record is no answer, one, or an alias.
Skipped(t, u) ==
  u.rrs = t.rrs /\ u.r = 0 /\ u.p.qdn = t.p.qdn /\ u.p.at = t.p.at /\ u.p.ttl = t.p.ttl /\ u.p.nrr = t.p.nrr
Taken(t, u, rr) ==
  /\ u.rrs = Append(t.rrs, rr) /\ u.r = 0 /\ u.p.qdn = t.p.qdn /\ u.p.at = t.p.at
  /\ u.p.ttl = Lesser(t.p.ttl, rr.ttl) /\ u.p.nrr = t.p.nrr + 1
Led(t, u, rr) ==
  /\ u.rrs = t.rrs /\ u.r = 0 /\ u.p.qdn = rr.name /\ u.p.at = "dnbuf"
  /\ u.p.ttl = Lesser(t.p.ttl, rr.ttl) /\ u.p.nrr = t.p.nrr

LEMMA PassingIs ==
  ASSUME NEW typ, NEW ans, NEW rrs \in Seq(Rrs), NEW r \in {0, -1}, NEW p \in PState(typ), p.cur + p.rrl = Len(ans)
  PROVE  [rrs |-> rrs, r |-> r, p |-> p] \in Passing(typ, ans)
  BY DEF Passing

LEMMA NextTurnIs ==
  ASSUME NEW typ \in Types, NEW ans \in Seq(Rrs), NEW t \in Passing(typ, ans)
  PROVE  /\ NextTurn(t, ans) \in Passing(typ, ans)
         /\ t.r < 0 => NextTurn(t, ans) = t
         /\ t.r = 0 /\ t.p.rrl # 0 /\ NextTurn(t, ans).r = 0 =>
              LET rr == ans[t.p.cur + 1]
                  u == NextTurn(t, ans) IN
                /\ u.p.cur = t.p.cur + 1
                /\ \/ Skipped(t, u) /\ ~Answers(rr, t.p.qdn, typ) /\ (Alias(rr, t.p.qdn) => t.p.nrr # 0)
                   \/ Taken(t, u, rr) /\ Answers(rr, t.p.qdn, typ)
                   \/ Led(t, u, rr) /\ Alias(rr, t.p.qdn) /\ t.p.nrr = 0 /\ rr.name \in Dns
<1>1. Len(ans) \in Nat /\ t.p.cur \in Nat /\ t.p.rrl \in Nat /\ t.p.cur + t.p.rrl = Len(ans) /\ t.p.nrr \in Nat
      /\ t.p.qdn \in Dns /\ t.p.qtyp = typ /\ t.p.qcls = "IN" /\ t.p.ttl \in 0 .. TtlMax /\ t.r \in {0, -1}
      /\ t.rrs \in Seq(Rrs) /\ t.p \in PState(typ) /\ t \in [rrs : Seq(Rrs), r : {0, -1}, p : PState(typ)]
  BY LenProperties DEF Passing, PState
<1>2. CASE t.r < 0 \/ t.p.rrl = 0
  BY <1>1, <1>2 DEF NextTurn
<1>3. CASE ~(t.r < 0 \/ t.p.rrl = 0)
  <2> DEFINE rr == ans[t.p.cur + 1]
             p == t.p
             q == [p EXCEPT !.cur = @ + 1, !.rrl = @ - 1]
             ttl == Lesser(p.ttl, rr.ttl)
             next == NextRr(p, rr)
             u == NextTurn(t, ans)
  <2>1. t.p.cur + 1 \in 1 .. Len(ans) /\ t.p.rrl - 1 \in Nat /\ t.p.cur + 1 \in Nat /\ t.r = 0
    BY <1>1, <1>3
  <2>2. rr \in Rrs
    BY <2>1, ElementOfSeq
  <2>3. u = [rrs |-> IF next.r = 1 THEN Append(t.rrs, rr) ELSE t.rrs, r |-> IF next.r = -1 THEN -1 ELSE 0, p |-> next.p]
    BY <1>3, Zenon DEF NextTurn
  <2>4. Append(t.rrs, rr) \in Seq(Rrs)
    BY <1>1, <2>2, AppendProperties
  <2>5. rr.own \in Dns /\ rr.ttl \in 0 .. TtlMax /\ rr.name \in Dns \cup {NoDn}
    BY <2>2, RrIs
  <2>6. /\ q \in PState(typ) /\ q.cur = p.cur + 1 /\ q.rrl = p.rrl - 1
        /\ q.qdn = p.qdn /\ q.at = p.at /\ q.ttl = p.ttl /\ q.nrr = p.nrr /\ p.nrr \in Nat
    BY <1>1, <2>1 DEF PState
  <2>7. ttl \in 0 .. TtlMax
    BY <1>1, <2>5 DEF Lesser
  <2>8. p.qdn # NoDn
    BY <1>1, RecordsAssumption
  <2>9. Asked(p, rr) <=> rr.cls = "IN" /\ rr.typ = typ
    BY <1>1 DEF Asked, Types
  <2>10. next = IF rr.bad THEN [r |-> -1, p |-> q]
                ELSE IF p.qdn \notin {NoDn, rr.own} THEN [r |-> 0, p |-> q]
                ELSE IF Asked(p, rr) THEN [r |-> 1, p |-> [q EXCEPT !.nrr = @ + 1, !.ttl = ttl]]
                ELSE IF p.qdn # NoDn /\ rr.typ = "CNAME" /\ p.nrr = 0
                THEN IF rr.name = NoDn THEN [r |-> -1, p |-> q]
                     ELSE [r |-> 0, p |-> [q EXCEPT !.qdn = rr.name, !.at = "dnbuf", !.ttl = ttl]]
                ELSE [r |-> 0, p |-> q]
    BY Zenon DEF NextRr
  <2> HIDE DEF q, ttl, next, u, rr, p
  <2> DEFINE a == [q EXCEPT !.nrr = @ + 1, !.ttl = ttl]
             b == [q EXCEPT !.qdn = rr.name, !.at = "dnbuf", !.ttl = ttl]
  <2>11. /\ a \in PState(typ) /\ a.cur = p.cur + 1 /\ a.rrl = p.rrl - 1
         /\ a.qdn = p.qdn /\ a.at = p.at /\ a.ttl = ttl /\ a.nrr = p.nrr + 1
    <3> DEFINE k == q.nrr + 1
    <3>1. k \in Nat /\ k = p.nrr + 1
      BY <2>6
    <3> HIDE DEF k
    <3>2. /\ [q EXCEPT !.nrr = k, !.ttl = ttl] \in PState(typ) /\ [q EXCEPT !.nrr = k, !.ttl = ttl].cur = q.cur
          /\ [q EXCEPT !.nrr = k, !.ttl = ttl].at = q.at
          /\ [q EXCEPT !.nrr = k, !.ttl = ttl].rrl = q.rrl /\ [q EXCEPT !.nrr = k, !.ttl = ttl].qdn = q.qdn
          /\ [q EXCEPT !.nrr = k, !.ttl = ttl].ttl = ttl /\ [q EXCEPT !.nrr = k, !.ttl = ttl].nrr = k
      BY <2>6, <2>7, <3>1 DEF PState
    <3>3. a = [q EXCEPT !.nrr = k, !.ttl = ttl]
      BY DEF k
    <3> HIDE DEF a
    <3> QED
      BY <2>6, <3>1, <3>2, <3>3
  <2>12. rr.name # NoDn =>
         /\ b \in PState(typ) /\ b.cur = p.cur + 1 /\ b.rrl = p.rrl - 1
         /\ b.qdn = rr.name /\ b.at = "dnbuf" /\ b.ttl = ttl /\ b.nrr = p.nrr
    <3>1. rr.name # NoDn => rr.name \in Dns
      BY <2>5
    <3> DEFINE name == rr.name
    <3>2. b = [q EXCEPT !.qdn = name, !.at = "dnbuf", !.ttl = ttl]
      OBVIOUS
    <3> HIDE DEF name, q, ttl, b
    <3>3. ASSUME name \in Dns
          PROVE  /\ b \in PState(typ) /\ b.cur = q.cur /\ b.rrl = q.rrl
                 /\ b.qdn = name /\ b.at = "dnbuf" /\ b.ttl = ttl /\ b.nrr = q.nrr
      BY <2>6, <2>7, <3>2, <3>3 DEF PState, Places
    <3> QED
      BY <2>6, <3>1, <3>3 DEF name
  <2>13. \A x \in PState(typ) : x.cur = p.cur + 1 /\ x.rrl = p.rrl - 1 => x.cur + x.rrl = Len(ans)
    <3>1. p.cur \in Nat /\ p.rrl \in Nat /\ p.cur + p.rrl = Len(ans)
      BY <1>1 DEF p
    <3> QED
      BY <3>1
  <2> HIDE DEF a, b
  <2>20. CASE next = [r |-> -1, p |-> q]
    <3>1. u = [rrs |-> t.rrs, r |-> -1, p |-> q]
      BY <2>3, <2>20
    <3>2. u \in Passing(typ, ans)
      BY <1>1, <2>6, <2>13, <3>1, PassingIs
    <3> QED
      BY <1>3, <3>1, <3>2 DEF u
  <2>21. CASE next = [r |-> 0, p |-> q] /\ ~Answers(rr, p.qdn, typ) /\ (Alias(rr, p.qdn) => p.nrr # 0)
    <3>1. u = [rrs |-> t.rrs, r |-> 0, p |-> q]
      BY <2>3, <2>21
    <3>2. u \in Passing(typ, ans)
      BY <1>1, <2>6, <2>13, <3>1, PassingIs
    <3>3. Skipped(t, u) /\ u.p.cur = t.p.cur + 1
      BY <2>6, <3>1 DEF Skipped, p
    <3> QED
      BY <1>3, <2>21, <3>2, <3>3 DEF u, rr, p
  <2>22. CASE next = [r |-> 1, p |-> a] /\ Answers(rr, p.qdn, typ)
    <3>1. u = [rrs |-> Append(t.rrs, rr), r |-> 0, p |-> a]
      BY <2>3, <2>22
    <3>2. u \in Passing(typ, ans)
      BY <2>4, <2>11, <2>13, <3>1, PassingIs
    <3>3. Taken(t, u, rr) /\ u.p.cur = t.p.cur + 1
      BY <2>11, <3>1 DEF Taken, p, ttl
    <3> QED
      BY <1>3, <2>22, <3>2, <3>3 DEF u, rr, p
  <2>23. CASE next = [r |-> 0, p |-> b] /\ rr.name # NoDn /\ Alias(rr, p.qdn) /\ p.nrr = 0
    <3>1. u = [rrs |-> t.rrs, r |-> 0, p |-> b]
      BY <2>3, <2>23
    <3>2. u \in Passing(typ, ans)
      BY <1>1, <2>12, <2>13, <2>23, <3>1, PassingIs
    <3>3. Led(t, u, rr) /\ u.p.cur = t.p.cur + 1
      BY <2>12, <2>23, <3>1 DEF Led, p, ttl
    <3> QED
      BY <1>3, <2>5, <2>23, <3>2, <3>3 DEF u, rr, p
  <2>30. \/ next = [r |-> -1, p |-> q]
         \/ next = [r |-> 0, p |-> q] /\ ~Answers(rr, p.qdn, typ) /\ (Alias(rr, p.qdn) => p.nrr # 0)
         \/ next = [r |-> 1, p |-> a] /\ Answers(rr, p.qdn, typ)
         \/ next = [r |-> 0, p |-> b] /\ rr.name # NoDn /\ Alias(rr, p.qdn) /\ p.nrr = 0
    <3>1. Answers(rr, p.qdn, typ) <=> rr.own = p.qdn /\ Asked(p, rr)
      BY <2>9 DEF Answers
    <3>2. p.qdn \notin {NoDn, rr.own} <=> p.qdn # rr.own
      BY <2>8
    <3>3. next = IF rr.bad THEN [r |-> -1, p |-> q]
                 ELSE IF p.qdn \notin {NoDn, rr.own} THEN [r |-> 0, p |-> q]
                 ELSE IF Asked(p, rr) THEN [r |-> 1, p |-> a]
                 ELSE IF p.qdn # NoDn /\ rr.typ = "CNAME" /\ p.nrr = 0
                 THEN IF rr.name = NoDn THEN [r |-> -1, p |-> q] ELSE [r |-> 0, p |-> b]
                 ELSE [r |-> 0, p |-> q]
      BY <2>10 DEF a, b
    <3>4. Alias(rr, p.qdn) <=> rr.own = p.qdn /\ rr.typ = "CNAME"
      BY DEF Alias
    <3> QED
      BY <2>8, <3>1, <3>2, <3>3, <3>4
  <2> QED
    BY <2>20, <2>21, <2>22, <2>23, <2>30
<1> QED
  BY <1>2, <1>3

\* A pass is the loop over its turns.
LEMMA PassLoop ==
  ASSUME NEW typ \in Types, NEW ans \in Seq(Rrs), NEW p \in PState(typ), p.cur = 0, p.rrl = Len(ans)
  PROVE  \E f : /\ f[0] = [rrs |-> << >>, r |-> 0, p |-> p] /\ \A n \in 1 .. Len(ans) : f[n] = NextTurn(f[n - 1], ans)
               /\ (\A n \in 0 .. Len(ans) : f[n] \in Passing(typ, ans))
               /\ OnePass(p, ans) = f[Len(ans)]
<1> DEFINE c0 == [rrs |-> << >>, r |-> 0, p |-> p]
           W == [n \in 0 .. Len(ans) |-> Passing(typ, ans)]
           Turned(t, n) == NextTurn(t, ans)
           D == [vn \in Passing(typ, ans) \X (1 .. Len(ans)) |-> Turned(vn[1], vn[2])]
           Is(f) == f = [n \in 0 .. Len(ans) |-> IF n = 0 THEN c0 ELSE Turned(f[n - 1], n)]
           turns == CHOOSE f : Is(f)
<1>1. Len(ans) \in Nat
  BY LenProperties
<1>2. c0 \in Passing(typ, ans)
  <2>1. << >> \in Seq(Rrs)
    BY EmptySeq
  <2> QED
    BY <1>1, <2>1 DEF Passing
<1>3. ASSUME NEW n \in 1 .. Len(ans), NEW t \in Passing(typ, ans) PROVE Turned(t, n) \in Passing(typ, ans)
  BY NextTurnIs
<1>9. OnePass(p, ans) = turns[Len(ans)]
  BY Zenon DEF OnePass, c0
<1> HIDE DEF Turned, c0
<1>4. Leads(Len(ans), W, c0, D)
  BY <1>1, <1>2, <1>3 DEF Leads
<1> HIDE DEF W, D
<1>5. PICK f : IsLoop(f, Len(ans), c0, D)
  BY <1>1, <1>4, LoopExists
<1>6. \A n \in 0 .. Len(ans) : f[n] \in W[n]
  BY <1>1, <1>4, <1>5, LoopStates
<1>7. Is(f)
  <2>1. \A n \in 1 .. Len(ans) : f[n - 1] \in Passing(typ, ans)
    BY <1>1, <1>6 DEF W
  <2>2. \A n \in 1 .. Len(ans) : D[<<f[n - 1], n>>] = Turned(f[n - 1], n)
    BY <2>1 DEF D
  <2>3. \A n \in 0 .. Len(ans) : (IF n = 0 THEN c0 ELSE D[<<f[n - 1], n>>])
                              = (IF n = 0 THEN c0 ELSE Turned(f[n - 1], n))
    BY <1>1, <2>2
  <2>4. f = [n \in 0 .. Len(ans) |-> IF n = 0 THEN c0 ELSE D[<<f[n - 1], n>>]]
    BY <1>5 DEF IsLoop
  <2> QED
    BY <2>3, <2>4, Zenon
<1>8. Is(turns)
  <2> HIDE DEF Is
  <2> QED
    BY <1>7
<1> HIDE DEF turns
<1>10. turns[0] = c0 /\ \A n \in 1 .. Len(ans) : turns[n] = Turned(turns[n - 1], n)
  <2> DEFINE N == Len(ans)
  <2>1. N \in Nat /\ turns = [n \in 0 .. N |-> IF n = 0 THEN c0 ELSE Turned(turns[n - 1], n)]
    BY <1>1, <1>8
  <2> HIDE DEF N
  <2>2. 0 \in 0 .. N
    BY <2>1
  <2>3. turns[0] = c0
    BY <2>1, <2>2, Zenon
  <2>4. ASSUME NEW n \in 1 .. N PROVE turns[n] = Turned(turns[n - 1], n)
    <3>1. n \in 0 .. N /\ n # 0
      BY <2>1
    <3> QED
      BY <2>1, <3>1, Zenon
  <2> QED
    BY <2>3, <2>4 DEF N
<1>11. \A n \in 0 .. Len(ans) : turns[n] \in Passing(typ, ans)
  <2>1. turns[0] \in W[0]
    BY <1>1, <1>2, <1>10 DEF W
  <2>2. \A n \in 1 .. Len(ans) : turns[n - 1] \in W[n - 1] => turns[n] \in W[n]
    BY <1>1, <1>3, <1>10 DEF W
  <2>3. \A n \in 0 .. Len(ans) : turns[n] \in W[n]
    BY <1>1, <2>1, <2>2, LoopInvariant
  <2> QED
    BY <2>3 DEF W
<1>12. \A n \in 1 .. Len(ans) : turns[n] = NextTurn(turns[n - 1], ans)
  BY <1>10 DEF Turned
<1> QED
  BY <1>9, <1>10, <1>11, <1>12 DEF c0

\* One more record of those in order.
LEMMA InOrderMore ==
  ASSUME NEW ans \in Seq(Rrs), NEW n \in 1 .. Len(ans), NEW here \in SUBSET (1 .. n - 1),
         NEW rrs \in Seq(Rrs), InOrder(rrs, here, ans)
  PROVE  InOrder(Append(rrs, ans[n]), here \cup {n}, ans)
<1> DEFINE more == here \cup {n}
           upto(i) == {j \in here : j <= i}
           u == Append(rrs, ans[n])
<1>1. Len(ans) \in Nat /\ Len(rrs) \in Nat /\ ans[n] \in Rrs
  BY LenProperties, ElementOfSeq
<1>2. IsFiniteSet(here)
  <2>1. IsFiniteSet(1 .. n - 1)
    BY <1>1, FS_Interval
  <2> QED
    BY <2>1, FS_Subset
<1>3. n \notin here /\ \A i \in here : i \in 1 .. n - 1
  BY <1>1
<1>4. IsFiniteSet(more) /\ Cardinality(more) = Cardinality(here) + 1
  BY <1>2, <1>3, FS_AddElement
<1>5. Len(u) = Len(rrs) + 1 /\ u[Len(rrs) + 1] = ans[n] /\ \A k \in 1 .. Len(rrs) : u[k] = rrs[k]
  BY <1>1, AppendProperties
<1>6. Len(rrs) = Cardinality(here) /\ \A i \in here : rrs[Cardinality(upto(i))] = ans[i]
  BY DEF InOrder
<1>7. ASSUME NEW i \in here PROVE Cardinality(upto(i)) \in 1 .. Len(rrs)
  <2>1. upto(i) \in SUBSET here /\ i \in upto(i)
    BY <1>1, <1>3
  <2> HIDE DEF upto
  <2>2. IsFiniteSet(upto(i)) /\ Cardinality(upto(i)) <= Cardinality(here)
    BY <1>2, <2>1, FS_Subset
  <2>3. Cardinality(upto(i)) \in Nat /\ Cardinality(upto(i)) # 0
    BY <2>1, <2>2, FS_CardinalityType, FS_EmptySet
  <2> QED
    BY <1>1, <1>6, <2>2, <2>3
<1>8. ASSUME NEW i \in here PROVE {j \in more : j <= i} = upto(i)
  <2>1. n \in Int /\ i \in Int /\ i < n
    BY <1>1
  <2>2. \A j : j \in more /\ j <= i <=> j \in here /\ j <= i
    BY <2>1
  <2> QED
    BY <2>2
<1>9. {j \in more : j <= n} = more
  <2>1. n \in Int /\ \A j \in more : j \in Int /\ j <= n
    BY <1>1
  <2> QED
    BY <2>1
<1> HIDE DEF upto, u
<1>10. ASSUME NEW i \in more PROVE u[Cardinality({j \in more : j <= i})] = ans[i]
  <2>1. CASE i \in here
    <3>1. Cardinality({j \in more : j <= i}) = Cardinality(upto(i))
      BY <1>8, <2>1
    <3> QED
      BY <1>5, <1>6, <1>7, <2>1, <3>1
  <2>2. CASE i = n
    BY <1>4, <1>5, <1>6, <1>9, <2>2
  <2> QED
    BY <2>1, <2>2
<1>11. Len(u) = Cardinality(more)
  BY <1>4, <1>5, <1>6
<1> HIDE DEF more
<1>12. InOrder(u, more, ans)
  BY <1>10, <1>11 DEF InOrder
<1> QED
  BY <1>12 DEF u, more

\* The aliases go one further.
LEMMA AliasesMore ==
  ASSUME NEW ans \in Seq(Rrs), NEW n \in 1 .. Len(ans), NEW chain \in SUBSET (1 .. n - 1), NEW from, NEW to, NEW typ,
         Aliases(chain, from, to, typ, ans), Alias(ans[n], to),
         \A k \in 1 .. n - 1 : Alias(ans[k], to) \/ Answers(ans[k], to, typ) => \E j \in chain : k <= j /\ j < n
  PROVE  Aliases(chain \cup {n}, from, ans[n].name, typ, ans)
<1> DEFINE more == chain \cup {n}
<1>1. Len(ans) \in Nat /\ n \in Nat
  BY LenProperties
<1>2. \A i \in chain : i \in Int /\ i < n
  BY <1>1
<1>3. /\ chain = {} => to = from
      /\ \A i \in chain :
           /\ (\A j \in chain : i <= j) => ans[i].own = from
           /\ (\A j \in chain : j <= i) => ans[i].name = to
           /\ \A j \in chain : i < j /\ (\A k \in chain : k <= i \/ j <= k) => ans[i].name = ans[j].own
           /\ Alias(ans[i], ans[i].own)
           /\ \A k \in 1 .. i - 1 :
                Alias(ans[k], ans[i].own) \/ Answers(ans[k], ans[i].own, typ) => \E j \in chain : k <= j /\ j < i
  BY DEF Aliases
<1>4. \A i \in more : i \in Int /\ i <= n /\ (i = n \/ i \in chain)
  BY <1>1, <1>2
<1>5. \A i \in chain : i \in more
  OBVIOUS
<1>6. n \in more
  OBVIOUS
<1> HIDE DEF more
<1>7. ans[n].own = to
  BY DEF Alias
<1>8. ASSUME NEW i \in more, \A j \in more : i <= j PROVE ans[i].own = from
  <2>1. CASE i = n
    <3>1. chain = {}
      BY <1>1, <1>2, <1>5, <1>8, <2>1
    <3> QED
      BY <1>3, <1>7, <2>1, <3>1
  <2>2. CASE i \in chain
    BY <1>3, <1>5, <1>8, <2>2
  <2> QED
    BY <1>4, <2>1, <2>2
<1>9. ASSUME NEW i \in more, \A j \in more : j <= i PROVE i = n
  BY <1>1, <1>4, <1>6, <1>9
<1>10. ASSUME NEW i \in more, NEW j \in more, i < j, \A k \in more : k <= i \/ j <= k PROVE ans[i].name = ans[j].own
  <2>1. i \in chain
    BY <1>1, <1>4, <1>10
  <2>2. CASE j = n
    <3>1. \A k \in chain : k <= i
      BY <1>1, <1>2, <1>5, <1>10, <2>2
    <3> QED
      BY <1>3, <1>7, <2>1, <2>2, <3>1
  <2>3. CASE j \in chain
    BY <1>3, <1>5, <1>10, <2>1, <2>3
  <2> QED
    BY <1>4, <2>2, <2>3
<1>11. ASSUME NEW i \in more PROVE Alias(ans[i], ans[i].own)
  BY <1>3, <1>4, <1>7, <1>11
<1>12. ASSUME NEW i \in more, NEW k \in 1 .. i - 1, Alias(ans[k], ans[i].own) \/ Answers(ans[k], ans[i].own, typ)
       PROVE  \E j \in more : k <= j /\ j < i
  <2>1. CASE i = n
    <3>1. k \in 1 .. n - 1 /\ (Alias(ans[k], to) \/ Answers(ans[k], to, typ))
      BY <1>7, <1>12, <2>1
    <3> QED
      BY <1>5, <2>1, <3>1
  <2>2. CASE i \in chain
    <3>1. \E j \in chain : k <= j /\ j < i
      BY <1>3, <1>12, <2>2
    <3> QED
      BY <1>5, <3>1
  <2> QED
    BY <1>4, <2>1, <2>2
<1>13. Aliases(more, from, ans[n].name, typ, ans)
  BY <1>6, <1>8, <1>9, <1>10, <1>11, <1>12 DEF Aliases
<1> QED
  BY <1>13 DEF more

-----------------------------------------------------------------------------
(* What a pass has come to after n records.                                 *)

Here(last, n, name, typ, ans) == {i \in last + 1 .. n : Answers(ans[i], name, typ)}
LastIn(chain, last) == last \in {0} \cup chain /\ \A j \in chain : j <= last
Least(ttl, held, ans) ==
  /\ ttl = TtlMax \/ \E i \in held : ttl = ans[i].ttl
  /\ \A i \in held : ttl <= ans[i].ttl

ComeTo(t, qdn, typ, ans, n, chain, last) ==
  LET here == Here(last, n, t.p.qdn, typ, ans) IN
    /\ LastIn(chain, last)
    /\ Aliases(chain, qdn, t.p.qdn, typ, ans)
    /\ \A k \in last + 1 .. n : Alias(ans[k], t.p.qdn) => \E i \in here : i < k
    /\ InOrder(t.rrs, here, ans)
    /\ t.p.nrr = Len(t.rrs)
    /\ Least(t.p.ttl, chain \cup here, ans)
    /\ t.p.at = "payload" => t.p.qdn = qdn

LEMMA TtlIsInt == \A x \in 0 .. TtlMax : x \in Int
  BY DEF TtlMax

LEMMA LeastMore ==
  ASSUME NEW ans \in Seq(Rrs), NEW n \in 1 .. Len(ans), NEW held \in SUBSET (1 .. n), NEW ttl \in 0 .. TtlMax,
         Least(ttl, held, ans)
  PROVE  Least(Lesser(ttl, ans[n].ttl), held \cup {n}, ans)
<1>1. ans[n].ttl \in 0 .. TtlMax
  BY ElementOfSeq, RrIs
<1>2. Len(ans) \in Nat
  BY LenProperties
<1>3. \A i \in held : ans[i].ttl \in 0 .. TtlMax
  <2> TAKE i \in held
  <2>1. i \in 1 .. Len(ans)
    BY <1>2
  <2> QED
    BY <2>1, ElementOfSeq, RrIs
<1> DEFINE less == Lesser(ttl, ans[n].ttl)
<1>4. /\ less \in Int /\ less <= ttl /\ less <= ans[n].ttl /\ (less = ttl \/ less = ans[n].ttl)
      /\ ttl \in Int
  <2> DEFINE other == ans[n].ttl
  <2>1. ttl \in Int /\ other \in Int
    BY <1>1, TtlIsInt
  <2> HIDE DEF other
  <2>2. Lesser(ttl, other) \in {ttl, other} /\ Lesser(ttl, other) <= ttl /\ Lesser(ttl, other) <= other
    BY <2>1 DEF Lesser
  <2> QED
    BY <2>1, <2>2 DEF other
<1> HIDE DEF less
<1>5. \A i \in held : less <= ans[i].ttl
  <2> TAKE i \in held
  <2> DEFINE other == ans[i].ttl
  <2>0. other \in 0 .. TtlMax
    BY <1>3
  <2> HIDE DEF other
  <2>1. other \in Int
    BY <2>0, TtlIsInt
  <2>2. ttl <= other
    BY DEF Least, other
  <2>3. less \in Int /\ less <= ttl /\ ttl \in Int
    BY <1>4
  <2>4. less <= other
    BY ONLY <2>1, <2>2, <2>3
  <2> QED
    BY <2>4 DEF other
<1>6. less = TtlMax \/ \E i \in held \cup {n} : less = ans[i].ttl
  BY <1>4 DEF Least
<1>7. \A i \in held \cup {n} : less <= ans[i].ttl
  BY <1>4, <1>5
<1>8. Least(less, held \cup {n}, ans)
  BY <1>6, <1>7, Zenon DEF Least
<1> QED
  BY <1>8 DEF less

\* The next turn comes to what there is with one record more.
LEMMA ComeFurther ==
  ASSUME NEW typ \in Types, NEW ans \in Seq(Rrs), NEW qdn \in Dns, NEW n \in 1 .. Len(ans), NEW t \in Passing(typ, ans),
         t.r = 0, t.p.cur = n - 1, NextTurn(t, ans).r = 0,
         NEW chain \in SUBSET (1 .. n - 1), NEW last, ComeTo(t, qdn, typ, ans, n - 1, chain, last)
  PROVE  /\ NextTurn(t, ans).p.cur = n
         /\ \E c \in SUBSET (1 .. n), l \in 0 .. n : ComeTo(NextTurn(t, ans), qdn, typ, ans, n, c, l)
<1> DEFINE u == NextTurn(t, ans)
           rr == ans[n]
           name == t.p.qdn
           H == Here(last, n - 1, name, typ, ans)
           h == Here(last, n, name, typ, ans)
<1>1. Len(ans) \in Nat /\ n \in Nat /\ n - 1 \in Nat /\ t.p.rrl # 0 /\ t.p.cur + 1 = n /\ t.p.nrr \in Nat /\ t.p.ttl \in 0 .. TtlMax
      /\ t.rrs \in Seq(Rrs)
  BY LenProperties DEF Passing, PState
<1>2. u.p.cur = n /\ \/ Skipped(t, u) /\ ~Answers(rr, name, typ) /\ (Alias(rr, name) => t.p.nrr # 0)
                     \/ Taken(t, u, rr) /\ Answers(rr, name, typ)
                     \/ Led(t, u, rr) /\ Alias(rr, name) /\ t.p.nrr = 0
  <2>1. t.r = 0 /\ t.p.rrl # 0 /\ NextTurn(t, ans).r = 0
    BY <1>1
  <2> QED
    BY <1>1, <2>1, NextTurnIs
<1>3. /\ LastIn(chain, last) /\ Aliases(chain, qdn, name, typ, ans)
      /\ \A k \in last + 1 .. n - 1 : Alias(ans[k], name) => \E i \in H : i < k
      /\ InOrder(t.rrs, H, ans) /\ t.p.nrr = Len(t.rrs)
      /\ Least(t.p.ttl, chain \cup H, ans)
      /\ t.p.at = "payload" => name = qdn
  BY DEF ComeTo
<1>4. last \in 0 .. n - 1 /\ last \in 0 .. n /\ n \in 0 .. n /\ chain \in SUBSET (1 .. n)
  BY <1>1, <1>3 DEF LastIn
<1>5. H \in SUBSET (1 .. n - 1)
  BY <1>1, <1>4 DEF Here
<1>6. h = IF Answers(rr, name, typ) THEN H \cup {n} ELSE H
  <2>1. \A i : i \in last + 1 .. n <=> i \in last + 1 .. n - 1 \/ i = n
    BY <1>1, <1>4
  <2> QED
    BY <2>1 DEF Here
<1> HIDE DEF H, h, u, rr, name
<1>10. (H = {} <=> t.p.nrr = 0) /\ IsFiniteSet(H) /\ \A i \in H : i < n
  <2>1. IsFiniteSet(1 .. n - 1)
    <3>1. 1 \in Int /\ n - 1 \in Int
      BY <1>1
    <3> QED
      BY <3>1, FS_Interval
  <2>2. IsFiniteSet(H)
    BY <1>5, <2>1, FS_Subset
  <2>3. Cardinality(H) = t.p.nrr
    BY <1>3 DEF InOrder
  <2>4. \A i \in H : i < n
    BY <1>1, <1>5
  <2> QED
    BY <2>2, <2>3, <2>4, FS_EmptySet
<1>11. ASSUME NEW k \in last + 1 .. n PROVE k \in last + 1 .. n - 1 \/ k = n
  BY <1>1, <1>4
<1>7. CASE Skipped(t, u) /\ ~Answers(rr, name, typ) /\ (Alias(rr, name) => t.p.nrr # 0)
  <2>1. u.rrs = t.rrs /\ u.p.qdn = name /\ u.p.at = t.p.at /\ u.p.ttl = t.p.ttl /\ u.p.nrr = t.p.nrr /\ h = H
    BY <1>6, <1>7 DEF Skipped, name
  <2>2. ASSUME NEW k \in last + 1 .. n, Alias(ans[k], name) PROVE \E i \in h : i < k
    <3>1. CASE k \in last + 1 .. n - 1
      BY <1>3, <2>1, <2>2, <3>1
    <3>2. CASE k = n
      <4>1. H # {}
        BY <1>7, <1>10, <2>2, <3>2 DEF rr
      <4> QED
        BY <1>10, <2>1, <3>2, <4>1
    <3> QED
      BY <1>11, <3>1, <3>2
  <2>3. ComeTo(u, qdn, typ, ans, n, chain, last)
    BY <1>3, <2>1, <2>2 DEF ComeTo, h
  <2> QED
    BY <1>2, <1>4, <2>3 DEF u
<1>8. CASE Taken(t, u, rr) /\ Answers(rr, name, typ)
  <2>1. u.rrs = Append(t.rrs, rr) /\ u.p.qdn = name /\ u.p.at = t.p.at /\ u.p.ttl = Lesser(t.p.ttl, rr.ttl) /\ u.p.nrr = t.p.nrr + 1 /\ h = H \cup {n}
    BY <1>6, <1>8 DEF Taken, name
  <2>2. InOrder(u.rrs, h, ans)
    BY <1>1, <1>3, <1>5, <2>1, InOrderMore DEF rr
  <2>3. u.p.nrr = Len(u.rrs)
    <3>1. rr \in Rrs
      BY ElementOfSeq DEF rr
    <3> QED
      BY <1>1, <1>3, <2>1, <3>1, AppendProperties
  <2>4. Least(u.p.ttl, chain \cup h, ans)
    <3>1. chain \cup H \in SUBSET (1 .. n)
      BY <1>1, <1>4, <1>5
    <3>2. chain \cup h = (chain \cup H) \cup {n}
      BY <2>1
    <3>3. Least(Lesser(t.p.ttl, ans[n].ttl), (chain \cup H) \cup {n}, ans)
      BY <1>1, <1>3, <3>1, LeastMore
    <3> QED
      BY <2>1, <3>2, <3>3 DEF rr
  <2>5. ASSUME NEW k \in last + 1 .. n, Alias(ans[k], name) PROVE \E i \in h : i < k
    <3>1. CASE k \in last + 1 .. n - 1
      BY <1>3, <2>1, <2>5, <3>1
    <3>2. k # n
      BY <1>8, <2>5 DEF rr, Answers, Alias, Types
    <3> QED
      BY <1>11, <3>1, <3>2
  <2>6. ComeTo(u, qdn, typ, ans, n, chain, last)
    BY <1>3, <2>1, <2>2, <2>3, <2>4, <2>5 DEF ComeTo, h
  <2> QED
    BY <1>2, <1>4, <2>6 DEF u
<1>9. CASE Led(t, u, rr) /\ Alias(rr, name) /\ t.p.nrr = 0
  <2> DEFINE c == chain \cup {n}
             g == Here(n, n, u.p.qdn, typ, ans)
  <2>1. u.rrs = t.rrs /\ u.p.qdn = rr.name /\ u.p.at = "dnbuf" /\ u.p.ttl = Lesser(t.p.ttl, rr.ttl) /\ u.p.nrr = 0
    BY <1>9 DEF Led
  <2>2. H = {}
    BY <1>9, <1>10
  <2>3. g = {}
    BY <1>1 DEF Here
  <2>4. LastIn(c, n)
    BY <1>1 DEF LastIn
  <2>5. Aliases(c, qdn, u.p.qdn, typ, ans)
    <3>1. ASSUME NEW k \in 1 .. n - 1, Alias(ans[k], name) \/ Answers(ans[k], name, typ) PROVE \E j \in chain : k <= j /\ j < n
      <4>1. CASE k <= last
        <5>1. last \in chain
          BY <1>3, <4>1 DEF LastIn
        <5> QED
          BY <1>1, <1>4, <4>1, <5>1
      <4>2. CASE ~(k <= last)
        <5>1. k \in last + 1 .. n - 1
          BY <1>1, <1>4, <4>2
        <5>2. ~Alias(ans[k], name)
          BY <1>3, <2>2, <5>1
        <5>3. ~Answers(ans[k], name, typ)
          BY <2>2, <5>1 DEF H, Here, name
        <5> QED
          BY <3>1, <5>2, <5>3
      <4> QED
        BY <4>1, <4>2
    <3>2. Aliases(c, qdn, ans[n].name, typ, ans)
      <4>1. Alias(ans[n], name) /\ Aliases(chain, qdn, name, typ, ans)
        BY <1>3, <1>9 DEF rr
      <4> QED
        BY <3>1, <4>1, AliasesMore
    <3> QED
      BY <2>1, <3>2 DEF rr
  <2>6. InOrder(u.rrs, g, ans)
    BY <1>3, <2>1, <2>2, <2>3
  <2>7. u.p.nrr = Len(u.rrs)
    BY <1>3, <1>9, <2>1
  <2>8. Least(u.p.ttl, c \cup g, ans)
    <3>1. Least(Lesser(t.p.ttl, ans[n].ttl), chain \cup {n}, ans)
      <4>1. Least(t.p.ttl, chain, ans)
        BY <1>3, <2>2
      <4> QED
        BY <1>1, <1>4, <4>1, LeastMore
    <3> QED
      BY <2>1, <2>3, <3>1 DEF rr
  <2>9. c \in SUBSET (1 .. n)
    BY <1>1, <1>4
  <2>10. ComeTo(u, qdn, typ, ans, n, c, n)
    <3>1. \A k : k \notin n + 1 .. n
      BY <1>1
    <3> HIDE DEF c
    <3> QED
      BY <2>1, <2>4, <2>5, <2>6, <2>7, <2>8, <3>1 DEF ComeTo
  <2> HIDE DEF c
  <2> QED
    BY <1>2, <1>4, <2>9, <2>10 DEF u
<1> QED
  BY <1>2, <1>7, <1>8, <1>9

\* A pass that does not fail comes to the records that answer, behind the aliases.
LEMMA OnePassIs ==
  ASSUME NEW typ \in Types, NEW ans \in Seq(Rrs), NEW qdn \in Dns, NEW at \in Callers
  PROVE  LET end == OnePass(InitParse(qdn, at, typ, "IN", ans), ans) IN
           /\ end \in Passing(typ, ans)
           /\ end.r = 0 => \E chain \in SUBSET (1 .. Len(ans)), last \in 0 .. Len(ans) :
                             ComeTo(end, qdn, typ, ans, Len(ans), chain, last)
<1> DEFINE p == InitParse(qdn, at, typ, "IN", ans)
           N == Len(ans)
           t0 == [rrs |-> << >>, r |-> 0, p |-> p]
           Done(t, n) == t.r = 0 => t.p.cur = n /\ \E c \in SUBSET (1 .. n), l \in 0 .. n : ComeTo(t, qdn, typ, ans, n, c, l)
<1>1. N \in Nat
  BY LenProperties
<1>2. /\ p \in PState(typ) /\ p.cur = 0 /\ p.rrl = N
      /\ p.qdn = qdn /\ p.ttl = TtlMax /\ p.nrr = 0
  BY <1>1 DEF InitParse, PState, TtlMax, Callers, Places
<1> HIDE DEF p
<1>3. PICK f : /\ f[0] = t0 /\ \A n \in 1 .. Len(ans) : f[n] = NextTurn(f[n - 1], ans)
               /\ (\A n \in 0 .. Len(ans) : f[n] \in Passing(typ, ans))
               /\ OnePass(p, ans) = f[Len(ans)]
  BY <1>2, PassLoop
<1> DEFINE W == [n \in 0 .. N |-> {t \in Passing(typ, ans) : Done(t, n)}]
<1>4. ComeTo(t0, qdn, typ, ans, 0, {}, 0)
  <2>1. Here(0, 0, qdn, typ, ans) = {}
    BY DEF Here
  <2>2. LastIn({}, 0)
    BY DEF LastIn
  <2>3. Aliases({}, qdn, qdn, typ, ans) /\ \A k : k \notin 0 + 1 .. 0
    BY DEF Aliases
  <2>4. InOrder(<< >>, {}, ans) /\ Len(<< >>) = 0
    <3>1. Cardinality({}) = 0 /\ Len(<< >>) = 0
      BY FS_EmptySet, EmptySeq
    <3> QED
      BY <3>1 DEF InOrder
  <2>5. Least(TtlMax, {}, ans)
    BY DEF Least
  <2>6. t0.p = p /\ t0.rrs = << >>
    OBVIOUS
  <2> HIDE DEF t0
  <2> QED
    BY <1>2, <2>1, <2>2, <2>3, <2>4, <2>5, <2>6 DEF ComeTo
<1>5. f[0] \in W[0]
  <2>1. t0.r = 0 /\ t0.p.cur = 0
    BY <1>2
  <2> HIDE DEF t0
  <2>2. {} \in SUBSET (1 .. 0) /\ 0 \in 0 .. 0 /\ 0 \in 0 .. N
    BY <1>1
  <2>3. Done(t0, 0)
    BY <1>4, <2>1, <2>2
  <2> HIDE DEF Done
  <2> QED
    BY <1>3, <2>2, <2>3
<1>6. ASSUME NEW n \in 1 .. N, f[n - 1] \in W[n - 1] PROVE f[n] \in W[n]
  <2> DEFINE t == f[n - 1]
  <2>1. n - 1 \in 0 .. N /\ n \in 0 .. N
    BY <1>1
  <2>2. t \in Passing(typ, ans) /\ Done(t, n - 1)
    <3> HIDE DEF Done
    <3> QED
      BY <1>6, <2>1
  <2>3. f[n] = NextTurn(t, ans) /\ f[n] \in Passing(typ, ans)
    BY <1>3, <2>1
  <2> HIDE DEF t
  <2>4. t.r \in {0, -1}
    BY <2>2 DEF Passing
  <2>5. ASSUME f[n].r = 0 PROVE f[n].p.cur = n /\ \E c \in SUBSET (1 .. n), l \in 0 .. n : ComeTo(f[n], qdn, typ, ans, n, c, l)
    <3>1. t.r = 0
      <4>1. t.r < 0 => NextTurn(t, ans) = t
        BY <2>2, NextTurnIs
      <4> QED
        BY <2>3, <2>4, <2>5, <4>1
    <3>2. PICK c \in SUBSET (1 .. n - 1), l \in 0 .. n - 1 : ComeTo(t, qdn, typ, ans, n - 1, c, l)
      BY <2>2, <3>1
    <3>3. t.p.cur = n - 1
      BY <2>2, <3>1
    <3>4. NextTurn(t, ans).r = 0
      BY <2>3, <2>5
    <3>5. /\ NextTurn(t, ans).p.cur = n
          /\ \E cc \in SUBSET (1 .. n), ll \in 0 .. n : ComeTo(NextTurn(t, ans), qdn, typ, ans, n, cc, ll)
      BY <2>2, <3>1, <3>2, <3>3, <3>4, ComeFurther
    <3> QED
      BY <2>3, <3>5
  <2>6. Done(f[n], n)
    BY <2>5
  <2> HIDE DEF Done
  <2> QED
    BY <2>1, <2>3, <2>6
<1>7. \A n \in 0 .. N : f[n] \in W[n]
  <2> HIDE DEF W, N
  <2> QED
    BY <1>1, <1>5, <1>6, LoopInvariant
<1>8. N \in 0 .. N
  BY <1>1
<1>9. f[N] \in Passing(typ, ans) /\ Done(f[N], N)
  <2> HIDE DEF Done
  <2> QED
    BY <1>7, <1>8
<1> DEFINE end == OnePass(p, ans)
<1>10. end = f[N]
  BY <1>3
<1>11. end \in Passing(typ, ans)
  BY <1>9, <1>10
<1>12. end.r = 0 => \E c \in SUBSET (1 .. N), l \in 0 .. N : ComeTo(end, qdn, typ, ans, N, c, l)
  BY <1>9, <1>10
<1> HIDE DEF end
<1> QED
  BY <1>11, <1>12, Zenon DEF end, p

\* A second pass starts like the first one.
LEMMA RewindIs ==
  ASSUME NEW typ \in Types, NEW ans \in Seq(Rrs), NEW qdn \in Dns, NEW at \in Callers,
         NEW t \in Passing(typ, ans)
  PROVE  Rewind(t.p, qdn, at, ans) = InitParse(qdn, at, typ, "IN", ans)
<1> DEFINE p == t.p
           N == Len(ans)
           M == TtlMax
           a == [p EXCEPT !.qdn = qdn, !.at = at, !.cur = 0, !.rrl = N, !.ttl = M, !.nrr = 0]
           b == [qdn |-> qdn, at |-> at, qtyp |-> typ, qcls |-> "IN", cur |-> 0, rrl |-> N, ttl |-> M, nrr |-> 0]
<1>1. p \in PState(typ) /\ at \in Places /\ N \in Nat /\ M \in 0 .. TtlMax /\ 0 \in Nat
  BY LenProperties DEF Passing, TtlMax, Callers, Places
<1> HIDE DEF p, N, M
<1>2. /\ a \in PState(typ) /\ a.qdn = qdn /\ a.at = at /\ a.cur = 0 /\ a.rrl = N /\ a.ttl = M /\ a.nrr = 0
  BY <1>1 DEF PState
<1>3. /\ b \in PState(typ) /\ b.qdn = qdn /\ b.at = at /\ b.cur = 0 /\ b.rrl = N /\ b.ttl = M /\ b.nrr = 0
  BY <1>1 DEF PState
<1>4. \A x, y \in PState(typ) :
        x.qdn = y.qdn /\ x.at = y.at /\ x.cur = y.cur /\ x.rrl = y.rrl /\ x.ttl = y.ttl /\ x.nrr = y.nrr => x = y
  BY DEF PState
<1>5. a = b
  <2> HIDE DEF a, b
  <2> QED
    BY <1>2, <1>3, <1>4
<1> QED
  BY <1>5, Zenon DEF Rewind, InitParse, p, N, M

\* Every result is made of what one pass has come to, and what is written has the length of what was
\* allocated.
Made(end, qname, room) ==
  [status |-> "OK", nrr |-> end.p.nrr, rrs |-> end.rrs, cname |-> end.p.qdn, qname |-> qname, ttl |-> end.p.ttl,
   room |-> room, used |-> room]

LEMMA ResultIs ==
  ASSUME NEW typ \in Types, NEW ans \in Seq(Rrs), NEW qdn \in Dns, NEW at \in Callers
  PROVE  LET end == OnePass(InitParse(qdn, at, typ, "IN", ans), ans)
             got == Parse(typ, qdn, at, ans) IN
           /\ got.status = "OK" => end.r = 0 /\ end.p.nrr # 0 /\ \E room : got = Made(end, qdn, room)
           /\ got.status = "NODATA" => end.r = 0 /\ end.p.nrr = 0
<1> DEFINE first == InitParse(qdn, at, typ, "IN", ans)
           end == OnePass(first, ans)
           got == Parse(typ, qdn, at, ans)
           second == OnePass(Rewind(end.p, qdn, at, ans), ans)
           finish == StdrrFinish(second.p, qdn)
           Right == /\ got.status = "OK" => end.r = 0 /\ end.p.nrr # 0 /\ \E room : got = Made(end, qdn, room)
                    /\ got.status = "NODATA" => end.r = 0 /\ end.p.nrr = 0
<1>1. end \in Passing(typ, ans) /\ (end.r = 0 => end.p.nrr = Len(end.rrs) /\ (end.p.at = "payload" => end.p.qdn = qdn))
  <2> HIDE DEF end
  <2>1. /\ end \in Passing(typ, ans)
        /\ end.r = 0 => \E chain \in SUBSET (1 .. Len(ans)), last \in 0 .. Len(ans) :
                          ComeTo(end, qdn, typ, ans, Len(ans), chain, last)
    BY OnePassIs DEF end
  <2> QED
    BY <2>1 DEF ComeTo
<1>2. end.rrs \in Seq(Rrs) /\ end.r \in {0, -1}
  BY <1>1 DEF Passing
<1>3. OnePass(Rewind(end.p, qdn, at, ans), ans) = end
  <2> HIDE DEF end
  <2>1. Rewind(end.p, qdn, at, ans) = first
    BY <1>1, RewindIs
  <2> QED
    BY <2>1 DEF end
<1>4. DOMAIN end.rrs = 1 .. Len(end.rrs)
  BY <1>2, LenProperties
<1>5. LET done == StdrrFinish(end.p, qdn) IN
        /\ done.cname = end.p.qdn /\ done.ttl = end.p.ttl /\ done.written = StdrrSize(end.p, qdn)
        /\ done.qname = IF end.p.at = "payload" THEN end.p.qdn ELSE qdn
  <2> HIDE DEF end
  <2> DEFINE p == end.p
             a == SizeOf(p.qdn)
             b == SizeOf(qdn)
  <2>1. p.qdn \in Dns
    BY <1>1 DEF Passing, PState
  <2>2. a \in Nat
    BY <2>1, RecordsAssumption
  <2> HIDE DEF p, a, b
  <2>3. a + (IF p.at = "payload" THEN 0 ELSE b) = IF p.at = "payload" THEN a ELSE a + b
    BY <2>2
  <2> USE DEF p, a, b
  <2>4. StdrrSize(end.p, qdn) = IF p.at = "payload" THEN a ELSE a + b
    BY <2>3, Zenon DEF StdrrSize
  <2>5. StdrrFinish(end.p, qdn) =
          IF p.at = "payload" THEN [cname |-> p.qdn, qname |-> p.qdn, ttl |-> p.ttl, written |-> a]
          ELSE [cname |-> p.qdn, qname |-> qdn, ttl |-> p.ttl, written |-> a + b]
    BY Zenon DEF StdrrFinish
  <2> HIDE DEF a, b
  <2> QED
    BY <2>4, <2>5
<1> HIDE DEF first
<1> HIDE DEF end, got
<1>6. ASSUME NEW bad, NEW C, NEW G, bad \in BOOLEAN, end.r < 0 => bad, end.p.nrr = Len(end.rrs) => C = G,
             got = IF bad THEN [status |-> "PROTOCOL"]
                   ELSE IF end.p.nrr = 0 THEN [status |-> "NODATA"]
                   ELSE [status |-> "OK", nrr |-> end.p.nrr, rrs |-> second.rrs,
                         cname |-> finish.cname, qname |-> finish.qname, ttl |-> finish.ttl,
                         room |-> Total(C) + StdrrSize(end.p, qdn), used |-> Total(G) + finish.written]
      PROVE  Right
  <2>1. CASE got.status = "OK"
    <3>1. ~bad /\ end.p.nrr # 0
      BY <1>6, <2>1
    <3>2. end.r = 0
      BY <1>2, <1>6, <3>1
    <3>3. C = G
      BY <1>1, <1>6, <3>2
    <3> DEFINE room == Total(C) + StdrrSize(end.p, qdn)
    <3>4. /\ room = Total(G) + finish.written /\ finish.cname = end.p.qdn /\ finish.ttl = end.p.ttl
          /\ finish.qname = qdn /\ second = end
      <4>1. second = end
        BY <1>3
      <4> HIDE DEF second
      <4>2. finish = StdrrFinish(end.p, qdn)
        BY <4>1
      <4> HIDE DEF finish
      <4> QED
        BY <1>1, <1>5, <3>2, <3>3, <4>1, <4>2
    <3>5. got = [status |-> "OK", nrr |-> end.p.nrr, rrs |-> second.rrs,
                 cname |-> finish.cname, qname |-> finish.qname, ttl |-> finish.ttl,
                 room |-> room, used |-> Total(G) + finish.written]
      BY <1>6, <3>1, Zenon
    <3> HIDE DEF room, finish, second
    <3>6. got = Made(end, qdn, room)
      BY <3>4, <3>5 DEF Made
    <3> QED
      BY <2>1, <3>1, <3>2, <3>6
  <2>2. CASE got.status = "NODATA"
    <3>1. ~bad /\ end.p.nrr = 0
      BY <1>6, <2>2
    <3> QED
      BY <1>2, <1>6, <2>2, <3>1
  <2> QED
    BY <2>1, <2>2
<1>11. CASE typ = "A"
  <2> DEFINE bad == end.r < 0 \/ \E i \in DOMAIN end.rrs : ~(end.rrs[i].size = 4)
             C == [i \in 1 .. end.p.nrr |-> 4]
             G == [i \in DOMAIN second.rrs |-> 4]
  <2>1. got = ParseA(qdn, at, "A", ans, 4)
    BY <1>11 DEF got, Parse
  <2>2. got = IF bad THEN [status |-> "PROTOCOL"]
              ELSE IF end.p.nrr = 0 THEN [status |-> "NODATA"]
              ELSE [status |-> "OK", nrr |-> end.p.nrr, rrs |-> second.rrs,
                    cname |-> finish.cname, qname |-> finish.qname, ttl |-> finish.ttl,
                    room |-> Total(C) + StdrrSize(end.p, qdn), used |-> Total(G) + finish.written]
    BY <1>11, <2>1, Zenon DEF ParseA, Parsed, Result, end, first
  <2>3. end.p.nrr = Len(end.rrs) => C = G
    BY <1>3, <1>4
  <2>4. end.r < 0 => bad
    OBVIOUS
  <2>5. bad \in BOOLEAN
    OBVIOUS
  <2> HIDE DEF bad, C, G
  <2>6. Right
    BY <1>6, <2>2, <2>3, <2>4, <2>5
  <2> QED
    BY <2>6, Zenon DEF end, first, got
<1>12. CASE typ = "AAAA"
  <2> DEFINE bad == end.r < 0 \/ \E i \in DOMAIN end.rrs : ~(end.rrs[i].size = 16)
             C == [i \in 1 .. end.p.nrr |-> 16]
             G == [i \in DOMAIN second.rrs |-> 16]
  <2>1. got = ParseA(qdn, at, "AAAA", ans, 16)
    BY <1>12 DEF got, Parse
  <2>2. got = IF bad THEN [status |-> "PROTOCOL"]
              ELSE IF end.p.nrr = 0 THEN [status |-> "NODATA"]
              ELSE [status |-> "OK", nrr |-> end.p.nrr, rrs |-> second.rrs,
                    cname |-> finish.cname, qname |-> finish.qname, ttl |-> finish.ttl,
                    room |-> Total(C) + StdrrSize(end.p, qdn), used |-> Total(G) + finish.written]
    BY <1>12, <2>1, Zenon DEF ParseA, Parsed, Result, end, first
  <2>3. end.p.nrr = Len(end.rrs) => C = G
    BY <1>3, <1>4
  <2>4. end.r < 0 => bad
    OBVIOUS
  <2>5. bad \in BOOLEAN
    OBVIOUS
  <2> HIDE DEF bad, C, G
  <2>6. Right
    BY <1>6, <2>2, <2>3, <2>4, <2>5
  <2> QED
    BY <2>6, Zenon DEF end, first, got
<1>13. CASE typ = "PTR"
  <2> DEFINE bad == end.r < 0 \/ \E i \in DOMAIN end.rrs : ~(NameRead(end.rrs[i]))
             C == [i \in 1 .. end.p.nrr |-> NameSize(end.rrs[i])]
             G == [i \in DOMAIN second.rrs |-> NameSize(second.rrs[i])]
  <2>1. got = ParsePtr(qdn, at, ans)
    BY <1>13 DEF got, Parse
  <2>2. got = IF bad THEN [status |-> "PROTOCOL"]
              ELSE IF end.p.nrr = 0 THEN [status |-> "NODATA"]
              ELSE [status |-> "OK", nrr |-> end.p.nrr, rrs |-> second.rrs,
                    cname |-> finish.cname, qname |-> finish.qname, ttl |-> finish.ttl,
                    room |-> Total(C) + StdrrSize(end.p, qdn), used |-> Total(G) + finish.written]
    BY <1>13, <2>1, Zenon DEF ParsePtr, Parsed, Result, end, first
  <2>3. end.p.nrr = Len(end.rrs) => C = G
    BY <1>3, <1>4
  <2>4. end.r < 0 => bad
    OBVIOUS
  <2>5. bad \in BOOLEAN
    OBVIOUS
  <2> HIDE DEF bad, C, G
  <2>6. Right
    BY <1>6, <2>2, <2>3, <2>4, <2>5
  <2> QED
    BY <2>6, Zenon DEF end, first, got
<1>14. CASE typ = "MX"
  <2> DEFINE bad == end.r < 0 \/ \E i \in DOMAIN end.rrs : ~(NameRead(end.rrs[i]))
             C == [i \in 1 .. end.p.nrr |-> NameSize(end.rrs[i])]
             G == [i \in DOMAIN second.rrs |-> NameSize(second.rrs[i])]
  <2>1. got = ParseMx(qdn, at, ans)
    BY <1>14 DEF got, Parse
  <2>2. got = IF bad THEN [status |-> "PROTOCOL"]
              ELSE IF end.p.nrr = 0 THEN [status |-> "NODATA"]
              ELSE [status |-> "OK", nrr |-> end.p.nrr, rrs |-> second.rrs,
                    cname |-> finish.cname, qname |-> finish.qname, ttl |-> finish.ttl,
                    room |-> Total(C) + StdrrSize(end.p, qdn), used |-> Total(G) + finish.written]
    BY <1>14, <2>1, Zenon DEF ParseMx, Parsed, Result, end, first
  <2>3. end.p.nrr = Len(end.rrs) => C = G
    BY <1>3, <1>4
  <2>4. end.r < 0 => bad
    OBVIOUS
  <2>5. bad \in BOOLEAN
    OBVIOUS
  <2> HIDE DEF bad, C, G
  <2>6. Right
    BY <1>6, <2>2, <2>3, <2>4, <2>5
  <2> QED
    BY <2>6, Zenon DEF end, first, got
<1>15. CASE typ = "SRV"
  <2> DEFINE bad == end.r < 0 \/ \E i \in DOMAIN end.rrs : ~(NameRead(end.rrs[i]))
             C == [i \in 1 .. end.p.nrr |-> NameSize(end.rrs[i])]
             G == [i \in DOMAIN second.rrs |-> NameSize(second.rrs[i])]
  <2>1. got = ParseSrv(qdn, at, ans)
    BY <1>15 DEF got, Parse
  <2>2. got = IF bad THEN [status |-> "PROTOCOL"]
              ELSE IF end.p.nrr = 0 THEN [status |-> "NODATA"]
              ELSE [status |-> "OK", nrr |-> end.p.nrr, rrs |-> second.rrs,
                    cname |-> finish.cname, qname |-> finish.qname, ttl |-> finish.ttl,
                    room |-> Total(C) + StdrrSize(end.p, qdn), used |-> Total(G) + finish.written]
    BY <1>15, <2>1, Zenon DEF ParseSrv, Parsed, Result, end, first
  <2>3. end.p.nrr = Len(end.rrs) => C = G
    BY <1>3, <1>4
  <2>4. end.r < 0 => bad
    OBVIOUS
  <2>5. bad \in BOOLEAN
    OBVIOUS
  <2> HIDE DEF bad, C, G
  <2>6. Right
    BY <1>6, <2>2, <2>3, <2>4, <2>5
  <2> QED
    BY <2>6, Zenon DEF end, first, got
<1>16. CASE typ = "NAPTR"
  <2> DEFINE bad == end.r < 0 \/ \E i \in DOMAIN end.rrs : ~(Len(end.rrs[i].strs) = 3 /\ NameRead(end.rrs[i]))
             C == [i \in 1 .. end.p.nrr |-> StringsSize(end.rrs[i]) + NameSize(end.rrs[i])]
             G == [i \in DOMAIN second.rrs |-> StringsSize(second.rrs[i]) + NameSize(second.rrs[i])]
  <2>1. got = ParseNaptr(qdn, at, ans)
    BY <1>16 DEF got, Parse
  <2>2. got = IF bad THEN [status |-> "PROTOCOL"]
              ELSE IF end.p.nrr = 0 THEN [status |-> "NODATA"]
              ELSE [status |-> "OK", nrr |-> end.p.nrr, rrs |-> second.rrs,
                    cname |-> finish.cname, qname |-> finish.qname, ttl |-> finish.ttl,
                    room |-> Total(C) + StdrrSize(end.p, qdn), used |-> Total(G) + finish.written]
    BY <1>16, <2>1, Zenon DEF ParseNaptr, Parsed, Result, end, first
  <2>3. end.p.nrr = Len(end.rrs) => C = G
    BY <1>3, <1>4
  <2>4. end.r < 0 => bad
    OBVIOUS
  <2>5. bad \in BOOLEAN
    OBVIOUS
  <2> HIDE DEF bad, C, G
  <2>6. Right
    BY <1>6, <2>2, <2>3, <2>4, <2>5
  <2> QED
    BY <2>6, Zenon DEF end, first, got
<1>17. CASE typ = "TXT"
  <2> DEFINE bad == end.r < 0 \/ \E i \in DOMAIN end.rrs : ~(end.rrs[i].tiled)
             C == [i \in 1 .. end.p.nrr |-> TxtCount(end.rrs[i])]
             G == [i \in DOMAIN second.rrs |-> TxtFill(second.rrs[i])]
  <2>1. got = ParseTxt(qdn, at, "IN", ans)
    BY <1>17 DEF got, Parse
  <2>2. got = IF bad THEN [status |-> "PROTOCOL"]
              ELSE IF end.p.nrr = 0 THEN [status |-> "NODATA"]
              ELSE [status |-> "OK", nrr |-> end.p.nrr, rrs |-> second.rrs,
                    cname |-> finish.cname, qname |-> finish.qname, ttl |-> finish.ttl,
                    room |-> Total(C) + StdrrSize(end.p, qdn), used |-> Total(G) + finish.written]
    BY <1>17, <2>1, Zenon DEF ParseTxt, Parsed, Result, end, first
  <2>3. end.p.nrr = Len(end.rrs) => C = G
    BY <1>3, <1>4 DEF TxtFill, TxtCount
  <2>4. end.r < 0 => bad
    OBVIOUS
  <2>5. bad \in BOOLEAN
    OBVIOUS
  <2> HIDE DEF bad, C, G
  <2>6. Right
    BY <1>6, <2>2, <2>3, <2>4, <2>5
  <2> QED
    BY <2>6, Zenon DEF end, first, got
<1> QED
  BY <1>11, <1>12, <1>13, <1>14, <1>15, <1>16, <1>17 DEF Types

\* What the records that a pass has come to are.
LEMMA FoundIs ==
  ASSUME NEW typ \in Types, NEW ans \in Seq(Rrs), NEW qdn \in Dns, NEW end \in Passing(typ, ans),
         NEW chain \in SUBSET (1 .. Len(ans)), NEW last, ComeTo(end, qdn, typ, ans, Len(ans), chain, last),
         NEW ttl, ttl = end.p.ttl \/ end.p.nrr = 0
  PROVE  Found(end.rrs, end.p.qdn, ttl, chain, typ, qdn, ans)
<1> DEFINE N == Len(ans)
           lst == CHOOSE i \in {0} \cup chain : \A j \in chain : j <= i
           here == Here(last, N, end.p.qdn, typ, ans)
<1>6. N \in Nat /\ end.rrs \in Seq(Rrs) /\ end.p.ttl \in 0 .. TtlMax
  BY LenProperties DEF Passing, PState
<1>7. /\ LastIn(chain, last) /\ Aliases(chain, qdn, end.p.qdn, typ, ans)
      /\ \A k \in last + 1 .. N : Alias(ans[k], end.p.qdn) => \E i \in here : i < k
      /\ InOrder(end.rrs, here, ans)
      /\ end.p.nrr = Len(end.rrs) /\ Least(end.p.ttl, chain \cup here, ans)
  BY DEF ComeTo
<1>8. lst = last
  <2>1. lst \in {0} \cup chain /\ \A j \in chain : j <= lst
    BY <1>7 DEF LastIn
  <2>2. \A i \in {0} \cup chain : i \in Nat
    BY <1>6
  <2> HIDE DEF lst
  <2>3. lst \in chain => lst <= last
    BY <1>7 DEF LastIn
  <2>4. last \in chain => last <= lst
    BY <2>1
  <2>5. lst \in Nat /\ last \in Nat
    BY <2>1, <2>2, <1>7 DEF LastIn
  <2>6. (lst = 0 \/ lst \in chain) /\ (last = 0 \/ last \in chain)
    BY <2>1, <1>7 DEF LastIn
  <2> QED
    BY <2>3, <2>4, <2>5, <2>6
<1>9. here = {i \in lst + 1 .. N : Answers(ans[i], end.p.qdn, typ)}
  BY <1>8 DEF Here
<1>10. here \in SUBSET (1 .. N) /\ (here # {} => end.p.nrr # 0)
  <2>1. here \in SUBSET (1 .. N)
    BY <1>6, <1>7 DEF Here, LastIn
  <2> HIDE DEF here
  <2>2. IsFiniteSet(1 .. N)
    <3>1. 1 \in Int /\ N \in Int
      BY <1>6
    <3> HIDE DEF N
    <3> QED
      BY <3>1, FS_Interval
  <2>3. IsFiniteSet(here)
    BY <2>1, <2>2, FS_Subset
  <2>4. Cardinality(here) = end.p.nrr
    BY <1>7 DEF InOrder
  <2> QED
    BY <2>1, <2>3, <2>4, FS_EmptySet
<1>15. \A k \in lst + 1 .. N : Alias(ans[k], end.p.qdn) => \E i \in here : i < k
  BY <1>7, <1>8
<1> HIDE DEF lst, here
<1> DEFINE ttls == {ans[i].ttl : i \in chain \cup here}
<1>11. ASSUME here # {} PROVE ttl \in ttls /\ \A t \in ttls : ttl <= t
  <2>1. \A i \in chain \cup here : ans[i].ttl \in 0 .. TtlMax /\ end.p.ttl <= ans[i].ttl
    <3> TAKE i \in chain \cup here
    <3>1. ans[i] \in Rrs
      BY <1>6, <1>10, ElementOfSeq
    <3> QED
      BY <1>7, <3>1, RrIs DEF Least
  <2>2. PICK i \in here : TRUE
    BY <1>11
  <2>3. end.p.ttl = TtlMax => ans[i].ttl = TtlMax
    <3>1. i \in chain \cup here
      BY <2>2
    <3>2. ans[i].ttl \in 0 .. TtlMax /\ end.p.ttl <= ans[i].ttl
      BY <2>1, <3>1
    <3>3. end.p.ttl \in 0 .. TtlMax
      BY <1>6
    <3> DEFINE x == end.p.ttl
               y == ans[i].ttl
    <3>4. x \in 0 .. 1000 /\ y \in 0 .. 1000 /\ x <= y
      BY <3>2, <3>3 DEF TtlMax
    <3> HIDE DEF x, y
    <3>5. x = 1000 => y = 1000
      BY <3>4
    <3> QED
      BY <3>5 DEF TtlMax, x, y
  <2>4. \E k \in chain \cup here : end.p.ttl = ans[k].ttl
    BY <1>7, <2>2, <2>3 DEF Least
  <2>5. ttl = end.p.ttl
    BY <1>10, <1>11
  <2> QED
    BY <2>1, <2>4, <2>5
<1> HIDE DEF ttls
<1>12. /\ Aliases(chain, qdn, end.p.qdn, typ, ans)
       /\ \A k \in lst + 1 .. N : Alias(ans[k], end.p.qdn) => \E i \in here : i < k
       /\ InOrder(end.rrs, here, ans)
       /\ here # {} => ttl \in ttls /\ \A t \in ttls : ttl <= t
  BY <1>7, <1>11, <1>15
<1> QED
  BY <1>9, <1>12, Zenon DEF Found, lst, ttls, N

LEMMA ResultFills ==
  ASSUME NEW typ \in Types, NEW ans \in Seq(Rrs), NEW qdn \in Dns
  PROVE  FilledAsCounted(typ, qdn, ans)
<1> SUFFICES ASSUME NEW at \in Callers,
                    NEW got, got = Parse(typ, qdn, at, ans)
             PROVE  /\ got.status = "OK" =>
                         /\ got.used = got.room /\ got.nrr = Len(got.rrs) /\ got.nrr > 0 /\ got.qname = qdn
                         /\ \E chain \in SUBSET DOMAIN ans : Found(got.rrs, got.cname, got.ttl, chain, typ, qdn, ans)
                    /\ got.status = "NODATA" =>
                         \E chain \in SUBSET DOMAIN ans, name \in Dns : Found(<< >>, name, TtlMax, chain, typ, qdn, ans)
  BY Zenon DEF FilledAsCounted
<1> DEFINE N == Len(ans)
           end == OnePass(InitParse(qdn, at, typ, "IN", ans), ans)
<1>1. /\ got.status = "OK" => end.r = 0 /\ end.p.nrr # 0 /\ \E room : got = Made(end, qdn, room)
      /\ got.status = "NODATA" => end.r = 0 /\ end.p.nrr = 0
  BY ResultIs, Zenon
<1>2. /\ end \in Passing(typ, ans)
      /\ end.r = 0 => \E chain \in SUBSET (1 .. N), last \in 0 .. N : ComeTo(end, qdn, typ, ans, N, chain, last)
  BY OnePassIs
<1> HIDE DEF end
<1>3. DOMAIN ans = 1 .. N /\ end.rrs \in Seq(Rrs) /\ end.p.nrr \in Nat /\ end.p.qdn \in Dns
  BY <1>2, LenProperties DEF Passing, PState
<1>4. ASSUME got.status = "OK"
      PROVE  /\ got.used = got.room /\ got.nrr = Len(got.rrs) /\ got.nrr > 0 /\ got.qname = qdn
             /\ \E chain \in SUBSET DOMAIN ans : Found(got.rrs, got.cname, got.ttl, chain, typ, qdn, ans)
  <2>1. PICK room : got = Made(end, qdn, room)
    BY <1>1, <1>4
  <2>2. PICK chain \in SUBSET (1 .. N), last \in 0 .. N : ComeTo(end, qdn, typ, ans, N, chain, last)
    BY <1>1, <1>2, <1>4
  <2>3. /\ got.used = got.room /\ got.nrr = end.p.nrr /\ got.rrs = end.rrs /\ got.cname = end.p.qdn /\ got.ttl = end.p.ttl
        /\ got.qname = qdn
    BY <2>1 DEF Made
  <2>4. Found(end.rrs, end.p.qdn, end.p.ttl, chain, typ, qdn, ans)
    BY <1>2, <2>2, FoundIs
  <2>5. end.p.nrr = Len(end.rrs)
    BY <2>2 DEF ComeTo
  <2>6. got.nrr > 0
    BY <1>1, <1>3, <1>4, <2>3
  <2>7. Found(got.rrs, got.cname, got.ttl, chain, typ, qdn, ans) /\ chain \in SUBSET DOMAIN ans
    BY <1>3, <2>3, <2>4
  <2> QED
    BY <2>3, <2>5, <2>6, <2>7
<1>5. ASSUME got.status = "NODATA"
      PROVE  \E chain \in SUBSET DOMAIN ans, name \in Dns : Found(<< >>, name, TtlMax, chain, typ, qdn, ans)
  <2>1. PICK chain \in SUBSET (1 .. N), last \in 0 .. N : ComeTo(end, qdn, typ, ans, N, chain, last)
    BY <1>1, <1>2, <1>5
  <2>2. end.p.nrr = 0 /\ end.p.nrr = Len(end.rrs)
    BY <1>1, <1>5, <2>1 DEF ComeTo
  <2>3. Found(end.rrs, end.p.qdn, TtlMax, chain, typ, qdn, ans)
    BY <1>2, <2>1, <2>2, FoundIs
  <2>4. end.rrs = << >>
    BY <1>3, <2>2, EmptySeq
  <2>5. Found(<< >>, end.p.qdn, TtlMax, chain, typ, qdn, ans) /\ chain \in SUBSET DOMAIN ans
    BY <1>3, <2>3, <2>4
  <2> QED
    BY <1>3, <2>5
<1> QED
  BY <1>4, <1>5

\* udns_rr_*.c: for answers of any length, of any records and any question, whether the caller has it
\* by the packet or by a copy, the second pass fills in what the first one counted.
THEOREM RecordsSound == RecordsSpec => []RecordsFit
<1> DEFINE Ans == answer \in Seq(Rrs)
<1>1. RecordsInit => Ans
  BY EmptySeq DEF RecordsInit
<1>2. Ans /\ [RecordsNext]_answer => Ans'
  <2> SUFFICES ASSUME Ans, [RecordsNext]_answer PROVE Ans'
    OBVIOUS
  <2>1. CASE UNCHANGED answer
    BY <2>1
  <2>2. CASE RecordsNext
    <3>1. PICK rr \in Rrs : answer' = Append(answer, rr)
      BY <2>2 DEF RecordsNext
    <3> QED
      BY <3>1, AppendProperties
  <2> QED
    BY <2>1, <2>2
<1>3. Ans => RecordsFit
  BY ResultFills DEF RecordsFit
<1> QED
  BY <1>1, <1>2, <1>3, PTL DEF RecordsSpec

----------------------------------------------------------------------------
(* Names in a packet                                                        *)

Octet == 0 .. 255
NameSet == {Endless} \cup [bytes : Seq(Octet) \ {<< >>}, jumps : Nat]

LEMMA OctetIs == \A c \in Octet : c \in Nat /\ c <= 255
  BY DEF Octet

LEMMA InvalidIsNone == Invalid \notin Seq(Octet) /\ Invalid # NoRoom
<1>1. ASSUME Invalid \in Seq(Octet) PROVE FALSE
  <2>1. Invalid[1] = -1 /\ Len(Invalid) = 1
    BY DEF Invalid
  <2>2. Invalid[1] \in Octet
    BY <1>1, <2>1, ElementOfSeq
  <2> QED
    BY <2>1, <2>2, OctetIs
<1>2. Invalid # NoRoom
  BY DEF Invalid, NoRoom
<1> QED
  BY <1>1, <1>2

LEMMA NameIs ==
  ASSUME NEW name \in NameSet
  PROVE  /\ ~HasEnd(name) => name = Endless
         /\ HasEnd(name) => name \in [bytes : Seq(Octet) \ {<< >>}, jumps : Nat]
  BY InvalidIsNone DEF NameSet, HasEnd, Endless

LEMMA EndlessIs == Endless \in NameSet /\ ~HasEnd(Endless)
  BY DEF NameSet, HasEnd, Endless

LEMMA NamesEnd ==
  ASSUME NEW bytes \in Seq(Octet) \ {<< >>}, NEW jumps \in Nat
  PROVE  [bytes |-> bytes, jumps |-> jumps] \in NameSet /\ HasEnd([bytes |-> bytes, jumps |-> jumps])
  BY InvalidIsNone DEF NameSet, HasEnd

LEMMA ByteIs ==
  ASSUME NEW pkt \in Seq(Octet), NEW pos \in 0 .. Len(pkt) - 1
  PROVE  /\ ByteAt(pkt, pos) \in Octet
         /\ pos + 1 < Len(pkt) => Target(pkt, pos) \in Nat
<1>1. Len(pkt) \in Nat
  BY LenProperties
<1>2. \A p \in 0 .. Len(pkt) - 1 : ByteAt(pkt, p) \in Octet
  <2> TAKE p \in 0 .. Len(pkt) - 1
  <2>1. p + 1 \in 1 .. Len(pkt)
    BY <1>1
  <2> QED
    BY <2>1, ElementOfSeq DEF ByteAt
<1>3. ASSUME pos + 1 < Len(pkt) PROVE Target(pkt, pos) \in Nat
  <2> DEFINE a == ByteAt(pkt, pos)
             b == ByteAt(pkt, pos + 1)
  <2>1. a \in Nat /\ b \in Nat
    <3>1. pos + 1 \in 0 .. Len(pkt) - 1
      BY <1>1, <1>3
    <3> QED
      BY <1>2, <3>1, OctetIs
  <2> HIDE DEF a, b
  <2>2. (a % 64) \in Nat
    BY <2>1
  <2>3. (a % 64) * 256 + b \in Nat
    BY <2>1, <2>2
  <2> QED
    BY <2>3 DEF Target, a, b
<1> QED
  BY <1>2, <1>3

LEMMA LabelIs ==
  ASSUME NEW pkt \in Seq(Octet), NEW pos \in 0 .. Len(pkt) - 1, pos + 1 + ByteAt(pkt, pos) <= Len(pkt)
  PROVE  Label(pkt, pos) \in Seq(Octet) \ {<< >>} /\ Len(Label(pkt, pos)) = ByteAt(pkt, pos) + 1
<1> DEFINE c == ByteAt(pkt, pos)
<1>1. c \in Nat
  BY ByteIs, OctetIs
<1>2. Len(pkt) \in Nat
  BY LenProperties
<1> HIDE DEF c
<1>3. pos + 1 + c <= Len(pkt)
  BY DEF c
<1>4. pos + 1 \in 1 .. Len(pkt) /\ pos + 1 + c \in 1 .. Len(pkt) /\ (pos + 1 + c) - (pos + 1) + 1 = c + 1
      /\ pos + 1 \in Int /\ pos + 1 + c \in Int /\ pos + 1 <= pos + 1 + c
  BY <1>1, <1>2, <1>3
<1>5. \A i \in pos + 1 .. pos + 1 + c : pkt[i] \in Octet
  <2> TAKE i \in pos + 1 .. pos + 1 + c
  <2>1. i \in 1 .. Len(pkt)
    BY <1>2, <1>4
  <2> QED
    BY <2>1, ElementOfSeq
<1> DEFINE s == SubSeq(pkt, pos + 1, pos + 1 + c)
<1>6. s \in Seq(Octet) /\ Len(s) = c + 1
  BY <1>4, <1>5, SubSeqProperties
<1> HIDE DEF s
<1>7. s # << >>
  BY <1>1, <1>6
<1> QED
  BY <1>6, <1>7 DEF s, c, Label

LEMMA OnwardIs ==
  ASSUME NEW pkt \in Seq(Octet), NEW pos \in 0 .. Len(pkt) - 1
  PROVE  OnwardFrom(pkt, pos) \in Int
<1>1. Len(pkt) \in Nat /\ ByteAt(pkt, pos) \in Nat
  BY LenProperties, ByteIs, OctetIs
<1>2. CASE pos + 1 < Len(pkt)
  BY <1>1, <1>2, ByteIs DEF OnwardFrom, NoPosition
<1>3. CASE ~(pos + 1 < Len(pkt))
  BY <1>1, <1>3 DEF OnwardFrom, NoPosition
<1> QED
  BY <1>2, <1>3

Positions(pkt) == 0 .. Len(pkt) - 1
Names(pkt) == [Positions(pkt) -> NameSet]

\* The rest of a name.
RestIn(pkt, pos, names) ==
  IF OnwardFrom(pkt, pos) \in Positions(pkt) THEN names[OnwardFrom(pkt, pos)] ELSE Endless

LEMMA NameFromIs ==
  ASSUME NEW pkt \in Seq(Octet), NEW pos \in Positions(pkt), NEW names \in Names(pkt)
  PROVE  /\ RestIn(pkt, pos, names) \in NameSet
         /\ NameFrom(pkt, pos, names) \in NameSet
         /\ NameFrom(pkt, pos, names) =
              LET c == ByteAt(pkt, pos)
                  rest == RestIn(pkt, pos, names) IN
                IF c = 0 THEN [bytes |-> <<0>>, jumps |-> 0]
                ELSE IF ~HasEnd(rest) THEN Endless
                ELSE IF Jump(c) THEN [bytes |-> rest.bytes, jumps |-> rest.jumps + 1]
                ELSE [bytes |-> Label(pkt, pos) \o rest.bytes, jumps |-> rest.jumps]
<1> DEFINE c == ByteAt(pkt, pos)
           rest == RestIn(pkt, pos, names)
<1>1. DOMAIN names = Positions(pkt)
  BY DEF Names
<1>2. NameFrom(pkt, pos, names) =
        IF c = 0 THEN [bytes |-> <<0>>, jumps |-> 0]
        ELSE IF ~HasEnd(rest) THEN Endless
        ELSE IF Jump(c) THEN [bytes |-> rest.bytes, jumps |-> rest.jumps + 1]
        ELSE [bytes |-> Label(pkt, pos) \o rest.bytes, jumps |-> rest.jumps]
  BY <1>1, Zenon DEF NameFrom, RestIn
<1>3. rest \in NameSet
  BY EndlessIs DEF RestIn, Names
<1>4. pos \in 0 .. Len(pkt) - 1 /\ Len(pkt) \in Nat
  BY LenProperties DEF Positions
<1>5. [bytes |-> <<0>>, jumps |-> 0] \in NameSet
  <2>1. <<0>> \in Seq(Octet) \ {<< >>}
    BY DEF Octet
  <2> QED
    BY <2>1, NamesEnd
<1>6. ASSUME HasEnd(rest), c # 0
      PROVE  /\ [bytes |-> rest.bytes, jumps |-> rest.jumps + 1] \in NameSet
             /\ ~Jump(c) => [bytes |-> Label(pkt, pos) \o rest.bytes, jumps |-> rest.jumps] \in NameSet
  <2> HIDE DEF rest
  <2> DEFINE b == rest.bytes
             j == rest.jumps
  <2>1. b \in Seq(Octet) \ {<< >>} /\ j \in Nat /\ j + 1 \in Nat
    BY <1>3, <1>6, NameIs
  <2>2. ASSUME ~Jump(c) PROVE Label(pkt, pos) \in Seq(Octet) \ {<< >>}
    <3>1. OnwardFrom(pkt, pos) \in Positions(pkt)
      BY <1>6, EndlessIs DEF rest, RestIn
    <3>2. c \in Nat
      BY <1>4, ByteIs, OctetIs
    <3>3. OnwardFrom(pkt, pos) \in {pos + 1 + c, -1}
      BY <2>2 DEF OnwardFrom, NoPosition
    <3> HIDE DEF c
    <3>4. pos + 1 + c <= Len(pkt)
      BY <1>4, <3>1, <3>2, <3>3 DEF Positions
    <3> QED
      BY <1>4, <3>4, LabelIs DEF c
  <2> HIDE DEF b, j
  <2>3. [bytes |-> b, jumps |-> j + 1] \in NameSet
    BY <2>1, NamesEnd
  <2>4. ASSUME ~Jump(c) PROVE [bytes |-> Label(pkt, pos) \o b, jumps |-> j] \in NameSet
    <3> DEFINE l == Label(pkt, pos)
    <3>1. l \in Seq(Octet) /\ l # << >> /\ b \in Seq(Octet)
      BY <2>1, <2>2, <2>4
    <3> HIDE DEF l
    <3>2. l \o b \in Seq(Octet) /\ Len(l \o b) = Len(l) + Len(b) /\ Len(l) \in Nat /\ Len(b) \in Nat /\ Len(l) # 0
      BY <3>1, ConcatProperties, LenProperties, EmptySeq
    <3>3. l \o b # << >>
      BY <3>2
    <3>4. [bytes |-> l \o b, jumps |-> j] \in NameSet
      BY <2>1, <3>2, <3>3, NamesEnd
    <3> QED
      BY <3>4 DEF l
  <2> QED
    BY <2>3, <2>4 DEF b, j
<1> HIDE DEF rest, c
<1>7. NameFrom(pkt, pos, names) \in NameSet
  BY <1>2, <1>5, <1>6, EndlessIs
<1> QED
  BY <1>2, <1>3, <1>7 DEF rest, c

\* The names as they are found, those with the fewest places first.
LEMMA NamesLoop ==
  ASSUME NEW pkt \in Seq(Octet)
  PROVE  \E f : /\ f[0] = [pos \in Positions(pkt) |-> Endless] /\ \A n \in 1 .. Len(pkt) : f[n] = NamesFrom(pkt, f[n - 1])
               /\ (\A n \in 0 .. Len(pkt) : f[n] \in Names(pkt))
               /\ NamesOf(pkt) = f[Len(pkt)]
<1> DEFINE W == [n \in 0 .. Len(pkt) |-> Names(pkt)]
           Turned(t, n) == NamesFrom(pkt, t)
           D == [vn \in Names(pkt) \X (1 .. Len(pkt)) |-> Turned(vn[1], vn[2])]
           Is(f) == f = [n \in 0 .. Len(pkt) |-> IF n = 0 THEN [pos \in Positions(pkt) |-> Endless] ELSE Turned(f[n - 1], n)]
           turns == CHOOSE f : Is(f)
<1>1. Len(pkt) \in Nat
  BY LenProperties
<1>2. [pos \in Positions(pkt) |-> Endless] \in Names(pkt)
  BY EndlessIs DEF Names
<1>3. ASSUME NEW n \in 1 .. Len(pkt), NEW t \in Names(pkt) PROVE Turned(t, n) \in Names(pkt)
  BY <1>3, NameFromIs DEF NamesFrom, Names, Positions
<1>9. NamesOf(pkt) = turns[Len(pkt)]
  BY DEF NamesOf, Positions
<1> HIDE DEF Turned
<1>4. Leads(Len(pkt), W, [pos \in Positions(pkt) |-> Endless], D)
  BY <1>1, <1>2, <1>3 DEF Leads
<1> HIDE DEF W, D
<1>5. PICK f : IsLoop(f, Len(pkt), [pos \in Positions(pkt) |-> Endless], D)
  BY <1>1, <1>4, LoopExists
<1>6. \A n \in 0 .. Len(pkt) : f[n] \in W[n]
  BY <1>1, <1>4, <1>5, LoopStates
<1>7. Is(f)
  <2>1. \A n \in 1 .. Len(pkt) : f[n - 1] \in Names(pkt)
    BY <1>1, <1>6 DEF W
  <2>2. \A n \in 1 .. Len(pkt) : D[<<f[n - 1], n>>] = Turned(f[n - 1], n)
    BY <2>1 DEF D
  <2>3. \A n \in 0 .. Len(pkt) : (IF n = 0 THEN [pos \in Positions(pkt) |-> Endless] ELSE D[<<f[n - 1], n>>])
                              = (IF n = 0 THEN [pos \in Positions(pkt) |-> Endless] ELSE Turned(f[n - 1], n))
    BY <1>1, <2>2
  <2>4. f = [n \in 0 .. Len(pkt) |-> IF n = 0 THEN [pos \in Positions(pkt) |-> Endless] ELSE D[<<f[n - 1], n>>]]
    BY <1>5 DEF IsLoop
  <2> QED
    BY <2>3, <2>4, Zenon
<1>8. Is(turns)
  <2> HIDE DEF Is
  <2> QED
    BY <1>7
<1> HIDE DEF turns
<1>10. turns[0] = [pos \in Positions(pkt) |-> Endless] /\ \A n \in 1 .. Len(pkt) : turns[n] = Turned(turns[n - 1], n)
  <2> DEFINE N == Len(pkt)
             c0 == [pos \in Positions(pkt) |-> Endless]
  <2>1. N \in Nat /\ turns = [n \in 0 .. N |-> IF n = 0 THEN c0 ELSE Turned(turns[n - 1], n)]
    BY <1>1, <1>8
  <2> HIDE DEF N, c0
  <2>2. 0 \in 0 .. N
    BY <2>1
  <2>3. turns[0] = c0
    BY <2>1, <2>2, Zenon
  <2>4. ASSUME NEW n \in 1 .. N PROVE turns[n] = Turned(turns[n - 1], n)
    <3>1. n \in 0 .. N /\ n # 0
      BY <2>1
    <3> QED
      BY <2>1, <3>1, Zenon
  <2> QED
    BY <2>3, <2>4 DEF N, c0
<1>11. \A n \in 0 .. Len(pkt) : turns[n] \in Names(pkt)
  <2>1. turns[0] \in W[0]
    BY <1>1, <1>2, <1>10 DEF W
  <2>2. \A n \in 1 .. Len(pkt) : turns[n - 1] \in W[n - 1] => turns[n] \in W[n]
    BY <1>1, <1>3, <1>10 DEF W
  <2>3. \A n \in 0 .. Len(pkt) : turns[n] \in W[n]
    BY <1>1, <2>1, <2>2, LoopInvariant
  <2> QED
    BY <2>3 DEF W
<1>12. \A n \in 1 .. Len(pkt) : turns[n] = NamesFrom(pkt, turns[n - 1])
  BY <1>10 DEF Turned
<1> QED
  BY <1>9, <1>10, <1>11, <1>12

\* A name stays what it is when it is made of names that are known longer.
LEMMA NameStays ==
  ASSUME NEW pkt \in Seq(Octet), NEW pos \in Positions(pkt), NEW names \in Names(pkt), NEW more \in Names(pkt),
         \A p \in Positions(pkt) : HasEnd(names[p]) => more[p] = names[p],
         HasEnd(NameFrom(pkt, pos, names))
  PROVE  NameFrom(pkt, pos, more) = NameFrom(pkt, pos, names)
<1> DEFINE c == ByteAt(pkt, pos)
           x == RestIn(pkt, pos, names)
           y == RestIn(pkt, pos, more)
           F(rest) == IF c = 0 THEN [bytes |-> <<0>>, jumps |-> 0]
                      ELSE IF ~HasEnd(rest) THEN Endless
                      ELSE IF Jump(c) THEN [bytes |-> rest.bytes, jumps |-> rest.jumps + 1]
                      ELSE [bytes |-> Label(pkt, pos) \o rest.bytes, jumps |-> rest.jumps]
<1>1. NameFrom(pkt, pos, names) = F(x) /\ NameFrom(pkt, pos, more) = F(y)
  BY NameFromIs
<1>2. CASE c = 0
  BY <1>1, <1>2
<1>3. CASE c # 0
  <2>1. HasEnd(x)
    <3>1. HasEnd(F(x))
      BY <1>1
    <3> HIDE DEF x
    <3>2. ~HasEnd(x) => F(x) = Endless
      BY <1>3
    <3> QED
      BY <3>1, <3>2, EndlessIs
  <2>2. y = x
    BY <2>1, EndlessIs DEF RestIn
  <2> HIDE DEF F
  <2> QED
    BY <1>1, <2>2
<1> QED
  BY <1>2, <1>3

\* What NamesOf() finds is settled: no name that ends has more places than the packet.
LEMMA NamesSettle ==
  ASSUME NEW pkt \in Seq(Octet)
  PROVE  NamesOf(pkt) \in Names(pkt) /\ NamesOf(pkt) = NamesFrom(pkt, NamesOf(pkt))
<1> DEFINE L == Len(pkt)
           P == Positions(pkt)
           none == [pos \in P |-> Endless]
<1>1. L \in Nat /\ P = 0 .. L - 1
  BY LenProperties DEF Positions
<1>2. PICK f : /\ f[0] = none /\ \A n \in 1 .. L : f[n] = NamesFrom(pkt, f[n - 1])
               /\ (\A n \in 0 .. L : f[n] \in Names(pkt))
               /\ NamesOf(pkt) = f[L]
  BY NamesLoop
<1>3. \A names \in Names(pkt) : NamesFrom(pkt, names) = [pos \in P |-> NameFrom(pkt, pos, names)]
  BY DEF NamesFrom, Positions
<1> DEFINE Grown(n) == \A p \in P : HasEnd(f[n - 1][p]) => f[n][p] = f[n - 1][p]
<1>4. \A n \in 1 .. L : Grown(n)
  <2> DEFINE F == [n \in 0 .. L |-> n]
             W == [n \in 0 .. L |-> {k \in {n} : n > 0 => Grown(n)}]
  <2>1. ASSUME NEW n \in 1 .. L, n > 1 => Grown(n - 1) PROVE Grown(n)
    <3> SUFFICES ASSUME NEW p \in P, HasEnd(f[n - 1][p]) PROVE f[n][p] = f[n - 1][p]
      OBVIOUS
    <3>1. CASE n = 1
      <4>1. f[n - 1][p] = Endless
        BY <1>2, <3>1
      <4> QED
        BY <4>1, EndlessIs
    <3>2. CASE n > 1
      <4>1. n - 1 \in 1 .. L /\ n - 1 \in 0 .. L /\ n - 2 \in 0 .. L /\ (n - 1) - 1 = n - 2
        BY <1>1, <3>2
      <4> DEFINE a == f[n - 2]
                 b == f[n - 1]
      <4>2. a \in Names(pkt) /\ b \in Names(pkt) /\ b = NamesFrom(pkt, a) /\ f[n] = NamesFrom(pkt, b)
        BY <1>2, <4>1
      <4>3. \A q \in P : HasEnd(a[q]) => b[q] = a[q]
        BY <2>1, <3>2, <4>1
      <4> HIDE DEF a
      <4>4. b[p] = NameFrom(pkt, p, a) /\ f[n][p] = NameFrom(pkt, p, b)
        BY <1>3, <4>2
      <4>5. HasEnd(NameFrom(pkt, p, a))
        BY <4>4
      <4> HIDE DEF b
      <4>6. NameFrom(pkt, p, b) = NameFrom(pkt, p, a)
        BY <4>2, <4>3, <4>5, NameStays
      <4> QED
        BY <4>4, <4>6 DEF b
    <3> QED
      BY <3>1, <3>2
  <2> HIDE DEF Grown
  <2>2. F[0] \in W[0]
    BY <1>1
  <2>3. \A n \in 1 .. L : F[n - 1] \in W[n - 1] => F[n] \in W[n]
    <3> TAKE n \in 1 .. L
    <3>1. n - 1 \in 0 .. L /\ n \in 0 .. L /\ (n > 1 => n - 1 > 0)
      BY <1>1
    <3>2. F[n - 1] \in W[n - 1] => (n > 1 => Grown(n - 1))
      BY <3>1
    <3> QED
      BY <2>1, <3>1, <3>2
  <2> HIDE DEF F, W
  <2>4. \A n \in 0 .. L : F[n] \in W[n]
    BY <1>1, <2>2, <2>3, LoopInvariant
  <2> QED
    BY <1>1, <2>4 DEF W
<1> DEFINE E(n) == {p \in P : HasEnd(f[n][p])}
           Settled(n) == f[n] = NamesFrom(pkt, f[n])
<1>5. \A n \in 0 .. L : IsFiniteSet(E(n)) /\ Cardinality(E(n)) \in Nat
  <2> TAKE n \in 0 .. L
  <2>1. IsFiniteSet(P)
    BY <1>1, FS_Interval
  <2>2. IsFiniteSet(E(n))
    BY <2>1, FS_Subset
  <2> QED
    BY <2>2, FS_CardinalityType
<1>6. ASSUME NEW n \in 1 .. L, Settled(n - 1) \/ Cardinality(E(n - 1)) >= n - 1
      PROVE  Settled(n) \/ Cardinality(E(n)) >= n
  <2>0. n - 1 \in 0 .. L /\ n \in 0 .. L
    BY <1>1
  <2>1. f[n] = NamesFrom(pkt, f[n - 1]) /\ f[n] \in Names(pkt) /\ f[n - 1] \in Names(pkt)
    BY <1>2, <2>0
  <2>2. CASE f[n] = f[n - 1]
    BY <2>1, <2>2
  <2>3. CASE f[n] # f[n - 1]
    <3>1. PICK p \in P : f[n][p] # f[n - 1][p]
      BY <2>1, <2>3 DEF Names
    <3>2. f[n][p] \in NameSet /\ f[n - 1][p] \in NameSet
      BY <2>1 DEF Names
    <3>3. ~HasEnd(f[n - 1][p])
      BY <1>4, <3>1
    <3>4. HasEnd(f[n][p])
      BY <3>1, <3>2, <3>3, NameIs
    <3>5. E(n - 1) \cup {p} \subseteq E(n) /\ p \notin E(n - 1)
      <4>1. \A q \in E(n - 1) : HasEnd(f[n][q])
        BY <1>4
      <4> QED
        BY <3>3, <3>4, <4>1
    <3>6. Cardinality(E(n - 1)) >= n - 1
      BY <2>1, <2>3, <1>6
    <3> DEFINE A == E(n - 1)
               B == E(n)
    <3>7. IsFiniteSet(A) /\ IsFiniteSet(B) /\ Cardinality(A) \in Nat /\ Cardinality(B) \in Nat
          /\ A \cup {p} \subseteq B /\ p \notin A /\ Cardinality(A) >= n - 1
      BY <1>5, <2>0, <3>5, <3>6
    <3> HIDE DEF A, B
    <3>8. Cardinality(A \cup {p}) = Cardinality(A) + 1
      BY <3>7, FS_AddElement
    <3>9. Cardinality(A \cup {p}) <= Cardinality(B)
      BY <3>7, FS_Subset
    <3>10. Cardinality(B) >= n
      BY <1>1, <3>7, <3>8, <3>9
    <3> QED
      BY <3>10 DEF B
  <2> QED
    BY <2>2, <2>3
<1>7. Settled(L) \/ Cardinality(E(L)) >= L
  <2> DEFINE F == [n \in 0 .. L |-> n]
             W == [n \in 0 .. L |-> {k \in {n} : Settled(n) \/ Cardinality(E(n)) >= n}]
  <2>1. F[0] \in W[0]
    <3>1. 0 \in 0 .. L
      BY <1>1
    <3> HIDE DEF E, Settled
    <3>2. Cardinality(E(0)) \in Nat
      BY <1>5, <3>1
    <3>3. Cardinality(E(0)) >= 0
      BY <3>2
    <3> QED
      BY <3>1, <3>3
  <2>2. \A n \in 1 .. L : F[n - 1] \in W[n - 1] => F[n] \in W[n]
    <3> HIDE DEF E, Settled
    <3> TAKE n \in 1 .. L
    <3>1. n - 1 \in 0 .. L /\ n \in 0 .. L
      BY <1>1
    <3>2. F[n - 1] \in W[n - 1] => Settled(n - 1) \/ Cardinality(E(n - 1)) >= n - 1
      BY <3>1
    <3> QED
      BY <1>6, <3>1, <3>2
  <2> HIDE DEF F, W
  <2>3. \A n \in 0 .. L : F[n] \in W[n]
    BY <1>1, <2>1, <2>2, LoopInvariant
  <2>4. L \in 0 .. L
    BY <1>1
  <2> QED
    BY <2>3, <2>4 DEF W
<1>8. L \in 0 .. L /\ f[L] \in Names(pkt)
  BY <1>1, <1>2
<1>9. ASSUME Cardinality(E(L)) >= L PROVE Settled(L)
  <2>1. IsFiniteSet(P) /\ Cardinality(P) = L
    <3>1. 0 \in Int /\ L - 1 \in Int
      BY <1>1
    <3>2. IsFiniteSet(0 .. L - 1) /\ Cardinality(0 .. L - 1) = IF 0 > L - 1 THEN 0 ELSE (L - 1) - 0 + 1
      BY <3>1, FS_Interval
    <3> QED
      BY <1>1, <3>2
  <2>2. E(L) = P
    <3>1. E(L) \subseteq P /\ Cardinality(E(L)) \in Nat
      BY <1>5, <1>8
    <3> HIDE DEF E
    <3>2. E(L) # P => Cardinality(E(L)) < Cardinality(P)
      BY <2>1, <3>1, FS_Subset
    <3> QED
      BY <1>1, <1>9, <2>1, <3>1, <3>2
  <2>3. \A p \in P : NameFrom(pkt, p, f[L]) = f[L][p]
    <3> TAKE p \in P
    <3>1. L \in 1 .. L /\ L - 1 \in 0 .. L
      BY <1>1
    <3> DEFINE a == f[L - 1]
               b == f[L]
    <3>2. a \in Names(pkt) /\ b \in Names(pkt) /\ b = NamesFrom(pkt, a)
      BY <1>2, <1>8, <3>1
    <3>3. \A q \in P : HasEnd(a[q]) => b[q] = a[q]
      BY <1>4, <3>1
    <3>4. HasEnd(b[p])
      BY <2>2
    <3> HIDE DEF a, b
    <3>5. b[p] = NameFrom(pkt, p, a)
      BY <1>3, <3>2
    <3>6. HasEnd(NameFrom(pkt, p, a))
      BY <3>4, <3>5
    <3>7. NameFrom(pkt, p, b) = NameFrom(pkt, p, a)
      BY <3>2, <3>3, <3>6, NameStays
    <3> QED
      BY <3>5, <3>7 DEF b
  <2>4. f[L] = [p \in P |-> f[L][p]]
    BY <1>8 DEF Names
  <2>5. NamesFrom(pkt, f[L]) = [p \in P |-> NameFrom(pkt, p, f[L])]
    BY <1>3, <1>8
  <2> QED
    BY <2>3, <2>4, <2>5
<1> QED
  BY <1>2, <1>7, <1>8, <1>9

\* A name ends here, goes on with a jump or with a label.
LEMMA NameAtIs ==
  ASSUME NEW pkt \in Seq(Octet), NEW pos \in Nat
  PROVE  /\ NameAt(pkt, pos) \in NameSet
         /\ pos >= Len(pkt) => NameAt(pkt, pos) = Endless
         /\ pos < Len(pkt) =>
              LET c == ByteAt(pkt, pos)
                  next == OnwardFrom(pkt, pos)
                  rest == IF next = NoPosition THEN Endless ELSE NameAt(pkt, next) IN
                NameAt(pkt, pos) =
                  IF c = 0 THEN [bytes |-> <<0>>, jumps |-> 0]
                  ELSE IF ~HasEnd(rest) THEN Endless
                  ELSE IF Jump(c) THEN [bytes |-> rest.bytes, jumps |-> rest.jumps + 1]
                  ELSE [bytes |-> Label(pkt, pos) \o rest.bytes, jumps |-> rest.jumps]
<1> DEFINE names == NamesOf(pkt)
           c == ByteAt(pkt, pos)
           next == OnwardFrom(pkt, pos)
           rest == IF next = NoPosition THEN Endless ELSE NameAt(pkt, next)
<1>1. Len(pkt) \in Nat
  BY LenProperties
<1>2. names \in Names(pkt) /\ names = NamesFrom(pkt, names)
  BY NamesSettle
<1> HIDE DEF names
<1>3. CASE pos >= Len(pkt)
  <2>1. ~(pos < Len(pkt))
    BY <1>1, <1>3
  <2>2. NameAt(pkt, pos) = Endless
    BY <2>1 DEF NameAt
  <2> QED
    BY <2>1, <2>2, EndlessIs
<1>4. CASE pos < Len(pkt)
  <2>1. pos \in Positions(pkt) /\ pos \in 0 .. Len(pkt) - 1 /\ ~(pos >= Len(pkt))
    BY <1>1, <1>4 DEF Positions
  <2>2. NameAt(pkt, pos) = names[pos]
    BY <1>4 DEF NameAt, names
  <2>3. names[pos] = NameFrom(pkt, pos, names)
    BY <1>2, <2>1 DEF NamesFrom, Positions
  <2>4. next \in Int /\ next >= -1
    <3>1. c \in Nat
      BY <2>1, ByteIs, OctetIs
    <3>2. CASE pos + 1 < Len(pkt)
      <4>1. Target(pkt, pos) \in Nat
        BY <2>1, <3>2, ByteIs
      <4> HIDE DEF c
      <4>2. next \in {Target(pkt, pos), pos + 1 + c, -1}
        BY DEF OnwardFrom, NoPosition, c
      <4> HIDE DEF next
      <4> QED
        BY <3>1, <4>1, <4>2
    <3>3. CASE ~(pos + 1 < Len(pkt))
      <4>2. next \in {pos + 1 + c, -1}
        BY <3>3 DEF OnwardFrom, NoPosition
      <4> HIDE DEF next, c
      <4> QED
        BY <3>1, <4>2
    <3> QED
      BY <3>2, <3>3
  <2>5. RestIn(pkt, pos, names) = rest
    <3>1. CASE next = NoPosition
      <4>1. next \notin Positions(pkt)
        BY <3>1 DEF Positions, NoPosition
      <4> QED
        BY <3>1, <4>1 DEF RestIn
    <3>2. CASE next # NoPosition
      <4>1. next \in Positions(pkt) <=> next < Len(pkt)
        <5> HIDE DEF next
        <5> QED
          BY <1>1, <2>4, <3>2 DEF Positions, NoPosition
      <4> QED
        BY <3>2, <4>1 DEF RestIn, NameAt, names
    <3> QED
      BY <3>1, <3>2
  <2>6. /\ NameFrom(pkt, pos, names) \in NameSet
        /\ NameFrom(pkt, pos, names) =
             IF c = 0 THEN [bytes |-> <<0>>, jumps |-> 0]
             ELSE IF ~HasEnd(rest) THEN Endless
             ELSE IF Jump(c) THEN [bytes |-> rest.bytes, jumps |-> rest.jumps + 1]
             ELSE [bytes |-> Label(pkt, pos) \o rest.bytes, jumps |-> rest.jumps]
    BY <1>2, <2>1, <2>5, NameFromIs
  <2> HIDE DEF rest, c, next
  <2> QED
    BY <2>1, <2>2, <2>3, <2>6 DEF rest, c, next
<1> QED
  BY <1>1, <1>3, <1>4

-----------------------------------------------------------------------------
(* dns_skipdn()                                                             *)

Skips == [on : BOOLEAN, cur : Int]
SkipsOn == {t \in Skips : t.on => t.cur \in Nat}

LEMMA SkipTurnIs ==
  ASSUME NEW pkt \in Seq(Octet), NEW t \in Skips, t.on => t.cur \in Nat
  PROVE  LET u == SkipTurn(pkt, t)
             c == ByteAt(pkt, t.cur) IN
           /\ u \in Skips
           /\ ~t.on => u = t
           /\ t.on /\ t.cur >= Len(pkt) => u = [on |-> FALSE, cur |-> NoPosition]
           /\ t.on /\ t.cur < Len(pkt) =>
                /\ c = 0 => u = [on |-> FALSE, cur |-> t.cur + 1]
                /\ c # 0 /\ Jump(c) =>
                     u = [on |-> FALSE, cur |-> IF t.cur + 2 >= Len(pkt) THEN NoPosition ELSE t.cur + 2]
                /\ c # 0 /\ ~Jump(c) => u = [on |-> TRUE, cur |-> t.cur + 1 + c] /\ c \in Nat
           /\ u.on => t.on /\ u.cur \in Nat /\ u.cur > t.cur /\ t.cur < Len(pkt)
<1> DEFINE u == SkipTurn(pkt, t)
           c == ByteAt(pkt, t.cur)
<1>1. Len(pkt) \in Nat /\ t.on \in BOOLEAN /\ t.cur \in Int
  BY LenProperties DEF Skips
<1>2. CASE ~t.on
  BY <1>1, <1>2 DEF SkipTurn
<1>3. CASE t.on /\ t.cur >= Len(pkt)
  <2>1. u = [on |-> FALSE, cur |-> NoPosition]
    BY <1>3 DEF SkipTurn
  <2>2. ~(t.cur < Len(pkt))
    BY <1>1, <1>3
  <2> QED
    BY <1>3, <2>1, <2>2 DEF Skips, NoPosition
<1>4. CASE t.on /\ t.cur < Len(pkt)
  <2>1. t.cur \in 0 .. Len(pkt) - 1 /\ ~(t.cur >= Len(pkt)) /\ t.cur \in Nat
    BY <1>1, <1>4
  <2>2. c \in Nat
    BY <2>1, ByteIs, OctetIs
  <2>3. u = IF c = 0 THEN [on |-> FALSE, cur |-> t.cur + 1]
            ELSE IF Jump(c) THEN [on |-> FALSE, cur |-> IF t.cur + 2 >= Len(pkt) THEN NoPosition ELSE t.cur + 2]
            ELSE [on |-> TRUE, cur |-> t.cur + 1 + c]
    BY <1>4, <2>1 DEF SkipTurn
  <2> HIDE DEF u, c
  <2>4. CASE c = 0
    <3>1. u = [on |-> FALSE, cur |-> t.cur + 1]
      BY <2>3, <2>4
    <3>2. u \in Skips /\ ~u.on
      BY <1>1, <3>1 DEF Skips
    <3> QED
      BY <1>4, <2>1, <2>4, <3>1, <3>2 DEF u, c
  <2>5. CASE c # 0 /\ Jump(c)
    <3> DEFINE x == IF t.cur + 2 >= Len(pkt) THEN NoPosition ELSE t.cur + 2
    <3>1. u = [on |-> FALSE, cur |-> x]
      BY <2>3, <2>5
    <3>2. x \in Int
      BY <1>1 DEF NoPosition
    <3> HIDE DEF x
    <3>3. u \in Skips /\ ~u.on
      BY <3>1, <3>2 DEF Skips
    <3> QED
      BY <1>4, <2>1, <2>5, <3>1, <3>3 DEF u, c, x
  <2>6. CASE c # 0 /\ ~Jump(c)
    <3> DEFINE x == t.cur + 1 + c
    <3>1. u = [on |-> TRUE, cur |-> x]
      BY <2>3, <2>6
    <3>2. x \in Nat /\ x > t.cur
      BY <2>1, <2>2
    <3> HIDE DEF x
    <3>3. u \in Skips /\ u.on /\ u.cur = x
      BY <3>1, <3>2 DEF Skips
    <3> QED
      BY <1>4, <2>1, <2>2, <2>6, <3>1, <3>2, <3>3 DEF u, c, x
  <2> QED
    BY <2>4, <2>5, <2>6
<1> QED
  BY <1>1, <1>2, <1>3, <1>4

\* The turns of dns_skipdn().
LEMMA SkipLoop ==
  ASSUME NEW pkt \in Seq(Octet), NEW cur \in Nat
  PROVE  \E f : /\ f[0] = [on |-> TRUE, cur |-> cur] /\ \A n \in 1 .. Len(pkt) + 1 : f[n] = SkipTurn(pkt, f[n - 1])
               /\ (\A n \in 0 .. Len(pkt) + 1 : f[n] \in SkipsOn)
               /\ SkipDn(pkt, cur) = f[Len(pkt) + 1]
<1> DEFINE W == [n \in 0 .. Len(pkt) + 1 |-> SkipsOn]
           Turned(t, n) == SkipTurn(pkt, t)
           D == [vn \in SkipsOn \X (1 .. Len(pkt) + 1) |-> Turned(vn[1], vn[2])]
           Is(f) == f = [n \in 0 .. Len(pkt) + 1 |-> IF n = 0 THEN [on |-> TRUE, cur |-> cur] ELSE Turned(f[n - 1], n)]
           turns == CHOOSE f : Is(f)
<1>1. Len(pkt) + 1 \in Nat
  BY LenProperties
<1>2. [on |-> TRUE, cur |-> cur] \in SkipsOn
  BY DEF Skips, SkipsOn
<1>3. ASSUME NEW n \in 1 .. Len(pkt) + 1, NEW t \in SkipsOn PROVE Turned(t, n) \in SkipsOn
  BY <1>3, SkipTurnIs DEF SkipsOn
<1>9. SkipDn(pkt, cur) = turns[Len(pkt) + 1]
  BY DEF SkipDn
<1> HIDE DEF Turned
<1>4. Leads(Len(pkt) + 1, W, [on |-> TRUE, cur |-> cur], D)
  BY <1>1, <1>2, <1>3 DEF Leads
<1> HIDE DEF W, D
<1>5. PICK f : IsLoop(f, Len(pkt) + 1, [on |-> TRUE, cur |-> cur], D)
  BY <1>1, <1>4, LoopExists
<1>6. \A n \in 0 .. Len(pkt) + 1 : f[n] \in W[n]
  BY <1>1, <1>4, <1>5, LoopStates
<1>7. Is(f)
  <2>1. \A n \in 1 .. Len(pkt) + 1 : f[n - 1] \in SkipsOn
    BY <1>1, <1>6 DEF W
  <2>2. \A n \in 1 .. Len(pkt) + 1 : D[<<f[n - 1], n>>] = Turned(f[n - 1], n)
    BY <2>1 DEF D
  <2>3. \A n \in 0 .. Len(pkt) + 1 : (IF n = 0 THEN [on |-> TRUE, cur |-> cur] ELSE D[<<f[n - 1], n>>])
                              = (IF n = 0 THEN [on |-> TRUE, cur |-> cur] ELSE Turned(f[n - 1], n))
    BY <1>1, <2>2
  <2>4. f = [n \in 0 .. Len(pkt) + 1 |-> IF n = 0 THEN [on |-> TRUE, cur |-> cur] ELSE D[<<f[n - 1], n>>]]
    BY <1>5 DEF IsLoop
  <2> QED
    BY <2>3, <2>4, Zenon
<1>8. Is(turns)
  <2> HIDE DEF Is
  <2> QED
    BY <1>7
<1> HIDE DEF turns
<1>10. turns[0] = [on |-> TRUE, cur |-> cur] /\ \A n \in 1 .. Len(pkt) + 1 : turns[n] = Turned(turns[n - 1], n)
  <2> DEFINE N == Len(pkt) + 1
             c0 == [on |-> TRUE, cur |-> cur]
  <2>1. N \in Nat /\ turns = [n \in 0 .. N |-> IF n = 0 THEN c0 ELSE Turned(turns[n - 1], n)]
    BY <1>1, <1>8
  <2> HIDE DEF N, c0
  <2>2. 0 \in 0 .. N
    BY <2>1
  <2>3. turns[0] = c0
    BY <2>1, <2>2, Zenon
  <2>4. ASSUME NEW n \in 1 .. N PROVE turns[n] = Turned(turns[n - 1], n)
    <3>1. n \in 0 .. N /\ n # 0
      BY <2>1
    <3> QED
      BY <2>1, <3>1, Zenon
  <2> QED
    BY <2>3, <2>4 DEF N, c0
<1>11. \A n \in 0 .. Len(pkt) + 1 : turns[n] \in SkipsOn
  <2>1. turns[0] \in W[0]
    BY <1>1, <1>2, <1>10 DEF W
  <2>2. \A n \in 1 .. Len(pkt) + 1 : turns[n - 1] \in W[n - 1] => turns[n] \in W[n]
    BY <1>1, <1>3, <1>10 DEF W
  <2>3. \A n \in 0 .. Len(pkt) + 1 : turns[n] \in W[n]
    BY <1>1, <2>1, <2>2, LoopInvariant
  <2> QED
    BY <2>3 DEF W
<1>12. \A n \in 1 .. Len(pkt) + 1 : turns[n] = SkipTurn(pkt, turns[n - 1])
  BY <1>10 DEF Turned
<1> QED
  BY <1>9, <1>10, <1>11, <1>12

\* It comes to an end.
SkipsFrom(pkt, cur, f) ==
  /\ f[0] = [on |-> TRUE, cur |-> cur] /\ \A n \in 1 .. Len(pkt) + 1 : f[n] = SkipTurn(pkt, f[n - 1])
  /\ \A n \in 0 .. Len(pkt) + 1 : f[n] \in SkipsOn

LEMMA SkipEnds ==
  ASSUME NEW pkt \in Seq(Octet), NEW cur \in Nat, NEW f, SkipsFrom(pkt, cur, f)
  PROVE  \A n \in 0 .. Len(pkt) + 1 : f[n].on => n = 0 \/ cur + n <= Len(pkt)
<1> DEFINE Good(v, n) == v \in Skips /\ (v.on => v.cur \in Nat /\ v.cur >= cur + n /\ (n = 0 \/ cur + n <= Len(pkt)))
           N == Len(pkt) + 1
           W == [n \in 0 .. N |-> {v \in Skips : Good(v, n)}]
<1>1. Len(pkt) \in Nat /\ N \in Nat
  BY LenProperties
<1>2. f[0] \in W[0]
  <2>1. f[0] \in Skips /\ f[0].on /\ f[0].cur = cur /\ cur >= cur + 0
    BY <1>1 DEF SkipsFrom, SkipsOn, Skips
  <2> QED
    BY <1>1, <2>1
<1>3. ASSUME NEW n \in 1 .. N, Good(f[n - 1], n - 1) PROVE Good(f[n], n)
  <2> DEFINE v == f[n - 1]
             u == f[n]
  <2>1. v \in Skips /\ u = SkipTurn(pkt, v) /\ (v.on => v.cur \in Nat)
    BY <1>3 DEF SkipsFrom, SkipsOn
  <2>2. u \in Skips /\ (u.on => v.on /\ u.cur \in Nat /\ u.cur > v.cur /\ v.cur < Len(pkt))
    BY <2>1, SkipTurnIs
  <2>3. v.on => v.cur \in Nat /\ v.cur >= cur + (n - 1)
    BY <1>3
  <2> HIDE DEF v, u
  <2>4. u.on => u.cur >= cur + n /\ cur + n <= Len(pkt)
    <3> DEFINE x == u.cur
               y == v.cur
    <3>1. u.on => x \in Nat /\ y \in Nat /\ x > y /\ y < Len(pkt) /\ y >= cur + (n - 1)
      BY <2>2, <2>3
    <3> HIDE DEF x, y
    <3>2. u.on => x >= cur + n /\ cur + n <= Len(pkt)
      BY <1>1, <3>1
    <3> QED
      BY <3>2 DEF x
  <2>5. Good(u, n)
    BY <2>2, <2>4
  <2> QED
    BY <2>5 DEF u
<1> HIDE DEF Good
<1>4. \A n \in 1 .. N : f[n - 1] \in W[n - 1] => f[n] \in W[n]
  <2> TAKE n \in 1 .. N
  <2>1. n - 1 \in 0 .. N /\ n \in 0 .. N /\ f[n] \in Skips
    BY <1>1 DEF SkipsFrom, SkipsOn
  <2> QED
    BY <1>3, <2>1
<1>5. \A n \in 0 .. N : f[n] \in W[n]
  <2> HIDE DEF W, N
  <2> QED
    BY <1>1, <1>2, <1>4, LoopInvariant
<1> QED
  BY <1>5 DEF Good

LEMMA SkipsExist ==
  ASSUME NEW pkt \in Seq(Octet), NEW cur \in Nat
  PROVE  \E f : SkipsFrom(pkt, cur, f) /\ SkipDn(pkt, cur) = f[Len(pkt) + 1]
<1>1. PICK f : /\ f[0] = [on |-> TRUE, cur |-> cur] /\ \A n \in 1 .. Len(pkt) + 1 : f[n] = SkipTurn(pkt, f[n - 1])
               /\ (\A n \in 0 .. Len(pkt) + 1 : f[n] \in SkipsOn)
               /\ SkipDn(pkt, cur) = f[Len(pkt) + 1]
  BY SkipLoop
<1> QED
  BY <1>1 DEF SkipsFrom, SkipsOn

LEMMA SkipReturns ==
  ASSUME NEW pkt \in Seq(Octet), NEW cur \in Nat
  PROVE  SkipDn(pkt, cur) \in Skips /\ ~SkipDn(pkt, cur).on
<1>1. PICK f : SkipsFrom(pkt, cur, f) /\ SkipDn(pkt, cur) = f[Len(pkt) + 1]
  BY SkipsExist
<1>2. Len(pkt) \in Nat /\ Len(pkt) + 1 \in 0 .. Len(pkt) + 1
  BY LenProperties
<1>3. f[Len(pkt) + 1].on => Len(pkt) + 1 = 0 \/ cur + (Len(pkt) + 1) <= Len(pkt)
  BY <1>1, <1>2, SkipEnds
<1>4. f[Len(pkt) + 1] \in Skips
  BY <1>1, <1>2 DEF SkipsFrom, SkipsOn
<1> QED
  BY <1>1, <1>2, <1>3, <1>4

\* What it does at a position, and that it goes on behind a label as from there.
LEMMA SkipDnIs ==
  ASSUME NEW pkt \in Seq(Octet), NEW cur \in Nat, cur < Len(pkt)
  PROVE  LET c == ByteAt(pkt, cur) IN
           /\ c = 0 => SkipDn(pkt, cur).cur = cur + 1
           /\ c # 0 /\ Jump(c) => SkipDn(pkt, cur).cur = IF cur + 2 >= Len(pkt) THEN NoPosition ELSE cur + 2
           /\ c # 0 /\ ~Jump(c) => SkipDn(pkt, cur) = SkipDn(pkt, cur + 1 + c)
<1> DEFINE c == ByteAt(pkt, cur)
           L == Len(pkt)
<1>1. L \in Nat /\ L > 0 /\ 0 \in 0 .. L + 1 /\ 1 \in 1 .. L + 1 /\ 1 \in 0 .. L + 1 /\ L + 1 \in 1 .. L + 1
      /\ L + 1 \in 0 .. L + 1
  BY LenProperties
<1>2. PICK f : SkipsFrom(pkt, cur, f) /\ SkipDn(pkt, cur) = f[L + 1]
  BY SkipsExist
<1>3. cur \in 0 .. L - 1
  BY <1>1
<1>4. c \in Nat
  BY <1>3, ByteIs, OctetIs
<1> DEFINE t == [on |-> TRUE, cur |-> cur]
<1>5. t \in Skips /\ t.on /\ t.cur = cur /\ t.cur \in Nat
  BY DEF Skips
<1>6. f[1] = SkipTurn(pkt, t)
  <2>1. f[1] = SkipTurn(pkt, f[1 - 1]) /\ f[0] = t /\ 1 - 1 = 0
    BY <1>1, <1>2 DEF SkipsFrom, SkipsOn
  <2> QED
    BY <2>1
<1>7. /\ c = 0 => f[1] = [on |-> FALSE, cur |-> cur + 1]
      /\ c # 0 /\ Jump(c) => f[1] = [on |-> FALSE, cur |-> IF cur + 2 >= L THEN NoPosition ELSE cur + 2]
      /\ c # 0 /\ ~Jump(c) => f[1] = [on |-> TRUE, cur |-> cur + 1 + c]
  BY <1>5, <1>6, SkipTurnIs
<1> HIDE DEF t, c, L
<1>8. ASSUME ~f[1].on PROVE f[L + 1] = f[1]
  <2> DEFINE N == L + 1
             W == [n \in 0 .. N |-> IF n = 0 THEN {f[0]} ELSE {f[1]}]
  <2>1. N \in Nat /\ f[0] \in W[0] /\ N \in 0 .. N /\ N # 0
    BY <1>1
  <2>2. \A n \in 1 .. N : f[n - 1] \in W[n - 1] => f[n] \in W[n]
    <3> TAKE n \in 1 .. N
    <3>1. n \in 0 .. N /\ n # 0 /\ n - 1 \in 0 .. N /\ n - 1 \in 0 .. L + 1
      BY <1>1
    <3>2. CASE n = 1
      BY <3>1, <3>2
    <3>3. CASE n # 1
      <4>1. n - 1 # 0
        BY <3>1, <3>3
      <4>2. f[n - 1] \in W[n - 1] => f[n - 1] = f[1]
        BY <3>1, <4>1
      <4>3. f[n] = SkipTurn(pkt, f[n - 1]) /\ f[1] \in Skips
        BY <1>1, <1>2 DEF SkipsFrom, SkipsOn, L
      <4>4. SkipTurn(pkt, f[1]) = f[1]
        BY <1>8, <4>3, SkipTurnIs
      <4> QED
        BY <3>1, <4>2, <4>3, <4>4
    <3> QED
      BY <3>2, <3>3
  <2> HIDE DEF W, N
  <2>3. \A n \in 0 .. N : f[n] \in W[n]
    BY <2>1, <2>2, LoopInvariant
  <2> QED
    BY <2>1, <2>3 DEF W, N
<1>9. ASSUME c # 0, ~Jump(c) PROVE SkipDn(pkt, cur) = SkipDn(pkt, cur + 1 + c)
  <2> DEFINE d == cur + 1 + c
  <2>1. d \in Nat /\ d > 0
    BY <1>4
  <2> HIDE DEF d
  <2>2. PICK h : SkipsFrom(pkt, d, h) /\ SkipDn(pkt, d) = h[L + 1]
    BY <2>1, SkipsExist DEF L
  <2> DEFINE W == [n \in 0 .. L |-> {f[n + 1]}]
  <2>3. h[0] \in W[0]
    <3>1. h[0] = [on |-> TRUE, cur |-> d] /\ f[0 + 1] = [on |-> TRUE, cur |-> d]
      BY <1>7, <1>9, <2>2 DEF SkipsFrom, SkipsOn, d
    <3> QED
      BY <1>1, <3>1
  <2>4. \A n \in 1 .. L : h[n - 1] \in W[n - 1] => h[n] \in W[n]
    <3> TAKE n \in 1 .. L
    <3>1. n \in 0 .. L /\ n - 1 \in 0 .. L /\ n \in 1 .. L + 1 /\ n + 1 \in 1 .. L + 1 /\ (n - 1) + 1 = n /\ (n + 1) - 1 = n
      BY <1>1
    <3>2. h[n] = SkipTurn(pkt, h[n - 1])
      BY <2>2, <3>1 DEF SkipsFrom, SkipsOn, L
    <3>3. f[n + 1] = SkipTurn(pkt, f[n])
      BY <1>2, <3>1 DEF SkipsFrom, SkipsOn, L
    <3> QED
      BY <3>1, <3>2, <3>3
  <2>5. \A n \in 0 .. L : h[n] \in W[n]
    <3> HIDE DEF W
    <3> QED
      BY <1>1, <2>3, <2>4, LoopInvariant
  <2>6. h[L] = f[L + 1]
    BY <1>1, <2>5
  <2>7. ~h[L].on
    <3>1. L \in 0 .. L + 1
      BY <1>1
    <3>2. h[L].on => L = 0 \/ d + L <= L
      BY <2>1, <2>2, <3>1, SkipEnds DEF L
    <3> QED
      BY <1>1, <2>1, <3>2
  <2>8. h[L + 1] = h[L]
    <3>1. h[L + 1] = SkipTurn(pkt, h[L + 1 - 1]) /\ L + 1 - 1 = L /\ L \in 0 .. L + 1
      BY <1>1, <2>2 DEF SkipsFrom, SkipsOn, L
    <3>2. h[L] \in Skips
      BY <2>2, <3>1 DEF SkipsFrom, SkipsOn, L
    <3> QED
      BY <2>7, <3>1, <3>2, SkipTurnIs
  <2> QED
    BY <1>2, <2>2, <2>6, <2>8 DEF d
<1>10. c = 0 => SkipDn(pkt, cur).cur = cur + 1
  <2> SUFFICES ASSUME c = 0 PROVE SkipDn(pkt, cur).cur = cur + 1
    OBVIOUS
  <2>1. f[1] = [on |-> FALSE, cur |-> cur + 1]
    BY <1>7
  <2> QED
    BY <1>2, <1>8, <2>1
<1>11. c # 0 /\ Jump(c) => SkipDn(pkt, cur).cur = IF cur + 2 >= L THEN NoPosition ELSE cur + 2
  <2> SUFFICES ASSUME c # 0, Jump(c) PROVE SkipDn(pkt, cur).cur = IF cur + 2 >= L THEN NoPosition ELSE cur + 2
    OBVIOUS
  <2> DEFINE x == IF cur + 2 >= L THEN NoPosition ELSE cur + 2
  <2>1. f[1] = [on |-> FALSE, cur |-> x]
    BY <1>7
  <2> HIDE DEF x
  <2>2. SkipDn(pkt, cur).cur = x
    BY <1>2, <1>8, <2>1
  <2> QED
    BY <2>2 DEF x
<1> QED
  BY <1>9, <1>10, <1>11 DEF c, L

-----------------------------------------------------------------------------
(* dns_getdn()                                                              *)

Reads == [on : BOOLEAN, pp : Int, dn : Seq(Octet) \cup {Invalid}, jump : Nat, loop : Nat]
Room(size) == Lesser(size, MaxDn)

Returned(t, dn, cur) == [t EXCEPT !.on = FALSE, !.dn = dn, !.pp = cur]
Jumped(t, pp, jump, loop) == [t EXCEPT !.pp = pp, !.jump = jump, !.loop = loop]
Copied(t, pp, dn) == [t EXCEPT !.pp = pp, !.dn = dn]

LEMMA ReturnedIs ==
  ASSUME NEW t \in Reads, NEW dn \in Seq(Octet) \cup {Invalid}, NEW cur \in Int
  PROVE  LET u == Returned(t, dn, cur) IN u \in Reads /\ ~u.on /\ u.dn = dn /\ u.pp = cur
  BY DEF Reads, Returned

LEMMA JumpedIs ==
  \A t \in Reads, pp \in Int, jump \in Nat, loop \in Nat : \A u :
     t.on /\ u = Jumped(t, pp, jump, loop) =>
       u \in Reads /\ u.on /\ u.dn = t.dn /\ u.pp = pp /\ u.jump = jump /\ u.loop = loop
  BY DEF Reads, Jumped

LEMMA CopiedIs ==
  ASSUME NEW t \in Reads, NEW pp \in Int, NEW dn \in Seq(Octet)
  PROVE  LET u == Copied(t, pp, dn) IN
           u \in Reads /\ u.on = t.on /\ u.dn = dn /\ u.pp = pp /\ u.jump = t.jump /\ u.loop = t.loop
  BY DEF Reads, Copied

LEMMA GetTurnIs ==
  ASSUME NEW pkt, NEW size, NEW t \in Reads
  PROVE  GetTurn(pkt, size, t) =
           LET c == ByteAt(pkt, t.pp)
               left == IF t.jump = 0 THEN t.loop ELSE t.loop - 1
               noroom == Returned(t, IF size < MaxDn THEN NoRoom ELSE Invalid, NoPosition) IN
             IF ~t.on THEN t
             ELSE IF t.pp >= Len(pkt) THEN Returned(t, Invalid, NoPosition)
             ELSE IF c = 0
             THEN IF Room(size) = 0 THEN noroom
                  ELSE Returned(t, Append(t.dn, 0), IF t.jump = 0 THEN t.pp + 1 ELSE t.jump)
             ELSE IF Jump(c)
             THEN IF t.pp + 1 >= Len(pkt) \/ left = 0 \/ Target(pkt, t.pp) < HSize THEN Returned(t, Invalid, NoPosition)
                  ELSE Jumped(t, Target(pkt, t.pp), IF t.jump = 0 THEN t.pp + 2 ELSE t.jump, left)
             ELSE IF c > MaxLabel \/ t.pp + 1 + c > Len(pkt) THEN Returned(t, Invalid, NoPosition)
             ELSE IF Len(t.dn) + c + 1 > Room(size) THEN noroom
             ELSE Copied(t, t.pp + 1 + c, t.dn \o Label(pkt, t.pp))
  BY Zenon DEF GetTurn, Returned, Jumped, Copied, Room

\* How many jumps there were.
JumpsOf(t) == IF t.jump = 0 THEN 0 ELSE MaxJumps - t.loop + 1

\* What is still to be read at pp makes up the name with what was read.
GoesOn(pkt, cur, t, rest) ==
  LET name == NameAt(pkt, cur) IN
    /\ HasEnd(name) <=> HasEnd(rest)
    /\ HasEnd(rest) => name.bytes = t.dn \o rest.bytes /\ name.jumps = JumpsOf(t) + rest.jumps

\* Where dns_skipdn() comes to.
SkippedTo(pkt, cur, pos) ==
  SkipDn(pkt, cur).cur = pos \/ (SkipDn(pkt, cur).cur = NoPosition /\ pos = Len(pkt))

Counted(size, t, n) ==
  /\ t.pp \in Nat /\ t.dn \in Seq(Octet) /\ Len(t.dn) <= Room(size)
  /\ t.loop \in 1 .. MaxJumps /\ (t.jump = 0 => t.loop = MaxJumps)
  /\ n <= Len(t.dn) + JumpsOf(t)
Followed(pkt, cur, t) ==
  /\ t.jump = 0 => t.pp >= cur /\ SkipDn(pkt, cur) = SkipDn(pkt, t.pp)
  /\ t.jump # 0 => t.jump \in cur + 1 .. Len(pkt) /\ SkippedTo(pkt, cur, t.jump)

Underway(pkt, size, cur, t, n) ==
  t \in Reads /\ t.on /\ Counted(size, t, n) /\ GoesOn(pkt, cur, t, NameAt(pkt, t.pp)) /\ Followed(pkt, cur, t)

HasRoom(name, size) == HasEnd(name) /\ Len(name.bytes) - 1 <= Room(size) /\ name.jumps <= MaxJumps
Finished(pkt, size, cur, t) ==
  /\ t \in Reads /\ ~t.on
  /\ ~Refused(t.dn) <=> HasRoom(NameAt(pkt, cur), size)
  /\ ~Refused(t.dn) =>
       t.dn = NameAt(pkt, cur).bytes /\ t.pp \in cur + 1 .. Len(pkt) /\ SkippedTo(pkt, cur, t.pp)

LEMMA CountedIs ==
  ASSUME NEW size \in Nat \ {0}, NEW t, NEW n \in Nat, Counted(size, t, n)
  PROVE  /\ JumpsOf(t) \in 0 .. MaxJumps /\ Len(t.dn) \in Nat /\ t.loop \in Nat /\ MaxJumps \in Nat \ {0}
         /\ Room(size) \in Nat \ {0} /\ Room(size) <= MaxDn /\ MaxDn \in Nat
         /\ n <= MaxDn + MaxJumps
<1>1. MaxJumps \in Nat \ {0} /\ MaxDn \in Nat \ {0}
  BY DnAssumption, PacketNameAssumption
<1>2. Len(t.dn) \in Nat
  BY LenProperties DEF Counted
<1> DEFINE j == JumpsOf(t)
           r == Room(size)
           l == Len(t.dn)
<1>3. j \in 0 .. MaxJumps /\ t.loop \in Nat
  BY <1>1 DEF Counted, JumpsOf
<1>4. r \in Nat \ {0} /\ r <= MaxDn
  BY <1>1 DEF Room, Lesser
<1>5. n <= l + j /\ l <= r
  BY DEF Counted
<1> HIDE DEF j, r, l
<1>6. l \in Nat
  BY <1>2 DEF l
<1>7. n <= MaxDn + MaxJumps
  BY <1>1, <1>3, <1>4, <1>5, <1>6
<1> QED
  BY <1>1, <1>2, <1>3, <1>4, <1>7 DEF j, r

\* It refuses a name that has no end, no room or too many jumps.
LEMMA Refuses ==
  ASSUME NEW pkt, NEW size, NEW cur, NEW t \in Reads, NEW dn \in {Invalid, NoRoom}, ~HasRoom(NameAt(pkt, cur), size)
  PROVE  Finished(pkt, size, cur, Returned(t, dn, NoPosition))
<1>1. dn \in Seq(Octet) \cup {Invalid} /\ NoPosition \in Int
  <2>1. << >> \in Seq(Octet)
    OBVIOUS
  <2>2. NoRoom \in Seq(Octet)
    BY <2>1, Zenon DEF NoRoom
  <2>3. NoPosition \in Int
    BY DEF NoPosition
  <2> QED
    BY <2>2, <2>3
<1> DEFINE u == Returned(t, dn, NoPosition)
<1>2. u \in Reads /\ ~u.on /\ u.dn = dn
  BY <1>1, ReturnedIs
<1> HIDE DEF u
<1>3. Refused(u.dn)
  BY <1>2 DEF Refused
<1>4. Finished(pkt, size, cur, u)
  BY <1>2, <1>3 DEF Finished
<1> QED
  BY <1>4 DEF u

LEMMA EndlessRefused ==
  ASSUME NEW pkt, NEW size, NEW cur, NEW t, NEW rest, GoesOn(pkt, cur, t, rest), ~HasEnd(rest)
  PROVE  ~HasRoom(NameAt(pkt, cur), size)
  BY DEF GoesOn, HasRoom

\* A turn at the end of a name.
LEMMA TurnEnds ==
  ASSUME NEW pkt \in Seq(Octet), NEW size \in Nat \ {0}, NEW cur \in Nat, NEW n \in Nat, NEW t,
         Underway(pkt, size, cur, t, n), t.pp < Len(pkt), ByteAt(pkt, t.pp) = 0
  PROVE  Finished(pkt, size, cur, Returned(t, Append(t.dn, 0), IF t.jump = 0 THEN t.pp + 1 ELSE t.jump))
<1> DEFINE name == NameAt(pkt, cur)
           pos == IF t.jump = 0 THEN t.pp + 1 ELSE t.jump
           dn == Append(t.dn, 0)
           u == Returned(t, dn, pos)
<1>1. /\ t \in Reads /\ t.pp \in Nat /\ t.dn \in Seq(Octet) /\ Len(pkt) \in Nat /\ t.jump \in Nat /\ Len(t.dn) <= Room(size)
      /\ Counted(size, t, n)
  BY LenProperties DEF Underway, Counted, Reads
<1>2. JumpsOf(t) \in 0 .. MaxJumps /\ Len(t.dn) \in Nat /\ MaxJumps \in Nat /\ Room(size) \in Nat
  BY <1>1, CountedIs
<1>3. NameAt(pkt, t.pp) = [bytes |-> <<0>>, jumps |-> 0]
  BY <1>1, NameAtIs
<1>4. <<0>> \in Seq(Octet) \ {<< >>} /\ 0 \in Octet /\ 0 \in Nat
  BY DEF Octet
<1>5. HasEnd([bytes |-> <<0>>, jumps |-> 0])
  BY <1>4, NamesEnd
<1>6. HasEnd(name) /\ name.bytes = t.dn \o <<0>> /\ name.jumps = JumpsOf(t)
  <2>1. HasEnd(name) /\ name.bytes = t.dn \o [bytes |-> <<0>>, jumps |-> 0].bytes
        /\ name.jumps = JumpsOf(t) + [bytes |-> <<0>>, jumps |-> 0].jumps
    BY <1>3, <1>5 DEF Underway, GoesOn
  <2> HIDE DEF name
  <2> QED
    BY <1>2, <2>1
<1>7. dn \in Seq(Octet) /\ dn = t.dn \o <<0>> /\ Len(dn) = Len(t.dn) + 1
  <2>1. dn \in Seq(Octet) /\ Len(dn) = Len(t.dn) + 1
    BY <1>1, <1>4, AppendProperties
  <2>2. dn = t.dn \o <<0>>
    BY <1>1, <1>4, AppendIsConcat
  <2> QED
    BY <2>1, <2>2
<1>8. pos \in Int /\ pos \in cur + 1 .. Len(pkt) /\ SkippedTo(pkt, cur, pos)
  <2>1. CASE t.jump = 0
    <3>1. t.pp >= cur /\ SkipDn(pkt, cur) = SkipDn(pkt, t.pp) /\ pos = t.pp + 1
      BY <2>1 DEF Underway, Followed
    <3>2. SkipDn(pkt, t.pp).cur = t.pp + 1
      BY <1>1, SkipDnIs
    <3> QED
      BY <1>1, <3>1, <3>2 DEF SkippedTo
  <2>2. CASE t.jump # 0
    BY <1>1, <2>2 DEF Underway, Followed
  <2> QED
    BY <2>1, <2>2
<1> HIDE DEF dn, pos, name
<1>9. u \in Reads /\ ~u.on /\ u.dn = dn /\ u.pp = pos
  <2>1. t \in Reads /\ dn \in Seq(Octet) \cup {Invalid} /\ pos \in Int
    BY <1>1, <1>7, <1>8
  <2> QED
    BY <2>1, ReturnedIs
<1>10. ~Refused(dn)
  <2>1. Len(dn) # 0
    BY <1>2, <1>7
  <2>2. dn # NoRoom
    BY <2>1 DEF NoRoom
  <2>3. dn # Invalid
    BY <1>7, InvalidIsNone
  <2> QED
    BY <2>2, <2>3 DEF Refused
<1>11. HasRoom(name, size)
  <2>1. Len(name.bytes) = Len(t.dn) + 1
    BY <1>6, <1>7
  <2> QED
    BY <1>1, <1>2, <1>6, <2>1 DEF HasRoom
<1> HIDE DEF u
<1>12. Finished(pkt, size, cur, u)
  BY <1>6, <1>7, <1>8, <1>9, <1>10, <1>11 DEF Finished, name
<1> QED
  BY <1>12 DEF u, dn, pos

LEMMA Between == \A i \in Int, n \in Nat : i >= 0 /\ i <= n /\ i # 0 => i \in 1 .. n /\ i \in Nat
  OBVIOUS

LEMMA TooMuch ==
  \A d, c, r \in Nat, y \in Nat \ {0} : \A x : x = d + (c + 1) + y /\ d + c + 1 > r => ~(x - 1 <= r)
  OBVIOUS

LEMMA LabelsJoin == \A a, b, c \in Seq(Octet) : (a \o b) \o c = a \o (b \o c)
  BY ConcatAssociative

\* A turn that follows a jump.
LEMMA TurnJumps ==
  ASSUME NEW pkt \in Seq(Octet), NEW size \in Nat \ {0}, NEW cur \in Nat, NEW n \in Nat, NEW t,
         Underway(pkt, size, cur, t, n), t.pp < Len(pkt), ByteAt(pkt, t.pp) # 0, Jump(ByteAt(pkt, t.pp)),
         NEW left, left = IF t.jump = 0 THEN t.loop ELSE t.loop - 1
  PROVE  /\ t.pp + 1 >= Len(pkt) \/ left = 0 \/ Target(pkt, t.pp) < HSize => ~HasRoom(NameAt(pkt, cur), size)
         /\ ~(t.pp + 1 >= Len(pkt) \/ left = 0 \/ Target(pkt, t.pp) < HSize) =>
              Underway(pkt, size, cur, Jumped(t, Target(pkt, t.pp), IF t.jump = 0 THEN t.pp + 2 ELSE t.jump, left), n + 1)
<1> DEFINE name == NameAt(pkt, cur)
           here == NameAt(pkt, t.pp)
           next == OnwardFrom(pkt, t.pp)
           rest == IF next = NoPosition THEN Endless ELSE NameAt(pkt, next)
           target == Target(pkt, t.pp)
           jumps == JumpsOf(t)
<1>1. /\ t \in Reads /\ t.pp \in Nat /\ t.dn \in Seq(Octet) /\ Len(pkt) \in Nat /\ t.jump \in Nat /\ Len(t.dn) <= Room(size)
      /\ Counted(size, t, n) /\ t.loop \in 1 .. MaxJumps /\ (t.jump = 0 => t.loop = MaxJumps) /\ t.on
      /\ t.pp \in 0 .. Len(pkt) - 1 /\ n <= Len(t.dn) + jumps
  BY LenProperties DEF Underway, Counted, Reads
<1>2. jumps \in 0 .. MaxJumps /\ Len(t.dn) \in Nat /\ MaxJumps \in Nat /\ Room(size) \in Nat
  BY <1>1, CountedIs
<1>3. GoesOn(pkt, cur, t, here) /\ Followed(pkt, cur, t)
  BY DEF Underway
<1>4. here = IF ~HasEnd(rest) THEN Endless ELSE [bytes |-> rest.bytes, jumps |-> rest.jumps + 1]
  BY <1>1, NameAtIs
<1>5. next = IF t.pp + 1 < Len(pkt) /\ target >= HSize THEN target ELSE NoPosition
  BY DEF OnwardFrom
<1>6. t.pp + 1 < Len(pkt) => target \in Nat
  BY <1>1, ByteIs
<1>7. HSize \in Nat
  BY PacketNameAssumption
<1> HIDE DEF name, here, next, target, jumps
<1>8. ASSUME t.pp + 1 >= Len(pkt) \/ target < HSize PROVE ~HasRoom(name, size)
  <2>1. next = NoPosition
    BY <1>1, <1>5, <1>6, <1>7, <1>8
  <2>2. here = Endless
    BY <1>4, <2>1, EndlessIs
  <2> QED
    BY <1>3, <2>2, EndlessRefused, EndlessIs DEF name
<1>9. rest \in NameSet
  <2>1. next = NoPosition \/ next \in Nat
    BY <1>1, <1>5, <1>6
  <2> QED
    BY <2>1, NameAtIs, EndlessIs
<1> HIDE DEF rest
<1>10. HasEnd(rest) => rest.jumps \in Nat /\ rest.bytes \in Seq(Octet) \ {<< >>} /\ HasEnd(here)
                     /\ here.bytes = rest.bytes /\ here.jumps = rest.jumps + 1
  <2> SUFFICES ASSUME HasEnd(rest) PROVE rest.jumps \in Nat /\ rest.bytes \in Seq(Octet) \ {<< >>} /\ HasEnd(here)
                     /\ here.bytes = rest.bytes /\ here.jumps = rest.jumps + 1
    OBVIOUS
  <2> DEFINE b == rest.bytes
             j == rest.jumps
  <2>1. b \in Seq(Octet) \ {<< >>} /\ j \in Nat /\ j + 1 \in Nat
    BY <1>9, NameIs
  <2>2. here = [bytes |-> b, jumps |-> j + 1]
    BY <1>4
  <2> HIDE DEF b, j
  <2>3. HasEnd(here) /\ here.bytes = b /\ here.jumps = j + 1
    BY <2>1, <2>2, NamesEnd
  <2> QED
    BY <2>1, <2>3 DEF b, j
<1>11. ~HasEnd(rest) => ~HasEnd(here)
  BY <1>4, EndlessIs
<1>12. /\ HasEnd(name) <=> HasEnd(rest)
       /\ HasEnd(rest) => name.bytes = t.dn \o rest.bytes /\ name.jumps = jumps + (rest.jumps + 1)
  BY <1>3, <1>10, <1>11 DEF GoesOn, name, jumps
<1>13. left \in Int /\ left >= 0 /\ left <= MaxJumps /\ (left = 0 => jumps = MaxJumps)
       /\ (left # 0 => MaxJumps - left + 1 = jumps + 1)
  <2> DEFINE l == t.loop
  <2>1. l \in 1 .. MaxJumps /\ (t.jump = 0 => l = MaxJumps) /\ left = (IF t.jump = 0 THEN l ELSE l - 1)
        /\ jumps = IF t.jump = 0 THEN 0 ELSE MaxJumps - l + 1
    BY <1>1 DEF JumpsOf, jumps
  <2> HIDE DEF l
  <2> QED
    BY <1>2, <2>1
<1>14. ASSUME left = 0 PROVE ~HasRoom(name, size)
  <2> SUFFICES ASSUME HasEnd(name) PROVE ~(name.jumps <= MaxJumps)
    BY DEF HasRoom
  <2>1. rest.jumps \in Nat /\ name.jumps = jumps + (rest.jumps + 1) /\ jumps = MaxJumps
    BY <1>10, <1>12, <1>13, <1>14
  <2> DEFINE x == name.jumps
             y == rest.jumps
  <2>2. y \in Nat /\ x = MaxJumps + (y + 1)
    BY <2>1
  <2> HIDE DEF x, y
  <2>3. ~(x <= MaxJumps)
    BY <1>2, <2>2
  <2> QED
    BY <2>3 DEF x
<1>15. ASSUME ~(t.pp + 1 >= Len(pkt) \/ left = 0 \/ target < HSize)
       PROVE  Underway(pkt, size, cur, Jumped(t, target, IF t.jump = 0 THEN t.pp + 2 ELSE t.jump, left), n + 1)
  <2> DEFINE jump == IF t.jump = 0 THEN t.pp + 2 ELSE t.jump
             u == Jumped(t, target, jump, left)
  <2>1. t.pp + 1 < Len(pkt) /\ left # 0
    BY <1>1, <1>15
  <2>2. target \in Nat /\ target >= HSize
    BY <1>6, <1>7, <1>15, <2>1
  <2>3. next = target /\ next # NoPosition
    BY <1>5, <2>1, <2>2 DEF NoPosition
  <2>4. jump \in Nat /\ jump # 0
    <3> DEFINE x == t.pp
               y == t.jump
    <3>1. x \in Nat /\ y \in Nat /\ jump = IF y = 0 THEN x + 2 ELSE y
      BY <1>1
    <3> HIDE DEF x, y, jump
    <3> QED
      BY <3>1
  <2>5. left \in 1 .. MaxJumps /\ left \in Nat
    <3>1. left \in Int /\ left >= 0 /\ left <= MaxJumps /\ left # 0 /\ MaxJumps \in Nat
      BY <1>2, <1>13, <2>1
    <3> HIDE DEF jump, u
    <3> QED
      BY <3>1, Between
  <2>6. jump \in cur + 1 .. Len(pkt) /\ SkippedTo(pkt, cur, jump)
    <3>1. CASE t.jump = 0
      <4>1. t.pp >= cur /\ SkipDn(pkt, cur) = SkipDn(pkt, t.pp) /\ jump = t.pp + 2
        BY <1>3, <3>1 DEF Followed
      <4>2. SkipDn(pkt, t.pp).cur = IF t.pp + 2 >= Len(pkt) THEN NoPosition ELSE t.pp + 2
        BY <1>1, SkipDnIs
      <4>3. t.pp + 2 \in cur + 1 .. Len(pkt) /\ (t.pp + 2 >= Len(pkt) => t.pp + 2 = Len(pkt))
        BY <1>1, <2>1, <4>1
      <4> QED
        BY <4>1, <4>2, <4>3 DEF SkippedTo
    <3>2. CASE t.jump # 0
      BY <1>3, <3>2 DEF Followed
    <3> QED
      BY <3>1, <3>2
  <2> HIDE DEF jump
  <2>7. u \in Reads /\ u.on /\ u.dn = t.dn /\ u.pp = target /\ u.jump = jump /\ u.loop = left
    <3>1. t \in Reads /\ t.on /\ target \in Int /\ jump \in Nat /\ left \in Nat
      BY <1>1, <2>2, <2>4, <2>5
    <3>2. u = Jumped(t, target, jump, left)
      OBVIOUS
    <3> HIDE DEF u, target
    <3> QED
      BY <3>1, <3>2 DEF Jumped, Reads
  <2> HIDE DEF u
  <2>8. JumpsOf(u) = jumps + 1
    BY <1>13, <2>1, <2>4, <2>7 DEF JumpsOf
  <2>9. Counted(size, u, n + 1)
    <3>1. n + 1 <= Len(t.dn) + (jumps + 1)
      <4> DEFINE d == Len(t.dn)
      <4>1. d \in Nat /\ jumps \in Nat /\ n <= d + jumps
        BY <1>1, <1>2
      <4> HIDE DEF d
      <4>2. n + 1 <= d + (jumps + 1)
        BY <4>1
      <4> QED
        BY <4>2 DEF d
    <3> QED
      BY <1>1, <2>2, <2>4, <2>5, <2>7, <2>8, <3>1 DEF Counted
  <2>10. NameAt(pkt, u.pp) = rest
    BY <2>3, <2>7 DEF rest
  <2>11. GoesOn(pkt, cur, u, rest)
    <3>1. HasEnd(rest) => name.jumps = (jumps + 1) + rest.jumps
      <4> SUFFICES ASSUME HasEnd(rest) PROVE name.jumps = (jumps + 1) + rest.jumps
        OBVIOUS
      <4> DEFINE y == rest.jumps
      <4>1. y \in Nat /\ name.jumps = jumps + (y + 1)
        BY <1>10, <1>12
      <4> HIDE DEF y
      <4>2. jumps + (y + 1) = (jumps + 1) + y
        BY <1>2, <4>1
      <4> QED
        BY <4>1, <4>2 DEF y
    <3> QED
      BY <1>12, <2>7, <2>8, <3>1 DEF GoesOn, name
  <2>12. Followed(pkt, cur, u)
    BY <2>4, <2>6, <2>7 DEF Followed
  <2>13. Underway(pkt, size, cur, u, n + 1)
    BY <2>7, <2>9, <2>10, <2>11, <2>12 DEF Underway
  <2> QED
    BY <2>13 DEF u, jump
<1> QED
  BY <1>8, <1>14, <1>15 DEF name, target

\* A turn that copies a label.
LEMMA TurnCopies ==
  ASSUME NEW pkt \in Seq(Octet), NEW size \in Nat \ {0}, NEW cur \in Nat, NEW n \in Nat, NEW t,
         Underway(pkt, size, cur, t, n), t.pp < Len(pkt), ByteAt(pkt, t.pp) # 0, ~Jump(ByteAt(pkt, t.pp)),
         NEW c, c = ByteAt(pkt, t.pp)
  PROVE  /\ c > MaxLabel \/ t.pp + 1 + c > Len(pkt) => ~HasRoom(NameAt(pkt, cur), size)
         /\ ~(c > MaxLabel \/ t.pp + 1 + c > Len(pkt)) =>
              IF Len(t.dn) + c + 1 > Room(size) THEN ~HasRoom(NameAt(pkt, cur), size)
              ELSE Underway(pkt, size, cur, Copied(t, t.pp + 1 + c, t.dn \o Label(pkt, t.pp)), n + 1)
<1> DEFINE name == NameAt(pkt, cur)
           here == NameAt(pkt, t.pp)
           next == OnwardFrom(pkt, t.pp)
           rest == IF next = NoPosition THEN Endless ELSE NameAt(pkt, next)
           label == Label(pkt, t.pp)
           jumps == JumpsOf(t)
           pos == t.pp + 1 + c
<1>1. /\ t \in Reads /\ t.pp \in Nat /\ t.dn \in Seq(Octet) /\ Len(pkt) \in Nat /\ t.jump \in Nat /\ Len(t.dn) <= Room(size)
      /\ Counted(size, t, n) /\ t.loop \in 1 .. MaxJumps /\ (t.jump = 0 => t.loop = MaxJumps) /\ t.on
      /\ t.pp \in 0 .. Len(pkt) - 1 /\ n <= Len(t.dn) + jumps
  BY LenProperties DEF Underway, Counted, Reads
<1>2. jumps \in 0 .. MaxJumps /\ Len(t.dn) \in Nat /\ MaxJumps \in Nat /\ Room(size) \in Nat
  BY <1>1, CountedIs
<1>3. GoesOn(pkt, cur, t, here) /\ Followed(pkt, cur, t)
  BY DEF Underway
<1>4. here = IF ~HasEnd(rest) THEN Endless ELSE [bytes |-> label \o rest.bytes, jumps |-> rest.jumps]
  BY <1>1, NameAtIs
<1>5. next = IF c <= MaxLabel THEN pos ELSE NoPosition
  BY DEF OnwardFrom
<1>6. c \in Nat /\ c # 0
  BY <1>1, ByteIs, OctetIs
<1>7. MaxLabel \in Nat /\ MaxDn \in Nat
  BY DnAssumption
<1>8. pos \in Nat /\ pos # NoPosition
  BY <1>1, <1>6 DEF NoPosition
<1>9. rest \in NameSet
  BY <1>5, <1>8, NameAtIs, EndlessIs
<1>10. t.pp + 1 + ByteAt(pkt, t.pp) <= Len(pkt) => label \in Seq(Octet) \ {<< >>} /\ Len(label) = c + 1
  BY <1>1, LabelIs
<1>11. ASSUME c > MaxLabel \/ pos > Len(pkt) PROVE ~HasRoom(name, size)
  <2>1. CASE c > MaxLabel
    <3>1. next = NoPosition
      BY <1>5, <1>6, <1>7, <2>1
    <3>2. ~HasEnd(rest)
      BY <3>1, EndlessIs
    <3>3. here = Endless
      BY <1>4, <3>2
    <3> HIDE DEF here
    <3> QED
      BY <1>3, <3>3, EndlessRefused, EndlessIs
  <2>2. CASE ~(c > MaxLabel) /\ pos > Len(pkt)
    <3>1. next = pos /\ pos >= Len(pkt)
      BY <1>1, <1>5, <1>6, <1>7, <1>8, <2>2
    <3>2. NameAt(pkt, pos) = Endless
      <4> HIDE DEF pos
      <4> QED
        BY <1>8, <3>1, NameAtIs
    <3>3. ~HasEnd(rest)
      BY <3>1, <3>2, EndlessIs
    <3>4. here = Endless
      BY <1>4, <3>3
    <3> HIDE DEF here
    <3> QED
      BY <1>3, <3>4, EndlessRefused, EndlessIs
  <2> QED
    BY <1>11, <2>1, <2>2
<1>12. ASSUME ~(c > MaxLabel \/ pos > Len(pkt))
       PROVE  /\ label \in Seq(Octet) \ {<< >>} /\ Len(label) = c + 1 /\ next = pos /\ rest = NameAt(pkt, pos)
              /\ pos <= Len(pkt)
  <2>1. c <= MaxLabel /\ pos <= Len(pkt)
    BY <1>1, <1>6, <1>7, <1>8, <1>12
  <2>2. t.pp + 1 + ByteAt(pkt, t.pp) <= Len(pkt)
    BY <2>1
  <2>3. next = pos
    BY <1>5, <2>1
  <2> HIDE DEF label, next, pos
  <2> QED
    BY <1>8, <1>10, <2>1, <2>2, <2>3
<1> HIDE DEF rest, here, next, label, jumps, name, pos
<1>13. HasEnd(rest) => rest.jumps \in Nat /\ rest.bytes \in Seq(Octet) \ {<< >>}
  BY <1>9, NameIs
<1>14. ASSUME ~(c > MaxLabel \/ pos > Len(pkt))
       PROVE  /\ HasEnd(name) <=> HasEnd(rest)
              /\ HasEnd(rest) => name.bytes = (t.dn \o label) \o rest.bytes /\ name.jumps = jumps + rest.jumps
                               /\ Len(name.bytes) = Len(t.dn) + (c + 1) + Len(rest.bytes) /\ Len(rest.bytes) \in Nat \ {0}
  <2>1. CASE ~HasEnd(rest)
    BY <1>3, <1>4, <2>1, EndlessIs DEF GoesOn, name, jumps
  <2>2. CASE HasEnd(rest)
    <3> DEFINE b == rest.bytes
               j == rest.jumps
               all == label \o b
    <3>1. b \in Seq(Octet) /\ b # << >> /\ j \in Nat /\ label \in Seq(Octet) /\ label # << >> /\ Len(label) = c + 1
      BY <1>12, <1>13, <1>14, <2>2
    <3>2. here = [bytes |-> all, jumps |-> j]
      BY <1>4, <2>2
    <3> HIDE DEF b, j
    <3>3. all \in Seq(Octet) /\ Len(all) = (c + 1) + Len(b) /\ Len(b) \in Nat \ {0}
      <4>1. Len(b) \in Nat /\ Len(b) # 0
        BY <3>1, EmptySeq, LenProperties
      <4> QED
        BY <3>1, <4>1, ConcatProperties
    <3>4. all # << >>
      BY <1>6, <3>3
    <3>5. (t.dn \o label) \o b = t.dn \o all /\ Len(t.dn \o all) = Len(t.dn) + Len(all)
      <4>1. t.dn \in Seq(Octet)
        BY <1>1
      <4>2. (t.dn \o label) \o b = t.dn \o all
        <5> DEFINE dn == t.dn
        <5>1. dn \in Seq(Octet)
          BY <4>1
        <5> HIDE DEF dn
        <5>2. (dn \o label) \o b = dn \o (label \o b)
          BY <3>1, <5>1, LabelsJoin
        <5> QED
          BY <5>2 DEF dn
      <4> HIDE DEF all
      <4>3. Len(t.dn \o all) = Len(t.dn) + Len(all)
        BY <3>3, <4>1, ConcatProperties
      <4> QED
        BY <4>2, <4>3
    <3> HIDE DEF all
    <3>6. HasEnd(here) /\ here.bytes = all /\ here.jumps = j
      BY <3>1, <3>2, <3>3, <3>4, NamesEnd
    <3>7. HasEnd(name) /\ name.bytes = t.dn \o all /\ name.jumps = jumps + j
      BY <1>3, <3>6 DEF GoesOn, name, jumps
    <3>8. Len(t.dn) + ((c + 1) + Len(b)) = Len(t.dn) + (c + 1) + Len(b)
      <4> DEFINE d == Len(t.dn)
                 e == Len(b)
      <4>1. d \in Nat /\ e \in Nat
        BY <1>2, <3>3
      <4> HIDE DEF d, e
      <4>2. d + ((c + 1) + e) = d + (c + 1) + e
        BY <1>6, <4>1
      <4> QED
        BY <4>2 DEF d, e
    <3> QED
      BY <2>2, <3>3, <3>5, <3>7, <3>8 DEF b, j
  <2> QED
    BY <2>1, <2>2
<1>15. ASSUME ~(c > MaxLabel \/ pos > Len(pkt)), Len(t.dn) + c + 1 > Room(size) PROVE ~HasRoom(name, size)
  <2> SUFFICES ASSUME HasEnd(name) PROVE ~(Len(name.bytes) - 1 <= Room(size))
    BY DEF HasRoom
  <2> DEFINE x == Len(name.bytes)
             y == Len(rest.bytes)
             d == Len(t.dn)
             r == Room(size)
  <2>1. x = d + (c + 1) + y /\ y \in Nat \ {0}
    BY <1>14, <1>15
  <2>2. d \in Nat /\ r \in Nat /\ d + c + 1 > r
    BY <1>2, <1>15
  <2> HIDE DEF x, y, d, r
  <2>3. ~(x - 1 <= r)
    BY <1>6, <2>1, <2>2, TooMuch, Zenon
  <2> QED
    BY <2>3 DEF x, r
<1>16. ASSUME ~(c > MaxLabel \/ pos > Len(pkt)), ~(Len(t.dn) + c + 1 > Room(size))
       PROVE  Underway(pkt, size, cur, Copied(t, pos, t.dn \o label), n + 1)
  <2> DEFINE dn == t.dn \o label
             u == Copied(t, pos, dn)
  <2>1. dn \in Seq(Octet) /\ Len(dn) = Len(t.dn) + (c + 1)
    BY <1>1, <1>12, <1>16, ConcatProperties
  <2>2. Len(dn) <= Room(size) /\ n + 1 <= Len(dn) + jumps
    <3> DEFINE d == Len(t.dn)
               e == Len(dn)
               r == Room(size)
    <3>1. d \in Nat /\ r \in Nat /\ jumps \in Nat /\ n <= d + jumps /\ e = d + (c + 1) /\ ~(d + c + 1 > r)
      BY <1>1, <1>2, <1>16, <2>1
    <3> HIDE DEF d, e, r, u, dn
    <3>2. e <= r
      BY <1>6, <3>1
    <3>3. n + 1 <= e + jumps
      BY <1>6, <3>1
    <3> QED
      BY <3>2, <3>3 DEF e, r
  <2> HIDE DEF dn
  <2>3. u \in Reads /\ u.on /\ u.dn = dn /\ u.pp = pos /\ u.jump = t.jump /\ u.loop = t.loop
    <3>1. t \in Reads /\ t.on /\ pos \in Int /\ dn \in Seq(Octet)
      BY <1>1, <1>8, <2>1
    <3> QED
      BY <3>1, CopiedIs
  <2> HIDE DEF u
  <2>4. JumpsOf(u) = jumps
    BY <2>3 DEF JumpsOf, jumps
  <2>5. Counted(size, u, n + 1)
    BY <1>1, <1>8, <2>1, <2>2, <2>3, <2>4 DEF Counted
  <2>6. NameAt(pkt, u.pp) = rest
    BY <1>12, <1>16, <2>3
  <2>7. GoesOn(pkt, cur, u, rest)
    BY <1>14, <1>16, <2>3, <2>4 DEF GoesOn, name, dn
  <2>8. Followed(pkt, cur, u)
    <3>1. CASE t.jump = 0
      <4>1. t.pp >= cur /\ SkipDn(pkt, cur) = SkipDn(pkt, t.pp)
        BY <1>3, <3>1 DEF Followed
      <4>2. SkipDn(pkt, t.pp) = SkipDn(pkt, pos)
        BY <1>1, SkipDnIs DEF pos
      <4>3. pos >= cur
        BY <1>1, <1>6, <4>1 DEF pos
      <4> QED
        BY <2>3, <3>1, <4>1, <4>2, <4>3 DEF Followed
    <3>2. CASE t.jump # 0
      BY <1>3, <2>3, <3>2 DEF Followed
    <3> QED
      BY <3>1, <3>2
  <2>9. Underway(pkt, size, cur, u, n + 1)
    BY <2>3, <2>5, <2>6, <2>7, <2>8 DEF Underway
  <2> QED
    BY <2>9 DEF u, dn
<1> QED
  BY <1>11, <1>15, <1>16 DEF name, pos, label

\* A turn of the loop goes on reading the name, or it returns what is right.
LEMMA TurnReads ==
  ASSUME NEW pkt \in Seq(Octet), NEW size \in Nat \ {0}, NEW cur \in Nat, NEW n \in Nat, NEW t,
         Underway(pkt, size, cur, t, n)
  PROVE  Underway(pkt, size, cur, GetTurn(pkt, size, t), n + 1) \/ Finished(pkt, size, cur, GetTurn(pkt, size, t))
<1> DEFINE Done == Underway(pkt, size, cur, GetTurn(pkt, size, t), n + 1) \/ Finished(pkt, size, cur, GetTurn(pkt, size, t))
           c == ByteAt(pkt, t.pp)
           left == IF t.jump = 0 THEN t.loop ELSE t.loop - 1
           jump == IF t.jump = 0 THEN t.pp + 2 ELSE t.jump
           refused == IF size < MaxDn THEN NoRoom ELSE Invalid
           noroom == Returned(t, refused, NoPosition)
           broken == t.pp + 1 >= Len(pkt) \/ left = 0 \/ Target(pkt, t.pp) < HSize
           tooLong == c > MaxLabel \/ t.pp + 1 + c > Len(pkt)
           full == Len(t.dn) + c + 1 > Room(size)
           got == GetTurn(pkt, size, t)
<1>1. t \in Reads /\ t.on /\ t.pp \in Nat /\ Len(pkt) \in Nat /\ Counted(size, t, n)
  BY LenProperties DEF Underway, Counted
<1>2. Room(size) # 0
  BY <1>1, CountedIs
<1>3. got = IF t.pp >= Len(pkt) THEN Returned(t, Invalid, NoPosition)
            ELSE IF c = 0 THEN Returned(t, Append(t.dn, 0), IF t.jump = 0 THEN t.pp + 1 ELSE t.jump)
            ELSE IF Jump(c)
            THEN IF broken THEN Returned(t, Invalid, NoPosition) ELSE Jumped(t, Target(pkt, t.pp), jump, left)
            ELSE IF tooLong THEN Returned(t, Invalid, NoPosition)
            ELSE IF full THEN noroom
            ELSE Copied(t, t.pp + 1 + c, t.dn \o Label(pkt, t.pp))
  BY <1>1, <1>2, GetTurnIs, Zenon
<1> HIDE DEF got
<1>4. \A dn \in {Invalid, NoRoom} : ~HasRoom(NameAt(pkt, cur), size) => Finished(pkt, size, cur, Returned(t, dn, NoPosition))
  BY <1>1, Refuses
<1>5. refused \in {Invalid, NoRoom}
  OBVIOUS
<1> HIDE DEF refused
<1>6. CASE t.pp >= Len(pkt)
  <2>1. NameAt(pkt, t.pp) = Endless
    BY <1>1, <1>6, NameAtIs
  <2>2. GoesOn(pkt, cur, t, NameAt(pkt, t.pp))
    BY DEF Underway
  <2>3. ~HasRoom(NameAt(pkt, cur), size)
    BY <2>1, <2>2, EndlessRefused, EndlessIs
  <2>4. got = Returned(t, Invalid, NoPosition)
    BY <1>3, <1>6
  <2>5. Finished(pkt, size, cur, got)
    BY <1>4, <2>3, <2>4
  <2> QED
    BY <2>5 DEF got
<1>7. CASE t.pp < Len(pkt) /\ c = 0
  <2>1. Finished(pkt, size, cur, Returned(t, Append(t.dn, 0), IF t.jump = 0 THEN t.pp + 1 ELSE t.jump))
    BY <1>7, TurnEnds
  <2>2. got = Returned(t, Append(t.dn, 0), IF t.jump = 0 THEN t.pp + 1 ELSE t.jump)
    BY <1>1, <1>3, <1>7
  <2>3. Finished(pkt, size, cur, got)
    BY <2>1, <2>2
  <2> QED
    BY <2>3 DEF got
<1>8. CASE t.pp < Len(pkt) /\ c # 0 /\ Jump(c)
  <2>1. /\ broken => ~HasRoom(NameAt(pkt, cur), size)
        /\ ~broken => Underway(pkt, size, cur, Jumped(t, Target(pkt, t.pp), jump, left), n + 1)
    <3>1. left = IF t.jump = 0 THEN t.loop ELSE t.loop - 1
      OBVIOUS
    <3> HIDE DEF left
    <3> QED
      BY <1>8, <3>1, TurnJumps
  <2>2. got = IF broken THEN Returned(t, Invalid, NoPosition) ELSE Jumped(t, Target(pkt, t.pp), jump, left)
    BY <1>1, <1>3, <1>8
  <2> HIDE DEF broken, jump, left
  <2>3. Underway(pkt, size, cur, got, n + 1) \/ Finished(pkt, size, cur, got)
    BY <1>4, <2>1, <2>2
  <2> QED
    BY <2>3 DEF got
<1>9. CASE t.pp < Len(pkt) /\ c # 0 /\ ~Jump(c)
  <2>1. /\ tooLong => ~HasRoom(NameAt(pkt, cur), size)
        /\ ~tooLong => IF full THEN ~HasRoom(NameAt(pkt, cur), size)
                       ELSE Underway(pkt, size, cur, Copied(t, t.pp + 1 + c, t.dn \o Label(pkt, t.pp)), n + 1)
    BY <1>9, TurnCopies
  <2>2. got = IF tooLong THEN Returned(t, Invalid, NoPosition)
              ELSE IF full THEN noroom ELSE Copied(t, t.pp + 1 + c, t.dn \o Label(pkt, t.pp))
    BY <1>1, <1>3, <1>9
  <2> HIDE DEF tooLong, full
  <2>3. Underway(pkt, size, cur, got, n + 1) \/ Finished(pkt, size, cur, got)
    BY <1>4, <1>5, <2>1, <2>2
  <2> QED
    BY <2>3 DEF got
<1> QED
  BY <1>1, <1>6, <1>7, <1>8, <1>9

\* The state the loop starts with.
LEMMA ReadingStarts ==
  ASSUME NEW pkt \in Seq(Octet), NEW size \in Nat \ {0}, NEW cur \in Nat
  PROVE  Underway(pkt, size, cur, [on |-> TRUE, pp |-> cur, dn |-> << >>, jump |-> 0, loop |-> MaxJumps], 0)
<1> DEFINE t == [on |-> TRUE, pp |-> cur, dn |-> << >>, jump |-> 0, loop |-> MaxJumps]
           name == NameAt(pkt, cur)
<1>1. MaxJumps \in Nat \ {0} /\ MaxDn \in Nat \ {0}
  BY DnAssumption, PacketNameAssumption
<1>2. t \in Reads /\ t.on /\ t.pp = cur /\ t.dn = << >> /\ t.jump = 0 /\ t.loop = MaxJumps
  BY <1>1 DEF Reads
<1> HIDE DEF t
<1>3. JumpsOf(t) = 0
  BY <1>2 DEF JumpsOf
<1>4. Counted(size, t, 0)
  <2>1. << >> \in Seq(Octet) /\ Len(<< >>) = 0
    OBVIOUS
  <2>2. 0 <= Room(size)
    BY <1>1 DEF Room, Lesser
  <2> QED
    BY <1>1, <1>2, <1>3, <2>1, <2>2 DEF Counted
<1>5. GoesOn(pkt, cur, t, name)
  <2>1. name \in NameSet
    BY NameAtIs, EndlessIs
  <2> SUFFICES ASSUME HasEnd(name) PROVE name.bytes = << >> \o name.bytes /\ name.jumps = 0 + name.jumps
    BY <1>2, <1>3 DEF GoesOn
  <2> DEFINE b == name.bytes
             j == name.jumps
  <2>2. b \in Seq(Octet) /\ j \in Nat
    BY <2>1, NameIs
  <2> HIDE DEF b, j
  <2>3. b = << >> \o b /\ j = 0 + j
    BY <2>2, ConcatEmptySeq
  <2> QED
    BY <2>3 DEF b, j
<1>6. Followed(pkt, cur, t)
  BY <1>2 DEF Followed
<1>7. Underway(pkt, size, cur, t, 0)
  BY <1>2, <1>4, <1>5, <1>6 DEF Underway, name
<1> QED
  BY <1>7 DEF t

LEMMA GetTurnStays ==
  ASSUME NEW pkt, NEW size, NEW t, ~t.on
  PROVE  GetTurn(pkt, size, t) = t
  BY Zenon DEF GetTurn

\* The states of the loop of dns_getdn().
ReadsOn(pkt, size, cur) == {t \in Reads : Finished(pkt, size, cur, t) \/ \E n \in Nat : Underway(pkt, size, cur, t, n)}

\* The turns of dns_getdn().
LEMMA GetLoop ==
  ASSUME NEW pkt \in Seq(Octet), NEW size \in Nat \ {0}, NEW cur \in Nat
  PROVE  \E f : /\ f[0] = [on |-> TRUE, pp |-> cur, dn |-> << >>, jump |-> 0, loop |-> MaxJumps] /\ \A n \in 1 .. MaxTurns : f[n] = GetTurn(pkt, size, f[n - 1])
               /\ (\A n \in 0 .. MaxTurns : f[n] \in ReadsOn(pkt, size, cur))
               /\ GetDn(pkt, cur, size) = f[MaxTurns]
<1> DEFINE W == [n \in 0 .. MaxTurns |-> ReadsOn(pkt, size, cur)]
           Turned(t, n) == GetTurn(pkt, size, t)
           D == [vn \in ReadsOn(pkt, size, cur) \X (1 .. MaxTurns) |-> Turned(vn[1], vn[2])]
           Is(f) == f = [n \in 0 .. MaxTurns |-> IF n = 0 THEN [on |-> TRUE, pp |-> cur, dn |-> << >>, jump |-> 0, loop |-> MaxJumps] ELSE Turned(f[n - 1], n)]
           turns == CHOOSE f : Is(f)
<1>1. MaxTurns \in Nat
  BY DnAssumption, PacketNameAssumption DEF MaxTurns
<1>2. [on |-> TRUE, pp |-> cur, dn |-> << >>, jump |-> 0, loop |-> MaxJumps] \in ReadsOn(pkt, size, cur)
  BY ReadingStarts DEF ReadsOn, Underway
<1>3. ASSUME NEW n \in 1 .. MaxTurns, NEW t \in ReadsOn(pkt, size, cur) PROVE Turned(t, n) \in ReadsOn(pkt, size, cur)
  <2>1. t \in Reads /\ (Finished(pkt, size, cur, t) \/ \E m \in Nat : Underway(pkt, size, cur, t, m))
    BY <1>3 DEF ReadsOn
  <2>2. CASE Finished(pkt, size, cur, t)
    <3>1. GetTurn(pkt, size, t) = t
      BY <2>2, GetTurnStays DEF Finished
    <3> QED
      BY <1>3, <3>1
  <2>3. CASE \E m \in Nat : Underway(pkt, size, cur, t, m)
    <3>1. PICK m \in Nat : Underway(pkt, size, cur, t, m)
      BY <2>3
    <3>2. Underway(pkt, size, cur, GetTurn(pkt, size, t), m + 1) \/ Finished(pkt, size, cur, GetTurn(pkt, size, t))
      BY <3>1, TurnReads
    <3>3. GetTurn(pkt, size, t) \in Reads /\ m + 1 \in Nat
      BY <3>2 DEF Underway, Finished
    <3> QED
      BY <3>2, <3>3 DEF ReadsOn
  <2> QED
    BY <2>1, <2>2, <2>3
<1>9. GetDn(pkt, cur, size) = turns[MaxTurns]
  BY DEF GetDn
<1> HIDE DEF Turned
<1>4. Leads(MaxTurns, W, [on |-> TRUE, pp |-> cur, dn |-> << >>, jump |-> 0, loop |-> MaxJumps], D)
  BY <1>1, <1>2, <1>3 DEF Leads
<1> HIDE DEF W, D
<1>5. PICK f : IsLoop(f, MaxTurns, [on |-> TRUE, pp |-> cur, dn |-> << >>, jump |-> 0, loop |-> MaxJumps], D)
  BY <1>1, <1>4, LoopExists
<1>6. \A n \in 0 .. MaxTurns : f[n] \in W[n]
  BY <1>1, <1>4, <1>5, LoopStates
<1>7. Is(f)
  <2>1. \A n \in 1 .. MaxTurns : f[n - 1] \in ReadsOn(pkt, size, cur)
    BY <1>1, <1>6 DEF W
  <2>2. \A n \in 1 .. MaxTurns : D[<<f[n - 1], n>>] = Turned(f[n - 1], n)
    BY <2>1 DEF D
  <2>3. \A n \in 0 .. MaxTurns : (IF n = 0 THEN [on |-> TRUE, pp |-> cur, dn |-> << >>, jump |-> 0, loop |-> MaxJumps] ELSE D[<<f[n - 1], n>>])
                              = (IF n = 0 THEN [on |-> TRUE, pp |-> cur, dn |-> << >>, jump |-> 0, loop |-> MaxJumps] ELSE Turned(f[n - 1], n))
    BY <1>1, <2>2
  <2>4. f = [n \in 0 .. MaxTurns |-> IF n = 0 THEN [on |-> TRUE, pp |-> cur, dn |-> << >>, jump |-> 0, loop |-> MaxJumps] ELSE D[<<f[n - 1], n>>]]
    BY <1>5 DEF IsLoop
  <2> QED
    BY <2>3, <2>4, Zenon
<1>8. Is(turns)
  <2> HIDE DEF Is
  <2> QED
    BY <1>7
<1> HIDE DEF turns
<1>10. turns[0] = [on |-> TRUE, pp |-> cur, dn |-> << >>, jump |-> 0, loop |-> MaxJumps] /\ \A n \in 1 .. MaxTurns : turns[n] = Turned(turns[n - 1], n)
  <2> DEFINE N == MaxTurns
             c0 == [on |-> TRUE, pp |-> cur, dn |-> << >>, jump |-> 0, loop |-> MaxJumps]
  <2>1. N \in Nat /\ turns = [n \in 0 .. N |-> IF n = 0 THEN c0 ELSE Turned(turns[n - 1], n)]
    BY <1>1, <1>8
  <2> HIDE DEF N, c0
  <2>2. 0 \in 0 .. N
    BY <2>1
  <2>3. turns[0] = c0
    BY <2>1, <2>2, Zenon
  <2>4. ASSUME NEW n \in 1 .. N PROVE turns[n] = Turned(turns[n - 1], n)
    <3>1. n \in 0 .. N /\ n # 0
      BY <2>1
    <3> QED
      BY <2>1, <3>1, Zenon
  <2> QED
    BY <2>3, <2>4 DEF N, c0
<1>11. \A n \in 0 .. MaxTurns : turns[n] \in ReadsOn(pkt, size, cur)
  <2>1. turns[0] \in W[0]
    BY <1>1, <1>2, <1>10 DEF W
  <2>2. \A n \in 1 .. MaxTurns : turns[n - 1] \in W[n - 1] => turns[n] \in W[n]
    BY <1>1, <1>3, <1>10 DEF W
  <2>3. \A n \in 0 .. MaxTurns : turns[n] \in W[n]
    BY <1>1, <2>1, <2>2, LoopInvariant
  <2> QED
    BY <2>3 DEF W
<1>12. \A n \in 1 .. MaxTurns : turns[n] = GetTurn(pkt, size, turns[n - 1])
  BY <1>10 DEF Turned
<1> QED
  BY <1>9, <1>10, <1>11, <1>12

\* The turns are enough: whatever the packet is, dns_getdn() returns, and what is right.
LEMMA GetReturns ==
  ASSUME NEW pkt \in Seq(Octet), NEW size \in Nat \ {0}, NEW cur \in Nat
  PROVE  Finished(pkt, size, cur, GetDn(pkt, cur, size))
<1>1. PICK f : /\ f[0] = [on |-> TRUE, pp |-> cur, dn |-> << >>, jump |-> 0, loop |-> MaxJumps]
               /\ \A n \in 1 .. MaxTurns : f[n] = GetTurn(pkt, size, f[n - 1])
               /\ (\A n \in 0 .. MaxTurns : f[n] \in ReadsOn(pkt, size, cur))
               /\ GetDn(pkt, cur, size) = f[MaxTurns]
  BY GetLoop
<1>2. MaxDn \in Nat /\ MaxJumps \in Nat /\ MaxTurns \in Nat /\ MaxTurns = MaxDn + MaxJumps + 1
  BY DnAssumption, PacketNameAssumption DEF MaxTurns
<1> DEFINE W == [n \in 0 .. MaxTurns |-> {t \in Reads : Finished(pkt, size, cur, t) \/ Underway(pkt, size, cur, t, n)}]
<1>3. f[0] \in W[0]
  <2>1. Underway(pkt, size, cur, f[0], 0)
    BY <1>1, ReadingStarts
  <2>2. f[0] \in Reads /\ 0 \in 0 .. MaxTurns
    BY <1>2, <2>1 DEF Underway
  <2> QED
    BY <2>1, <2>2
<1>4. ASSUME NEW n \in 1 .. MaxTurns, f[n - 1] \in W[n - 1] PROVE f[n] \in W[n]
  <2>1. n - 1 \in Nat /\ n - 1 \in 0 .. MaxTurns /\ n \in 0 .. MaxTurns /\ (n - 1) + 1 = n
    BY <1>2
  <2> DEFINE t == f[n - 1]
  <2>2. t \in Reads /\ (Finished(pkt, size, cur, t) \/ Underway(pkt, size, cur, t, n - 1))
    BY <1>4, <2>1
  <2>3. f[n] = GetTurn(pkt, size, t)
    BY <1>1
  <2> HIDE DEF t
  <2>4. CASE Finished(pkt, size, cur, t)
    <3>1. f[n] = t
      BY <2>3, <2>4, GetTurnStays DEF Finished
    <3> QED
      BY <2>1, <2>2, <2>4, <3>1
  <2>5. CASE Underway(pkt, size, cur, t, n - 1)
    <3>1. Underway(pkt, size, cur, f[n], n) \/ Finished(pkt, size, cur, f[n])
      <4>1. Underway(pkt, size, cur, GetTurn(pkt, size, t), (n - 1) + 1) \/ Finished(pkt, size, cur, GetTurn(pkt, size, t))
        BY <2>1, <2>5, TurnReads
      <4> QED
        BY <2>1, <2>3, <4>1
    <3>2. f[n] \in Reads
      BY <3>1 DEF Underway, Finished
    <3> QED
      BY <2>1, <3>1, <3>2
  <2> QED
    BY <2>2, <2>4, <2>5
<1>5. \A n \in 0 .. MaxTurns : f[n] \in W[n]
  <2> HIDE DEF W
  <2> QED
    BY <1>2, <1>3, <1>4, LoopInvariant
<1>6. Finished(pkt, size, cur, f[MaxTurns]) \/ Underway(pkt, size, cur, f[MaxTurns], MaxTurns)
  <2>1. MaxTurns \in 0 .. MaxTurns
    BY <1>2
  <2> QED
    BY <1>5, <2>1
<1>7. ~Underway(pkt, size, cur, f[MaxTurns], MaxTurns)
  <2> SUFFICES ASSUME Underway(pkt, size, cur, f[MaxTurns], MaxTurns) PROVE FALSE
    OBVIOUS
  <2>1. Counted(size, f[MaxTurns], MaxTurns)
    BY DEF Underway
  <2>2. MaxTurns <= MaxDn + MaxJumps
    BY <1>2, <2>1, CountedIs
  <2> QED
    BY <1>2, <2>2
<1> QED
  BY <1>1, <1>6, <1>7

\* The whole of ReadIfItEnds, from what the two loops return.
LEMMA NamesAreRead ==
  ASSUME NEW pkt \in Seq(Octet), NEW size \in Nat \ {0}, NEW cur \in Nat
  PROVE  ReadIfItEnds(pkt, cur, size)
<1> DEFINE name == NameAt(pkt, cur)
           got == GetDn(pkt, cur, size)
           skip == SkipDn(pkt, cur)
<1>1. Finished(pkt, size, cur, got)
  BY GetReturns
<1>2. ~skip.on
  BY SkipReturns
<1>3. /\ ~got.on
      /\ ~Refused(got.dn) <=> HasEnd(name) /\ Len(name.bytes) - 1 <= Lesser(size, MaxDn) /\ name.jumps <= MaxJumps
      /\ ~Refused(got.dn) =>
           /\ got.dn = name.bytes /\ got.pp \in cur + 1 .. Len(pkt)
           /\ skip.cur = got.pp \/ (skip.cur = NoPosition /\ got.pp = Len(pkt))
  BY <1>1 DEF Finished, HasRoom, Room, SkippedTo
<1>4. name \in NameSet
  BY NameAtIs, EndlessIs
<1> HIDE DEF name, got, skip
<1>5. HasEnd(name) /\ Len(name.bytes) <= Lesser(size, MaxDn) => Len(name.bytes) - 1 <= Lesser(size, MaxDn)
  <2> SUFFICES ASSUME HasEnd(name) PROVE Len(name.bytes) <= Lesser(size, MaxDn) => Len(name.bytes) - 1 <= Lesser(size, MaxDn)
    OBVIOUS
  <2> DEFINE l == Len(name.bytes)
             room == Lesser(size, MaxDn)
  <2>1. l \in Nat
    BY <1>4, NameIs, LenProperties
  <2>2. room \in Nat
    BY DnAssumption DEF Lesser
  <2> HIDE DEF l, room
  <2>3. l <= room => l - 1 <= room
    BY <2>1, <2>2
  <2> QED
    BY <2>3 DEF l, room
<1>6. \A a \in {name}, b \in {got}, c \in {skip} :
        /\ ~b.on /\ ~c.on
        /\ HasEnd(a) /\ Len(a.bytes) <= Lesser(size, MaxDn) /\ a.jumps <= MaxJumps => ~Refused(b.dn)
        /\ ~Refused(b.dn) =>
             /\ HasEnd(a) /\ a.jumps <= MaxJumps /\ Len(a.bytes) - 1 <= Lesser(size, MaxDn)
             /\ b.dn = a.bytes /\ b.pp \in cur + 1 .. Len(pkt)
             /\ c.cur = b.pp \/ (c.cur = NoPosition /\ b.pp = Len(pkt))
  BY <1>2, <1>3, <1>5, Zenon
<1> QED
  BY <1>6, Zenon DEF ReadIfItEnds, name, got, skip

\* udns_parse.c: in packets of any length and of any bytes, at every position and for every size of
\* the buffer, dns_getdn() and dns_skipdn() return, a name that ends, that the buffer holds and that
\* has no more jumps than are allowed is read, what is read is the name that is there, and both come
\* to the same place, unless a jump is the last thing in the packet, which dns_skipdn() refuses.
THEOREM PacketNamesSound == PacketSpec => []PacketNamesRight
<1> DEFINE Pkt == packet \in Seq(Octet)
<1>1. PacketInit => Pkt
  <2> SUFFICES ASSUME PacketInit PROVE Pkt
    OBVIOUS
  <2>1. HSize \in Nat /\ 0 \in Octet
    BY PacketNameAssumption DEF Octet
  <2>2. packet \in [1 .. HSize -> Octet]
    BY <2>1 DEF PacketInit
  <2> QED
    BY <2>1, <2>2, SeqDef
<1>2. Pkt /\ [PacketNext]_packet => Pkt'
  <2> SUFFICES ASSUME Pkt, [PacketNext]_packet PROVE Pkt'
    OBVIOUS
  <2>1. CASE UNCHANGED packet
    BY <2>1
  <2>2. CASE PacketNext
    <3>1. PICK c \in PktBytes : packet' = Append(packet, c)
      BY <2>2 DEF PacketNext
    <3>2. c \in Octet
      BY PacketNameAssumption DEF Octet
    <3> QED
      BY <3>1, <3>2, AppendProperties
  <2> QED
    BY <2>1, <2>2
<1>3. Pkt => PacketNamesRight
  <2> SUFFICES ASSUME Pkt PROVE PacketNamesRight
    OBVIOUS
  <2> SUFFICES ASSUME NEW cur \in HSize .. Len(packet), NEW size \in 1 .. MaxDn + 1
               PROVE  ReadIfItEnds(packet, cur, size)
    BY Zenon DEF PacketNamesRight
  <2>1. cur \in Nat /\ size \in Nat \ {0}
    BY LenProperties, PacketNameAssumption, DnAssumption
  <2> QED
    BY <2>1, NamesAreRead
<1> QED
  BY <1>1, <1>2, <1>3, PTL DEF PacketSpec
=============================================================================

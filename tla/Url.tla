-------------------------------- MODULE Url --------------------------------
(***************************************************************************)
(* htclient/url_parser.c: a URL taken apart from its start to its end,     *)
(* each part up to the next delimiter.                                     *)
(***************************************************************************)
EXTENDS Bytes

CONSTANT UrlChars     \* the characters of URLs

ASSUME UrlAssumption == UrlChars \subseteq Nat

VARIABLE urlstr       \* what parse_url() is given

Slash == 47
At == 64
Open == 91      \* [
Close == 93     \* ]
Question == 63
Hash_ == 35     \* #

Absent == <<-1>>     \* NULL
NoUrl == [host |-> Absent]

SchemeChar(c) == c \in 97 .. 122 \cup 65 .. 90 \cup {43, 45, Dot}

Starts(s, c) == s # << >> /\ s[1] = c

\* What is left of s behind a part that delimiter leads in.
Behind(s, part) == IF part = Absent THEN s ELSE After(Tail(s), part)

\* The part that delimiter leads in, up to one of stops.
Part(s, delimiter, stops) == IF Starts(s, delimiter) THEN Until(Tail(s), stops) ELSE Absent

\* A bracket ends behind it, whatever is in it.
HostOf(s) ==
  IF ~Starts(s, Open) THEN Until(s, {Colon, Slash})
  ELSE LET inside == Until(s, {Close}) IN IF inside = s THEN s ELSE Append(inside, Close)

\* Mutant of HasUserinfo: one behind it is found too.
HasUserinfoAnywhere(authority) == Starts(After(authority, Until(authority, {At})), At)

\* Is there an "@" before the path?
HasUserinfo(authority) == Starts(After(authority, Until(authority, {At, Slash})), At)

\* User name and password, if there are any; ended says whether the "@" was come to.
UserOn(s) ==
  LET username == Until(s, {Colon, At})
      s1 == After(s, username)
      password == Part(s1, Colon, {At})
      s2 == Behind(s1, password) IN
    IF HasUserinfo(s)
    THEN [username |-> username, password |-> password, ended |-> Starts(s2, At), rest |-> After(s2, <<At>>)]
    ELSE [username |-> Absent, password |-> Absent, ended |-> TRUE, rest |-> s]

HostOn(s) ==
  LET host == HostOf(s)
      s1 == After(s, host)
      port == Part(s1, Colon, {Slash}) IN
    [host |-> host, port |-> port, rest |-> Behind(s1, port)]

\* What is behind host and port: a path with what may follow it, or nothing.
PathOn(s) ==
  LET path == IF s = << >> THEN Absent ELSE Until(Tail(s), {Hash_, Question})
      s1 == Behind(s, path)
      query == Part(s1, Question, {Hash_})
      s2 == Behind(s1, query) IN
    [path |-> path, query |-> query, fragment |-> IF Starts(s2, Hash_) THEN Tail(s2) ELSE Absent]

ParseUrl(url) ==
  LET scheme == Until(url, {Colon})
      rest == After(url, scheme)
      user == UserOn(SubSeq(rest, 4, Len(rest)))
      net == HostOn(user.rest)
      tail == PathOn(net.rest) IN
    IF \/ rest = << >>
       \/ \E i \in DOMAIN scheme : ~SchemeChar(scheme[i])
       \/ SubSeq(rest, 2, Len(rest)) = << >> \/ Len(rest) < 3 \/ rest[2] # Slash \/ rest[3] # Slash
       \/ ~user.ended
       \/ net.host = << >>
       \/ net.rest # << >> /\ net.rest[1] # Slash
    THEN NoUrl
    ELSE [scheme |-> [i \in DOMAIN scheme |-> LowerCase(scheme[i])],
          username |-> user.username, password |-> user.password, host |-> net.host, port |-> net.port,
          path |-> tail.path, query |-> tail.query, fragment |-> tail.fragment]

-----------------------------------------------------------------------------
(* The strings parse_url() is given.                                       *)

UrlInit == urlstr = << >>
UrlNext == \E c \in UrlChars : urlstr' = Append(urlstr, c)
UrlSpec == UrlInit /\ [][UrlNext]_urlstr

-----------------------------------------------------------------------------
Lead(delimiter, part) == IF part = Absent THEN << >> ELSE <<delimiter>> \o part
PutTogether(u) ==
  u.scheme \o <<Colon, Slash, Slash>>
  \o (IF u.username = Absent THEN << >> ELSE u.username \o Lead(Colon, u.password) \o <<At>>)
  \o u.host \o Lead(Colon, u.port) \o Lead(Slash, u.path) \o Lead(Question, u.query) \o Lead(Hash_, u.fragment)

Free(part, stops) == part = Absent \/ Until(part, stops) = part

\* The parts make up the URL again and none holds the delimiter that ends it.
TakenApart(url) ==
  \A u \in {ParseUrl(url)} :
    u # NoUrl =>
      /\ PutTogether(u) = [i \in DOMAIN url |-> IF i <= Len(u.scheme) THEN LowerCase(url[i]) ELSE url[i]]
      /\ Free(u.username, {Colon, At, Slash}) /\ Free(u.password, {At, Slash})
      /\ Starts(u.host, Open) \/ Free(u.host, {Colon, Slash})
      /\ Free(u.port, {Slash}) /\ Free(u.path, {Question, Hash_}) /\ Free(u.query, {Hash_})

\* url_parser.c: the parts of a URL make it up again.
UrlParts == TakenApart(urlstr) /\ TakenApart(<<65, Colon, Slash, Slash>> \o urlstr)
=============================================================================

-------------------------------- MODULE Url --------------------------------
(***************************************************************************)
(* Url::parse, UrlBuilder::build and Url::toString (src/net/url.cpp,       *)
(* src/net/url_builder.cpp, include/isml/net/url.hpp).                     *)
(*                                                                         *)
(* A string is a sequence of one-character strings. parse matches the     *)
(* RFC 3986 expression s_regex, splits group 4 at its first ':' into the  *)
(* hostname and a port read by std::stoi (a 32-bit int, stored into an   *)
(* unsigned), and collects key=value pairs from group 7 by repeated       *)
(* regex_search of s_param_regex. build() refuses an empty protocol or    *)
(* hostname. toString prints "protocol://hostname[:port][/path]", the     *)
(* query, and the parameters joined by '&'.                               *)
(***************************************************************************)
EXTENDS Integers, SequencesExt

CONSTANT Inputs   \* the strings given to Url::parse

DigitChars == <<"0", "1", "2", "3", "4", "5", "6", "7", "8", "9">>
Letters == {"a", "b"}
\* [a-zA-Z0-9] of s_param_regex
Alnum == ToSet(DigitChars) \cup Letters

IsDigit(c) == c \in ToSet(DigitChars)
DigitOf(c) == CHOOSE i \in 0..9 : DigitChars[i + 1] = c

\* s without its first k characters.
Drop(s, k) == SubSeq(s, k + 1, Len(s))

\* The index of the first character of s from position 'from' on that is
\* in cs; Len(s) + 1 when there is none.
FirstOf(s, from, cs) ==
    LET i == SelectInSubSeq(s, from, Len(s), LAMBDA c : c \in cs)
    IN IF i = 0 THEN Len(s) + 1 ELSE i

\* The groups of s_regex that parse reads: 2 (protocol), 4 (host and port),
\* 5 (path) and 7 (query). Every string matches; an optional group that
\* does not participate reads as "".
UrlGroups(s) ==
    LET i      == FirstOf(s, 1, {":", "/", "?", "#"})
        scheme == i > 1 /\ i <= Len(s) /\ s[i] = ":"
        r1     == IF scheme THEN Drop(s, i) ELSE s
        auth   == Len(r1) >= 2 /\ r1[1] = "/" /\ r1[2] = "/"
        j      == FirstOf(r1, 3, {"/", "?", "#"})
        r2     == IF auth THEN Drop(r1, j - 1) ELSE r1
        k      == FirstOf(r2, 1, {"?", "#"})
        r3     == Drop(r2, k - 1)
        query  == Len(r3) >= 1 /\ r3[1] = "?"
    IN [protocol |-> IF scheme THEN SubSeq(s, 1, i - 1) ELSE <<>>,
        hostport |-> IF auth THEN SubSeq(r1, 3, j - 1) ELSE <<>>,
        path     |-> SubSeq(r2, 1, k - 1),
        query    |-> IF query THEN SubSeq(r3, 2, FirstOf(r3, 2, {"#"}) - 1) ELSE <<>>]

\* A digit string without its leading zeros.
StripZeros(d) ==
    LET n == SelectInSeq(d, LAMBDA c : c # "0")
    IN IF n = 0 THEN <<>> ELSE Drop(d, n - 1)

Value(d) == FoldLeft(LAMBDA acc, c : 10 * acc + DigitOf(c), 0, d)

\* Equal-length digit strings compared as numbers.
DigitsLeq(a, b) ==
    a = b \/ LET k == SelectInSeq([i \in 1..Len(a) |-> a[i] # b[i]], LAMBDA x : x)
             IN DigitOf(a[k]) < DigitOf(b[k])

\* The magnitudes of INT_MAX and INT_MIN.
IntMaxDigits == <<"2", "1", "4", "7", "4", "8", "3", "6", "4", "7">>
IntMinDigits == <<"2", "1", "4", "7", "4", "8", "3", "6", "4", "8">>

\* std::stoi: an optional sign, then the longest run of digits; no digit
\* throws invalid_argument, a value outside int throws out_of_range.
Stoi(str) ==
    LET signed == Len(str) >= 1 /\ str[1] \in {"+", "-"}
        neg    == signed /\ str[1] = "-"
        body   == IF signed THEN Drop(str, 1) ELSE str
        n      == SelectInSeq(body, LAMBDA c : ~IsDigit(c))
        digits == IF n = 0 THEN body ELSE SubSeq(body, 1, n - 1)
        mag    == StripZeros(digits)
        limit  == IF neg THEN IntMinDigits ELSE IntMaxDigits
    IN IF \/ digits = <<>>
          \/ Len(mag) > 10
          \/ Len(mag) = 10 /\ ~DigitsLeq(mag, limit)
       THEN [ok |-> FALSE]
       ELSE [ok |-> TRUE, val |-> IF neg THEN -Value(mag) ELSE Value(mag)]

\* The end of the run of [a-zA-Z0-9] that starts at k.
RunEnd(str, k) == FirstOf(str, k, {c \in Range(str) : c \notin Alnum})

\* The leftmost match of s_param_regex, ([a-zA-Z0-9]+=[a-zA-Z0-9]+)+ : the
\* greedy runs leave no room for a second repetition.
ParamMatch(str) ==
    LET Fits(k) == LET a == RunEnd(str, k)
                   IN a > k /\ a < Len(str) /\ str[a] = "=" /\ str[a + 1] \in Alnum
        Ks == {k \in 1..Len(str) : Fits(k)}
    IN IF Ks = {} THEN [found |-> FALSE]
       ELSE LET k == Min(Ks)
                a == RunEnd(str, k)
                b == RunEnd(str, a + 1)
            IN [found |-> TRUE, key |-> SubSeq(str, k, a - 1),
                val |-> SubSeq(str, a + 1, b - 1), suffix |-> Drop(str, b - 1)]

\* The while (regex_search) loop: each match is split at its '=' and
\* given to addParameter, which overwrites an earlier value of the key.
RECURSIVE ParamLoop(_, _)
ParamLoop(str, params) ==
    LET m == ParamMatch(str)
    IN IF ~m.found THEN params
       ELSE ParamLoop(m.suffix, (m.key :> m.val) @@ params)

Malformed == [ok |-> FALSE]

\* UrlBuilder: the setters fill the Url's members, and build() throws when
\* the protocol or the hostname is empty.
Build(protocol, hostname, port, path, params) ==
    IF protocol = <<>> \/ hostname = <<>> THEN Malformed
    ELSE [ok |-> TRUE,
          url |-> [protocol |-> protocol, hostname |-> hostname, port |-> port,
                   path |-> path, query |-> <<>>, params |-> params]]

\* Url::parse. A port that stoi refuses throws before build().
Parse(s) ==
    LET g    == UrlGroups(s)
        sep  == SelectInSeq(g.hostport, LAMBDA c : c = ":")
        host == IF sep = 0 THEN g.hostport ELSE SubSeq(g.hostport, 1, sep - 1)
        port == IF sep = 0 THEN [ok |-> TRUE, val |-> 0] ELSE Stoi(Drop(g.hostport, sep))
    IN IF ~port.ok THEN Malformed
       ELSE Build(g.protocol, host, port.val, g.path, ParamLoop(g.query, <<>>))

RECURSIVE Decimal(_)
Decimal(v) ==
    IF v < 10 THEN <<DigitChars[v + 1]>>
    ELSE Decimal(v \div 10) \o <<DigitChars[(v % 10) + 1]>>

\* 2^32, the modulus of the int to unsigned conversion in setPort.
TwoTo32Digits == <<"4", "2", "9", "4", "9", "6", "7", "2", "9", "6">>

\* a - b for digit strings with b <= a.
SubDigits(a, b) ==
    LET off == Len(a) - Len(b)
        bd(i) == IF i <= off THEN 0 ELSE DigitOf(b[i - off])
        RECURSIVE Go(_, _)
        Go(i, borrow) ==
            IF i = 0 THEN <<>>
            ELSE LET d == DigitOf(a[i]) - bd(i) - borrow
                 IN Go(i - 1, IF d < 0 THEN 1 ELSE 0) \o <<DigitChars[((d + 10) % 10) + 1]>>
    IN StripZeros(Go(Len(a), 0))

\* fmt::format("{}", m_port): m_port is unsigned, so the int -n that
\* stoi returned is printed as 2^32 - n.
PortDigits(v) == IF v >= 0 THEN Decimal(v) ELSE SubDigits(TwoTo32Digits, Decimal(-v))

\* The parameters in the unordered_map's iteration order, which is
\* unspecified; every order parses back to the same map.
ParamText(p) ==
    FoldLeft(LAMBDA acc, k : acc \o (IF acc = <<>> THEN <<>> ELSE <<"&">>)
                                 \o k \o <<"=">> \o p[k],
             <<>>, SetToSeq(DOMAIN p))

\* Url::toString
UrlToString(u) ==
    u.protocol \o <<":", "/", "/">> \o u.hostname
    \o (IF u.port # 0 THEN <<":">> \o PortDigits(u.port) ELSE <<>>)
    \o (IF u.path = <<>> THEN <<>>
        ELSE IF u.path[1] = "/" THEN u.path ELSE <<"/">> \o u.path)
    \o (IF u.query = <<>> THEN <<>> ELSE <<"/">> \o u.query)
    \o (IF DOMAIN u.params = {} THEN <<>> ELSE <<"?">> \o ParamText(u.params))

VARIABLE input   \* the string given to parse

Init == input \in Inputs
Next == UNCHANGED input
Spec == Init /\ [][Next]_input

-----------------------------------------------------------------------------
(***************************************************************************)
(* Model inputs: strings built from the parts of the URL surface          *)
(* protocol://host[:port][/path][?k=v&...][#fragment], each part taken    *)
(* from a small set with its edge cases: no protocol, no host, an empty,  *)
(* zero, signed or trailing-garbage port, a path without the '/', and     *)
(* queries with a bare key, a repeated key and a non-alphanumeric tail.   *)
(* The configuration gives Inputs this definition.                        *)
(***************************************************************************)
MCProtocols == {<<>>, <<"a", ":">>}
MCHosts == {<<>>, <<"b">>}
MCPorts == {<<>>, <<":">>, <<":", "0">>, <<":", "1">>, <<":", "-", "1">>,
            <<":", "+", "1">>, <<":", "1", "a">>, <<":", "a">>}
MCPaths == {<<>>, <<"/">>, <<"/", "a">>, <<"a">>}
MCQueries == {<<>>, <<"?", "a", "=", "1">>, <<"?", "a", "=", "1", "&", "b", "=", "0">>,
              <<"?", "a", "=", "1", "&", "a", "=", "0">>, <<"?", "a">>,
              <<"?", "a", "=", "1", "-">>}
MCFragments == {<<>>, <<"#", "a">>}

MCInputs ==
    {p \o <<"/", "/">> \o h \o n \o q \o r \o f :
        p \in MCProtocols, h \in MCHosts, n \in MCPorts, q \in MCPaths,
        r \in MCQueries, f \in MCFragments}
    \cup {p \o q \o r : p \in MCProtocols, q \in MCPaths, r \in MCQueries}

-----------------------------------------------------------------------------
\* What the URL tests and the documented parse scenario assert: the string
\* toString prints for a parsed URL parses back to the same protocol,
\* hostname, port, path and parameters.
ParsePrintRoundTrip ==
    LET r == Parse(input) IN r.ok => Parse(UrlToString(r.url)) = r
=============================================================================

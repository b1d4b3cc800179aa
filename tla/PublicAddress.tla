---------------------------- MODULE PublicAddress ----------------------------
(***************************************************************************)
(* The addresses the agent reports as its own (monitor/ip/linux.rs):       *)
(* those of the interfaces, those of the configuration, or those that      *)
(* public services see, asked over one family each and read out of pages   *)
(* that may be cut anywhere.                                               *)
(***************************************************************************)
EXTENDS Integers, Sequences, SequencesExt, FiniteSets, FiniteSetsExt

CONSTANTS
    Pages,          \* the bodies the services may send: sequences of characters
    NicKinds,       \* the entries getifaddrs may list: [name, up, loopback, addr]
    MaxNics,        \* bound: entries of getifaddrs
    NicLists,       \* the values of --include-nics and of --exclude-nics
    Plain4,         \* how many of the IPv4 services are asked by http ...
    Trace4,         \* ... and how many by https, for a trace page
    Services6,      \* how many IPv6 services are asked
    PageLimit,      \* 64 KiB: reading stops beyond it
    CounterLimit    \* 2^8: the counters of extract_ipv6 wrap

ASSUME AddressAssumption ==
    /\ {MaxNics, Plain4, Trace4, Services6, PageLimit, CounterLimit} \subseteq Nat
    /\ \A nic \in NicKinds : nic.addr \in {"none", "v4", "v6", "link"}

VARIABLES
    wanted,     \* [fromNic, include, exclude, v4, v6, tls]: the configuration
    nics,       \* the interfaces not looked at yet
    lookedAt,   \* the interfaces looked at
    asking,     \* "nics", "config", "v4", "v6", "trace" or "done"
    serviceNo,  \* the service being asked, counted from 1
    page,       \* the page it answered with, NoPage before and without one
    v4, v6      \* the addresses found, NoAddress before

paVars == <<wanted, nics, lookedAt, asking, serviceNo, page, v4, v6>>

NoAddress == <<>>
NoPage == <<"no page">>
Configured == <<"configured">>

\* The interfaces' addresses are known by the entry's name.
OfNic(nic) == <<nic.name, nic.addr>>

PaInit ==
    /\ wanted \in [fromNic : BOOLEAN, include : NicLists, exclude : NicLists,
                   v4 : {NoAddress, Configured}, v6 : {NoAddress, Configured}, tls : BOOLEAN]
    /\ nics \in UNION {[1 .. n -> NicKinds] : n \in 0 .. MaxNics}
    /\ ~wanted.fromNic => nics = <<>> /\ wanted.include = {} /\ wanted.exclude = {}
    /\ lookedAt = <<>> /\ serviceNo = 1 /\ page = NoPage
    /\ asking = IF wanted.fromNic THEN "nics" ELSE "config"
    /\ v4 = NoAddress /\ v6 = NoAddress

-----------------------------------------------------------------------------
(***************************************************************************)
(* ip_from_nic: the first address of each family on an interface that is   *)
(* listed, up and no loopback; a link-local one does not count.            *)
(***************************************************************************)
Usable(nic) ==
    /\ wanted.include = {} \/ nic.name \in wanted.include
    /\ nic.name \notin wanted.exclude
    /\ nic.up /\ ~nic.loopback

NicEntry ==
    /\ asking = "nics" /\ nics # <<>> /\ NoAddress \in {v4, v6}
    /\ LET nic == Head(nics) IN
       /\ v4' = IF v4 = NoAddress /\ Usable(nic) /\ nic.addr = "v4" THEN OfNic(nic) ELSE v4
       /\ v6' = IF v6 = NoAddress /\ Usable(nic) /\ nic.addr = "v6" THEN OfNic(nic) ELSE v6
    /\ lookedAt' = Append(lookedAt, Head(nics))
    /\ nics' = Tail(nics)
    /\ UNCHANGED <<wanted, asking, serviceNo, page>>

\* With one address from an interface nothing else is asked.
NicsDone ==
    /\ asking = "nics"
    /\ nics = <<>> \/ NoAddress \notin {v4, v6}
    /\ asking' = IF v4 = NoAddress /\ v6 = NoAddress THEN "config" ELSE "done"
    /\ UNCHANGED <<wanted, nics, lookedAt, serviceNo, page, v4, v6>>

FirstAsked(a4, a6) ==
    IF a4 = NoAddress THEN "v4" ELSE IF a6 = NoAddress THEN "v6" ELSE "done"

FromConfig ==
    /\ asking = "config"
    /\ v4' = wanted.v4 /\ v6' = wanted.v6
    /\ asking' = FirstAsked(wanted.v4, wanted.v6)
    /\ UNCHANGED <<wanted, nics, lookedAt, serviceNo, page>>

-----------------------------------------------------------------------------
(***************************************************************************)
(* http_get: no page if the host has no address of the family the socket   *)
(* is bound to, if it cannot be reached, if TLS is needed and was not set  *)
(* up, or if the head does not end.  An error while reading and the limit  *)
(* end the page as its end does.                                           *)
(***************************************************************************)
Services == [v4 |-> Plain4 + Trace4, v6 |-> Services6, trace |-> 1]
IsTrace == asking = "trace" \/ (asking = "v4" /\ serviceNo > Plain4)

\* The family the connection is bound to: a trace page is asked over IPv4.
Family == IF asking = "v6" THEN "v6" ELSE "v4"

\* The host must have an address of it; the socket may still not connect.
Connectable(families) == Family \in families

PagesFrom(families) ==
    {NoPage} \cup
        IF Connectable(families) /\ (IsTrace => wanted.tls)
        THEN UNION {{SubSeq(body, 1, n) : n \in 0 .. Min({Len(body), PageLimit})} : body \in Pages}
        ELSE {}

HttpGet ==
    /\ asking \in DOMAIN Services /\ serviceNo <= Services[asking]
    /\ page = NoPage
    /\ \E families \in SUBSET {"v4", "v6"} : page' \in PagesFrom(families)
    /\ IF page' = NoPage THEN serviceNo' = serviceNo + 1 ELSE UNCHANGED serviceNo
    /\ UNCHANGED <<wanted, nics, lookedAt, asking, v4, v6>>

-----------------------------------------------------------------------------
Digits == {"0", "1", "2", "5", "6", "9"}
HexDigits == Digits \cup {"a", "f"}
DigitValue == [c \in Digits |-> CHOOSE n \in 0 .. 9 : ToString(n) = c]

\* Mutant: an octet is not compared with 255.
AnyNumber(s) == s # <<>>

\* Up to four digits; more are no u16 below 256 either.
Octet(s) ==
    /\ s # <<>>
    /\ FoldLeft(LAMBDA n, c : Min({1000, 10 * n + DigitValue[c]}), 0, s) <= 255

\* Where the dots of s stand.
DotsIn(s) == {i \in DOMAIN s : s[i] = "."}

RECURSIVE SplitAt(_)
SplitAt(s) ==
    IF DotsIn(s) = {} THEN <<s>>
    ELSE LET d == Min(DotsIn(s)) IN <<SubSeq(s, 1, d - 1)>> \o SplitAt(SubSeq(s, d + 1, Len(s)))

IsIpv4(s) ==
    /\ Cardinality(DotsIn(s)) = 3
    /\ \A i \in DOMAIN SplitAt(s) : Octet(SplitAt(s)[i])

\* extract_ipv4: a run of digits and dots is given up at its fourth dot, and
\* the scan goes on from there.
RECURSIVE ExtractIpv4(_, _)
ExtractIpv4(s, i) ==
    LET Stops(j) == \/ s[j] \notin Digits \cup {"."}
                    \/ s[j] = "." /\ Cardinality(DotsIn(SubSeq(s, i, j))) = 4
        stop == Min({j \in i .. Len(s) : Stops(j)} \cup {Len(s) + 1})
        run == SubSeq(s, i, stop - 1)
    IN  CASE i > Len(s) -> NoAddress
          [] i <= Len(s) /\ s[i] \notin Digits -> ExtractIpv4(s, i + 1)
          [] OTHER -> IF IsIpv4(run) /\ ~(stop <= Len(s) /\ s[stop] = ".") THEN run
                      ELSE ExtractIpv4(s, stop)

\* A run of hexadecimal groups and colons from i, up to a second "::".
CharAt(s, i) == IF i <= Len(s) THEN s[i] ELSE "end"

RECURSIVE ColonRun(_, _)
ColonRun(s, r) ==
    LET c == CharAt(s, r.at)
        group == Max({n \in 1 .. 4 : \A k \in 0 .. n - 1 : CharAt(s, r.at + k) \in HexDigits})
        pair == c = ":" /\ CharAt(s, r.at + 1) = ":"
    IN  CASE c = ":" /\ pair /\ r.double -> [r EXCEPT !.ok = FALSE]
          [] c = ":" /\ ~(pair /\ r.double) ->
                ColonRun(s, [r EXCEPT !.at = @ + (IF pair THEN 2 ELSE 1),
                                      !.double = @ \/ pair,
                                      !.colons = (@ + 1) % CounterLimit])
          [] c \in HexDigits ->
                ColonRun(s, [r EXCEPT !.at = @ + group, !.groups = (@ + 1) % CounterLimit])
          [] OTHER -> r

RECURSIVE ExtractIpv6(_, _)
ExtractIpv6(s, i) ==
    LET run == ColonRun(s, [at |-> i, double |-> FALSE, colons |-> 0, groups |-> 0, ok |-> TRUE])
    IN  CASE i > Len(s) -> NoAddress
          [] i <= Len(s) /\ s[i] \notin HexDigits \cup {":"} -> ExtractIpv6(s, i + 1)
          [] OTHER -> IF run.ok /\ run.colons >= 2 /\ run.groups \in 1 .. 8
                      THEN SubSeq(s, i, run.at - 1) ELSE ExtractIpv6(s, run.at)

\* The values of the lines "ip=...": a dot tells one family, a colon the other.
LineEnd(s, i) == Min({j \in i .. Len(s) : s[j] = "newline"} \cup {Len(s) + 1})
LineStarts(s) == {i \in 1 .. Len(s) : i = 1 \/ s[i - 1] = "newline"}
IpLines(s) == {i \in LineStarts(s) : i < Len(s) /\ s[i] = "ip" /\ s[i + 1] = "="}
LineValue(s, i) == SubSeq(s, i + 2, LineEnd(s, i) - 1)
Holds(s, ch) == ch \in {s[i] : i \in DOMAIN s}

Traced(s, ch) == {i \in IpLines(s) : Holds(LineValue(s, i), ch)}
FirstTraced(s) == IF Traced(s, ".") = {} THEN NoAddress ELSE LineValue(s, Min(Traced(s, ".")))

\* In the last resort the last line counts; one with a dot is no IPv6 address.
LastTraced(s, lines) == IF lines = {} THEN NoAddress ELSE LineValue(s, Max(lines))

\* What the page says of the family asked for.
Extracted ==
    CASE asking = "v4" -> IF IsTrace THEN FirstTraced(page) ELSE ExtractIpv4(page, 1)
      [] asking = "v6" -> ExtractIpv6(page, 1)

ReadPage ==
    /\ asking \in {"v4", "v6"} /\ page # NoPage
    /\ page' = NoPage
    /\ \/ /\ Extracted = NoAddress
          /\ serviceNo' = serviceNo + 1
          /\ UNCHANGED <<asking, v4, v6>>
       \/ /\ Extracted # NoAddress
          /\ serviceNo' = 1
          /\ v4' = IF asking = "v4" THEN Extracted ELSE v4
          /\ v6' = IF asking = "v6" THEN Extracted ELSE v6
          /\ asking' = IF asking = "v4" /\ v6 = NoAddress THEN "v6" ELSE "done"
    /\ UNCHANGED <<wanted, nics, lookedAt>>

ReadTrace ==
    /\ asking = "trace" /\ page # NoPage
    /\ v4' = LastTraced(page, Traced(page, "."))
    /\ v6' = LastTraced(page, Traced(page, ":") \ Traced(page, "."))
    /\ asking' = "done" /\ page' = NoPage
    /\ UNCHANGED <<wanted, nics, lookedAt, serviceNo>>

\* The services of a family are exhausted; the trace comes when both are.
Exhausted ==
    /\ asking \in DOMAIN Services /\ serviceNo > Services[asking] /\ page = NoPage
    /\ asking' = CASE asking = "v4" /\ v6 = NoAddress -> "v6"
                   [] asking = "v6" /\ v4 = NoAddress -> "trace"
                   [] OTHER -> "done"
    /\ serviceNo' = 1
    /\ UNCHANGED <<wanted, nics, lookedAt, page, v4, v6>>

PaNext ==
    \/ NicEntry \/ NicsDone \/ FromConfig
    \/ HttpGet \/ ReadPage \/ ReadTrace \/ Exhausted

PaSpec == PaInit /\ [][PaNext]_paVars

PaTypeOK ==
    /\ asking \in {"nics", "config", "v4", "v6", "trace", "done"}
    /\ serviceNo \in 1 .. Plain4 + Trace4 + Services6 + 1
    /\ page # NoPage => asking \in DOMAIN Services

-----------------------------------------------------------------------------
\* An address of an interface keeps every other source out, the one of the
\* configuration keeps the services out, and each field has its own family
\* (collect_ip, ip_from_nic).
SourcesRanked ==
    /\ asking = "done" =>
         LET Of(family) == {i \in DOMAIN lookedAt : Usable(lookedAt[i]) /\ lookedAt[i].addr = family}
             From(family) == IF Of(family) = {} THEN NoAddress ELSE OfNic(lookedAt[Min(Of(family))])
         IN  IF From("v4") # NoAddress \/ From("v6") # NoAddress
             THEN v4 = From("v4") /\ v6 = From("v6")
             ELSE wanted.v4 # NoAddress => v4 = wanted.v4
    /\ v4 # NoAddress /\ v6 # NoAddress => v4 # v6 \/ v4 = Configured

\* Written out, without arithmetic: an octet ends in at most three digits that
\* are not the zeros before them, and those are no more than 255.
OctetText(s) ==
    \E n \in 1 .. Min({3, Len(s)}) :
        LET tail == SubSeq(s, Len(s) - n + 1, Len(s))
        IN  /\ \A k \in 1 .. Len(s) - n : s[k] = "0"
            /\ \A k \in 1 .. n : tail[k] \in Digits
            /\ n = 3 => \/ tail[1] \in {"0", "1"}
                        \/ tail[1] = "2" /\ tail[2] \in {"0", "1", "2"}
                        \/ tail[1] = "2" /\ tail[2] = "5" /\ tail[3] \in {"0", "1", "2", "5"}

AddressText(a) ==
    \E c1, c2, c3 \in DotsIn(a) :
        /\ DotsIn(a) = {c1, c2, c3} /\ c1 < c2 /\ c2 < c3
        /\ OctetText(SubSeq(a, 1, c1 - 1)) /\ OctetText(SubSeq(a, c1 + 1, c2 - 1))
        /\ OctetText(SubSeq(a, c2 + 1, c3 - 1)) /\ OctetText(SubSeq(a, c3 + 1, Len(a)))

\* An address read from a page is one: it stands in the page between other
\* characters, so that no longer number was cut, and its four octets are below
\* 256; and a page that is an address is read (extract_ipv4).
AddressStandsAlone ==
    page # NoPage =>
        LET a == ExtractIpv4(page, 1)
            Alone(i, j) == /\ i = 1 \/ page[i - 1] \notin Digits
                           /\ CharAt(page, j + 1) \notin Digits \cup {"."}
        IN  /\ a # NoAddress =>
                 /\ \E i \in DOMAIN page :
                        LET j == i + Len(a) - 1
                        IN  j <= Len(page) /\ SubSeq(page, i, j) = a /\ Alone(i, j)
                 /\ AddressText(a)
            /\ AddressText(page) => a = page

AddressesFound == SourcesRanked /\ AddressStandsAlone

=============================================================================

---------------------------- MODULE MCConnections ----------------------------
(***************************************************************************)
(* What the machines of the network are run with: hosts and proxies, the   *)
(* answers of servers, releases.  The machine under way has its choices;   *)
(* every other one stays at one initial state.                             *)
(***************************************************************************)
EXTENDS Connections, Handshake, Http, TLC

ConnectionMachines == {"dialing", "tunnel", "handshake", "http", "downloads"}

\* Dialing: two families, the second with two addresses.
SomeAddresses ==
    <<[family |-> "6", n |-> 1], [family |-> "4", n |-> 1], [family |-> "4", n |-> 2]>>

\* Tunnel: hosts in and beside a domain, one spelled out in full, addresses.
SomeTargets ==
    {[name |-> n, ip |-> 0 - 1, full |-> FALSE] :
        n \in {<<"b">>, <<"a", ".", "b">>, <<"a", "b">>}}
      \cup {[name |-> <<"ip">>, ip |-> i, full |-> f] : i \in {1, 2}, f \in BOOLEAN}

Entry(kind, name, ip, prefix) == [kind |-> kind, name |-> name, ip |-> ip, prefix |-> prefix]
SomeEntries ==
    {Entry("*", <<>>, 0, 0), Entry("domain", <<"b">>, 0, 0), Entry("dotted", <<"b">>, 0, 0),
     Entry("ip", <<>>, 1, 0), Entry("cidr", <<>>, 3, 1), Entry("cidr", <<>>, 1, 3)}

-----------------------------------------------------------------------------
\* Handshake: endpoints that are refused, resolved or taken as they are.
SomeEndpoints ==
    {[scheme |-> s, url |-> TRUE, host |-> "name"] : s \in {"wss", "http"}}
      \cup {[scheme |-> "https", url |-> FALSE, host |-> "ip"],
            [scheme |-> "https", url |-> TRUE, host |-> "bad"]}

\* The paths "/", "/?i", "i", and two with a character no request line takes.
SomePaths == {<<47>>, <<47, 63, 105>>, <<105>>, <<47, 32>>, <<47, 35>>}
SomeTokens == {<<65, 38>>, <<255, 37>>}

LineOfHead(name, value) == <<Atom(name, value), CR, LF>>
Switching == LineOfHead("status", "101")
Blank == <<CR, LF>>
FirstFrame == <<Atom("frame", ""), CR, LF, CR, LF>>
Accepted(key) == LineOfHead("accept", key)
DeflatingLine == LineOfHead("extensions", "deflate")

\* Right, wrong and badly framed answers, and bytes that come behind the head.
SomeReplies ==
    {Switching \o Accepted("k1") \o Blank \o FirstFrame,
     Switching \o Accepted("k1") \o Accepted("k2") \o Blank,
     Switching \o DeflatingLine \o <<Atom("accept", "k1"), LF>> \o Blank,
     Switching \o Accepted("k1") \o <<LF>> \o DeflatingLine \o Blank \o FirstFrame,
     Switching \o Accepted("k1") \o DeflatingLine \o Blank \o FirstFrame,
     Switching \o Blank \o Accepted("k1") \o Blank,
     LineOfHead("status", "200") \o Accepted("k1") \o Blank,
     LineOfHead("raw", "101") \o Accepted("k1") \o Blank,
     Switching \o Accepted("k1") \o LineOfHead("other", "") \o LineOfHead("other", "")
       \o LineOfHead("other", "") \o Blank,
     Switching \o <<CR>>}

SomeMasks == {<<1, 2, 4, 255>>}
SomePayloads == {<<>>, <<5, 6>>, <<1, 2, 3, 4, 5, 6, 7>>}

-----------------------------------------------------------------------------
\* Downloads: releases with the assets at GitHub or elsewhere, or twice.
UrlAt(origin, path) == [origin |-> origin, path |-> path, query |-> "none"]
AssetAt(name, origin) == [name |-> name, url |-> UrlAt(origin, <<"d", name>>)]
BothAt(origin) == <<AssetAt("checksums.txt", origin), AssetAt("binary", origin)>>
Release(version, pre, assets) ==
    [version |-> version, prerelease |-> pre, draft |-> FALSE, assets |-> assets, wellFormed |-> TRUE]

SomeReleases ==
    {<<Release(<<"1", "0", "0">>, FALSE, BothAt("github"))>>,
     <<Release(<<"1", "1", "0">>, FALSE, BothAt("github")),
       Release(<<"1", "2", "0">>, FALSE, BothAt("github")),
       Release(<<"2", "0", "0">>, FALSE, BothAt("github"))>>,
     <<Release(<<"2", "0", "0">>, TRUE, BothAt("cdn")), Release(<<"1", "2", "0">>, FALSE, BothAt("cdn"))>>,
     <<Release(<<"1", "1", "0">>, FALSE, BothAt("github") \o BothAt("cdn")),
       Release(<<"1", "1", "0">>, FALSE, BothAt("cdn"))>>,
     <<Release(<<>>, FALSE, BothAt("cdn")), Release(<<"2", "0", "0">>, FALSE, BothAt("github"))>>,
     <<Release(<<"1", "01", "0">>, FALSE, BothAt("cdn"))>>}

Selector(parts, star) == [kind |-> "version", parts |-> parts, star |-> star]
SomeWants ==
    {[kind |-> k, parts |-> <<>>, star |-> FALSE] : k \in {"latest", "empty"}}
      \cup {Selector(<<"1">>, TRUE), Selector(<<"01", "1">>, FALSE), Selector(<<"1", "0", "0">>, FALSE),
            Selector(<<"1", "2", "0">>, FALSE), Selector(<<"1", "2", "0">>, TRUE), Selector(<<"x">>, FALSE)}

\* Responses: redirects of every form, and bodies framed well and badly.
HeaderLine(name, value) == [name |-> name, value |-> value]
PageOf(status, lines, chunks, arrived, last, content) ==
    [status |-> status, lines |-> lines, complete |-> TRUE, chunks |-> chunks,
     arrived |-> arrived, lastChunk |-> last, body |-> content]
ManifestLine(digest, file) == [digest |-> digest, file |-> file, extra |-> FALSE, byte |-> 0]
BinaryUnit(n) == [digest |-> <<>>, file |-> "", extra |-> FALSE, byte |-> n]
Manifest == <<ManifestLine(<<7>>, "other"), ManifestLine(<<1, 2>>, "binary")>>
Binary == <<BinaryUnit(1), BinaryUnit(2)>>
LocationOf(kind, origin, path, query) ==
    <<HeaderLine("location", [kind |-> kind, origin |-> origin, path |-> path, query |-> query])>>
RedirectTo(lines) == PageOf("redirect", lines, <<>>, 0, FALSE, <<>>)
LengthOf(n) == <<HeaderLine("length", n)>>
InChunks == <<HeaderLine("chunked", 0)>>

SomePages ==
    {RedirectTo(LocationOf("https", o, <<"x">>, "none")) : o \in {"github", "cdn", "invalid"}}
      \cup {RedirectTo(LocationOf("scheme", "", <<>>, "none")), RedirectTo(LocationOf("empty", "", <<>>, "none")),
            RedirectTo(LocationOf("query", "", <<>>, "q")), RedirectTo(<<>>),
            RedirectTo(LocationOf("rooted", "", <<"a", "..", "b", ".">>, "none")),
            RedirectTo(LocationOf("relative", "", <<"..", "..", "y">>, "none")),
            PageOf("ok", LengthOf(2), <<>>, 2, FALSE, Manifest),
            PageOf("ok", LengthOf(1), <<>>, 2, FALSE, Manifest),
            PageOf("ok", InChunks, <<2>>, 2, TRUE, Manifest \o Manifest),
            PageOf("ok", InChunks, <<2, 1>>, 3, TRUE, Manifest \o <<ManifestLine(<<1, 2>>, "binary")>>),
            PageOf("ok", <<>>, <<>>, 2, FALSE, Binary),
            PageOf("ok", <<>>, <<>>, 1, FALSE, Binary),
            PageOf("ok", InChunks, <<1, 1>>, 2, TRUE, Binary),
            PageOf("ok", InChunks, <<1, 1>>, 2, FALSE, Binary),
            PageOf("ok", InChunks \o LengthOf(2), <<1, 1>>, 2, TRUE, Binary),
            PageOf("ok", LengthOf(2), <<>>, 1, FALSE, Binary),
            PageOf("ok", <<>>, <<>>, 4, FALSE, Binary \o Binary),
            PageOf("ok", <<>>, <<>>, 0, FALSE, <<>>),
            PageOf("ok", <<HeaderLine("gzip", 0)>>, <<>>, 2, FALSE, Binary),
            PageOf("ok", <<HeaderLine("other", 0)>>, <<1, 1, 1>>, 2, FALSE, Binary),
            PageOf("other", <<>>, <<>>, 2, FALSE, Manifest)}

SomeLimits == [sums |-> 3, binary |-> 3]
SomeNumbers == ("0" :> 0) @@ ("1" :> 1) @@ ("2" :> 2) @@ ("01" :> 1)
SomeRunning == <<"1", "0", "0">>

-----------------------------------------------------------------------------
\* The choices of a machine that is not under way.
ConPinned(m) ==
    /\ m = "dialing" \/ (prefer = "4" /\ eyeballs = FALSE /\ zone = [h \in Hosts |-> Range(Addresses)])
    /\ m = "tunnel" \/ (/\ target = [name |-> <<"b">>, ip |-> 0 - 1, full |-> FALSE]
                        /\ noProxy = <<>> /\ proxy = [scheme |-> "none", auth |-> FALSE])
    /\ m = "http" \/ (/\ call = "whole" /\ body = <<>> /\ source = 0 /\ claimed = 0
                      /\ expected = NoLength)
    /\ m = "downloads" \/ (/\ dlWant = AtBoot
                           /\ dlList = <<Release(<<"1", "0", "0">>, FALSE, BothAt("github"))>>)

ConInit(m) ==
    /\ ConPinned(m)
    /\ DlInit /\ TuInit /\ HsInit /\ HtInit /\ DnInit

conVars == <<dlVars, tuVars, hsVars, htVars, dnVars>>

ConNext(m) ==
    \/ m = "dialing" /\ DlNext /\ UNCHANGED <<tuVars, hsVars, htVars, dnVars>>
    \/ m = "tunnel" /\ TuNext /\ UNCHANGED <<dlVars, hsVars, htVars, dnVars>>
    \/ m = "handshake" /\ HsNext /\ UNCHANGED <<dlVars, tuVars, htVars, dnVars>>
    \/ m = "http" /\ HtNext /\ UNCHANGED <<dlVars, tuVars, hsVars, dnVars>>
    \/ m = "downloads" /\ DnNext /\ UNCHANGED <<dlVars, tuVars, hsVars, htVars>>

ConTypeOK == DlTypeOK /\ TuTypeOK /\ HsTypeOK /\ HtTypeOK /\ DnTypeOK

=============================================================================

------------------------------- MODULE Tunnel -------------------------------
(***************************************************************************)
(* Reaching a host through a proxy (proxy.rs): whether the environment     *)
(* exempts the host, then the handshake of HTTP CONNECT or SOCKS5 over a   *)
(* connection that delivers the proxy's bytes, and after them the host's,  *)
(* in pieces of any size.                                                  *)
(***************************************************************************)
EXTENDS Integers, Sequences, SequencesExt, FiniteSets

CONSTANTS
    Targets,     \* hosts to reach: [name, ip, full], see below
    Entries,     \* entries of NO_PROXY: [kind, name, ip, prefix]
    MaxEntries,  \* bound: length of NO_PROXY
    MaxHead,     \* 8192, lines of a CONNECT response at most
    Bits         \* 32 or 128, the width of an address

ASSUME TunnelAssumption ==
    /\ {MaxEntries, MaxHead, Bits} \subseteq Nat
    /\ \A h \in Targets : h.name \in Seq(STRING) /\ h.ip \in Int /\ h.full \in BOOLEAN
    /\ \A e \in Entries : e.name \in Seq(STRING) /\ e.ip \in Nat /\ e.prefix \in Nat

VARIABLES
    target,    \* the host
    noProxy,   \* NO_PROXY, a sequence of entries
    proxy,     \* ProxySpec, [scheme, auth]
    tun,       \* where establish_tunnel is
    wants,     \* bytes the current read is still waiting for
    heard,     \* what the current read has got so far
    stream,    \* bytes on their way from the proxy
    requested, \* what the proxy has been sent, message by message
    replied,   \* external: how many messages the proxy has answered
    established \* external: the proxy passes the host's bytes on

tuVars == <<target, noProxy, proxy, tun, wants, heard, stream, requested, replied, established>>

\* A host is a name, as a sequence of the pieces its dots and the entries'
\* suffixes cut it into, or an address (ip >= 0).  An address written out in
\* full (IPv6 without "::") loses what looks like a port, and is none any more.
IsAddress(h) == h.ip >= 0 /\ ~h.full
EndsWith(name, suffix) == IsSuffix(suffix, name)

(***************************************************************************)
(* NO_PROXY.                                                               *)
(***************************************************************************)

\* ip_in_cidr: the bits before the prefix's end are the same.
InCidr(ip, net, prefix) == prefix <= Bits /\ ip \div 2 ^ (Bits - prefix) = net \div 2 ^ (Bits - prefix)

\* Mutant: the dot is not part of the suffix, and other names end like it.
BareSuffix(h, e) ==
    CASE e.kind = "cidr" -> IsAddress(h) /\ InCidr(h.ip, e.ip, e.prefix)
      [] e.kind = "ip" -> IsAddress(h) /\ h.ip = e.ip
      [] OTHER -> EndsWith(h.name, e.name)

\* host_matches_entry; a prefix that cannot be read is the whole width.
HostMatchesEntry(h, e) ==
    CASE e.kind = "cidr" -> IsAddress(h) /\ InCidr(h.ip, e.ip, e.prefix)
      [] e.kind = "ip" -> IsAddress(h) /\ h.ip = e.ip
      [] e.kind = "dotted" -> h.name = e.name \/ EndsWith(h.name, <<".">> \o e.name)
      [] e.kind = "domain" -> h.name = e.name \/ EndsWith(h.name, <<".">> \o e.name)
      [] OTHER -> FALSE

\* should_bypass_proxy, bypass_list_matches: "*" counts only alone.
Bypasses(h, list) ==
    \/ Len(list) = 1 /\ list[1].kind = "*"
    \/ \E i \in DOMAIN list : HostMatchesEntry(h, list[i])

(***************************************************************************)
(* The handshake.                                                          *)
(***************************************************************************)

\* parse_proxy_url: the scheme, SOCKS with either resolution in one, and
\* whether there is a user; "none" without a proxy variable in the environment.
ProxySpecs == [scheme : {"none", "connect", "socks"}, auth : BOOLEAN]

TuInit ==
    /\ target \in Targets
    /\ noProxy \in SeqOf(Entries, MaxEntries)
    /\ proxy \in ProxySpecs
    /\ tun = "start"
    /\ wants = 0 /\ heard = <<>> /\ stream = <<>> /\ requested = <<>>
    /\ replied = 0
    /\ established = FALSE

Ends(where) == tun' = where /\ wants' = 0 /\ heard' = <<>>

\* The next message to the proxy is sent, and the next read wants n bytes.
Sends(message, n, next) ==
    /\ requested' = Append(requested, message)
    /\ tun' = next
    /\ wants' = n
    /\ heard' = <<>>

\* get_proxy_for: no proxy for this host.
GoesDirect == Bypasses(target, noProxy) \/ proxy.scheme = "none"

\* Dialer::connect and establish_tunnel: the variable may hold no URL, and
\* connect_tcp tries one address of the proxy; then the handshake begins.
Choose ==
    /\ tun = "start"
    /\ IF GoesDirect
       THEN Ends("direct") /\ UNCHANGED requested
       ELSE \/ Ends("failed") /\ UNCHANGED requested
            \/ IF proxy.scheme = "connect" THEN Sends("connect", 1, "head")
               ELSE Sends("greeting", 2, "method")
    /\ UNCHANGED <<target, noProxy, proxy, stream, replied, established>>

\* read_exact_proxy and the byte-wise read of CONNECT: what is there, never
\* more than is wanted.
ReadProxy(n) ==
    /\ n \in 1..wants
    /\ n <= Len(stream)
    /\ wants' = wants - n
    /\ heard' = heard \o SubSeq(stream, 1, n)
    /\ stream' = SubSeq(stream, n + 1, Len(stream))
    /\ UNCHANGED <<target, noProxy, proxy, tun, requested, replied, established>>

\* A read times out, or the proxy closes the connection.
ReadEnds ==
    /\ wants > 0
    /\ Ends("failed")
    /\ UNCHANGED <<target, noProxy, proxy, stream, requested, replied, established>>

\* http_connect_handshake: byte by byte to the empty line, then the status.
HeadByte ==
    /\ tun = "head"
    /\ wants = 0
    /\ IF Last(heard) = "end"
       THEN Ends(IF heard[1] = "200" THEN "open" ELSE "failed")
       ELSE IF Len(heard) > MaxHead THEN Ends("failed")
       ELSE tun' = tun /\ wants' = 1 /\ heard' = heard
    /\ UNCHANGED <<target, noProxy, proxy, stream, requested, replied, established>>

\* socks5_handshake, after the reply to the greeting; a proxy that picks a
\* password nobody offered ends the thread.
Method ==
    /\ tun = "method"
    /\ wants = 0
    /\ CASE heard[1] # "v5" -> Ends("failed") /\ UNCHANGED requested
         [] heard = <<"v5", "none">> -> Sends("request", 4, "reply")
         [] heard = <<"v5", "password">> ->
                IF proxy.auth THEN Sends("password", 2, "auth")
                ELSE Ends("panicked") /\ UNCHANGED requested
         [] OTHER -> Ends("failed") /\ UNCHANGED requested
    /\ UNCHANGED <<target, noProxy, proxy, stream, replied, established>>

AuthReply ==
    /\ tun = "auth"
    /\ wants = 0
    /\ IF heard = <<"v1", "ok">> THEN Sends("request", 4, "reply")
       ELSE Ends("failed") /\ UNCHANGED requested
    /\ UNCHANGED <<target, noProxy, proxy, stream, replied, established>>

\* How many bytes of the bound address and port are still to come, by the type
\* of the address.
BoundLength(type) == CASE type = "4" -> 3 [] type = "6" -> 5 [] OTHER -> 0

\* The reply to the request: its head, the length of a name, the bound address.
ConnectReply ==
    /\ tun \in {"reply", "length", "bound"}
    /\ wants = 0
    /\ LET Waits(n, next) == wants' = n /\ heard' = <<>> /\ tun' = next
       IN  CASE tun = "bound" -> Ends("open")
             [] tun = "length" -> Waits(heard[1] + 2, "bound")
             [] tun = "reply" ->
                   IF heard[1] # "v5" \/ heard[2] # "ok" THEN Ends("failed")
                   ELSE IF heard[4] = "name" THEN Waits(1, "length")
                   ELSE IF heard[4] \in {"4", "6"} THEN Waits(BoundLength(heard[4]), "bound")
                   ELSE Ends("failed")
    /\ UNCHANGED <<target, noProxy, proxy, stream, requested, replied, established>>

(***************************************************************************)
(* The proxy.  It answers the messages in order; when it has accepted the  *)
(* last one, the host's bytes come through.                                *)
(***************************************************************************)
Bound(n) == [i \in 1..n |-> "b"]
RepliesTo(message) ==
    CASE message = "connect" ->
            {<<"200", "end">>, <<"200", "line", "end">>, <<"407", "end">>, <<"200", "line", "line">>}
      [] message = "greeting" -> {<<"v5", "none">>, <<"v5", "password">>, <<"v5", "no">>, <<"v4", "none">>}
      [] message = "password" -> {<<"v1", "ok">>, <<"v1", "wrong">>}
      [] message = "request" ->
            {<<"v5", "ok", "0", "4">> \o Bound(3), <<"v5", "ok", "0", "6">> \o Bound(5),
             <<"v5", "ok", "0", "name", 0>> \o Bound(2), <<"v5", "ok", "0", "name", 2>> \o Bound(4),
             <<"v5", "refused", "0", "4">> \o Bound(3), <<"v5", "ok", "0", "?">>}

ProxyReplies ==
    /\ replied < Len(requested)
    /\ \E r \in RepliesTo(requested[replied + 1]) :
          /\ established' = (\/ requested[replied + 1] = "connect" /\ r[1] = "200" /\ Last(r) = "end"
                             \/ requested[replied + 1] = "request" /\ r[2] = "ok" /\ r[4] # "?")
          /\ stream' = stream \o r \o (IF established' THEN <<"host", "host">> ELSE <<>>)
    /\ replied' = replied + 1
    /\ UNCHANGED <<target, noProxy, proxy, tun, wants, heard, requested>>

TuNext ==
    \/ Choose \/ ReadEnds \/ HeadByte \/ Method \/ AuthReply \/ ConnectReply \/ ProxyReplies
    \/ \E n \in 1..5 : ReadProxy(n)

TuSpec == TuInit /\ [][TuNext]_tuVars

TuTypeOK ==
    /\ tun \in {"start", "direct", "head", "method", "auth", "reply", "length", "bound",
                "open", "failed", "panicked"}
    /\ wants \in 0..6
    /\ replied <= Len(requested)

(***************************************************************************)
(* Properties.                                                             *)
(***************************************************************************)

\* Reference: the entry names the host, the domain it is in, or its network.
Names(e, h) ==
    CASE e.kind \in {"dotted", "domain"} ->
            \E k \in 1..(Len(h.name) + 1) :
                /\ SubSeq(h.name, k, Len(h.name)) = e.name
                /\ k > 1 => h.name[k - 1] = "."
      [] e.kind = "ip" -> h.ip = e.ip
      [] e.kind = "cidr" -> h.ip >= 0 /\ e.prefix <= Bits
                              /\ \E n \in 0..(2 ^ (Bits - e.prefix) - 1) :
                                    h.ip = (e.ip - (e.ip % 2 ^ (Bits - e.prefix))) + n
      [] OTHER -> FALSE

\* A host that the list names is reached directly, another through the proxy;
\* and a tunnel that is handed over has the host's bytes next, all of them, and
\* nothing of the proxy's.
TunnelsRight ==
    /\ tun = "direct" /\ proxy.scheme # "none" /\ ~target.full =>
          \E i \in DOMAIN noProxy : noProxy[i].kind = "*" \/ Names(noProxy[i], target)
    /\ tun \notin {"start", "direct"} => \A i \in DOMAIN noProxy : target.full \/ ~Names(noProxy[i], target)
    /\ tun = "open" => established /\ stream = <<"host", "host">>

=============================================================================

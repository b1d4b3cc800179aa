------------------------------ MODULE Dialing ------------------------------
(***************************************************************************)
(* How the agent reaches a host that needs no proxy: the cache of names    *)
(* shared by all threads, the custom and built-in name servers asked over  *)
(* UDP for one address family after the other, with and without the        *)
(* shorter time-outs of "happy eyeballs", the system's resolver as the     *)
(* last resort, the order of the addresses, and the attempts to connect    *)
(* (dns.rs; Dialer in proxy.rs).                                           *)
(***************************************************************************)
EXTENDS Integers, Sequences, SequencesExt, FiniteSets, FiniteSetsExt

CONSTANTS
    Dialers,      \* threads that connect
    Hosts,        \* names
    Addresses,    \* every address there is, as a sequence of [family, n]
    Servers,      \* how many name servers are asked, 0 without custom ones
    CacheSize,    \* 50
    Ttl,          \* 300 s, in ticks of the clock
    LastMoment    \* bound: the last tick

ASSUME DialingAssumption ==
    /\ {Servers, CacheSize, Ttl, LastMoment} \subseteq Nat /\ CacheSize > 0 /\ Ttl > 0
    /\ Addresses \in Seq(Range(Addresses))

VARIABLES
    prefer,   \* prefer_ip_version, "4" or "6"
    eyeballs, \* which of the two dial contexts
    now,      \* the clock
    cache,    \* DNS_CACHE: host -> [addrs, at], a function on the hosts that are in
    thread,   \* thread -> [pc, host, server, waits, addrs, taken, tried]
    zone,     \* external: the addresses the name service has for a host
    observed  \* ghost: host -> address -> when the zone last had it

dlVars == <<prefer, eyeballs, now, cache, thread, zone, observed>>

Known4 == {a \in Range(Addresses) : a.family = "4"}
OfFamily(f) == {a \in Range(Addresses) : a.family = f}
InOrder(S) == FoldLeft(LAMBDA kept, a : IF a \in S THEN Append(kept, a) ELSE kept, <<>>, Addresses)
Never == 0 - Ttl - 1
DialerIdle == [pc |-> "idle", host |-> CHOOSE h \in Hosts : TRUE, server |-> 0, waits |-> {},
               addrs |-> <<>>, taken |-> 0, tried |-> 0]

\* prefer_ipv4_first: an IPv4 address of the machine decides for 4, and so does
\* that none is found.
Preferred(option) == IF option \in {"4", "6"} THEN option ELSE "4"

DlInit ==
    /\ prefer \in {Preferred(option) : option \in {"4", "6", "auto"}}
    /\ eyeballs \in BOOLEAN
    /\ now = 0
    /\ cache = <<>>
    /\ thread = [d \in Dialers |-> DialerIdle]
    /\ zone \in [Hosts -> {Range(Addresses), Known4}]
    /\ observed = [h \in Hosts |-> [a \in Range(Addresses) |-> IF a \in zone[h] THEN 0 ELSE Never]]

(***************************************************************************)
(* The order of addresses.                                                 *)
(***************************************************************************)

\* Mutant: the place for the next preferred address does not move on.
SwapToFront(acc, j) ==
    IF acc.s[j].family # prefer THEN acc
    ELSE [s |-> [acc.s EXCEPT ![acc.i] = acc.s[j], ![j] = acc.s[acc.i]], i |-> acc.i]

\* One turn of the loop of sort_by_preference: a preferred address changes
\* places with the first that is not.
Swap(acc, j) ==
    IF acc.s[j].family # prefer THEN acc
    ELSE [s |-> [acc.s EXCEPT ![acc.i] = acc.s[j], ![j] = acc.s[acc.i]], i |-> acc.i + 1]

SortByPreference(addrs) ==
    FoldLeft(Swap, [s |-> addrs, i |-> 1], [k \in DOMAIN addrs |-> k]).s

(***************************************************************************)
(* The cache.                                                              *)
(***************************************************************************)

CacheFresh(h) == h \in DOMAIN cache /\ now - cache[h].at < Ttl
Without(h) == [k \in DOMAIN cache \ {h} |-> cache[k]]

\* DnsCache::insert, with evict_oldest_locked.
Inserted(h, addrs) ==
    LET oldest == {k \in DOMAIN cache : \A o \in DOMAIN cache : cache[k].at <= cache[o].at}
        rooms == IF Cardinality(DOMAIN cache) >= CacheSize /\ h \notin DOMAIN cache
                 THEN {Without(k) : k \in oldest} ELSE {cache}
        entry == [addrs |-> addrs, at |-> now]
    IN  {[k \in DOMAIN room \cup {h} |-> IF k = h THEN entry ELSE room[k]] : room \in rooms}

(***************************************************************************)
(* resolve and resolve_with_happy_eyeballs.                                *)
(***************************************************************************)

Put(d, t) == thread' = [thread EXCEPT ![d] = t]
FirstFamily == IF eyeballs THEN prefer ELSE "4"
SecondFamily == IF FirstFamily = "4" THEN "6" ELSE "4"

\* The socket of the next server, with the first question on its way.
Querying(t, server) ==
    IF server > Servers THEN [t EXCEPT !.pc = "system", !.waits = {}]
    ELSE [t EXCEPT !.pc = "first", !.server = server, !.waits = {FirstFamily}]

\* The dial context is called; DnsCache::get removes an entry that is too old,
\* and an empty one is as good as none.
DialHost(d, h) ==
    LET t == [DialerIdle EXCEPT !.host = h]
    IN  /\ thread[d].pc = "idle"
        /\ cache' = IF h \in DOMAIN cache /\ ~CacheFresh(h) THEN Without(h) ELSE cache
        /\ IF CacheFresh(h) /\ cache[h].addrs # <<>>
           THEN Put(d, [t EXCEPT !.pc = "dial", !.addrs = SortByPreference(cache[h].addrs), !.taken = now])
           ELSE Put(d, Querying(t, 1))
        /\ UNCHANGED <<prefer, eyeballs, now, zone, observed>>

\* parse_dns_response, skip_name: the addresses of the records that are whole.
AnswersTo(h, f) ==
    LET all == InOrder(zone[h] \cap OfFamily(f)) IN {SubSeq(all, 1, k) : k \in 0..Len(all)}

\* The result is sorted and cached, and the first address is tried next.
Resolved(d, t, addrs) ==
    LET sorted == SortByPreference(addrs)
    IN  /\ cache' \in Inserted(t.host, sorted)
        /\ Put(d, IF addrs = <<>> THEN DialerIdle
                  ELSE [t EXCEPT !.pc = "dial", !.addrs = sorted, !.taken = now])

\* query_dns_server(_happy_eyeballs): the first question is answered or timed
\* out, or both are; then the second one is asked, or the server is done with.
Phase(d, t) ==
    IF t.pc = "first"
    THEN /\ Put(d, [t EXCEPT !.pc = "second", !.waits = @ \cup {SecondFamily}])
         /\ UNCHANGED cache
    ELSE IF t.addrs # <<>> THEN Resolved(d, t, t.addrs)
    ELSE Put(d, Querying(t, t.server + 1)) /\ UNCHANGED cache

\* A datagram arrives: it may answer the question before (the id is not looked at).
QueryAnswered(d) ==
    LET t == thread[d]
    IN  /\ t.pc \in {"first", "second"}
        /\ \E f \in t.waits : \E answer \in AnswersTo(t.host, f) :
              Phase(d, [t EXCEPT !.waits = @ \ {f}, !.addrs = @ \o answer])
        /\ UNCHANGED <<prefer, eyeballs, now, zone, observed>>

QueryTimesOut(d) ==
    /\ thread[d].pc \in {"first", "second"}
    /\ Phase(d, thread[d])
    /\ UNCHANGED <<prefer, eyeballs, now, zone, observed>>

\* An error of the socket ends this server, unless addresses are known when
\* the answer to the second question cannot be received.  That this question
\* cannot be sent (send_to) ends the server whatever is known: as the addresses
\* are dropped, it is the failure of the first, and in that step here.
QueryFails(d) ==
    LET t == thread[d]
    IN  /\ t.pc \in {"first", "second"}
        /\ IF t.pc = "second" /\ t.addrs # <<>> THEN Resolved(d, t, t.addrs)
           ELSE Put(d, Querying([t EXCEPT !.addrs = <<>>], t.server + 1)) /\ UNCHANGED cache
        /\ UNCHANGED <<prefer, eyeballs, now, zone, observed>>

\* resolve_via_system: addresses, none, or an error.
AskSystem(d) ==
    LET t == thread[d]
    IN  /\ t.pc = "system"
        /\ \/ \E S \in {zone[t.host], {}} : Resolved(d, t, InOrder(S))
           \/ Put(d, DialerIdle) /\ UNCHANGED cache
        /\ UNCHANGED <<prefer, eyeballs, now, zone, observed>>

\* The loop of the dial context over the addresses.
Connect(d) ==
    LET t == thread[d]
    IN  /\ t.pc = "dial"
        /\ \/ Put(d, [t EXCEPT !.pc = "connected", !.tried = @ + 1])
           \/ /\ t.tried + 1 < Len(t.addrs)
              /\ Put(d, [t EXCEPT !.tried = @ + 1])
           \/ /\ t.tried + 1 = Len(t.addrs)
              /\ Put(d, DialerIdle)
        /\ UNCHANGED <<prefer, eyeballs, now, cache, zone, observed>>

GiveUpDial(d) ==
    /\ thread[d].pc = "connected"
    /\ Put(d, DialerIdle)
    /\ UNCHANGED <<prefer, eyeballs, now, cache, zone, observed>>

(***************************************************************************)
(* Time and the name service.  A tick is longer than a server is waited    *)
(* for once it has answered.                                               *)
(***************************************************************************)
ClockTick ==
    /\ now < LastMoment
    /\ \A d \in Dialers : thread[d].pc = "second" => thread[d].addrs = <<>>
    /\ now' = now + 1
    /\ observed' = [h \in Hosts |-> [a \in Range(Addresses) |->
                       IF a \in zone[h] THEN now + 1 ELSE observed[h][a]]]
    /\ UNCHANGED <<prefer, eyeballs, cache, thread, zone>>

HostMoves(h) ==
    /\ \A d \in Dialers : thread[d].pc = "second" => thread[d].addrs = <<>>
    /\ \E S \in {Range(Addresses), Known4} \ {zone[h]} : zone' = [zone EXCEPT ![h] = S]
    /\ observed' = [observed EXCEPT ![h] = [a \in Range(Addresses) |->
                           IF a \in zone[h] \cup zone'[h] THEN now ELSE observed[h][a]]]
    /\ UNCHANGED <<prefer, eyeballs, now, cache, thread>>

DlNext ==
    \/ \E d \in Dialers :
          \/ \E h \in Hosts : DialHost(d, h)
          \/ QueryAnswered(d) \/ QueryTimesOut(d) \/ QueryFails(d)
          \/ AskSystem(d) \/ Connect(d) \/ GiveUpDial(d)
    \/ ClockTick
    \/ \E h \in Hosts : HostMoves(h)

DlSpec == DlInit /\ [][DlNext]_dlVars

DlTypeOK ==
    /\ now \in 0..LastMoment
    /\ \A d \in Dialers :
          /\ thread[d].pc \in {"idle", "first", "second", "system", "dial", "connected"}
          /\ thread[d].addrs \in Seq(Range(Addresses))
          /\ thread[d].tried <= Len(thread[d].addrs)
    /\ \A h \in DOMAIN cache : cache[h].at <= now

(***************************************************************************)
(* Properties.                                                             *)
(***************************************************************************)

\* Whatever answers are late, lost or cut, a thread tries addresses only that
\* the host had within the life of a cache entry before it took them, each
\* family of them as a whole and the preferred one first; and the cache keeps
\* its bound.
DialsTheHost ==
    /\ Cardinality(DOMAIN cache) <= CacheSize
    /\ \A d \in Dialers : thread[d].pc \in {"dial", "connected"} =>
          LET t == thread[d]
          IN  /\ \A k \in DOMAIN t.addrs : observed[t.host][t.addrs[k]] > t.taken - Ttl
              /\ \A j, k \in DOMAIN t.addrs :
                    t.addrs[k].family = prefer /\ t.addrs[j].family # prefer => k < j

=============================================================================

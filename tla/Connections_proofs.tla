------------------------- MODULE Connections_proofs -------------------------
(***************************************************************************)
(* Theorems about how the agent reaches others: the dialer and its cache   *)
(* of names, the tunnel through a proxy, the downloads of a release, the   *)
(* responses of the HTTP client, the WebSocket up to its frames.  They hold*)
(* for any hosts, addresses, proxies, answers and releases.                *)
(***************************************************************************)
EXTENDS Connections, Http, SequenceTheorems, Induction_proofs

-----------------------------------------------------------------------------
\* Dialing (dns.rs, proxy.rs).

(***************************************************************************)
(* sort_by_preference.                                                     *)
(***************************************************************************)

\* The loop after k turns: acc.i is the first place without a preferred address.
PartlySorted(acc, k) ==
    /\ acc.i \in 1..(k + 1)
    /\ \A j \in 1..k : j < acc.i <=> acc.s[j].family = prefer

PreferredFirst(s, liked) ==
    \A j, k \in DOMAIN s : s[k].family = liked /\ s[j].family # liked => k < j

Turns(A, n) == [s : [1..n -> A], i : Nat]

LEMMA SwapStays ==
    ASSUME NEW A, NEW n \in Nat, NEW acc \in Turns(A, n), NEW j \in 1..n, acc.i \in 1..n
    PROVE  /\ Swap(acc, j) \in Turns(A, n)
           /\ Swap(acc, j).i = acc.i \/ Swap(acc, j).i = acc.i + 1
<1>1. CASE acc.s[j].family # prefer
  BY <1>1 DEF Swap
<1>2. CASE acc.s[j].family = prefer
  <2>1. acc.s[j] \in A /\ acc.s[acc.i] \in A /\ acc.s \in [1..n -> A]
    BY DEF Turns
  <2>2. [acc.s EXCEPT ![acc.i] = acc.s[j], ![j] = acc.s[acc.i]] \in [1..n -> A]
    BY <2>1
  <2> QED
    BY <1>2, <2>2 DEF Swap, Turns
<1> QED
  BY <1>1, <1>2

LEMMA SwapSorts ==
    ASSUME NEW A, NEW n \in Nat, NEW acc \in Turns(A, n), NEW k \in 1..n, PartlySorted(acc, k - 1)
    PROVE  PartlySorted(Swap(acc, k), k)
<1>1. /\ acc.i \in 1..k /\ acc.i \in 1..n
      /\ \A j \in 1..(k - 1) : j < acc.i <=> acc.s[j].family = prefer
  BY DEF PartlySorted
<1>2. CASE acc.s[k].family # prefer
  <2>1. Swap(acc, k) = acc
    BY <1>2 DEF Swap
  <2>2. \A j \in 1..k : j < acc.i <=> acc.s[j].family = prefer
    BY <1>1, <1>2
  <2> QED
    BY <1>1, <2>1, <2>2 DEF PartlySorted
<1>3. CASE acc.s[k].family = prefer
  <2> DEFINE r == Swap(acc, k)
  <2>1. /\ r.i = acc.i + 1
        /\ r.s = [acc.s EXCEPT ![acc.i] = acc.s[k], ![k] = acc.s[acc.i]]
    BY <1>3 DEF Swap
  <2>2. acc.s \in [1..n -> A]
    BY DEF Turns
  <2> HIDE DEF r
  <2>3. \A j \in 1..n : r.s[j] = IF j = k THEN acc.s[acc.i] ELSE IF j = acc.i THEN acc.s[k] ELSE acc.s[j]
    BY <1>1, <2>1, <2>2
  <2>4. \A j \in 1..k : j < r.i <=> r.s[j].family = prefer
    <3> TAKE j \in 1..k
    <3>1. CASE j = k
      BY <1>1, <1>3, <2>1, <2>3, <3>1
    <3>2. CASE j # k /\ j = acc.i
      BY <1>1, <1>3, <2>1, <2>3, <3>2
    <3>3. CASE j # k /\ j # acc.i
      BY <1>1, <1>3, <2>1, <2>3, <3>3
    <3> QED
      BY <3>1, <3>2, <3>3
  <2>5. r.i \in 1..(k + 1)
    BY <1>1, <2>1
  <2> QED
    BY <2>4, <2>5 DEF PartlySorted, r
<1> QED
  BY <1>2, <1>3

\* The fold of SortByPreference, taken apart.
LEMMA SortUnfolds ==
    ASSUME NEW A, NEW addrs \in Seq(A)
    PROVE  \E h : /\ SortByPreference(addrs) = h[1..Len(addrs)].s
                  /\ h[{}] = [s |-> addrs, i |-> 1]
                  /\ \A s \in SUBSET (1..Len(addrs)) : s # {} =>
                        h[s] = Swap(h[s \ {Max(s)}], Max(s))
<1> DEFINE n == Len(addrs)
           F == [k \in DOMAIN addrs |-> k]
           base == [s |-> addrs, i |-> 1]
           V == Turns(A, n)
           Solves(g) == g = [s \in SUBSET (DOMAIN F) |->
                               IF s = {} THEN base ELSE Swap(g[s \ {Max(s)}], F[Max(s)])]
           h == CHOOSE g : Solves(g)
           step == [p \in (1..n) \X V |-> IF p[2].i \in 1..n THEN Swap(p[2], p[1]) ELSE p[2]]
<1>1. SortByPreference(addrs) = h[DOMAIN F].s
  BY DEF SortByPreference, FoldLeft, MapThenFoldSet
<1>2. n \in Nat /\ DOMAIN F = 1..n /\ \A k \in 1..n : F[k] = k
  OBVIOUS
<1>3. base \in V
  BY DEF Turns
<1> HIDE DEF F, n
<1>4. step \in [(1..n) \X V -> V]
  <2>1. \A p \in (1..n) \X V : (IF p[2].i \in 1..n THEN Swap(p[2], p[1]) ELSE p[2]) \in V
    <3> TAKE p \in (1..n) \X V
    <3>1. p[1] \in 1..n /\ p[2] \in V
      OBVIOUS
    <3> QED
      BY <1>2, <3>1, SwapStays
  <2> QED
    BY <2>1
<1> HIDE DEF base, V, step
<1>50. PICK f \in [SUBSET (1..n) -> V] : FoldsOver(f, n, base, step)
  BY <1>2, <1>3, <1>4, FoldOverIndices
<1>5. \A s \in SUBSET (1..n) : f[s] = IF s = {} THEN base ELSE step[<<Max(s), f[s \ {Max(s)}]>>]
  BY <1>50 DEF FoldsOver
<1>6. \A s \in SUBSET (1..n) : f[s].i \in 1..(Cardinality(s) + 1)
  <2> DEFINE T == {s \in SUBSET (1..n) : f[s].i \in 1..(Cardinality(s) + 1)}
  <2> SUFFICES ASSUME NEW s \in SUBSET (1..n) PROVE s \in T
    OBVIOUS
  <2>1. {} \in T
    <3>1. f[{}] = base /\ Cardinality({}) = 0
      BY <1>5, FS_EmptySet
    <3>2. base.i = 1
      BY DEF base
    <3> QED
      BY <3>1, <3>2
  <2>2. \A t \in SUBSET s : t # {} => \E x \in t : t \ {x} \in T => t \in T
    <3> SUFFICES ASSUME NEW t \in SUBSET s, t # {}, t \ {Max(t)} \in T PROVE t \in T
      BY <1>2, MaxIn
    <3> DEFINE u == t \ {Max(t)}
    <3>1. t \in SUBSET (1..n) /\ Max(t) \in t /\ Max(t) \in 1..n
      BY <1>2, PartOfIndices
    <3>2. Cardinality(u) = Cardinality(t) - 1 /\ Cardinality(t) \in 0..n /\ u \in SUBSET (1..n)
      BY <1>2, <3>1, PartOfIndices
    <3>3. f[u].i \in 1..n /\ f[u].i \in 1..Cardinality(t) /\ f[u] \in V
      BY <1>2, <3>1, <3>2
    <3>4. f[t] = Swap(f[u], Max(t))
      BY <1>5, <3>1, <3>3 DEF step
    <3>5. f[t].i = f[u].i \/ f[t].i = f[u].i + 1
      BY <1>2, <3>1, <3>3, <3>4, SwapStays DEF V
    <3> QED
      BY <3>1, <3>2, <3>3, <3>5
  <2> HIDE DEF T
  <2>3. IsFiniteSet(s) /\ Inherited(T, s)
    BY <1>2, <2>1, <2>2, PartOfIndices DEF Inherited
  <2> QED
    BY <2>3, PartsByInduction
<1>7. \A s \in SUBSET (1..n) : s # {} => f[s] = Swap(f[s \ {Max(s)}], Max(s))
  <2> SUFFICES ASSUME NEW s \in SUBSET (1..n), s # {} PROVE f[s] = Swap(f[s \ {Max(s)}], Max(s))
    OBVIOUS
  <2> DEFINE u == s \ {Max(s)}
  <2>1. Max(s) \in s /\ Max(s) \in 1..n
    BY <1>2, PartOfIndices
  <2>2. Cardinality(u) = Cardinality(s) - 1 /\ Cardinality(s) \in 0..n /\ u \in SUBSET (1..n)
    BY <1>2, PartOfIndices
  <2>3. f[u].i \in 1..n /\ f[u] \in V
    BY <1>2, <1>6, <2>2
  <2> QED
    BY <1>5, <2>1, <2>3 DEF step
<1>8. Solves(f)
  <2>1. f = [s \in SUBSET (1..n) |-> f[s]]
    OBVIOUS
  <2>2. \A s \in SUBSET (1..n) : s # {} => F[Max(s)] = Max(s)
    BY <1>2, MaxIn
  <2>3. \A s \in SUBSET (1..n) : f[s] = IF s = {} THEN base ELSE Swap(f[s \ {Max(s)}], F[Max(s)])
    BY <1>5, <1>7, <2>2
  <2> QED
    BY <1>2, <2>1, <2>3, Zenon
<1>9. Solves(h)
  BY <1>8
<1> HIDE DEF h
<1>10. \A s \in SUBSET (1..n) : h[s] = IF s = {} THEN base ELSE Swap(h[s \ {Max(s)}], F[Max(s)])
  BY <1>2, <1>9, Zenon
<1>11. \A s \in SUBSET (1..n) : s # {} => h[s] = Swap(h[s \ {Max(s)}], Max(s))
  BY <1>2, <1>10, MaxIn
<1>12. h[{}] = base
  BY <1>10
<1> QED
  BY <1>1, <1>2, <1>11, <1>12 DEF base, n

\* Whatever its length, a list keeps its elements' kind, the preferred ones first.
LEMMA SortFacts ==
    ASSUME NEW A, NEW addrs \in Seq(A)
    PROVE  SortByPreference(addrs) \in Seq(A) /\ PreferredFirst(SortByPreference(addrs), prefer)
<1> DEFINE n == Len(addrs)
<1>1. n \in Nat /\ addrs \in [1..n -> A]
  OBVIOUS
<1>2. PICK h : /\ SortByPreference(addrs) = h[1..n].s
               /\ h[{}] = [s |-> addrs, i |-> 1]
               /\ \A s \in SUBSET (1..n) : s # {} => h[s] = Swap(h[s \ {Max(s)}], Max(s))
  BY SortUnfolds
<1> HIDE DEF n
<1> DEFINE T == {k \in 0..n : h[1..k] \in Turns(A, n) /\ PartlySorted(h[1..k], k)}
<1>3. 0 \in T
  <2>1. 1..0 = {}
    OBVIOUS
  <2> QED
    BY <1>1, <1>2, <2>1 DEF Turns, PartlySorted
<1>4. ASSUME NEW k \in 1..n, k - 1 \in T PROVE k \in T
  <2>1. h[1..k] = Swap(h[1..(k - 1)], k)
    BY <1>1, <1>2, LastOfUpTo
  <2>2. h[1..(k - 1)] \in Turns(A, n) /\ PartlySorted(h[1..(k - 1)], k - 1)
    BY <1>4
  <2>3. h[1..(k - 1)].i \in 1..n
    BY <1>1, <2>2 DEF PartlySorted
  <2> QED
    BY <1>1, <2>1, <2>2, <2>3, SwapStays, SwapSorts
<1> HIDE DEF T
<1>5. n \in T
  BY <1>1, <1>3, <1>4, ByCounting
<1>6. h[1..n] \in Turns(A, n) /\ PartlySorted(h[1..n], n)
  BY <1>5 DEF T
<1> DEFINE sorted == h[1..n].s
<1>7. sorted \in [1..n -> A]
  BY <1>6 DEF Turns
<1>8. sorted \in Seq(A) /\ DOMAIN sorted = 1..n
  BY <1>1, <1>7
<1>9. PreferredFirst(sorted, prefer)
  <2> SUFFICES ASSUME NEW j \in 1..n, NEW k \in 1..n,
                      sorted[k].family = prefer, sorted[j].family # prefer
               PROVE  k < j
    BY <1>8 DEF PreferredFirst
  <2>1. h[1..n].i \in 1..(n + 1) /\ k < h[1..n].i /\ ~(j < h[1..n].i)
    BY <1>6 DEF PartlySorted
  <2> QED
    BY <1>1, <2>1
<1> QED
  BY <1>2, <1>8, <1>9

(***************************************************************************)
(* The addresses of a set, in the order of Addresses.                      *)
(***************************************************************************)
Known == Range(Addresses)

LEMMA InOrderFacts ==
    ASSUME NEW S
    PROVE  InOrder(S) \in Seq(S \cap Known)
<1> DEFINE n == Len(Addresses)
           V == Seq(Known)
           Kept(p) == IF Addresses[p[1]] \in S THEN Append(p[2], Addresses[p[1]]) ELSE p[2]
           Solves(g) == g = [s \in SUBSET (DOMAIN Addresses) |->
                               IF s = {} THEN <<>>
                               ELSE IF Addresses[Max(s)] \in S
                               THEN Append(g[s \ {Max(s)}], Addresses[Max(s)])
                               ELSE g[s \ {Max(s)}]]
           h == CHOOSE g : Solves(g)
           step == [p \in (1..n) \X V |-> Kept(p)]
<1>1. InOrder(S) = h[DOMAIN Addresses]
  BY DEF InOrder, FoldLeft, MapThenFoldSet
<1>2. n \in Nat /\ DOMAIN Addresses = 1..n /\ \A k \in 1..n : Addresses[k] \in Known
  BY DialingAssumption DEF DialingAssumption, Known, Range
<1>3. step \in [(1..n) \X V -> V]
  <2>1. ASSUME NEW p \in (1..n) \X V PROVE Kept(p) \in V
    <3>1. p[1] \in 1..n /\ p[2] \in V /\ Addresses[p[1]] \in Known
      BY <1>2
    <3>2. Append(p[2], Addresses[p[1]]) \in V
      BY <3>1
    <3> QED
      BY <3>1, <3>2
  <2> HIDE DEF Kept
  <2> QED
    BY <2>1
<1>4. <<>> \in V
  OBVIOUS
<1> HIDE DEF n, V, step
<1>5. PICK f \in [SUBSET (1..n) -> V] : FoldsOver(f, n, <<>>, step)
  BY <1>2, <1>3, <1>4, FoldOverIndices
<1>6. Solves(f)
  <2>1. ASSUME NEW s \in SUBSET (1..n), s # {} PROVE f[s] = Kept(<<Max(s), f[s \ {Max(s)}]>>)
    <3>1. Max(s) \in 1..n /\ f[s \ {Max(s)}] \in V
      BY <1>2, <2>1, PartOfIndices
    <3>2. <<Max(s), f[s \ {Max(s)}]>> \in (1..n) \X V
      BY <3>1
    <3>3. f[s] = step[<<Max(s), f[s \ {Max(s)}]>>]
      BY <1>5, <2>1 DEF FoldsOver
    <3> HIDE DEF Kept
    <3>4. step[<<Max(s), f[s \ {Max(s)}]>>] = Kept(<<Max(s), f[s \ {Max(s)}]>>)
      BY <3>2 DEF step
    <3> QED
      BY <3>3, <3>4
  <2>2. f[{}] = <<>>
    BY <1>5 DEF FoldsOver
  <2>3. f = [s \in SUBSET (1..n) |-> f[s]]
    OBVIOUS
  <2>4. \A s \in SUBSET (1..n) :
           f[s] = IF s = {} THEN <<>>
                  ELSE IF Addresses[Max(s)] \in S
                  THEN Append(f[s \ {Max(s)}], Addresses[Max(s)]) ELSE f[s \ {Max(s)}]
    BY <2>1, <2>2
  <2> QED
    BY <1>2, <2>3, <2>4, Zenon
<1>7. Solves(h)
  BY <1>6
<1> HIDE DEF h
<1>8. \A s \in SUBSET (1..n) :
         h[s] = IF s = {} THEN <<>>
                ELSE IF Addresses[Max(s)] \in S
                THEN Append(h[s \ {Max(s)}], Addresses[Max(s)]) ELSE h[s \ {Max(s)}]
  BY <1>2, <1>7, Zenon
<1> DEFINE K == S \cap Known
           T == {s \in SUBSET (1..n) : h[s] \in Seq(K)}
<1>9. {} \in T
  <2>1. h[{}] = <<>>
    BY <1>8
  <2>2. <<>> \in Seq(K)
    OBVIOUS
  <2> QED
    BY <2>1, <2>2
<1>10. ASSUME NEW s \in SUBSET (1..n), s # {} PROVE \E x \in s : s \ {x} \in T => s \in T
  <2>1. Max(s) \in s /\ Max(s) \in 1..n /\ Addresses[Max(s)] \in Known
    BY <1>2, <1>10, PartOfIndices
  <2> SUFFICES ASSUME h[s \ {Max(s)}] \in Seq(K) PROVE h[s] \in Seq(K)
    BY <2>1
  <2>2. CASE Addresses[Max(s)] \in S
    <3>1. h[s] = Append(h[s \ {Max(s)}], Addresses[Max(s)]) /\ Addresses[Max(s)] \in K
      BY <1>8, <1>10, <2>1, <2>2
    <3> HIDE DEF K
    <3> QED
      BY <3>1
  <2>3. CASE Addresses[Max(s)] \notin S
    BY <1>8, <1>10, <2>3
  <2> QED
    BY <2>2, <2>3
<1> HIDE DEF T
<1>11. Inherited(T, 1..n)
  BY <1>9, <1>10 DEF Inherited
<1>12. 1..n \in T
  <2>1. 1..n \in SUBSET (1..n)
    OBVIOUS
  <2> QED
    BY <1>2, <1>11, <2>1, PartOfIndices, PartsByInduction
<1> QED
  BY <1>1, <1>2, <1>12 DEF T

(***************************************************************************)
(* The invariant: what a thread knows of a host was so when it was told.   *)
(***************************************************************************)
Pcs == {"idle", "first", "second", "system", "dial", "connected"}
Families == {"4", "6"}

DialThread ==
    [pc : Pcs, host : Hosts \cup {DialerIdle.host}, server : Nat, waits : SUBSET Families,
     addrs : Seq(Known), taken : Nat, tried : Nat]

\* The addresses the zone had for h at m or after.
SeenSince(obs, h, m) == {a \in Known : obs[h][a] >= m}

ThreadRight(t, obs, moment, liked) ==
    /\ t \in DialThread
    /\ t.pc # "idle" => t.host \in Hosts
    /\ t.pc \in {"first", "system"} => t.addrs = <<>>
    /\ t.pc = "second" => t.addrs \in Seq(SeenSince(obs, t.host, moment))
    /\ t.pc \in {"dial", "connected"} =>
          /\ t.addrs \in Seq(SeenSince(obs, t.host, t.taken - Ttl + 1))
          /\ PreferredFirst(t.addrs, liked)

CacheRight(c, obs) ==
    /\ DOMAIN c \subseteq Hosts /\ IsFiniteSet(DOMAIN c) /\ Cardinality(DOMAIN c) <= CacheSize
    /\ \A h \in DOMAIN c : c[h].at \in Nat /\ c[h].addrs \in Seq(SeenSince(obs, h, c[h].at))

ZoneRight(z, obs, moment) ==
    /\ moment \in Nat
    /\ z \in [Hosts -> SUBSET Known] /\ obs \in [Hosts -> [Known -> Int]]
    /\ \A h \in Hosts : \A a \in Known :
          obs[h][a] <= moment /\ (a \in z[h] => obs[h][a] = moment)

DialingInv ==
    /\ prefer \in Families /\ eyeballs \in BOOLEAN
    /\ ZoneRight(zone, observed, now)
    /\ CacheRight(cache, observed)
    /\ thread \in [Dialers -> DialThread]
    /\ \A d \in Dialers : ThreadRight(thread[d], observed, now, prefer)

LEMMA SeqGrows ==
    ASSUME NEW S, NEW T, S \subseteq T, NEW s \in Seq(S)
    PROVE  s \in Seq(T)
OBVIOUS

LEMMA DialNumbers == Ttl \in Nat /\ Ttl > 0 /\ CacheSize \in Nat /\ CacheSize > 0
BY DialingAssumption DEF DialingAssumption

LEMMA IdleIsRight ==
    ASSUME NEW obs, NEW moment, NEW liked
    PROVE  ThreadRight(DialerIdle, obs, moment, liked) /\ DialerIdle.pc = "idle"
<1>1. DialerIdle \in DialThread
  <2>1. <<>> \in Seq(Known) /\ {} \in SUBSET Families
    OBVIOUS
  <2>2. "idle" \in Pcs
    BY DEF Pcs
  <2> QED
    BY <2>1, <2>2 DEF DialThread, DialerIdle
<1>2. DialerIdle.pc = "idle"
  BY DEF DialerIdle
<1> QED
  BY <1>1, <1>2 DEF ThreadRight

LEMMA DialingInvStarts == DlInit => DialingInv
<1> SUFFICES ASSUME DlInit PROVE DialingInv
  OBVIOUS
<1>1. prefer \in Families /\ eyeballs \in BOOLEAN
  BY DEF DlInit, Families, Preferred
<1>2. now = 0 /\ cache = <<>> /\ thread = [d \in Dialers |-> DialerIdle]
  BY DEF DlInit
<1>3. ZoneRight(zone, observed, now)
  <2>1. zone \in [Hosts -> SUBSET Known]
    BY DEF DlInit, Known, Known4
  <2>2. observed = [h \in Hosts |-> [a \in Known |-> IF a \in zone[h] THEN 0 ELSE Never]]
    BY DEF DlInit, Known
  <2>3. Never \in Int /\ Never <= 0
    BY DialNumbers DEF Never
  <2>4. observed \in [Hosts -> [Known -> Int]]
    BY <2>2, <2>3
  <2>5. \A h \in Hosts : \A a \in Known : observed[h][a] = IF a \in zone[h] THEN 0 ELSE Never
    BY <2>2
  <2> QED
    BY <1>2, <2>1, <2>3, <2>4, <2>5 DEF ZoneRight
<1>4. CacheRight(cache, observed)
  <2>1. DOMAIN cache = {} /\ Cardinality({}) = 0 /\ IsFiniteSet({})
    BY <1>2, FS_EmptySet
  <2> QED
    BY <2>1, DialNumbers DEF CacheRight
<1>5. \A d \in Dialers : ThreadRight(thread[d], observed, now, prefer)
  BY <1>2, IdleIsRight
<1>6. thread \in [Dialers -> DialThread]
  BY <1>2, IdleIsRight DEF ThreadRight
<1> QED
  BY <1>1, <1>3, <1>4, <1>5, <1>6 DEF DialingInv

\* A thread and the cache move, time and the zone do not.
Still == UNCHANGED <<prefer, eyeballs, now, zone, observed>>

LEMMA ThreadMoves ==
    ASSUME DialingInv, Still, NEW d \in Dialers, NEW t, Put(d, t),
           ThreadRight(t, observed, now, prefer), CacheRight(cache', observed)
    PROVE  DialingInv'
<1>1. /\ prefer' = prefer /\ eyeballs' = eyeballs /\ now' = now
      /\ zone' = zone /\ observed' = observed
  BY DEF Still
<1>2. t \in DialThread
  BY DEF ThreadRight
<1>3. thread' = [thread EXCEPT ![d] = t] /\ thread \in [Dialers -> DialThread]
  BY DEF Put, DialingInv
<1>4. thread' \in [Dialers -> DialThread] /\ thread'[d] = t
      /\ \A o \in Dialers \ {d} : thread'[o] = thread[o]
  BY <1>2, <1>3
<1>5. \A o \in Dialers : ThreadRight(thread'[o], observed, now, prefer)
  <2> TAKE o \in Dialers
  <2>1. CASE o = d
    BY <1>4, <2>1
  <2>2. CASE o # d
    BY <1>4, <2>2 DEF DialingInv
  <2> QED
    BY <2>1, <2>2
<1> QED
  BY <1>1, <1>4, <1>5 DEF DialingInv

LEMMA QueryingRight ==
    ASSUME DialingInv, NEW t \in DialThread, t.host \in Hosts, t.addrs = <<>>, NEW server \in Nat
    PROVE  ThreadRight(Querying(t, server), observed, now, prefer)
<1>1. FirstFamily \in Families
  BY DEF DialingInv, FirstFamily, Families
<1> DEFINE q == Querying(t, server)
<1>2. q \in DialThread /\ q.host = t.host /\ q.addrs = <<>> /\ q.pc \in {"first", "system"}
  <2>1. CASE server > Servers
    <3>1. q = [t EXCEPT !.pc = "system", !.waits = {}]
      BY <2>1 DEF Querying
    <3>2. "system" \in Pcs /\ {} \in SUBSET Families
      BY DEF Pcs
    <3> QED
      BY <3>1, <3>2 DEF DialThread
  <2>2. CASE ~(server > Servers)
    <3>1. q = [t EXCEPT !.pc = "first", !.server = server, !.waits = {FirstFamily}]
      BY <2>2 DEF Querying
    <3>2. "first" \in Pcs /\ {FirstFamily} \in SUBSET Families
      BY <1>1 DEF Pcs
    <3> QED
      BY <3>1, <3>2 DEF DialThread
  <2> QED
    BY <2>1, <2>2
<1> HIDE DEF q
<1>3. ThreadRight(q, observed, now, prefer)
  BY <1>2 DEF ThreadRight
<1> QED
  BY <1>3 DEF q

(***************************************************************************)
(* The cache.                                                              *)
(***************************************************************************)
LEMMA WithoutRight ==
    ASSUME CacheRight(cache, observed), NEW h \in DOMAIN cache
    PROVE  /\ CacheRight(Without(h), observed)
           /\ DOMAIN Without(h) = DOMAIN cache \ {h}
           /\ Cardinality(DOMAIN Without(h)) = Cardinality(DOMAIN cache) - 1
<1>1. /\ DOMAIN Without(h) = DOMAIN cache \ {h}
      /\ \A k \in DOMAIN cache \ {h} : Without(h)[k] = cache[k]
  BY DEF Without
<1>2. /\ IsFiniteSet(DOMAIN cache \ {h})
      /\ Cardinality(DOMAIN cache \ {h}) = Cardinality(DOMAIN cache) - 1
      /\ Cardinality(DOMAIN cache) \in Nat
  BY FS_RemoveElement, FS_CardinalityType DEF CacheRight
<1>3. Cardinality(DOMAIN cache \ {h}) <= CacheSize
  BY <1>2, DialNumbers DEF CacheRight
<1> QED
  BY <1>1, <1>2, <1>3 DEF CacheRight

\* One entry more in a cache with room for it.
LEMMA EntryRight ==
    ASSUME NEW room, CacheRight(room, observed), NEW h \in Hosts,
           h \in DOMAIN room \/ Cardinality(DOMAIN room) < CacheSize,
           NEW entry, entry.at \in Nat, entry.addrs \in Seq(SeenSince(observed, h, entry.at))
    PROVE  CacheRight([k \in DOMAIN room \cup {h} |-> IF k = h THEN entry ELSE room[k]], observed)
<1> DEFINE c == [k \in DOMAIN room \cup {h} |-> IF k = h THEN entry ELSE room[k]]
<1>1. /\ DOMAIN c = DOMAIN room \cup {h}
      /\ c[h] = entry /\ \A k \in DOMAIN room \ {h} : c[k] = room[k]
  OBVIOUS
<1> HIDE DEF c
<1>2. IsFiniteSet(DOMAIN room) /\ Cardinality(DOMAIN room) \in Nat
  BY FS_CardinalityType DEF CacheRight
<1>3. IsFiniteSet(DOMAIN c) /\ Cardinality(DOMAIN c) <= CacheSize
  <2>1. CASE h \in DOMAIN room
    <3>1. DOMAIN c = DOMAIN room
      BY <1>1, <2>1
    <3> QED
      BY <3>1 DEF CacheRight
  <2>2. CASE h \notin DOMAIN room
    <3>1. /\ IsFiniteSet(DOMAIN room \cup {h})
          /\ Cardinality(DOMAIN room \cup {h}) = Cardinality(DOMAIN room) + 1
      BY <1>2, <2>2, FS_AddElement
    <3> QED
      BY <1>1, <1>2, <2>2, <3>1, DialNumbers
  <2> QED
    BY <2>1, <2>2
<1>4. \A k \in DOMAIN c : c[k].at \in Nat /\ c[k].addrs \in Seq(SeenSince(observed, k, c[k].at))
  <2> TAKE k \in DOMAIN c
  <2>1. CASE k = h
    BY <1>1, <2>1
  <2>2. CASE k # h
    <3>1. k \in DOMAIN room /\ c[k] = room[k]
      BY <1>1, <2>2
    <3> QED
      BY <3>1 DEF CacheRight
  <2> QED
    BY <2>1, <2>2
<1>5. DOMAIN c \subseteq Hosts
  BY <1>1 DEF CacheRight
<1>6. CacheRight(c, observed)
  BY <1>3, <1>4, <1>5 DEF CacheRight
<1> QED
  BY <1>6 DEF c

LEMMA InsertedRight ==
    ASSUME DialingInv, NEW h \in Hosts, NEW addrs \in Seq(SeenSince(observed, h, now)),
           NEW c \in Inserted(h, addrs)
    PROVE  CacheRight(c, observed)
<1> DEFINE oldest == {k \in DOMAIN cache : \A o \in DOMAIN cache : cache[k].at <= cache[o].at}
           full == Cardinality(DOMAIN cache) >= CacheSize /\ h \notin DOMAIN cache
           rooms == IF full THEN {Without(k) : k \in oldest} ELSE {cache}
           entry == [addrs |-> addrs, at |-> now]
<1>1. PICK room \in rooms : c = [k \in DOMAIN room \cup {h} |-> IF k = h THEN entry ELSE room[k]]
  BY DEF Inserted
<1>2. CacheRight(cache, observed) /\ now \in Nat
  BY DEF DialingInv, ZoneRight
<1>3. IsFiniteSet(DOMAIN cache) /\ Cardinality(DOMAIN cache) \in Nat /\ Cardinality(DOMAIN cache) <= CacheSize
  BY <1>2, FS_CardinalityType DEF CacheRight
<1>4. CacheRight(room, observed) /\ (h \in DOMAIN room \/ Cardinality(DOMAIN room) < CacheSize)
  <2>1. CASE full
    <3>1. PICK k \in oldest : room = Without(k)
      BY <1>1, <2>1
    <3>2. k \in DOMAIN cache
      OBVIOUS
    <3>3. CacheRight(room, observed) /\ Cardinality(DOMAIN room) = Cardinality(DOMAIN cache) - 1
      BY <1>2, <3>1, <3>2, WithoutRight
    <3> QED
      BY <1>3, <3>3, DialNumbers
  <2>2. CASE ~full
    <3>1. room = cache
      BY <1>1, <2>2
    <3> QED
      BY <1>2, <1>3, <2>2, <3>1, DialNumbers
  <2> QED
    BY <2>1, <2>2
<1>5. entry.at = now /\ entry.addrs = addrs
  OBVIOUS
<1> HIDE DEF rooms, entry, full, oldest
<1>6. entry.at \in Nat /\ entry.addrs \in Seq(SeenSince(observed, h, entry.at))
  BY <1>2, <1>5
<1>7. CacheRight([k \in DOMAIN room \cup {h} |-> IF k = h THEN entry ELSE room[k]], observed)
  BY <1>4, <1>6, EntryRight
<1> QED
  BY <1>1, <1>7

(***************************************************************************)
(* Threads.                                                                *)
(***************************************************************************)

\* What was there at the last tick was there within the life of an entry.
LEMMA SeenLately ==
    ASSUME NEW obs, NEW h \in Hosts, obs \in [Hosts -> [Known -> Int]],
           NEW m \in Nat, NEW moment \in Nat, moment - m < Ttl
    PROVE  SeenSince(obs, h, m) \subseteq SeenSince(obs, h, moment - Ttl + 1)
<1>1. Ttl \in Nat
  BY DialNumbers
<1>2. \A a \in Known : obs[h][a] \in Int
  OBVIOUS
<1> QED
  BY <1>1, <1>2 DEF SeenSince

\* A thread starts to dial addresses that are known since m.
LEMMA DialRight ==
    ASSUME DialingInv, NEW t \in DialThread, t.host \in Hosts, NEW m \in Nat, now - m < Ttl,
           NEW addrs \in Seq(SeenSince(observed, t.host, m)),
           NEW u, u = [t EXCEPT !.pc = "dial", !.addrs = SortByPreference(addrs), !.taken = now]
    PROVE  ThreadRight(u, observed, now, prefer)
<1>1. now \in Nat /\ observed \in [Hosts -> [Known -> Int]]
  BY DEF DialingInv, ZoneRight
<1> DEFINE sorted == SortByPreference(addrs)
<1>2. sorted \in Seq(SeenSince(observed, t.host, m)) /\ PreferredFirst(sorted, prefer)
  BY SortFacts
<1> HIDE DEF sorted
<1>3. sorted \in Seq(SeenSince(observed, t.host, now - Ttl + 1))
  BY <1>1, <1>2, SeenLately, SeqGrows
<1>4. sorted \in Seq(Known)
  <2>1. SeenSince(observed, t.host, m) \subseteq Known
    BY DEF SeenSince
  <2> QED
    BY <1>2, <2>1, SeqGrows
<1>5. "dial" \in Pcs
  BY DEF Pcs
<1>6. u \in DialThread
  BY <1>1, <1>4, <1>5 DEF DialThread, sorted
<1>7. u.pc = "dial" /\ u.host = t.host /\ u.addrs = sorted /\ u.taken = now
  BY DEF DialThread, sorted
<1> QED
  BY <1>2, <1>3, <1>6, <1>7 DEF ThreadRight

LEMMA ResolvedKeeps ==
    ASSUME DialingInv, Still, NEW d \in Dialers, NEW t \in DialThread, t.host \in Hosts,
           NEW addrs \in Seq(SeenSince(observed, t.host, now)), Resolved(d, t, addrs)
    PROVE  DialingInv'
<1>1. now \in Nat /\ now - now < Ttl
  BY DialNumbers DEF DialingInv, ZoneRight
<1>2. SortByPreference(addrs) \in Seq(SeenSince(observed, t.host, now))
  BY SortFacts
<1>3. CacheRight(cache', observed)
  <2>1. cache' \in Inserted(t.host, SortByPreference(addrs))
    BY DEF Resolved
  <2> QED
    BY <1>2, <2>1, InsertedRight
<1>4. CASE addrs = <<>>
  <2>1. Put(d, DialerIdle)
    BY <1>4 DEF Resolved
  <2> QED
    BY <1>3, <2>1, IdleIsRight, ThreadMoves
<1>5. CASE addrs # <<>>
  <2> DEFINE u == [t EXCEPT !.pc = "dial", !.addrs = SortByPreference(addrs), !.taken = now]
  <2>1. Put(d, u)
    BY <1>5 DEF Resolved
  <2>2. ThreadRight(u, observed, now, prefer)
    BY <1>1, DialRight
  <2> HIDE DEF u
  <2> QED
    BY <1>3, <2>1, <2>2, ThreadMoves
<1> QED
  BY <1>4, <1>5

LEMMA AnswersSeen ==
    ASSUME DialingInv, NEW h \in Hosts, NEW S, S \subseteq zone[h]
    PROVE  InOrder(S) \in Seq(SeenSince(observed, h, now))
<1>1. S \cap Known \subseteq SeenSince(observed, h, now)
  <2> SUFFICES ASSUME NEW a \in S \cap Known PROVE observed[h][a] >= now
    BY DEF SeenSince
  <2>1. observed[h][a] = now /\ now \in Nat
    BY DEF DialingInv, ZoneRight
  <2> QED
    BY <2>1
<1> QED
  BY <1>1, InOrderFacts, SeqGrows

LEMMA AnswerSeen ==
    ASSUME DialingInv, NEW h \in Hosts, NEW f, NEW answer \in AnswersTo(h, f)
    PROVE  answer \in Seq(SeenSince(observed, h, now))
<1> DEFINE all == InOrder(zone[h] \cap OfFamily(f))
           K == SeenSince(observed, h, now)
<1>1. all \in Seq(K)
  BY AnswersSeen
<1>2. PICK k \in 0..Len(all) : answer = SubSeq(all, 1, k)
  BY DEF AnswersTo
<1> HIDE DEF all, K
<1>3. SubSeq(all, 1, k) \in Seq(K)
  BY <1>1, <1>2
<1> QED
  BY <1>2, <1>3 DEF K

\* A question is over: the next one, the next server, or the result.
LEMMA PhaseKeeps ==
    ASSUME DialingInv, Still, NEW d \in Dialers, NEW t \in DialThread, t.host \in Hosts,
           t.pc \in {"first", "second"}, t.addrs \in Seq(SeenSince(observed, t.host, now)), Phase(d, t)
    PROVE  DialingInv'
<1>1. CacheRight(cache, observed)
  BY DEF DialingInv
<1>2. CASE t.pc = "first"
  <2> DEFINE u == [t EXCEPT !.pc = "second", !.waits = @ \cup {SecondFamily}]
  <2>1. Put(d, u) /\ cache' = cache
    BY <1>2 DEF Phase
  <2>2. "second" \in Pcs /\ SecondFamily \in Families
    BY DEF Pcs, SecondFamily, Families
  <2>3. u \in DialThread /\ u.pc = "second" /\ u.host = t.host /\ u.addrs = t.addrs
    BY <2>2 DEF DialThread
  <2> HIDE DEF u
  <2>4. ThreadRight(u, observed, now, prefer)
    BY <2>3 DEF ThreadRight
  <2> QED
    BY <1>1, <2>1, <2>4, ThreadMoves
<1>3. CASE t.pc = "second" /\ t.addrs # <<>>
  <2>1. Resolved(d, t, t.addrs)
    BY <1>3 DEF Phase
  <2> QED
    BY <2>1, ResolvedKeeps
<1>4. CASE t.pc = "second" /\ t.addrs = <<>>
  <2>1. Put(d, Querying(t, t.server + 1)) /\ cache' = cache
    BY <1>4 DEF Phase
  <2>2. t.server + 1 \in Nat
    BY DEF DialThread
  <2>3. ThreadRight(Querying(t, t.server + 1), observed, now, prefer)
    BY <1>4, <2>2, QueryingRight
  <2> QED
    BY <1>1, <2>1, <2>3, ThreadMoves
<1> QED
  BY <1>2, <1>3, <1>4

(***************************************************************************)
(* The actions.                                                            *)
(***************************************************************************)
LEMMA DialHostKeeps ==
    ASSUME DialingInv, NEW d \in Dialers, NEW h \in Hosts, DialHost(d, h)
    PROVE  DialingInv'
<1> DEFINE t == [DialerIdle EXCEPT !.host = h]
<1>1. Still
  BY DEF DialHost, Still
<1>2. CacheRight(cache, observed) /\ now \in Nat
  BY DEF DialingInv, ZoneRight
<1>3. t \in DialThread /\ t.host = h /\ t.addrs = <<>>
  <2>1. DialerIdle \in DialThread /\ DialerIdle.addrs = <<>>
    BY IdleIsRight DEF ThreadRight, DialerIdle
  <2> HIDE DEF DialerIdle
  <2> QED
    BY <2>1 DEF DialThread
<1> HIDE DEF t
<1>4. CacheRight(cache', observed)
  <2>1. CASE h \in DOMAIN cache /\ ~CacheFresh(h)
    <3>1. cache' = Without(h)
      BY <2>1 DEF DialHost
    <3> QED
      BY <1>2, <2>1, <3>1, WithoutRight
  <2>2. CASE ~(h \in DOMAIN cache /\ ~CacheFresh(h))
    BY <1>2, <2>2 DEF DialHost
  <2> QED
    BY <2>1, <2>2
<1>5. CASE CacheFresh(h) /\ cache[h].addrs # <<>>
  <2> DEFINE u == [t EXCEPT !.pc = "dial", !.addrs = SortByPreference(cache[h].addrs), !.taken = now]
  <2>1. Put(d, u)
    BY <1>5 DEF DialHost, t
  <2>2. /\ h \in DOMAIN cache /\ now - cache[h].at < Ttl
        /\ cache[h].at \in Nat /\ cache[h].addrs \in Seq(SeenSince(observed, h, cache[h].at))
    BY <1>2, <1>5 DEF CacheFresh, CacheRight
  <2>3. ThreadRight(u, observed, now, prefer)
    BY <1>3, <2>2, DialRight
  <2> HIDE DEF u
  <2> QED
    BY <1>1, <1>4, <2>1, <2>3, ThreadMoves
<1>6. CASE ~(CacheFresh(h) /\ cache[h].addrs # <<>>)
  <2>1. Put(d, Querying(t, 1))
    BY <1>6 DEF DialHost, t
  <2>2. ThreadRight(Querying(t, 1), observed, now, prefer)
    BY <1>3, QueryingRight
  <2> QED
    BY <1>1, <1>4, <2>1, <2>2, ThreadMoves
<1> QED
  BY <1>5, <1>6

LEMMA ThreadTyped ==
    ASSUME DialingInv, NEW d \in Dialers, thread[d].pc # "idle"
    PROVE  /\ thread[d] \in DialThread /\ thread[d].host \in Hosts
           /\ thread[d].pc \in {"first", "second", "system"} =>
                 thread[d].addrs \in Seq(SeenSince(observed, thread[d].host, now))
<1>1. ThreadRight(thread[d], observed, now, prefer)
  BY DEF DialingInv
<1>2. <<>> \in Seq(SeenSince(observed, thread[d].host, now))
  OBVIOUS
<1> QED
  BY <1>1, <1>2 DEF ThreadRight

LEMMA QueryAnsweredKeeps ==
    ASSUME DialingInv, NEW d \in Dialers, QueryAnswered(d)
    PROVE  DialingInv'
<1> DEFINE t == thread[d]
<1>1. t.pc \in {"first", "second"} /\ Still
  BY DEF QueryAnswered, Still
<1>2. PICK f \in t.waits : \E answer \in AnswersTo(t.host, f) :
         Phase(d, [t EXCEPT !.waits = @ \ {f}, !.addrs = @ \o answer])
  BY DEF QueryAnswered
<1>3. PICK answer \in AnswersTo(t.host, f) :
         Phase(d, [t EXCEPT !.waits = @ \ {f}, !.addrs = @ \o answer])
  BY <1>2
<1>4. t \in DialThread /\ t.host \in Hosts /\ t.addrs \in Seq(SeenSince(observed, t.host, now))
  BY <1>1, ThreadTyped
<1> DEFINE u == [t EXCEPT !.waits = @ \ {f}, !.addrs = @ \o answer]
           K == SeenSince(observed, t.host, now)
<1> HIDE DEF t
<1>5. answer \in Seq(K)
  BY <1>4, AnswerSeen
<1>6. K \subseteq Known
  BY DEF SeenSince
<1> HIDE DEF K
<1>7. t.addrs \o answer \in Seq(K)
  BY <1>4, <1>5 DEF K
<1>8. t.addrs \o answer \in Seq(Known)
  BY <1>6, <1>7, SeqGrows
<1>9. u \in DialThread /\ u.host = t.host /\ u.pc = t.pc /\ u.addrs = t.addrs \o answer
  BY <1>4, <1>8 DEF DialThread
<1>10. Phase(d, u)
  BY <1>3
<1> HIDE DEF u
<1> QED
  BY <1>1, <1>4, <1>7, <1>9, <1>10, PhaseKeeps DEF K

LEMMA QueryEndsKeeps ==
    ASSUME DialingInv, NEW d \in Dialers, QueryTimesOut(d) \/ QueryFails(d)
    PROVE  DialingInv'
<1> DEFINE t == thread[d]
<1>1. t.pc \in {"first", "second"} /\ Still
  BY DEF QueryTimesOut, QueryFails, Still
<1>2. t \in DialThread /\ t.host \in Hosts /\ t.addrs \in Seq(SeenSince(observed, t.host, now))
  BY <1>1, ThreadTyped
<1>3. CASE QueryTimesOut(d)
  <2>1. Phase(d, t)
    BY <1>3 DEF QueryTimesOut
  <2> QED
    BY <1>1, <1>2, <2>1, PhaseKeeps
<1>4. CASE QueryFails(d) /\ t.pc = "second" /\ t.addrs # <<>>
  <2>1. Resolved(d, t, t.addrs)
    BY <1>4 DEF QueryFails
  <2> QED
    BY <1>1, <1>2, <2>1, ResolvedKeeps
<1>5. CASE QueryFails(d) /\ ~(t.pc = "second" /\ t.addrs # <<>>)
  <2> DEFINE u == [t EXCEPT !.addrs = <<>>]
  <2>1. Put(d, Querying(u, t.server + 1)) /\ cache' = cache
    BY <1>5 DEF QueryFails
  <2> HIDE DEF t
  <2>2. u \in DialThread /\ u.host = t.host /\ u.addrs = <<>> /\ t.server + 1 \in Nat
    <3>1. <<>> \in Seq(Known)
      OBVIOUS
    <3>2. t.server + 1 \in Nat
      BY <1>2 DEF DialThread
    <3>3. u \in DialThread
      BY <1>2, <3>1 DEF DialThread
    <3>4. u.host = t.host /\ u.addrs = <<>>
      BY <1>2, Zenon DEF DialThread
    <3> QED
      BY <3>2, <3>3, <3>4
  <2> HIDE DEF u
  <2>3. ThreadRight(Querying(u, t.server + 1), observed, now, prefer)
    BY <1>2, <2>2, QueryingRight
  <2> QED
    BY <1>1, <2>1, <2>3, ThreadMoves DEF DialingInv
<1> QED
  BY <1>3, <1>4, <1>5

LEMMA AskSystemKeeps ==
    ASSUME DialingInv, NEW d \in Dialers, AskSystem(d)
    PROVE  DialingInv'
<1> DEFINE t == thread[d]
<1>1. t.pc = "system" /\ Still
  BY DEF AskSystem, Still
<1>2. t \in DialThread /\ t.host \in Hosts
  BY <1>1, ThreadTyped
<1>3. ASSUME NEW S \in {zone[t.host], {}}, Resolved(d, t, InOrder(S)) PROVE DialingInv'
  <2>1. S \subseteq zone[t.host]
    OBVIOUS
  <2>2. InOrder(S) \in Seq(SeenSince(observed, t.host, now))
    BY <1>2, <2>1, AnswersSeen
  <2> QED
    BY <1>1, <1>2, <1>3, <2>2, ResolvedKeeps
<1>4. ASSUME Put(d, DialerIdle), UNCHANGED cache PROVE DialingInv'
  BY <1>1, <1>4, IdleIsRight, ThreadMoves DEF DialingInv
<1> QED
  BY <1>3, <1>4 DEF AskSystem

LEMMA ConnectKeeps ==
    ASSUME DialingInv, NEW d \in Dialers, Connect(d) \/ GiveUpDial(d)
    PROVE  DialingInv'
<1> DEFINE t == thread[d]
<1>1. t.pc \in {"dial", "connected"} /\ Still /\ cache' = cache
  BY DEF Connect, GiveUpDial, Still
<1>2. CacheRight(cache', observed) /\ ThreadRight(t, observed, now, prefer)
  BY <1>1 DEF DialingInv
<1>3. ASSUME Put(d, DialerIdle) PROVE DialingInv'
  BY <1>1, <1>2, <1>3, IdleIsRight, ThreadMoves
<1>4. ASSUME NEW p \in {"dial", "connected"}, NEW u, Put(d, u),
             u = [t EXCEPT !.pc = p, !.tried = @ + 1]
      PROVE  DialingInv'
  <2> HIDE DEF t
  <2>1. t \in DialThread
    BY <1>2 DEF ThreadRight
  <2>2. p \in Pcs /\ t.tried + 1 \in Nat
    BY <2>1 DEF Pcs, DialThread
  <2>3. /\ u \in DialThread /\ u.pc = p /\ u.host = t.host
        /\ u.addrs = t.addrs /\ u.taken = t.taken
    BY <1>4, <2>1, <2>2 DEF DialThread
  <2>4. ThreadRight(u, observed, now, prefer)
    BY <1>1, <1>2, <2>3 DEF ThreadRight
  <2> QED
    BY <1>1, <1>2, <1>4, <2>4, ThreadMoves
<1>5. ASSUME Put(d, [t EXCEPT !.tried = @ + 1]), t.pc = "dial" PROVE DialingInv'
  <2>1. t \in DialThread
    BY <1>2 DEF ThreadRight
  <2>2. [t EXCEPT !.tried = @ + 1] = [t EXCEPT !.pc = "dial", !.tried = @ + 1]
    <3> HIDE DEF t
    <3> QED
      BY <1>5, <2>1 DEF DialThread
  <2> QED
    BY <1>4, <1>5, <2>2
<1>6. CASE Connect(d)
  <2>1. \/ Put(d, [t EXCEPT !.pc = "connected", !.tried = @ + 1])
        \/ t.pc = "dial" /\ Put(d, [t EXCEPT !.tried = @ + 1])
        \/ Put(d, DialerIdle)
    BY <1>6 DEF Connect
  <2> HIDE DEF t
  <2> QED
    BY <1>3, <1>4, <1>5, <2>1
<1>7. CASE GiveUpDial(d)
  BY <1>3, <1>7 DEF GiveUpDial
<1> QED
  BY <1>6, <1>7

\* Time passes, or the zone changes: what was seen stays seen.
LEMMA TimeKeeps ==
    ASSUME DialingInv, UNCHANGED <<prefer, eyeballs, cache, thread>>,
           \A d \in Dialers : thread[d].pc = "second" => thread[d].addrs = <<>>,
           ZoneRight(zone', observed', now'),
           \A h \in Hosts : \A a \in Known : observed[h][a] <= observed'[h][a]
    PROVE  DialingInv'
<1>1. /\ observed \in [Hosts -> [Known -> Int]] /\ observed' \in [Hosts -> [Known -> Int]]
      /\ \A h \in Hosts : \A a \in Known : observed[h][a] \in Int /\ observed'[h][a] \in Int
  BY DEF DialingInv, ZoneRight
<1>2. ASSUME NEW h \in Hosts, NEW m \in Int
      PROVE  SeenSince(observed, h, m) \subseteq SeenSince(observed', h, m)
  BY <1>1 DEF SeenSince
<1>3. CacheRight(cache, observed')
  <2>1. CacheRight(cache, observed)
    BY DEF DialingInv
  <2>2. ASSUME NEW h \in DOMAIN cache
        PROVE  cache[h].at \in Nat /\ cache[h].addrs \in Seq(SeenSince(observed', h, cache[h].at))
    <3>1. /\ h \in Hosts /\ cache[h].at \in Nat
          /\ cache[h].addrs \in Seq(SeenSince(observed, h, cache[h].at))
      BY <2>1 DEF CacheRight
    <3> QED
      BY <1>2, <3>1, SeqGrows
  <2> QED
    BY <2>1, <2>2 DEF CacheRight
<1>4. ASSUME NEW d \in Dialers PROVE ThreadRight(thread[d], observed', now', prefer)
  <2> DEFINE t == thread[d]
  <2>1. ThreadRight(t, observed, now, prefer) /\ (t.pc = "second" => t.addrs = <<>>)
    BY DEF DialingInv
  <2> HIDE DEF t
  <2>2. t.pc = "second" => t.addrs \in Seq(SeenSince(observed', t.host, now'))
    <3>1. <<>> \in Seq(SeenSince(observed', t.host, now'))
      OBVIOUS
    <3> QED
      BY <2>1, <3>1
  <2>3. ASSUME t.pc \in {"dial", "connected"}
        PROVE  t.addrs \in Seq(SeenSince(observed', t.host, t.taken - Ttl + 1))
    <3>1. /\ t.host \in Hosts /\ t.taken \in Nat
          /\ t.addrs \in Seq(SeenSince(observed, t.host, t.taken - Ttl + 1))
      BY <2>1, <2>3 DEF ThreadRight, DialThread
    <3>2. t.taken - Ttl + 1 \in Int
      BY <3>1, DialNumbers
    <3> QED
      BY <1>2, <3>1, <3>2, SeqGrows
  <2>4. ThreadRight(t, observed', now', prefer)
    BY <2>1, <2>2, <2>3 DEF ThreadRight
  <2> QED
    BY <2>4 DEF t
<1> QED
  BY <1>3, <1>4 DEF DialingInv

LEMMA ClockTickKeeps ==
    ASSUME DialingInv, ClockTick
    PROVE  DialingInv'
<1>1. ZoneRight(zone, observed, now)
  BY DEF DialingInv
<1>2. /\ now \in Nat /\ now' = now + 1 /\ zone' = zone /\ zone \in [Hosts -> SUBSET Known]
      /\ observed \in [Hosts -> [Known -> Int]]
      /\ observed' = [h \in Hosts |-> [a \in Known |-> IF a \in zone[h] THEN now + 1 ELSE observed[h][a]]]
  BY <1>1 DEF ClockTick, ZoneRight, Known
<1>3. \A h \in Hosts : \A a \in Known :
         /\ observed[h][a] \in Int /\ observed[h][a] <= now
         /\ observed'[h][a] = IF a \in zone[h] THEN now + 1 ELSE observed[h][a]
  BY <1>1, <1>2 DEF ZoneRight
<1>4. observed' \in [Hosts -> [Known -> Int]]
  BY <1>2, <1>3
<1>5. \A h \in Hosts : \A a \in Known :
         /\ observed[h][a] <= observed'[h][a] /\ observed'[h][a] <= now'
         /\ (a \in zone'[h] => observed'[h][a] = now')
  BY <1>2, <1>3
<1>6. ZoneRight(zone', observed', now')
  BY <1>2, <1>4, <1>5 DEF ZoneRight
<1>7. /\ UNCHANGED <<prefer, eyeballs, cache, thread>>
      /\ \A d \in Dialers : thread[d].pc = "second" => thread[d].addrs = <<>>
  BY DEF ClockTick
<1> QED
  BY <1>5, <1>6, <1>7, TimeKeeps

LEMMA HostMovesKeeps ==
    ASSUME DialingInv, NEW h \in Hosts, HostMoves(h)
    PROVE  DialingInv'
<1>1. ZoneRight(zone, observed, now)
  BY DEF DialingInv
<1>2. PICK S \in {Range(Addresses), Known4} : zone' = [zone EXCEPT ![h] = S]
  BY DEF HostMoves
<1>3. S \in SUBSET Known
  BY DEF Known, Known4
<1>4. /\ now \in Nat /\ now' = now /\ zone \in [Hosts -> SUBSET Known]
      /\ observed \in [Hosts -> [Known -> Int]]
      /\ observed' = [observed EXCEPT ![h] = [a \in Known |->
                         IF a \in zone[h] \cup zone'[h] THEN now ELSE observed[h][a]]]
  BY <1>1 DEF HostMoves, ZoneRight, Known
<1>5. zone' \in [Hosts -> SUBSET Known] /\ zone'[h] = S /\ \A k \in Hosts \ {h} : zone'[k] = zone[k]
  BY <1>2, <1>3, <1>4
<1>6. \A k \in Hosts : \A a \in Known :
         /\ observed[k][a] \in Int /\ observed[k][a] <= now /\ (a \in zone[k] => observed[k][a] = now)
         /\ observed'[k][a] = IF k = h /\ a \in zone[h] \cup zone'[h] THEN now ELSE observed[k][a]
  BY <1>1, <1>4 DEF ZoneRight
<1>7. observed' \in [Hosts -> [Known -> Int]]
  BY <1>4
<1>8. \A k \in Hosts : \A a \in Known :
         /\ observed[k][a] <= observed'[k][a] /\ observed'[k][a] <= now'
         /\ (a \in zone'[k] => observed'[k][a] = now')
  BY <1>4, <1>5, <1>6
<1>9. ZoneRight(zone', observed', now')
  BY <1>4, <1>5, <1>7, <1>8 DEF ZoneRight
<1>10. /\ UNCHANGED <<prefer, eyeballs, cache, thread>>
       /\ \A d \in Dialers : thread[d].pc = "second" => thread[d].addrs = <<>>
  BY DEF HostMoves
<1> QED
  BY <1>8, <1>9, <1>10, TimeKeeps

LEMMA DialingInvKept == DialingInv /\ [DlNext]_dlVars => DialingInv'
<1> SUFFICES ASSUME DialingInv, [DlNext]_dlVars PROVE DialingInv'
  OBVIOUS
<1>1. ASSUME NEW d \in Dialers, NEW h \in Hosts, DialHost(d, h) PROVE DialingInv'
  BY <1>1, DialHostKeeps
<1>2. ASSUME NEW d \in Dialers, QueryAnswered(d) PROVE DialingInv'
  BY <1>2, QueryAnsweredKeeps
<1>3. ASSUME NEW d \in Dialers, QueryTimesOut(d) \/ QueryFails(d) PROVE DialingInv'
  BY <1>3, QueryEndsKeeps
<1>4. ASSUME NEW d \in Dialers, AskSystem(d) PROVE DialingInv'
  BY <1>4, AskSystemKeeps
<1>5. ASSUME NEW d \in Dialers, Connect(d) \/ GiveUpDial(d) PROVE DialingInv'
  BY <1>5, ConnectKeeps
<1>6. CASE ClockTick
  BY <1>6, ClockTickKeeps
<1>7. ASSUME NEW h \in Hosts, HostMoves(h) PROVE DialingInv'
  BY <1>7, HostMovesKeeps
<1>8. CASE UNCHANGED dlVars
  <2>1. /\ prefer' = prefer /\ eyeballs' = eyeballs /\ now' = now /\ cache' = cache
        /\ thread' = thread /\ zone' = zone /\ observed' = observed
    BY <1>8 DEF dlVars
  <2> QED
    BY <2>1 DEF DialingInv
<1> QED
  BY <1>1, <1>2, <1>3, <1>4, <1>5, <1>6, <1>7, <1>8 DEF DlNext

LEMMA DialsAreRight == DialingInv => DialsTheHost
<1> SUFFICES ASSUME DialingInv PROVE DialsTheHost
  OBVIOUS
<1>1. Cardinality(DOMAIN cache) <= CacheSize
  BY DEF DialingInv, CacheRight
<1>2. ASSUME NEW d \in Dialers, thread[d].pc \in {"dial", "connected"}
      PROVE  LET t == thread[d]
             IN  /\ \A k \in DOMAIN t.addrs : observed[t.host][t.addrs[k]] > t.taken - Ttl
                 /\ \A j, k \in DOMAIN t.addrs :
                       t.addrs[k].family = prefer /\ t.addrs[j].family # prefer => k < j
  <2> DEFINE t == thread[d]
             K == SeenSince(observed, t.host, t.taken - Ttl + 1)
  <2>1. /\ t \in DialThread /\ t.host \in Hosts /\ t.addrs \in Seq(K) /\ PreferredFirst(t.addrs, prefer)
    BY <1>2 DEF DialingInv, ThreadRight
  <2> HIDE DEF t
  <2>2. t.taken \in Nat /\ \A a \in Known : observed[t.host][a] \in Int
    BY <2>1 DEF DialThread, DialingInv, ZoneRight
  <2>3. \A a \in K : observed[t.host][a] > t.taken - Ttl
    BY <2>2, DialNumbers DEF SeenSince
  <2> HIDE DEF K
  <2>4. \A k \in DOMAIN t.addrs : t.addrs[k] \in K
    BY <2>1
  <2> QED
    BY <2>1, <2>3, <2>4 DEF PreferredFirst, t
<1> QED
  BY <1>1, <1>2 DEF DialsTheHost

\* Whatever answers are late, lost or cut, the dialer connects only to addresses
\* the host had within the life of a cache entry, the preferred family first
\* (sort_by_preference), and the cache keeps its bound (DnsCache::insert).
THEOREM DialsStayRight == DlSpec => []DialsTheHost
<1>1. DlInit => DialingInv
  BY DialingInvStarts
<1>2. DialingInv /\ [DlNext]_dlVars => DialingInv'
  BY DialingInvKept
<1>3. DialingInv => DialsTheHost
  BY DialsAreRight
<1> QED
  BY <1>1, <1>2, <1>3, PTL DEF DlSpec

-----------------------------------------------------------------------------
\* Tunnel (proxy.rs).

\* Numbers that share a quotient.
LEMMA LessByAMultiple ==
    ASSUME NEW m \in Nat, NEW p \in Nat, NEW q \in Nat, p < q
    PROVE  m * p + m <= m * q
<1>1. PICK d \in Nat : q = p + 1 + d
  <2>1. q - p - 1 \in Nat /\ q = p + 1 + (q - p - 1)
    OBVIOUS
  <2> QED
    BY <2>1
<1>2. m * q = m * p + m + m * d
  BY <1>1
<1>3. m * d \in Nat /\ m * p \in Nat
  OBVIOUS
<1> QED
  BY <1>2, <1>3

LEMMA OneQuotient ==
    ASSUME NEW m \in Nat \ {0}, NEW p \in Nat, NEW q \in Nat,
           NEW r \in 0..(m - 1), NEW s \in 0..(m - 1), m * p + r = m * q + s
    PROVE  p = q
<1>0. m * p \in Nat /\ m * q \in Nat
  OBVIOUS
<1>1. CASE p < q
  <2>1. m * p + m <= m * q
    BY <1>1, LessByAMultiple
  <2> QED
    BY <1>0, <2>1
<1>2. CASE q < p
  <2>1. m * q + m <= m * p
    BY <1>2, LessByAMultiple
  <2> QED
    BY <1>0, <2>1
<1> QED
  BY <1>1, <1>2

LEMMA SameBlock ==
    ASSUME NEW a \in Nat, NEW b \in Nat, NEW m \in Nat \ {0}
    PROVE  a \div m = b \div m <=> \E n \in 0..(m - 1) : a = (b - (b % m)) + n
<1>1. /\ a \div m \in Nat /\ a % m \in 0..(m - 1) /\ a = m * (a \div m) + (a % m)
      /\ b \div m \in Nat /\ b % m \in 0..(m - 1) /\ b = m * (b \div m) + (b % m)
  BY Division, Quotient
<1>2. m * (a \div m) \in Nat /\ m * (b \div m) \in Nat
  BY <1>1
<1>3. b - (b % m) = m * (b \div m)
  BY <1>1, <1>2
<1>4. ASSUME a \div m = b \div m PROVE a = (b - (b % m)) + (a % m)
  BY <1>1, <1>2, <1>3, <1>4
<1>5. ASSUME NEW n \in 0..(m - 1), a = (b - (b % m)) + n PROVE a \div m = b \div m
  <2>1. m * (a \div m) + (a % m) = m * (b \div m) + n
    BY <1>1, <1>2, <1>3, <1>5
  <2> QED
    BY <1>1, <2>1, OneQuotient
<1> QED
  BY <1>1, <1>4, <1>5

\* A suffix, element by element.
LEMMA SuffixAt ==
    ASSUME NEW S, NEW s \in Seq(S), NEW t \in Seq(S)
    PROVE  IsSuffix(s, t) <=> /\ Len(s) <= Len(t)
                              /\ \A i \in 1..Len(s) : s[i] = t[Len(t) - Len(s) + i]
<1>1. Len(s) \in Nat /\ Len(t) \in Nat
  BY LenProperties
<1>2. /\ Reverse(s) \in Seq(S) /\ Len(Reverse(s)) = Len(s)
      /\ Reverse(t) \in Seq(S) /\ Len(Reverse(t)) = Len(t)
  BY <1>1 DEF Reverse
<1>3. /\ \A i \in 1..Len(s) : Reverse(s)[i] = s[Len(s) - i + 1]
      /\ \A i \in 1..Len(t) : Reverse(t)[i] = t[Len(t) - i + 1]
  BY <1>1 DEF Reverse
<1>4. IsSuffix(s, t) <=> Len(s) <= Len(t) /\ SubSeq(Reverse(s), 1, Len(s)) = SubSeq(Reverse(t), 1, Len(s))
  BY <1>2 DEF IsSuffix, IsPrefix
<1> SUFFICES ASSUME Len(s) <= Len(t)
             PROVE  SubSeq(Reverse(s), 1, Len(s)) = SubSeq(Reverse(t), 1, Len(s))
                      <=> \A i \in 1..Len(s) : s[i] = t[Len(t) - Len(s) + i]
  BY <1>4
<1>5. SubSeq(Reverse(s), 1, Len(s)) = Reverse(s)
  BY <1>2, SubSeqFull
<1>6. /\ SubSeq(Reverse(t), 1, Len(s)) \in Seq(S)
      /\ Len(SubSeq(Reverse(t), 1, Len(s))) = Len(s)
      /\ \A i \in 1..Len(s) : SubSeq(Reverse(t), 1, Len(s))[i] = Reverse(t)[i]
  <2>1. \A i \in 1..Len(s) : i \in 1..Len(t)
    BY <1>1
  <2>2. \A i \in 1..Len(s) : Reverse(t)[i] \in S
    BY <1>2, <2>1, ElementOfSeq
  <2> QED
    BY <1>1, <2>2, SubSeqProperties
<1>7. SubSeq(Reverse(s), 1, Len(s)) = SubSeq(Reverse(t), 1, Len(s))
        <=> \A i \in 1..Len(s) : s[Len(s) - i + 1] = t[Len(t) - i + 1]
  <2>1. \A i \in 1..Len(s) : SubSeq(Reverse(t), 1, Len(s))[i] = t[Len(t) - i + 1]
    BY <1>1, <1>3, <1>6
  <2>2. ASSUME \A i \in 1..Len(s) : s[Len(s) - i + 1] = t[Len(t) - i + 1]
        PROVE  Reverse(s) = SubSeq(Reverse(t), 1, Len(s))
    BY <1>2, <1>3, <1>6, <2>1, <2>2, SeqEqual
  <2>3. ASSUME Reverse(s) = SubSeq(Reverse(t), 1, Len(s)), NEW i \in 1..Len(s)
        PROVE  s[Len(s) - i + 1] = t[Len(t) - i + 1]
    <3>1. Reverse(s)[i] = t[Len(t) - i + 1]
      BY <2>1, <2>3
    <3> QED
      BY <1>3, <3>1
  <2> QED
    BY <1>5, <2>2, <2>3
<1>8. (\A i \in 1..Len(s) : s[Len(s) - i + 1] = t[Len(t) - i + 1])
        <=> \A i \in 1..Len(s) : s[i] = t[Len(t) - Len(s) + i]
  <2>1. \A i \in 1..Len(s) : /\ Len(s) - i + 1 \in 1..Len(s)
                             /\ Len(s) - (Len(s) - i + 1) + 1 = i
                             /\ Len(t) - (Len(s) - i + 1) + 1 = Len(t) - Len(s) + i
    BY <1>1
  <2> QED
    BY <2>1
<1> QED
  BY <1>7, <1>8

\* An entry of a domain names what ends with it behind a dot, or is it.
LEMMA DomainNames ==
    ASSUME NEW name \in Seq(STRING), NEW domain \in Seq(STRING)
    PROVE  name = domain \/ EndsWith(name, <<".">> \o domain)
             <=> \E k \in 1..(Len(name) + 1) : /\ SubSeq(name, k, Len(name)) = domain
                                               /\ k > 1 => name[k - 1] = "."
<1> DEFINE S == STRING \cup {"."}
           dotted == <<".">> \o domain
           L == Len(name)
           D == Len(domain)
<1>1. name \in Seq(S) /\ domain \in Seq(S) /\ <<".">> \in Seq(S)
  <2>1. STRING \subseteq S /\ "." \in S
    OBVIOUS
  <2> HIDE DEF S
  <2>2. name \in Seq(S) /\ domain \in Seq(S)
    BY <2>1, SeqMonotonic
  <2> QED
    BY <2>1, <2>2
<1> HIDE DEF S
<1>2. L \in Nat /\ D \in Nat /\ Len(<<".">>) = 1 /\ <<".">>[1] = "."
  BY <1>1, LenProperties
<1>3. /\ dotted \in Seq(S) /\ Len(dotted) = D + 1 /\ dotted[1] = "."
      /\ \A i \in 1..D : dotted[i + 1] = domain[i]
  <2>1. /\ dotted \in Seq(S) /\ Len(dotted) = 1 + D
        /\ \A i \in 1..(1 + D) : dotted[i] = IF i <= 1 THEN <<".">>[i] ELSE domain[i - 1]
    BY <1>1, <1>2, ConcatProperties
  <2>2. \A i \in 1..D : i + 1 \in 1..(1 + D) /\ ~(i + 1 <= 1) /\ (i + 1) - 1 = i
    BY <1>2
  <2>3. 1 \in 1..(1 + D) /\ 1 <= 1
    BY <1>2
  <2> HIDE DEF dotted, D
  <2>4. D + 1 = 1 + D
    BY <1>2
  <2>5. \A i \in 1..D : dotted[i + 1] = domain[i]
    BY <2>1, <2>2
  <2> QED
    BY <1>2, <2>1, <2>3, <2>4, <2>5
<1> HIDE DEF dotted
<1>4. ASSUME NEW k \in 1..(L + 1)
      PROVE  SubSeq(name, k, L) = domain
               <=> D = L - k + 1 /\ \A i \in 1..D : domain[i] = name[k + i - 1]
  <2>1. \A i \in k..L : name[i] \in S
    BY <1>1, <1>2, ElementOfSeq
  <2>2. /\ SubSeq(name, k, L) \in Seq(S)
        /\ Len(SubSeq(name, k, L)) = L - k + 1
        /\ \A i \in 1..(L - k + 1) : SubSeq(name, k, L)[i] = name[k + i - 1]
    BY <1>2, <2>1, SubSeqProperties
  <2>3. domain \in Seq(S) /\ Len(domain) = D
    BY <1>1
  <2>4. SubSeq(name, k, L) = domain
          <=> /\ Len(SubSeq(name, k, L)) = D
              /\ \A i \in 1..Len(SubSeq(name, k, L)) : SubSeq(name, k, L)[i] = domain[i]
    BY <2>2, <2>3, SeqEqual
  <2> HIDE DEF L, D
  <2> QED
    BY <2>2, <2>4
<1>5. EndsWith(name, dotted) <=> /\ D + 1 <= L /\ name[L - D] = "."
                                 /\ \A i \in 1..D : domain[i] = name[L - D + i]
  <2>1. EndsWith(name, dotted) <=> /\ D + 1 <= L
                                   /\ \A i \in 1..(D + 1) : dotted[i] = name[L - (D + 1) + i]
    <3>1. IsSuffix(dotted, name)
            <=> /\ Len(dotted) <= Len(name)
                /\ \A i \in 1..Len(dotted) : dotted[i] = name[Len(name) - Len(dotted) + i]
      BY <1>1, <1>3, SuffixAt
    <3> QED
      BY <1>3, <3>1 DEF EndsWith
  <2>2. (\A i \in 1..(D + 1) : dotted[i] = name[L - (D + 1) + i])
          <=> dotted[1] = name[L - (D + 1) + 1]
              /\ \A i \in 1..D : dotted[i + 1] = name[L - (D + 1) + (i + 1)]
    <3>1. \A i \in 1..(D + 1) : i = 1 \/ (i - 1 \in 1..D /\ (i - 1) + 1 = i)
      BY <1>2
    <3>2. 1 \in 1..(D + 1) /\ \A i \in 1..D : i + 1 \in 1..(D + 1)
      BY <1>2
    <3> QED
      BY <3>1, <3>2
  <2>3. L - (D + 1) + 1 = L - D /\ \A i \in 1..D : L - (D + 1) + (i + 1) = L - D + i
    BY <1>2
  <2> QED
    BY <1>3, <2>1, <2>2, <2>3
<1>6. name = domain <=> D = L /\ \A i \in 1..D : domain[i] = name[i]
  BY <1>1, SeqEqual
<1>7. ASSUME name = domain
      PROVE  1 \in 1..(L + 1) /\ SubSeq(name, 1, L) = domain
  BY <1>1, <1>2, <1>7, SubSeqFull
<1>8. ASSUME EndsWith(name, dotted)
      PROVE  /\ L - D + 1 \in 1..(L + 1) /\ SubSeq(name, L - D + 1, L) = domain
             /\ name[(L - D + 1) - 1] = "."
  <2>1. L - D + 1 \in 1..(L + 1) /\ D = L - (L - D + 1) + 1 /\ (L - D + 1) - 1 = L - D
    BY <1>2, <1>5, <1>8
  <2>2. \A i \in 1..D : (L - D + 1) + i - 1 = L - D + i
    BY <1>2
  <2> QED
    BY <1>4, <1>5, <1>8, <2>1, <2>2
<1>9. ASSUME NEW k \in 1..(L + 1), SubSeq(name, k, L) = domain, k > 1 => name[k - 1] = "."
      PROVE  name = domain \/ EndsWith(name, dotted)
  <2>1. D = L - k + 1 /\ \A i \in 1..D : domain[i] = name[k + i - 1]
    BY <1>4, <1>9
  <2>2. CASE k = 1
    BY <1>1, <1>2, <1>9, <2>2, SubSeqFull
  <2>3. CASE k > 1
    <3>1. D + 1 <= L /\ L - D = k - 1 /\ \A i \in 1..D : L - D + i = k + i - 1
      BY <1>2, <2>1, <2>3
    <3> QED
      BY <1>5, <1>9, <2>1, <2>3, <3>1
  <2> QED
    BY <2>2, <2>3
<1> QED
  <2>1. L - D + 1 > 1 => (L - D + 1) - 1 = L - D
    BY <1>2
  <2>2. ASSUME name = domain \/ EndsWith(name, dotted)
        PROVE  \E k \in 1..(L + 1) : SubSeq(name, k, L) = domain /\ (k > 1 => name[k - 1] = ".")
    <3>1. CASE name = domain
      <4>1. ~(1 > 1)
        OBVIOUS
      <4> QED
        BY <1>7, <3>1, <4>1
    <3>2. CASE EndsWith(name, dotted)
      <4> DEFINE k == L - D + 1
      <4>1. k \in 1..(L + 1) /\ SubSeq(name, k, L) = domain /\ name[k - 1] = "."
        BY <1>8, <3>2
      <4> QED
        BY <4>1
    <3> QED
      BY <2>2, <3>1, <3>2
  <2> QED
    BY <1>9, <2>2 DEF dotted

\* The list is read as it is meant: an entry matches the hosts it names.
LEMMA MatchesAreNames ==
    ASSUME NEW h \in Targets, ~h.full, NEW e \in Entries
    PROVE  HostMatchesEntry(h, e) <=> Names(e, h)
<1>1. /\ h.name \in Seq(STRING) /\ h.ip \in Int
      /\ e.name \in Seq(STRING) /\ e.ip \in Nat /\ e.prefix \in Nat /\ Bits \in Nat
  BY TunnelAssumption
<1>2. CASE e.kind \in {"dotted", "domain"}
  BY <1>1, <1>2, DomainNames DEF HostMatchesEntry, Names
<1>3. CASE e.kind = "ip"
  BY <1>1, <1>3 DEF HostMatchesEntry, Names, IsAddress
<1>4. CASE e.kind = "cidr"
  <2>1. HostMatchesEntry(h, e) <=> h.ip >= 0 /\ InCidr(h.ip, e.ip, e.prefix)
    BY <1>4 DEF HostMatchesEntry, IsAddress
  <2>2. Names(e, h) <=> h.ip >= 0 /\ e.prefix <= Bits
                          /\ \E n \in 0..(2 ^ (Bits - e.prefix) - 1) :
                                h.ip = (e.ip - (e.ip % 2 ^ (Bits - e.prefix))) + n
    BY <1>4 DEF Names
  <2>3. CASE h.ip >= 0 /\ e.prefix <= Bits
    <3>1. h.ip \in Nat /\ Bits - e.prefix \in Nat
      BY <1>1, <2>3
    <3>2. 2 ^ (Bits - e.prefix) \in Nat \ {0}
      BY <3>1, TwoToThe
    <3>3. h.ip \div 2 ^ (Bits - e.prefix) = e.ip \div 2 ^ (Bits - e.prefix)
            <=> \E n \in 0..(2 ^ (Bits - e.prefix) - 1) :
                    h.ip = (e.ip - (e.ip % 2 ^ (Bits - e.prefix))) + n
      BY <1>1, <3>1, <3>2, SameBlock
    <3> QED
      BY <2>1, <2>2, <2>3, <3>3 DEF InCidr
  <2>4. CASE ~(h.ip >= 0 /\ e.prefix <= Bits)
    BY <2>1, <2>2, <2>4 DEF InCidr
  <2> QED
    BY <2>3, <2>4
<1>5. CASE e.kind \notin {"dotted", "domain", "ip", "cidr"}
  BY <1>5 DEF HostMatchesEntry, Names
<1> QED
  BY <1>2, <1>3, <1>4, <1>5

(***************************************************************************)
(* The handshake.                                                          *)
(***************************************************************************)
Messages == {"connect", "greeting", "password", "request"}
Bytes == {"200", "407", "line", "end", "v4", "v5", "v1", "none", "password", "no", "ok", "wrong",
          "0", "4", "6", "name", "refused", "?", "b", "host"} \cup Nat
HostBytes == <<"host", "host">>

\* What the proxy does when it answers the message, and all that comes then.
Accepts(message, r) ==
    \/ message = "connect" /\ r[1] = "200" /\ Last(r) = "end"
    \/ message = "request" /\ r[2] = "ok" /\ r[4] # "?"
Whole(message, r) == r \o (IF Accepts(message, r) THEN HostBytes ELSE <<>>)

\* The message whose reply a read is for, and what the first read of it wants.
MessageAt(where) ==
    CASE where = "head" -> "connect" [] where = "method" -> "greeting"
      [] where = "auth" -> "password" [] OTHER -> "request"
FirstWants(where) == CASE where = "head" -> 1 [] where = "reply" -> 4 [] OTHER -> 2

Reading == {"head", "method", "auth", "reply", "length", "bound"}

\* Nothing has come of the reply yet.
Unanswered ==
    /\ tun \in {"head", "method", "auth", "reply"}
    /\ replied + 1 = Len(requested)
    /\ requested[Len(requested)] = MessageAt(tun)
    /\ ~established
    /\ stream = <<>> /\ heard = <<>> /\ wants = FirstWants(tun)

\* The reply is cut at two places: before what this read has got so far, and
\* behind it.
Partly(r, b, c) ==
    LET all == Whole(MessageAt(tun), r)
    IN  /\ established = Accepts(MessageAt(tun), r)
        /\ b <= c
        /\ heard = SubSeq(all, b + 1, c)
        /\ stream = SubSeq(all, c + 1, Len(all))
        /\ tun # "bound" => b = IF tun = "length" THEN 4 ELSE 0
        /\ tun = "head" => /\ wants \in {0, 1} /\ c + wants >= 1
                           /\ \A i \in 1..(c + wants - 1) : all[i] # "end"
        /\ tun \in {"method", "auth"} => c + wants = 2
        /\ tun = "reply" => c + wants = 4
        /\ tun = "length" => c + wants = 5 /\ r[2] = "ok" /\ r[4] = "name"
        /\ tun = "bound" => c + wants = Len(r) /\ r[2] = "ok" /\ r[4] # "?"

Answered ==
    /\ tun \in Reading /\ wants \in Nat
    /\ replied = Len(requested)
    /\ \E r \in RepliesTo(MessageAt(tun)) : \E b, c \in 0..Len(Whole(MessageAt(tun), r)) : Partly(r, b, c)

HandshakeInv ==
    \/ tun \in {"start", "direct"} /\ requested = <<>> /\ replied = 0 /\ wants = 0
         /\ stream = <<>> /\ ~established
    \/ tun \in {"failed", "panicked"} /\ wants = 0
    \/ tun = "open" /\ wants = 0 /\ replied = Len(requested) /\ established /\ stream = HostBytes
    \/ Unanswered
    \/ Answered

TunnelInv ==
    /\ target \in Targets /\ noProxy \in SeqOf(Entries, MaxEntries)
    /\ requested \in Seq(Messages) /\ replied \in Nat
    /\ tun = "direct" => Bypasses(target, noProxy) \/ proxy.scheme = "none"
    /\ tun \notin {"start", "direct"} => ~Bypasses(target, noProxy)
    /\ HandshakeInv

\* Sequences of up to five elements, with more of them behind.
LEMMA Concat ==
    ASSUME NEW s \in Seq(Bytes), NEW t \in Seq(Bytes)
    PROVE  /\ s \o t \in Seq(Bytes) /\ Len(s \o t) = Len(s) + Len(t)
           /\ \A i \in 1..Len(s) : (s \o t)[i] = s[i]
<1>1. Len(s) \in Nat /\ Len(t) \in Nat
  BY LenProperties
<1>2. \A i \in 1..Len(s) : i \in 1..(Len(s) + Len(t))
  BY <1>1
<1> QED
  BY <1>1, <1>2, ConcatProperties

LEMMA BoundIs == ASSUME NEW n \in Nat PROVE Bound(n) \in Seq(Bytes) /\ Len(Bound(n)) = n
<1>1. "b" \in Bytes
  BY DEF Bytes
<1> QED
  BY <1>1 DEF Bound

LEMMA ReplyBound ==
    ASSUME NEW s \in Seq(Bytes), Len(s) >= 4, NEW n \in Nat
    PROVE  /\ s \o Bound(n) \in Seq(Bytes) /\ Len(s \o Bound(n)) = Len(s) + n
           /\ (s \o Bound(n))[4] = s[4]
           /\ Len(s) >= 5 => (s \o Bound(n))[5] = s[5]
<1>1. Len(s) \in Nat
  BY LenProperties
<1>2. 4 \in 1..Len(s) /\ (Len(s) >= 5 => 5 \in 1..Len(s))
  BY <1>1
<1> QED
  BY <1>1, <1>2, Concat, BoundIs

\* What all replies to a message have in common.
LEMMA ConnectReplies ==
    ASSUME NEW r \in RepliesTo("connect")
    PROVE  /\ r \in Seq(Bytes) /\ Len(r) >= 2 /\ Last(r) = r[Len(r)]
           /\ \A i \in 1..(Len(r) - 1) : r[i] # "end"
<1>1. r \in {<<"200", "end">>, <<"200", "line", "end">>, <<"407", "end">>, <<"200", "line", "line">>}
  BY DEF RepliesTo
<1>2. {"200", "end", "line", "407"} \subseteq Bytes
  BY DEF Bytes
<1> DEFINE Good(s) == s \in Seq(Bytes) /\ Len(s) >= 2 /\ \A i \in 1..(Len(s) - 1) : s[i] # "end"
<1>3. Good(<<"200", "end">>)
  <2>1. <<"200", "end">> \in Seq(Bytes) /\ Len(<<"200", "end">>) = 2
    BY <1>2
  <2> QED
    BY <2>1
<1>4. Good(<<"407", "end">>)
  <2>1. <<"407", "end">> \in Seq(Bytes) /\ Len(<<"407", "end">>) = 2
    BY <1>2
  <2> QED
    BY <2>1
<1>5. Good(<<"200", "line", "end">>)
  <2>1. <<"200", "line", "end">> \in Seq(Bytes) /\ Len(<<"200", "line", "end">>) = 3
    BY <1>2
  <2> QED
    BY <2>1
<1>6. Good(<<"200", "line", "line">>)
  <2>1. <<"200", "line", "line">> \in Seq(Bytes) /\ Len(<<"200", "line", "line">>) = 3
    BY <1>2
  <2> QED
    BY <2>1
<1> HIDE DEF Good
<1>7. Good(r)
  BY <1>1, <1>3, <1>4, <1>5, <1>6
<1> QED
  BY <1>7 DEF Last, Good

LEMMA ShortReplies ==
    ASSUME NEW m \in {"greeting", "password"}, NEW r \in RepliesTo(m)
    PROVE  r \in Seq(Bytes) /\ Len(r) = 2 /\ ~Accepts(m, r)
<1>1. r \in {<<"v5", "none">>, <<"v5", "password">>, <<"v5", "no">>, <<"v4", "none">>,
             <<"v1", "ok">>, <<"v1", "wrong">>}
  BY DEF RepliesTo
<1>2. {"v5", "none", "password", "no", "v4", "v1", "ok", "wrong"} \subseteq Bytes
  BY DEF Bytes
<1>3. \A x, y \in Bytes : <<x, y>> \in Seq(Bytes) /\ Len(<<x, y>>) = 2
  OBVIOUS
<1>4. \E x, y \in Bytes : r = <<x, y>>
  <2> HIDE DEF Bytes
  <2> QED
    BY <1>1, <1>2
<1> HIDE DEF Bytes
<1>5. r \in Seq(Bytes) /\ Len(r) = 2
  BY <1>3, <1>4
<1> QED
  BY <1>5 DEF Accepts

LEMMA RequestReplies ==
    ASSUME NEW r \in RepliesTo("request")
    PROVE  /\ r \in Seq(Bytes) /\ Len(r) >= 4
           /\ r[4] \in {"4", "6", "name", "?"}
           /\ r[4] = "4" => Len(r) = 7
           /\ r[4] = "6" => Len(r) = 9
           /\ r[4] = "name" => Len(r) >= 5 /\ r[5] \in Nat /\ Len(r) = r[5] + 7
<1> DEFINE Shape == r \in Seq(Bytes) /\ Len(r) >= 4
           a == <<"v5", "ok", "0", "4">>
           b == <<"v5", "ok", "0", "6">>
           c == <<"v5", "ok", "0", "name", 0>>
           d == <<"v5", "ok", "0", "name", 2>>
           e == <<"v5", "refused", "0", "4">>
           f == <<"v5", "ok", "0", "?">>
<1>1. r \in {a \o Bound(3), b \o Bound(5), c \o Bound(2), d \o Bound(4), e \o Bound(3), f}
  BY DEF RepliesTo
<1>2. {"v5", "ok", "0", "4", "6", "name", "refused", "?"} \subseteq Bytes /\ 0 \in Bytes /\ 2 \in Bytes
  BY DEF Bytes
<1>3. /\ a \in Seq(Bytes) /\ Len(a) = 4 /\ a[4] = "4"
      /\ b \in Seq(Bytes) /\ Len(b) = 4 /\ b[4] = "6"
      /\ e \in Seq(Bytes) /\ Len(e) = 4 /\ e[4] = "4"
      /\ f \in Seq(Bytes) /\ Len(f) = 4 /\ f[4] = "?"
  BY <1>2
<1>4. /\ c \in Seq(Bytes) /\ Len(c) = 5 /\ c[4] = "name" /\ c[5] = 0
      /\ d \in Seq(Bytes) /\ Len(d) = 5 /\ d[4] = "name" /\ d[5] = 2
  BY <1>2
<1> HIDE DEF a, b, c, d, e, f
<1>5. CASE r = a \o Bound(3)
  <2>0. /\ a \o Bound(3) \in Seq(Bytes) /\ Len(a \o Bound(3)) = Len(a) + 3
        /\ (a \o Bound(3))[4] = a[4]
    <3>1. a \in Seq(Bytes) /\ Len(a) >= 4 /\ Len(a) >= 4 /\ 3 \in Nat
      BY <1>3
    <3> QED
      BY <3>1, ReplyBound
  <2>1. r \in Seq(Bytes) /\ Len(r) = 7 /\ r[4] = "4"
    BY <1>3, <1>5, <2>0
  <2> QED
    BY <2>1
<1>6. CASE r = b \o Bound(5)
  <2>0. /\ b \o Bound(5) \in Seq(Bytes) /\ Len(b \o Bound(5)) = Len(b) + 5
        /\ (b \o Bound(5))[4] = b[4]
    <3>1. b \in Seq(Bytes) /\ Len(b) >= 4 /\ Len(b) >= 4 /\ 5 \in Nat
      BY <1>3
    <3> QED
      BY <3>1, ReplyBound
  <2>1. r \in Seq(Bytes) /\ Len(r) = 9 /\ r[4] = "6"
    BY <1>3, <1>6, <2>0
  <2> QED
    BY <2>1
<1>7. CASE r = c \o Bound(2)
  <2>0. /\ c \o Bound(2) \in Seq(Bytes) /\ Len(c \o Bound(2)) = Len(c) + 2
        /\ (c \o Bound(2))[4] = c[4] /\ (c \o Bound(2))[5] = c[5]
    <3>1. c \in Seq(Bytes) /\ Len(c) >= 5 /\ Len(c) >= 4 /\ 2 \in Nat
      BY <1>4
    <3> QED
      BY <3>1, ReplyBound
  <2>1. r \in Seq(Bytes) /\ Len(r) = 7 /\ r[4] = "name" /\ r[5] = 0
    BY <1>4, <1>7, <2>0
  <2> QED
    BY <2>1
<1>8. CASE r = d \o Bound(4)
  <2>0. /\ d \o Bound(4) \in Seq(Bytes) /\ Len(d \o Bound(4)) = Len(d) + 4
        /\ (d \o Bound(4))[4] = d[4] /\ (d \o Bound(4))[5] = d[5]
    <3>1. d \in Seq(Bytes) /\ Len(d) >= 5 /\ Len(d) >= 4 /\ 4 \in Nat
      BY <1>4
    <3> QED
      BY <3>1, ReplyBound
  <2>1. r \in Seq(Bytes) /\ Len(r) = 9 /\ r[4] = "name" /\ r[5] = 2
    BY <1>4, <1>8, <2>0
  <2> QED
    BY <2>1
<1>9. CASE r = e \o Bound(3)
  <2>0. /\ e \o Bound(3) \in Seq(Bytes) /\ Len(e \o Bound(3)) = Len(e) + 3
        /\ (e \o Bound(3))[4] = e[4]
    <3>1. e \in Seq(Bytes) /\ Len(e) >= 4 /\ Len(e) >= 4 /\ 3 \in Nat
      BY <1>3
    <3> QED
      BY <3>1, ReplyBound
  <2>1. r \in Seq(Bytes) /\ Len(r) = 7 /\ r[4] = "4"
    BY <1>3, <1>9, <2>0
  <2> QED
    BY <2>1
<1>10. CASE r = f
  <2>1. r \in Seq(Bytes) /\ Len(r) = 4 /\ r[4] = "?"
    BY <1>3, <1>10
  <2> QED
    BY <2>1
<1> QED
  BY <1>1, <1>5, <1>6, <1>7, <1>8, <1>9, <1>10

\* A read moves the second cut on.
LEMMA ReadOn ==
    ASSUME NEW S, NEW s \in Seq(S), NEW c \in 0..Len(s), NEW b \in 0..c,
           NEW n \in 1..(Len(s) - c)
    PROVE  /\ SubSeq(s, b + 1, c) \o SubSeq(SubSeq(s, c + 1, Len(s)), 1, n) = SubSeq(s, b + 1, c + n)
           /\ SubSeq(SubSeq(s, c + 1, Len(s)), n + 1, Len(SubSeq(s, c + 1, Len(s))))
                = SubSeq(s, c + n + 1, Len(s))
<1> DEFINE L == Len(s)
<1>1. L \in Nat
  BY LenProperties
<1>2. /\ c + 1 \in 1..L /\ L \in 1..L /\ 1 \in 1..(L - (c + 1) + 1) /\ n \in 1..(L - (c + 1) + 1)
      /\ (c + 1) + 1 - 1 = c + 1 /\ (c + 1) + n - 1 = c + n
  BY <1>1
<1>3. SubSeq(SubSeq(s, c + 1, L), 1, n) = SubSeq(s, c + 1, c + n)
  <2>1. SubSeq(SubSeq(s, c + 1, L), 1, n) = SubSeq(s, (c + 1) + 1 - 1, (c + 1) + n - 1)
    BY <1>2, SubSeqOfSubSeq
  <2> QED
    BY <1>2, <2>1
<1>4. b + 1 \in 1..(L + 1) /\ c \in ((b + 1) - 1)..L /\ c + n \in c..L
  BY <1>1
<1>5. SubSeq(s, b + 1, c) \o SubSeq(s, c + 1, c + n) = SubSeq(s, b + 1, c + n)
  BY <1>4, ConcatAdjacentSubSeq
<1>6. Len(SubSeq(s, c + 1, L)) = L - c
  <2>1. \A i \in (c + 1)..L : s[i] \in S
    BY <1>1, ElementOfSeq
  <2>2. Len(SubSeq(s, c + 1, L)) = IF c + 1 <= L THEN L - (c + 1) + 1 ELSE 0
    BY <1>1, <2>1, SubSeqProperties
  <2> QED
    BY <1>1, <1>2, <2>2
<1>7. CASE n = L - c
  <2>1. L - c < n + 1 /\ L < c + n + 1
    BY <1>1, <1>7
  <2>2. SubSeq(SubSeq(s, c + 1, L), n + 1, L - c) = <<>>
    BY <1>1, <2>1, SubSeqEmpty
  <2>3. SubSeq(s, c + n + 1, L) = <<>>
    BY <1>1, <2>1, SubSeqEmpty
  <2> QED
    BY <1>3, <1>5, <1>6, <2>2, <2>3
<1>8. CASE n < L - c
  <2>1. n + 1 \in 1..(L - (c + 1) + 1) /\ L - c \in 1..(L - (c + 1) + 1)
    BY <1>1, <1>8
  <2>2. SubSeq(SubSeq(s, c + 1, L), n + 1, L - c) = SubSeq(s, (c + 1) + (n + 1) - 1, (c + 1) + (L - c) - 1)
    BY <1>2, <2>1, SubSeqOfSubSeq
  <2>3. (c + 1) + (n + 1) - 1 = c + n + 1 /\ (c + 1) + (L - c) - 1 = L
    BY <1>1
  <2> QED
    BY <1>3, <1>5, <1>6, <2>2, <2>3
<1> QED
  BY <1>1, <1>7, <1>8

\* The part between two cuts, and what is behind one.
LEMMA PartOf ==
    ASSUME NEW S, NEW s \in Seq(S), NEW c \in 0..Len(s), NEW b \in 0..c
    PROVE  /\ SubSeq(s, b + 1, c) \in Seq(S) /\ Len(SubSeq(s, b + 1, c)) = c - b
           /\ \A i \in 1..(c - b) : SubSeq(s, b + 1, c)[i] = s[b + i]
<1>1. Len(s) \in Nat
  BY LenProperties
<1>2. \A i \in (b + 1)..c : s[i] \in S
  BY <1>1, ElementOfSeq
<1>3. /\ SubSeq(s, b + 1, c) \in Seq(S)
      /\ Len(SubSeq(s, b + 1, c)) = IF b + 1 <= c THEN c - (b + 1) + 1 ELSE 0
      /\ \A i \in 1..(c - (b + 1) + 1) : SubSeq(s, b + 1, c)[i] = s[(b + 1) + i - 1]
  BY <1>1, <1>2, SubSeqProperties
<1>4. c - (b + 1) + 1 = c - b /\ \A i \in 1..(c - b) : (b + 1) + i - 1 = b + i
  BY <1>1
<1> QED
  BY <1>1, <1>3, <1>4

\* A reply, and behind it what the host sends.
LEMMA WholeIs ==
    ASSUME NEW m, NEW r \in Seq(Bytes)
    PROVE  /\ Whole(m, r) \in Seq(Bytes) /\ Len(r) \in Nat /\ Len(Whole(m, r)) \in Nat
           /\ Len(Whole(m, r)) >= Len(r)
           /\ \A i \in 1..Len(r) : Whole(m, r)[i] = r[i]
           /\ SubSeq(Whole(m, r), Len(r) + 1, Len(Whole(m, r)))
                = IF Accepts(m, r) THEN HostBytes ELSE <<>>
<1> DEFINE rest == IF Accepts(m, r) THEN HostBytes ELSE <<>>
<1>1. HostBytes \in Seq(Bytes) /\ Len(HostBytes) = 2 /\ <<>> \in Seq(Bytes) /\ Len(<<>>) = 0
  BY DEF HostBytes, Bytes
<1>2. rest \in Seq(Bytes) /\ (rest = <<>> => Len(rest) = 0) /\ (rest # <<>> => Len(rest) = 2)
      /\ (rest # <<>> => rest = HostBytes)
  BY <1>1
<1>3. Len(r) \in Nat /\ Len(rest) \in Nat
  BY <1>2, LenProperties
<1>4. Whole(m, r) = r \o rest
  BY DEF Whole
<1> HIDE DEF rest
<1>5. /\ r \o rest \in Seq(Bytes) /\ Len(r \o rest) = Len(r) + Len(rest)
      /\ \A i \in 1..Len(r) : (r \o rest)[i] = r[i]
  BY <1>2, Concat
<1>6. SubSeq(r \o rest, Len(r) + 1, Len(r) + Len(rest)) = rest
  <2>1. CASE rest = <<>>
    <3>1. Len(r) + Len(rest) < Len(r) + 1
      BY <1>2, <1>3, <2>1
    <3> QED
      BY <1>3, <2>1, <3>1, SubSeqEmpty
  <2>2. CASE rest # <<>>
    <3>1. /\ Len(r) + 1 \in (Len(r) + 1)..(Len(r) + Len(rest))
          /\ Len(r) + Len(rest) \in (Len(r) + 1)..(Len(r) + Len(rest))
          /\ (Len(r) + 1) - Len(r) = 1 /\ (Len(r) + Len(rest)) - Len(r) = Len(rest)
      BY <1>2, <1>3, <2>2
    <3>2. SubSeq(r \o rest, Len(r) + 1, Len(r) + Len(rest))
            = SubSeq(rest, (Len(r) + 1) - Len(r), (Len(r) + Len(rest)) - Len(r))
      BY <1>2, <3>1, SubSeqOfConcat2
    <3> QED
      BY <1>2, <3>1, <3>2, SubSeqFull
  <2> QED
    BY <2>1, <2>2
<1>7. Len(Whole(m, r)) = Len(r) + Len(rest)
  BY <1>4, <1>5
<1> QED
  BY <1>3, <1>4, <1>5, <1>6, <1>7 DEF rest

LEMMA RepliesAre ==
    ASSUME NEW m \in Messages, NEW r \in RepliesTo(m)
    PROVE  r \in Seq(Bytes) /\ Len(r) >= 2
<1>1. CASE m = "connect"
  BY <1>1, ConnectReplies
<1>2. CASE m \in {"greeting", "password"}
  BY <1>2, ShortReplies
<1>3. CASE m = "request"
  BY <1>3, RequestReplies, LenProperties
<1> QED
  BY <1>1, <1>2, <1>3 DEF Messages

\* How a state in which the agent waits for a new reply comes about.
LEMMA SendsIsUnanswered ==
    ASSUME NEW next \in {"head", "method", "auth", "reply"},
           Sends(MessageAt(next), FirstWants(next), next),
           requested \in Seq(Messages), replied = Len(requested),
           stream = <<>>, ~established, UNCHANGED <<stream, replied, established>>
    PROVE  Unanswered' /\ requested' \in Seq(Messages)
<1>1. MessageAt(next) \in Messages
  BY DEF MessageAt, Messages
<1>2. requested' = Append(requested, MessageAt(next)) /\ tun' = next
      /\ wants' = FirstWants(next) /\ heard' = <<>>
  BY DEF Sends
<1>3. requested' \in Seq(Messages) /\ Len(requested') = Len(requested) + 1
      /\ requested'[Len(requested) + 1] = MessageAt(next)
  BY <1>1, <1>2, AppendProperties
<1> QED
  BY <1>2, <1>3 DEF Unanswered

LEMMA ChooseKeepsInv == ASSUME TunnelInv, Choose PROVE TunnelInv'
<1>1. /\ tun = "start" /\ requested = <<>> /\ replied = 0 /\ stream = <<>> /\ ~established
      /\ requested \in Seq(Messages) /\ replied \in Nat /\ replied = Len(requested)
  <2>1. tun = "start"
    BY DEF Choose
  <2>2. requested = <<>> /\ replied = 0 /\ stream = <<>> /\ ~established
    BY <2>1 DEF TunnelInv, HandshakeInv, Unanswered, Answered, Reading
  <2>3. requested \in Seq(Messages) /\ replied \in Nat
    BY DEF TunnelInv
  <2>4. Len(<<>>) = 0
    OBVIOUS
  <2> QED
    BY <2>1, <2>2, <2>3, <2>4
<1>2. target' = target /\ noProxy' = noProxy /\ proxy' = proxy /\ stream' = stream
      /\ replied' = replied /\ established' = established
  BY DEF Choose
<1>3. Bypasses(target, noProxy)' = Bypasses(target, noProxy)
  BY <1>2
<1>4. target' \in Targets /\ noProxy' \in SeqOf(Entries, MaxEntries)
  BY <1>2 DEF TunnelInv
<1>5. CASE Ends("direct") /\ requested' = requested /\ (Bypasses(target, noProxy) \/ proxy.scheme = "none")
  <2>1. tun' = "direct" /\ wants' = 0
    BY <1>5 DEF Ends
  <2> QED
    BY <1>1, <1>2, <1>3, <1>4, <1>5, <2>1 DEF TunnelInv, HandshakeInv
<1>6. CASE Ends("failed") /\ requested' = requested /\ ~Bypasses(target, noProxy)
  <2>1. tun' = "failed" /\ wants' = 0
    BY <1>6 DEF Ends
  <2> QED
    BY <1>1, <1>2, <1>3, <1>4, <1>6, <2>1 DEF TunnelInv, HandshakeInv
<1>7. CASE ~Bypasses(target, noProxy) /\ (Sends("connect", 1, "head") \/ Sends("greeting", 2, "method"))
  <2>1. \E next \in {"head", "method"} : Sends(MessageAt(next), FirstWants(next), next)
    BY <1>7 DEF MessageAt, FirstWants
  <2>2. Unanswered' /\ requested' \in Seq(Messages)
    BY <1>1, <1>2, <2>1, SendsIsUnanswered
  <2>3. tun' \in {"head", "method", "auth", "reply"}
    BY <2>2 DEF Unanswered
  <2> QED
    BY <1>1, <1>2, <1>3, <1>4, <1>7, <2>2, <2>3 DEF TunnelInv, HandshakeInv
<1> QED
  BY <1>5, <1>6, <1>7 DEF Choose, GoesDirect

\* A step of the handshake changes neither the list nor the host.
LEMMA StillNotBypassed ==
    ASSUME TunnelInv, tun \notin {"start", "direct"}, UNCHANGED <<target, noProxy, proxy>>,
           tun' \notin {"start", "direct"}, requested' \in Seq(Messages), replied' \in Nat, HandshakeInv'
    PROVE  TunnelInv'
<1>1. target' = target /\ noProxy' = noProxy
  OBVIOUS
<1>2. ~Bypasses(target, noProxy) /\ Bypasses(target, noProxy)' = Bypasses(target, noProxy)
  BY <1>1 DEF TunnelInv
<1> QED
  BY <1>1, <1>2 DEF TunnelInv

\* A read that is under way has part of a reply; the rest comes with the stream.
LEMMA ReadProxyKeepsInv == ASSUME TunnelInv, NEW n \in 1..5, ReadProxy(n) PROVE TunnelInv'
<1>1. /\ wants \in Nat => n <= wants /\ wants' = wants - n
      /\ n \in 1..wants /\ n <= Len(stream) /\ wants' = wants - n
      /\ heard' = heard \o SubSeq(stream, 1, n) /\ stream' = SubSeq(stream, n + 1, Len(stream))
      /\ UNCHANGED <<target, noProxy, proxy>>
      /\ tun' = tun /\ requested' = requested /\ replied' = replied /\ established' = established
  BY DEF ReadProxy
<1>2. Answered
  <2>1. ~(wants = 0)
    BY <1>1
  <2>2. ~Unanswered
    <3>1. Len(<<>>) = 0
      OBVIOUS
    <3> QED
      BY <1>1, <3>1 DEF Unanswered
  <2> QED
    BY <2>1, <2>2 DEF TunnelInv, HandshakeInv
<1>3. PICK r \in RepliesTo(MessageAt(tun)) : \E b, c \in 0..Len(Whole(MessageAt(tun), r)) : Partly(r, b, c)
  BY <1>2 DEF Answered
<1> DEFINE m == MessageAt(tun)
           all == Whole(m, r)
<1>4. m \in Messages
  BY DEF MessageAt, Messages
<1>5. r \in Seq(Bytes) /\ all \in Seq(Bytes) /\ Len(all) \in Nat /\ Len(r) \in Nat /\ Len(r) <= Len(all)
  BY <1>3, <1>4, RepliesAre, WholeIs
<1>6. PICK b \in 0..Len(all), c \in 0..Len(all) : Partly(r, b, c)
  BY <1>3
<1> HIDE DEF m, all
<1>7. /\ established = Accepts(m, r) /\ b \in 0..c
      /\ heard = SubSeq(all, b + 1, c)
      /\ stream = SubSeq(all, c + 1, Len(all))
  BY <1>5, <1>6 DEF Partly, m, all
<1>8. Len(stream) = Len(all) - c
  <2>1. Len(all) \in 0..Len(all) /\ c \in 0..Len(all)
    BY <1>5, <1>6
  <2> QED
    BY <1>5, <1>7, <2>1, PartOf
<1>9. n \in 1..(Len(all) - c) /\ c + n \in 0..Len(all) /\ b <= c + n /\ wants \in Nat /\ wants' \in Nat
  BY <1>1, <1>2, <1>5, <1>6, <1>7, <1>8 DEF Answered
<1>10. heard' = SubSeq(all, b + 1, c + n) /\ stream' = SubSeq(all, c + n + 1, Len(all))
  BY <1>1, <1>5, <1>6, <1>7, <1>9, ReadOn
<1>11. MessageAt(tun)' = m /\ Whole(MessageAt(tun), r)' = all
  BY <1>1 DEF m, all
<1>12. (c + n) + wants' = c + wants
  BY <1>1, <1>6, <1>9
<1>13. Partly(r, b, c + n)'
  <2>1. /\ tun' # "bound" => b = IF tun' = "length" THEN 4 ELSE 0
        /\ tun' \in {"method", "auth"} => (c + n) + wants' = 2
        /\ tun' = "reply" => (c + n) + wants' = 4
        /\ tun' = "length" => (c + n) + wants' = 5 /\ r[2] = "ok" /\ r[4] = "name"
        /\ tun' = "bound" => (c + n) + wants' = Len(r) /\ r[2] = "ok" /\ r[4] # "?"
    BY <1>1, <1>6, <1>12 DEF Partly
  <2>2. tun' = "head" => /\ wants' \in {0, 1} /\ (c + n) + wants' >= 1
                         /\ \A i \in 1..((c + n) + wants' - 1) : all[i] # "end"
    <3> SUFFICES ASSUME tun' = "head"
                 PROVE  /\ wants' \in {0, 1} /\ (c + n) + wants' >= 1
                        /\ \A i \in 1..((c + n) + wants' - 1) : all[i] # "end"
      OBVIOUS
    <3>1. wants \in {0, 1} /\ c + wants >= 1 /\ \A i \in 1..(c + wants - 1) : all[i] # "end"
      BY <1>1, <1>6 DEF Partly, m, all
    <3>2. wants' \in {0, 1}
      BY <1>1, <1>9, <3>1
    <3> DEFINE k == c + wants
               l == (c + n) + wants'
    <3>3. k = l /\ k >= 1 /\ \A i \in 1..(k - 1) : all[i] # "end"
      BY <1>12, <3>1
    <3>5. l - 1 = (c + n) + wants' - 1 /\ k - 1 = c + wants - 1
      BY <1>5, <1>9
    <3> HIDE DEF k, l
    <3>4. l >= 1 /\ \A i \in 1..(l - 1) : all[i] # "end"
      BY <3>3
    <3> QED
      BY <3>2, <3>4, <3>5 DEF l
  <2> QED
    BY <1>1, <1>7, <1>9, <1>10, <1>11, <2>1, <2>2 DEF Partly
<1>14. Answered'
  <2>1. tun' \in Reading /\ replied' = Len(requested')
    BY <1>1, <1>2 DEF Answered
  <2>2. r \in RepliesTo(MessageAt(tun))' /\ b \in 0..Len(Whole(MessageAt(tun), r))'
        /\ c + n \in 0..Len(Whole(MessageAt(tun), r))'
    BY <1>1, <1>3, <1>6, <1>9, <1>11
  <2> QED
    BY <1>9, <1>13, <2>1, <2>2 DEF Answered
<1>15. tun \notin {"start", "direct"}
  BY <1>2 DEF Answered, Reading
<1> QED
  BY <1>1, <1>14, <1>15, StillNotBypassed DEF HandshakeInv, TunnelInv

\* What has been heard of a reply, element by element.
Heard(r, b, c) ==
    /\ Partly(r, b, c)
    /\ Len(heard) = c - b
    /\ \A i \in 1..(c - b) : heard[i] = Whole(MessageAt(tun), r)[b + i]
    /\ heard \in Seq(Bytes)

LEMMA HeardIs ==
    ASSUME Answered
    PROVE  \E r \in RepliesTo(MessageAt(tun)) :
              \E c \in 0..Len(Whole(MessageAt(tun), r)) : \E b \in 0..c : Heard(r, b, c)
<1> DEFINE m == MessageAt(tun)
<1>1. PICK r \in RepliesTo(m) : \E b, c \in 0..Len(Whole(m, r)) : Partly(r, b, c)
  BY DEF Answered
<1>2. m \in Messages
  BY DEF MessageAt, Messages
<1>3. r \in Seq(Bytes) /\ Whole(m, r) \in Seq(Bytes) /\ Len(Whole(m, r)) \in Nat
  BY <1>2, RepliesAre, WholeIs
<1>4. PICK b \in 0..Len(Whole(m, r)), c \in 0..Len(Whole(m, r)) : Partly(r, b, c)
  BY <1>1
<1>5. b \in 0..c /\ heard = SubSeq(Whole(m, r), b + 1, c)
  BY <1>3, <1>4 DEF Partly
<1> HIDE DEF m
<1>6. /\ Len(heard) = c - b /\ heard \in Seq(Bytes)
      /\ \A i \in 1..(c - b) : heard[i] = Whole(m, r)[b + i]
  BY <1>3, <1>4, <1>5, PartOf
<1> QED
  BY <1>1, <1>4, <1>5, <1>6 DEF Heard, m

\* A read is done when nothing more is wanted: then a reply is under way.
LEMMA ReadDone ==
    ASSUME TunnelInv, tun \in Reading, wants = 0
    PROVE  Answered /\ requested \in Seq(Messages) /\ replied = Len(requested) /\ replied \in Nat
<1>1. ~Unanswered
  BY DEF Unanswered, FirstWants
<1>2. Answered
  BY <1>1 DEF TunnelInv, HandshakeInv, Reading
<1> QED
  BY <1>2 DEF TunnelInv, Answered

LEMMA ReadEndsKeepsInv == ASSUME TunnelInv, ReadEnds PROVE TunnelInv'
<1>1. wants > 0 /\ tun' = "failed" /\ wants' = 0 /\ requested' = requested /\ replied' = replied
      /\ UNCHANGED <<target, noProxy, proxy>>
  BY DEF ReadEnds, Ends
<1>2. ~(wants = 0)
  BY <1>1
<1>3. tun \in Reading
  BY <1>2 DEF TunnelInv, HandshakeInv, Unanswered, Answered, Reading
<1>4. tun \notin {"start", "direct"}
  BY <1>3 DEF Reading
<1> QED
  BY <1>1, <1>4, StillNotBypassed DEF TunnelInv, HandshakeInv

\* The head of the answer ends where the host's bytes begin.
LEMMA HeadByteKeepsInv == ASSUME TunnelInv, HeadByte PROVE TunnelInv'
<1>1. tun = "head" /\ wants = 0 /\ tun \in Reading /\ tun \notin {"start", "direct"}
  BY DEF HeadByte, Reading
<1>2. /\ target' = target /\ noProxy' = noProxy /\ proxy' = proxy /\ stream' = stream
      /\ requested' = requested /\ replied' = replied /\ established' = established
  BY DEF HeadByte
<1>3. Answered /\ requested \in Seq(Messages) /\ replied = Len(requested) /\ replied \in Nat
  BY <1>1, ReadDone
<1>4. MessageAt(tun) = "connect"
  BY <1>1 DEF MessageAt
<1> DEFINE Answer(r) == Whole("connect", r)
<1>5. PICK r \in RepliesTo("connect") : \E c \in 0..Len(Answer(r)) : \E b \in 0..c : Heard(r, b, c)
  BY <1>3, <1>4, HeardIs
<1>6. PICK c \in 0..Len(Answer(r)) : \E b \in 0..c : Heard(r, b, c)
  BY <1>5
<1>7. /\ r \in Seq(Bytes) /\ Len(r) >= 2 /\ Last(r) = r[Len(r)]
      /\ \A i \in 1..(Len(r) - 1) : r[i] # "end"
  BY ConnectReplies
<1>8. /\ Answer(r) \in Seq(Bytes) /\ Len(r) \in Nat /\ Len(Answer(r)) \in Nat
      /\ Len(Answer(r)) >= Len(r)
      /\ \A i \in 1..Len(r) : Answer(r)[i] = r[i]
      /\ SubSeq(Answer(r), Len(r) + 1, Len(Answer(r)))
           = IF Accepts("connect", r) THEN HostBytes ELSE <<>>
  BY <1>7, WholeIs
<1>9. Heard(r, 0, c)
  BY <1>1, <1>6 DEF Heard, Partly
<1>10. /\ established = Accepts("connect", r) /\ heard = SubSeq(Answer(r), 0 + 1, c)
       /\ stream = SubSeq(Answer(r), c + 1, Len(Answer(r)))
       /\ \A i \in 1..(c + 0 - 1) : Answer(r)[i] # "end"
       /\ c + 0 >= 1
       /\ Len(heard) = c - 0 /\ \A i \in 1..(c - 0) : heard[i] = Answer(r)[0 + i]
  BY <1>1, <1>4, <1>9 DEF Heard, Partly
<1>11. /\ c \in Nat /\ c >= 1 /\ Len(heard) = c /\ heard[1] = Answer(r)[1] /\ heard[c] = Answer(r)[c]
       /\ \A i \in 1..(c - 1) : Answer(r)[i] # "end"
  <2>1. c + 0 = c /\ c - 0 = c /\ c + 0 - 1 = c - 1 /\ \A i \in 1..c : 0 + i = i
    BY <1>6, <1>8
  <2>2. c >= 1 /\ Len(heard) = c /\ \A i \in 1..c : heard[i] = Answer(r)[i]
    BY <1>10, <2>1
  <2>3. \A i \in 1..(c - 1) : Answer(r)[i] # "end"
    BY <1>10, <2>1
  <2>4. c \in Nat /\ 1 \in 1..c /\ c \in 1..c
    BY <1>6, <1>8, <2>2
  <2> QED
    BY <2>2, <2>3, <2>4
<1>12. Last(heard) = heard[c]
  BY <1>11 DEF Last
<1>13. CASE Last(heard) = "end"
  <2>1. c = Len(r) /\ r[Len(r)] = "end"
    <3>1. Answer(r)[c] = "end"
      BY <1>11, <1>12, <1>13
    <3>2. c <= Len(r)
      <4>1. CASE c > Len(r)
        <5>1. Answer(r) # r
          BY <1>6, <1>8, <4>1
        <5>2. Accepts("connect", r)
          <6>1. CASE ~Accepts("connect", r)
            <7>1. Answer(r) = r
              BY <1>7, <6>1, ConcatEmptySeq DEF Whole
            <7> QED
              BY <5>1, <7>1
          <6> QED
            BY <6>1
        <5>3. r[Len(r)] = "end"
          BY <1>7, <5>2 DEF Accepts
        <5>4. Len(r) \in 1..(c - 1) /\ Len(r) \in 1..Len(r)
          BY <1>7, <1>8, <1>11, <4>1
        <5> QED
          BY <1>8, <1>11, <5>3, <5>4
      <4> QED
        BY <1>8, <1>11, <4>1
    <3>3. ~(c < Len(r))
      <4>1. CASE c < Len(r)
        <5>1. c \in 1..(Len(r) - 1) /\ c \in 1..Len(r)
          BY <1>8, <1>11, <4>1
        <5> QED
          BY <1>7, <1>8, <3>1, <5>1
      <4> QED
        BY <4>1
    <3>4. c = Len(r)
      BY <1>8, <1>11, <3>2, <3>3
    <3> QED
      BY <1>8, <1>11, <3>1, <3>4
  <2>2. CASE heard[1] = "200"
    <3>1. tun' = "open" /\ wants' = 0
      BY <1>1, <1>13, <2>2 DEF HeadByte, Ends
    <3>2. r[1] = "200"
      BY <1>7, <1>8, <1>11, <2>2
    <3>3. Accepts("connect", r)
      BY <1>7, <2>1, <3>2 DEF Accepts
    <3>4. established /\ stream = HostBytes
      BY <1>8, <1>10, <2>1, <3>3
    <3>5. HandshakeInv'
      BY <1>2, <1>3, <3>1, <3>4 DEF HandshakeInv, HostBytes
    <3> QED
      BY <1>1, <1>2, <1>3, <3>1, <3>5, StillNotBypassed
  <2>3. CASE heard[1] # "200"
    <3>1. tun' = "failed" /\ wants' = 0
      BY <1>1, <1>13, <2>3 DEF HeadByte, Ends
    <3> QED
      BY <1>1, <1>2, <1>3, <3>1, StillNotBypassed DEF HandshakeInv
  <2> QED
    BY <2>2, <2>3
<1>14. CASE Last(heard) # "end" /\ Len(heard) > MaxHead
  <2>1. tun' = "failed" /\ wants' = 0
    BY <1>1, <1>14 DEF HeadByte, Ends
  <2> QED
    BY <1>1, <1>2, <1>3, <2>1, StillNotBypassed DEF HandshakeInv
<1>15. CASE Last(heard) # "end" /\ ~(Len(heard) > MaxHead)
  <2>1. tun' = tun /\ wants' = 1 /\ heard' = heard
    BY <1>1, <1>15 DEF HeadByte
  <2>2. \A i \in 1..(c + wants' - 1) : Answer(r)[i] # "end"
    <3>1. c + wants' - 1 = c
      BY <1>11, <2>1
    <3>2. \A i \in 1..c : i = c \/ i \in 1..(c - 1)
      BY <1>11
    <3> QED
      BY <1>11, <1>12, <1>15, <3>1, <3>2
  <2>3. c + wants' >= 1 /\ 0 <= c
    BY <1>11, <2>1
  <2>4. MessageAt(tun)' = "connect" /\ Whole(MessageAt(tun), r)' = Answer(r)
    BY <1>4, <2>1
  <2>5. Partly(r, 0, c)'
    BY <1>1, <1>2, <1>10, <2>1, <2>2, <2>3, <2>4 DEF Partly
  <2>6. Answered'
    <3>1. 0 \in 0..Len(Answer(r)) /\ wants' \in Nat
      BY <1>8, <2>1
    <3> QED
      BY <1>1, <1>2, <1>3, <1>5, <1>6, <2>1, <2>4, <2>5, <3>1 DEF Answered
  <2> QED
    BY <1>1, <1>2, <1>3, <2>1, <2>6, StillNotBypassed DEF HandshakeInv
<1> QED
  BY <1>13, <1>14, <1>15

\* A step of the handshake that fails.
LEMMA FailureKeepsInv ==
    ASSUME TunnelInv, tun \in Reading, Ends("failed") \/ Ends("panicked"),
           UNCHANGED <<target, noProxy, proxy, requested, replied>>
    PROVE  TunnelInv'
<1>1. tun' \in {"failed", "panicked"} /\ wants' = 0
  BY DEF Ends
<1>2. tun \notin {"start", "direct"} /\ requested' = requested /\ replied' = replied
  BY DEF Reading
<1> QED
  BY <1>1, <1>2, StillNotBypassed DEF TunnelInv, HandshakeInv

\* Greeting and password are answered in two bytes: nothing is left of them.
LEMMA ShortReplyRead ==
    ASSUME TunnelInv, tun \in {"method", "auth"}, wants = 0
    PROVE  stream = <<>> /\ ~established /\ replied = Len(requested) /\ requested \in Seq(Messages)
<1>1. Answered /\ requested \in Seq(Messages) /\ replied = Len(requested)
  BY ReadDone DEF Reading
<1> DEFINE m == MessageAt(tun)
<1>2. m \in {"greeting", "password"}
  BY DEF MessageAt
<1>3. PICK r \in RepliesTo(m), b \in Nat, c \in Nat :
            Partly(r, b, c) /\ c \in 0..Len(Whole(m, r))
  <2>1. PICK r \in RepliesTo(m) : \E c \in 0..Len(Whole(m, r)) : \E b \in 0..c : Heard(r, b, c)
    BY <1>1, HeardIs
  <2>2. PICK c \in 0..Len(Whole(m, r)) : \E b \in 0..c : Heard(r, b, c)
    BY <2>1
  <2>3. PICK b \in 0..c : Heard(r, b, c)
    BY <2>2
  <2> QED
    BY <2>2, <2>3 DEF Heard
<1>4. r \in Seq(Bytes) /\ Len(r) = 2 /\ ~Accepts(m, r)
  BY <1>2, ShortReplies
<1>5. established = Accepts(m, r) /\ c + wants = 2 /\ stream = SubSeq(Whole(m, r), c + 1, Len(Whole(m, r)))
  BY <1>3 DEF Partly
<1> HIDE DEF m
<1>6. c = Len(r)
  BY <1>3, <1>4, <1>5
<1>7. SubSeq(Whole(m, r), Len(r) + 1, Len(Whole(m, r))) = <<>>
  BY <1>4, WholeIs
<1> QED
  BY <1>1, <1>4, <1>5, <1>6, <1>7

LEMMA MethodKeepsInv == ASSUME TunnelInv, Method \/ AuthReply PROVE TunnelInv'
<1>1. tun \in {"method", "auth"} /\ wants = 0 /\ tun \in Reading /\ tun \notin {"start", "direct"}
  BY DEF Method, AuthReply, Reading
<1>2. /\ target' = target /\ noProxy' = noProxy /\ proxy' = proxy /\ stream' = stream
      /\ replied' = replied /\ established' = established
  BY DEF Method, AuthReply
<1>3. stream = <<>> /\ ~established /\ replied = Len(requested) /\ requested \in Seq(Messages)
      /\ replied \in Nat
  BY <1>1, ShortReplyRead DEF TunnelInv
<1>4. CASE (Ends("failed") \/ Ends("panicked")) /\ requested' = requested
  BY <1>1, <1>2, <1>4, FailureKeepsInv
<1>5. CASE Sends("request", 4, "reply") \/ Sends("password", 2, "auth")
  <2>1. \E next \in {"head", "method", "auth", "reply"} :
            Sends(MessageAt(next), FirstWants(next), next)
    BY <1>5 DEF MessageAt, FirstWants
  <2>2. Unanswered' /\ requested' \in Seq(Messages)
    BY <1>2, <1>3, <2>1, SendsIsUnanswered
  <2>3. tun' \notin {"start", "direct"}
    BY <2>2 DEF Unanswered
  <2> QED
    BY <1>1, <1>2, <1>3, <2>2, <2>3, StillNotBypassed DEF HandshakeInv
<1>6. \/ (Ends("failed") \/ Ends("panicked")) /\ requested' = requested
      \/ Sends("request", 4, "reply") \/ Sends("password", 2, "auth")
  <2>1. CASE Method
    <3>1. CASE heard[1] # "v5"
      BY <2>1, <3>1 DEF Method
    <3>2. CASE heard[1] = "v5"
      BY <2>1, <3>2 DEF Method
    <3> QED
      BY <3>1, <3>2
  <2>2. CASE AuthReply
    BY <2>2 DEF AuthReply
  <2> QED
    BY <2>1, <2>2
<1> QED
  BY <1>4, <1>5, <1>6

\* The reply to the request is read to its end, and not beyond.
LEMMA ConnectReplyKeepsInv == ASSUME TunnelInv, ConnectReply PROVE TunnelInv'
<1>1. tun \in {"reply", "length", "bound"} /\ wants = 0 /\ tun \in Reading /\ tun \notin {"start", "direct"}
  BY DEF ConnectReply, Reading
<1>2. /\ target' = target /\ noProxy' = noProxy /\ proxy' = proxy /\ stream' = stream
      /\ requested' = requested /\ replied' = replied /\ established' = established
  BY DEF ConnectReply
<1>3. Answered /\ requested \in Seq(Messages) /\ replied = Len(requested) /\ replied \in Nat
  BY <1>1, ReadDone
<1>4. MessageAt(tun) = "request"
  BY <1>1 DEF MessageAt
<1> DEFINE Answer(r) == Whole("request", r)
<1>5. PICK r \in RepliesTo("request") : \E c \in 0..Len(Answer(r)) : \E b \in 0..c : Heard(r, b, c)
  BY <1>3, <1>4, HeardIs
<1>6. PICK c \in 0..Len(Answer(r)) : \E b \in 0..c : Heard(r, b, c)
  BY <1>5
<1>7. PICK b \in 0..c : Heard(r, b, c)
  BY <1>6
<1>8. /\ r \in Seq(Bytes) /\ Len(r) >= 4 /\ Len(r) \in Nat
      /\ r[4] \in {"4", "6", "name", "?"}
      /\ r[4] = "4" => Len(r) = 7
      /\ r[4] = "6" => Len(r) = 9
      /\ r[4] = "name" => Len(r) >= 5 /\ r[5] \in Nat /\ Len(r) = r[5] + 7
  BY RequestReplies, LenProperties
<1>9. /\ Len(Answer(r)) \in Nat /\ Len(Answer(r)) >= Len(r)
      /\ \A i \in 1..Len(r) : Answer(r)[i] = r[i]
      /\ SubSeq(Answer(r), Len(r) + 1, Len(Answer(r)))
           = IF Accepts("request", r) THEN HostBytes ELSE <<>>
  BY <1>8, WholeIs
<1>10. /\ established = Accepts("request", r)
       /\ stream = SubSeq(Answer(r), c + 1, Len(Answer(r)))
       /\ \A i \in 1..(c - b) : heard[i] = Answer(r)[b + i]
  BY <1>4, <1>7 DEF Heard, Partly
<1>11. c \in Nat /\ b \in Nat /\ c + wants = c
  BY <1>1, <1>6, <1>7, <1>9
<1> DEFINE Waits(n, next) == wants' = n /\ heard' = <<>> /\ tun' = next
\* The next read begins where this one has ended.
<1>12. ASSUME NEW n \in Nat, NEW next \in {"length", "bound"}, Waits(n, next),
              r[2] = "ok",
              next = "length" => c = 4 /\ n = 1 /\ r[4] = "name",
              next = "bound" => c + n = Len(r) /\ r[4] # "?"
       PROVE  TunnelInv'
  <2>1. tun' = next /\ wants' = n /\ heard' = <<>>
    BY <1>12
  <2>2. MessageAt(tun)' = "request" /\ Whole(MessageAt(tun), r)' = Answer(r)
    BY <2>1 DEF MessageAt
  <2>3. <<>> = SubSeq(Answer(r), c + 1, c)
    BY <1>11, SubSeqEmpty
  <2>4. Partly(r, c, c)'
    <3>1. tun' # "bound" => c = IF tun' = "length" THEN 4 ELSE 0
      BY <1>12, <2>1
    <3>2. tun' \notin {"head", "method", "auth", "reply"}
      BY <2>1
    <3>3. tun' = "length" => c + wants' = 5 /\ r[2] = "ok" /\ r[4] = "name"
      BY <1>12, <2>1
    <3>4. tun' = "bound" => c + wants' = Len(r) /\ r[2] = "ok" /\ r[4] # "?"
      BY <1>12, <2>1
    <3>5. c <= c
      BY <1>11
    <3> QED
      BY <1>2, <1>10, <2>1, <2>2, <2>3, <3>1, <3>2, <3>3, <3>4, <3>5 DEF Partly
  <2>5. Answered'
    <3>1. tun' \in Reading /\ wants' \in Nat /\ replied' = Len(requested')
      BY <1>2, <1>3, <2>1 DEF Reading
    <3> QED
      BY <1>6, <2>2, <2>4, <3>1 DEF Answered
  <2> QED
    BY <1>1, <1>2, <1>3, <2>1, <2>5, StillNotBypassed DEF HandshakeInv
<1>13. CASE tun = "bound"
  <2>1. tun' = "open" /\ wants' = 0
    BY <1>13 DEF ConnectReply, Ends
  <2>2. c = Len(r) /\ r[2] = "ok" /\ r[4] # "?"
    BY <1>7, <1>11, <1>13 DEF Heard, Partly
  <2>3. established /\ stream = HostBytes
    BY <1>9, <1>10, <2>2 DEF Accepts
  <2>4. HandshakeInv'
    BY <1>2, <1>3, <2>1, <2>3 DEF HandshakeInv, HostBytes
  <2> QED
    BY <1>1, <1>2, <1>3, <2>1, <2>4, StillNotBypassed
<1>14. CASE tun = "length"
  <2>1. Waits(heard[1] + 2, "bound")
    BY <1>14 DEF ConnectReply
  <2>2. c = 5 /\ b = 4 /\ r[2] = "ok" /\ r[4] = "name"
    BY <1>7, <1>11, <1>14 DEF Heard, Partly
  <2>3. heard[1] = r[5]
    <3>1. 1 \in 1..(c - b) /\ b + 1 = 5 /\ 5 \in 1..Len(r)
      BY <1>8, <2>2
    <3> QED
      BY <1>9, <1>10, <3>1
  <2>4. heard[1] + 2 \in Nat /\ c + (heard[1] + 2) = Len(r)
    BY <1>8, <2>2, <2>3
  <2> HIDE DEF Waits
  <2> QED
    BY <1>12, <2>1, <2>2, <2>4
<1>15. CASE tun = "reply"
  <2>1. c = 4 /\ b = 0
    BY <1>7, <1>11, <1>15 DEF Heard, Partly
  <2>2. \A i \in {1, 2, 4} : heard[i] = r[i]
    <3>1. \A i \in {1, 2, 4} : i \in 1..(c - b) /\ b + i = i /\ i \in 1..Len(r)
      BY <1>8, <2>1
    <3> QED
      BY <1>9, <1>10, <3>1
  <2>3. heard[2] = r[2] /\ heard[4] = r[4]
    BY <2>2
  <2>4. CASE heard[1] # "v5" \/ heard[2] # "ok" \/ heard[4] \notin {"name", "4", "6"}
    <3>1. Ends("failed")
      BY <1>15, <2>4 DEF ConnectReply
    <3> QED
      BY <1>1, <1>2, <3>1, FailureKeepsInv
  <2>5. CASE heard[1] = "v5" /\ heard[2] = "ok" /\ heard[4] = "name"
    <3>1. Waits(1, "length")
      BY <1>15, <2>5 DEF ConnectReply
    <3> HIDE DEF Waits
    <3> QED
      BY <1>12, <2>1, <2>3, <2>5, <3>1
  <2>6. CASE heard[1] = "v5" /\ heard[2] = "ok" /\ heard[4] \in {"4", "6"}
    <3>1. Waits(BoundLength(heard[4]), "bound")
      BY <1>15, <2>6 DEF ConnectReply
    <3>2. BoundLength(heard[4]) \in Nat /\ c + BoundLength(heard[4]) = Len(r) /\ r[4] # "?"
      BY <1>8, <2>1, <2>3, <2>6 DEF BoundLength
    <3> HIDE DEF Waits
    <3> QED
      BY <1>12, <2>3, <2>6, <3>1, <3>2
  <2> QED
    BY <2>4, <2>5, <2>6
<1> QED
  BY <1>1, <1>13, <1>14, <1>15

\* The proxy answers; a message that is answered only once has nothing before it.
LEMMA ProxyRepliesKeepsInv == ASSUME TunnelInv, ProxyReplies PROVE TunnelInv'
<1>1. /\ target' = target /\ noProxy' = noProxy /\ proxy' = proxy /\ tun' = tun /\ wants' = wants
      /\ heard' = heard /\ requested' = requested /\ replied' = replied + 1
      /\ replied < Len(requested)
  BY DEF ProxyReplies
<1>2. requested \in Seq(Messages) /\ replied \in Nat /\ replied' \in Nat /\ Len(requested) \in Nat
  <2>1. requested \in Seq(Messages) /\ replied \in Nat
    BY DEF TunnelInv
  <2> QED
    BY <1>1, <2>1, LenProperties
<1>3. CASE tun \in {"failed", "panicked"} /\ wants = 0
  <2>1. tun \notin {"start", "direct"}
    BY <1>3
  <2> QED
    BY <1>1, <1>2, <1>3, <2>1, StillNotBypassed DEF HandshakeInv
<1>4. CASE Unanswered
  <2>1. /\ tun \in {"head", "method", "auth", "reply"} /\ replied + 1 = Len(requested)
        /\ requested[replied + 1] = MessageAt(tun)
        /\ stream = <<>> /\ heard = <<>> /\ wants = FirstWants(tun)
    BY <1>4 DEF Unanswered
  <2> DEFINE m == MessageAt(tun)
  <2>2. PICK r \in RepliesTo(m) :
            /\ established' = Accepts(m, r)
            /\ stream' = stream \o r \o (IF established' THEN <<"host", "host">> ELSE <<>>)
    BY <2>1 DEF ProxyReplies, Accepts
  <2>3. m \in Messages
    BY DEF MessageAt, Messages
  <2>4. r \in Seq(Bytes)
    BY <2>3, RepliesAre
  <2> HIDE DEF m
  <2>5. stream' = Whole(m, r)
    <3>1. stream \o r = r
      BY <2>1, <2>4, ConcatEmptySeq
    <3> QED
      BY <2>2, <3>1 DEF Whole, HostBytes
  <2>6. Whole(m, r) \in Seq(Bytes) /\ Len(Whole(m, r)) \in Nat
    BY <2>4, WholeIs
  <2>7. MessageAt(tun)' = m /\ Whole(MessageAt(tun), r)' = Whole(m, r)
    BY <1>1 DEF m
  <2>8. heard' = SubSeq(Whole(m, r), 0 + 1, 0) /\ stream' = SubSeq(Whole(m, r), 0 + 1, Len(Whole(m, r)))
    <3>1. 0 + 1 = 1 /\ 0 < 1
      OBVIOUS
    <3>2. SubSeq(Whole(m, r), 1, 0) = <<>>
      BY SubSeqEmpty
    <3>3. SubSeq(Whole(m, r), 1, Len(Whole(m, r))) = Whole(m, r)
      BY <2>6, SubSeqFull
    <3> QED
      BY <1>1, <2>1, <2>5, <3>1, <3>2, <3>3
  <2>9. Partly(r, 0, 0)'
    <3>1. tun' \in {"head", "method", "auth", "reply"} /\ wants' = FirstWants(tun')
      BY <1>1, <2>1
    <3>2. tun' = "head" => /\ wants' \in {0, 1} /\ 0 + wants' >= 1
                           /\ \A i \in 1..(0 + wants' - 1) : Whole(m, r)[i] # "end"
      BY <3>1 DEF FirstWants
    <3>3. tun' \in {"method", "auth"} => 0 + wants' = 2
      BY <3>1 DEF FirstWants
    <3>4. tun' = "reply" => 0 + wants' = 4
      BY <3>1 DEF FirstWants
    <3> QED
      BY <2>2, <2>7, <2>8, <3>1, <3>2, <3>3, <3>4 DEF Partly, m
  <2>10. Answered'
    <3>1. tun' \in Reading /\ wants' \in Nat /\ replied' = Len(requested')
      BY <1>1, <2>1 DEF Reading, FirstWants
    <3>2. r \in RepliesTo(MessageAt(tun))' /\ 0 \in 0..Len(Whole(MessageAt(tun), r))'
      BY <2>6, <2>7 DEF m
    <3> QED
      BY <2>9, <3>1, <3>2 DEF Answered
  <2>11. tun \notin {"start", "direct"}
    BY <2>1
  <2> QED
    BY <1>1, <1>2, <2>10, <2>11, StillNotBypassed DEF HandshakeInv
<1>5. CASE \/ tun \in {"start", "direct"} /\ requested = <<>> /\ replied = 0
           \/ tun = "open" /\ replied = Len(requested)
           \/ Answered
  <2>1. Len(<<>>) = 0
    OBVIOUS
  <2> QED
    BY <1>1, <1>2, <1>5, <2>1 DEF Answered
<1> QED
  BY <1>3, <1>4, <1>5 DEF TunnelInv, HandshakeInv

LEMMA NextTunnel == TunnelInv /\ [TuNext]_tuVars => TunnelInv'
<1> SUFFICES ASSUME TunnelInv, [TuNext]_tuVars PROVE TunnelInv'
  OBVIOUS
<1>1. CASE UNCHANGED tuVars
  <2>1. /\ target' = target /\ noProxy' = noProxy /\ proxy' = proxy /\ tun' = tun /\ wants' = wants
        /\ heard' = heard /\ stream' = stream /\ requested' = requested /\ replied' = replied
        /\ established' = established
    BY <1>1 DEF tuVars
  <2>2. Bypasses(target, noProxy)' = Bypasses(target, noProxy)
    BY <2>1
  <2>3. HandshakeInv' = HandshakeInv
    BY <2>1 DEF HandshakeInv, Unanswered, Answered, Partly
  <2> QED
    BY <2>1, <2>2, <2>3 DEF TunnelInv
<1>2. CASE \E n \in 1..5 : ReadProxy(n)
  BY <1>2, ReadProxyKeepsInv
<1> QED
  BY <1>1, <1>2, ChooseKeepsInv, ReadEndsKeepsInv, HeadByteKeepsInv, MethodKeepsInv,
     ConnectReplyKeepsInv, ProxyRepliesKeepsInv DEF TuNext

\* What the list says is what happens, and a tunnel has the host's bytes next.
LEMMA TunnelInvSuffices == TunnelInv => TunnelsRight
<1> SUFFICES ASSUME TunnelInv PROVE TunnelsRight
  OBVIOUS
<1>1. target \in Targets /\ DOMAIN noProxy = 1..Len(noProxy) /\ \A i \in DOMAIN noProxy : noProxy[i] \in Entries
  <2>1. noProxy \in SeqOf(Entries, MaxEntries) /\ target \in Targets
    BY DEF TunnelInv
  <2>2. PICK n \in 0..MaxEntries : noProxy \in [1..n -> Entries]
    BY <2>1 DEF SeqOf
  <2>3. MaxEntries \in Nat
    BY TunnelAssumption
  <2>4. n \in Nat
    BY <2>2, <2>3
  <2>5. noProxy \in Seq(Entries)
    BY <2>2, <2>4
  <2> QED
    BY <2>1, <2>5, LenProperties, ElementOfSeq
<1>2. ASSUME ~target.full
      PROVE  \A i \in DOMAIN noProxy : HostMatchesEntry(target, noProxy[i]) <=> Names(noProxy[i], target)
  BY <1>1, <1>2, MatchesAreNames
<1>3. ASSUME tun = "direct", proxy.scheme # "none", ~target.full
      PROVE  \E i \in DOMAIN noProxy : noProxy[i].kind = "*" \/ Names(noProxy[i], target)
  <2>1. Bypasses(target, noProxy)
    BY <1>3 DEF TunnelInv
  <2>2. CASE Len(noProxy) = 1 /\ noProxy[1].kind = "*"
    BY <1>1, <2>2
  <2>3. CASE \E i \in DOMAIN noProxy : HostMatchesEntry(target, noProxy[i])
    BY <1>2, <1>3, <2>3
  <2> QED
    BY <2>1, <2>2, <2>3 DEF Bypasses
<1>4. ASSUME tun \notin {"start", "direct"}
      PROVE  \A i \in DOMAIN noProxy : target.full \/ ~Names(noProxy[i], target)
  <2>1. \A i \in DOMAIN noProxy : ~HostMatchesEntry(target, noProxy[i])
    BY <1>4 DEF TunnelInv, Bypasses
  <2> QED
    BY <1>2, <2>1
<1>5. ASSUME tun = "open" PROVE established /\ stream = <<"host", "host">>
  BY <1>5 DEF TunnelInv, HandshakeInv, HostBytes, Unanswered, Answered, Reading
<1> QED
  BY <1>3, <1>4, <1>5 DEF TunnelsRight

\* A host NO_PROXY names is reached directly and every other one through the
\* proxy, for lists of every length, suffixes and networks of every width; and
\* the connection handed over begins with the host's first byte, in whatever
\* pieces the proxy's answers came (should_bypass_proxy, establish_tunnel).
THEOREM TunnelsStayRight == TuSpec => []TunnelsRight
<1>1. TuInit => TunnelInv
  <2> SUFFICES ASSUME TuInit PROVE TunnelInv
    OBVIOUS
  <2>1. tun = "start" /\ requested = <<>> /\ replied = 0 /\ wants = 0 /\ stream = <<>> /\ ~established
    BY DEF TuInit
  <2>2. <<>> \in Seq(Messages)
    OBVIOUS
  <2> QED
    BY <2>1, <2>2 DEF TuInit, TunnelInv, HandshakeInv
<1> QED
  BY <1>1, NextTunnel, TunnelInvSuffices, PTL DEF TuSpec

-----------------------------------------------------------------------------
\* Downloads (update.rs).

(***************************************************************************)
(* Numbers and sequences.                                                  *)
(***************************************************************************)

\* A sequence of anything: what Append and Len say of it.
IsASequence(s) == Len(s) \in Nat /\ s = [i \in 1..Len(s) |-> s[i]]

LEMMA AppendFacts ==
    ASSUME NEW s, IsASequence(s), NEW e
    PROVE  /\ IsASequence(Append(s, e))
           /\ Len(Append(s, e)) = Len(s) + 1
           /\ DOMAIN Append(s, e) = 1..(Len(s) + 1)
           /\ \A i \in 1..Len(s) : Append(s, e)[i] = s[i]
           /\ Append(s, e)[Len(s) + 1] = e
<1> DEFINE S == {s[i] : i \in 1..Len(s)} \cup {e}
<1>1. s \in [1..Len(s) -> S]
  BY DEF IsASequence
<1>2. s \in Seq(S) /\ e \in S
  BY <1>1, IsASeq DEF IsASequence
<1> HIDE DEF S
<1>3. /\ Append(s, e) \in Seq(S)
      /\ Len(Append(s, e)) = Len(s) + 1
      /\ \A i \in 1..Len(s) : Append(s, e)[i] = s[i]
      /\ Append(s, e)[Len(s) + 1] = e
  BY <1>2, AppendProperties
<1>4. Append(s, e) \in [1..Len(Append(s, e)) -> S] /\ Len(Append(s, e)) \in Nat
  BY <1>3, LenProperties
<1> QED
  BY <1>3, <1>4 DEF IsASequence

LEMMA ShortFacts ==
    ASSUME NEW e
    PROVE  /\ IsASequence(<<>>) /\ Len(<<>>) = 0 /\ DOMAIN <<>> = {}
           /\ IsASequence(<<e>>) /\ Len(<<e>>) = 1 /\ DOMAIN <<e>> = {1}
  BY DEF IsASequence

(***************************************************************************)
(* Downloads.                                                              *)
(***************************************************************************)

\* What was chosen, and is on its way.
Chosen ==
    dlPhase \in {"sums", "binary", "verified"} =>
        /\ dlPick = Choice /\ Choice # NoRelease
        /\ dlList[dlPick].version # RunningVersions

\* What was received of it.
Received ==
    /\ dlPhase \in {"binary", "verified"} => HasChecksum(dlSums)
    /\ dlPhase = "verified" => Sha256(dlBinary) = Checksum(dlSums)

\* As long as the token is sent, every request went to the origin of the next.
TokenAtHome ==
    dlAuth => /\ dlUrl.origin \in GithubOrigins
              /\ \A i \in DOMAIN dlAsked : dlAsked[i].origin = dlUrl.origin

\* A download visits one URL more than it has asked.
Visits ==
    /\ Downloading => Len(dlVisited) = Len(dlAsked) + 1 /\ Len(dlVisited) <= MaxRedirects + 1
    /\ IsASequence(dlVisited) /\ IsASequence(dlAsked)

DownloadInv ==
    /\ dlList \in ReleaseLists
    /\ Chosen /\ Received
    /\ TokenAtHome /\ TokenStaysHome
    /\ Visits /\ RedirectsEnd

\* The release chosen for a request is stable, and none that would do is above it.
LEMMA SelectedIsHighest ==
    ASSUME NEW list, DOMAIN list = 1..Len(list), Len(list) \in Nat, NEW want,
           SelectRelease(list, want) # NoRelease
    PROVE  /\ SelectRelease(list, want) \in Candidates(list, want)
           /\ \A j \in Candidates(list, want) :
                 ~Above(list[j].version, list[SelectRelease(list, want)].version)
<1> DEFINE best == {i \in Candidates(list, want) :
                       \A j \in Candidates(list, want) : ~Above(list[j].version, list[i].version)}
<1>1. best # {} /\ SelectRelease(list, want) = Min(best)
  BY DEF SelectRelease
<1>2. best \subseteq Nat
  BY DEF Candidates
<1>3. Min(best) \in best
  <2> HIDE DEF best
  <2> QED
    BY <1>1, <1>2, MinIn
<1> QED
  BY <1>1, <1>3

LEMMA VerifiedIsTrusted == DownloadInv => DownloadsTrusted
<1> SUFFICES ASSUME DownloadInv PROVE ReleaseVerified
  BY DEF DownloadInv, DownloadsTrusted
<1> SUFFICES ASSUME dlPhase = "verified" PROVE ReleaseVerified
  BY DEF ReleaseVerified
<1> DEFINE r == dlList[dlPick]
<1>1. dlPick = Choice /\ Choice # NoRelease /\ r.version # RunningVersions
  BY DEF DownloadInv, Chosen
<1>2. \E i \in DOMAIN dlSums :
         /\ dlSums[i].digest = Sha256(dlBinary)
         /\ \A j \in DOMAIN dlSums : dlSums[j].file = PlatformAsset => j = i
  <2>1. PICK i \in LinesFor(dlSums) : LinesFor(dlSums) = {i}
    BY DEF DownloadInv, Received, HasChecksum
  <2>2. Checksum(dlSums) = dlSums[i].digest
    BY <2>1 DEF Checksum
  <2>3. Sha256(dlBinary) = Checksum(dlSums)
    BY DEF DownloadInv, Received
  <2> QED
    BY <2>1, <2>2, <2>3 DEF LinesFor
<1>3. CASE dlWant = AtBoot
  <2>1. Choice = LatestOf(dlList)
    BY <1>3 DEF Choice
  <2>2. dlPick = 1 /\ Newer(dlList[1].version)
    BY <1>1, <2>1 DEF LatestOf
  <2> QED
    BY <1>1, <1>2, <1>3, <2>2 DEF Newer, ReleaseVerified
<1>4. CASE dlWant # AtBoot
  <2>1. Choice = SelectRelease(dlList, dlWant)
    BY <1>4 DEF Choice
  <2>2. DOMAIN dlList = 1..Len(dlList) /\ Len(dlList) \in Nat
    BY DownloadsAssumption DEF DownloadInv
  <2>3. /\ dlPick \in Candidates(dlList, dlWant)
        /\ \A j \in Candidates(dlList, dlWant) : ~Above(dlList[j].version, r.version)
    BY <1>1, <2>1, <2>2, SelectedIsHighest
  <2>4. ~r.draft /\ ~r.prerelease
    BY <2>3 DEF Candidates, Stable
  <2>5. ASSUME NEW i \in DOMAIN dlList,
               ~dlList[i].draft, ~dlList[i].prerelease, Semver(dlList[i].version),
               dlList[i].wellFormed, VersionMatches(dlList[i].version, dlWant),
               \A name \in {PlatformAsset, ChecksumsAsset} :
                  Cardinality(AssetsNamed(dlList[i], name)) = 1
        PROVE  ~Above(dlList[i].version, r.version)
    <3>1. HasAsset(dlList[i], PlatformAsset) /\ HasAsset(dlList[i], ChecksumsAsset)
      BY <2>5 DEF HasAsset
    <3>2. i \in Candidates(dlList, dlWant)
      BY <2>5, <3>1 DEF Candidates, Stable
    <3> QED
      BY <2>3, <3>2
  <2> QED
    BY <1>1, <1>2, <1>4, <2>4, <2>5 DEF ReleaseVerified
<1> QED
  BY <1>3, <1>4

LEMMA InitDownload == DnInit => DownloadInv
<1> SUFFICES ASSUME DnInit PROVE DownloadInv
  OBVIOUS
<1>1. dlPhase = "select" /\ dlList \in ReleaseLists /\ dlVisited = <<>> /\ dlAsked = <<>>
  BY DEF DnInit
<1>2. IsASequence(<<>>) /\ Len(<<>>) = 0 /\ DOMAIN <<>> = {}
  BY ShortFacts
<1>3. Chosen /\ Received /\ ~Downloading
  BY <1>1 DEF Chosen, Received, Downloading
<1>4. TokenAtHome /\ TokenStaysHome
  BY <1>1, <1>2 DEF DnInit, TokenAtHome, TokenStaysHome
<1>5. Visits /\ RedirectsEnd
  BY <1>1, <1>2, <1>3, DownloadsAssumption DEF Visits, RedirectsEnd, IsInjective
<1> QED
  BY <1>1, <1>3, <1>4, <1>5 DEF DownloadInv

\* The first request of a download goes to GitHub, or without the token.
LEMMA StartKeepsHome ==
    ASSUME NEW phase \in {"sums", "binary"}, NEW url, StartDownload(phase, url)
    PROVE  TokenAtHome' /\ TokenStaysHome' /\ Visits' /\ RedirectsEnd'
<1>1. dlUrl' = url /\ dlVisited' = <<url>> /\ dlAsked' = <<>> /\ dlAuth' = (url.origin \in GithubOrigins)
  BY DEF StartDownload
<1>2. /\ IsASequence(<<>>) /\ Len(<<>>) = 0 /\ DOMAIN <<>> = {}
      /\ IsASequence(<<url>>) /\ Len(<<url>>) = 1 /\ DOMAIN <<url>> = {1}
  BY ShortFacts
<1>3. TokenAtHome' /\ TokenStaysHome'
  BY <1>1, <1>2 DEF TokenAtHome, TokenStaysHome
<1>4. Visits' /\ RedirectsEnd'
  BY <1>1, <1>2, DownloadsAssumption DEF Visits, RedirectsEnd, IsInjective
<1> QED
  BY <1>3, <1>4

\* One more request, after which the download may be over.
LEMMA AskedKeepsHome ==
    ASSUME DownloadInv, Downloading, dlAsked' = Asked, UNCHANGED <<dlUrl, dlAuth, dlVisited>>,
           dlPhase' \in {"failed", "verified"}
    PROVE  TokenAtHome' /\ TokenStaysHome' /\ Visits' /\ RedirectsEnd'
<1>1. IsASequence(dlAsked) /\ Len(dlAsked) \in Nat /\ DOMAIN dlAsked = 1..Len(dlAsked)
  BY DEF DownloadInv, Visits, IsASequence
<1>2. /\ IsASequence(dlAsked') /\ Len(dlAsked') = Len(dlAsked) + 1
      /\ DOMAIN dlAsked' = 1..(Len(dlAsked) + 1)
      /\ \A i \in 1..Len(dlAsked) : dlAsked'[i] = dlAsked[i]
      /\ dlAsked'[Len(dlAsked) + 1] = [origin |-> dlUrl.origin, token |-> dlAuth]
  BY <1>1, AppendFacts DEF Asked
<1>3. \A i \in DOMAIN dlAsked' : i \in 1..Len(dlAsked) \/ i = Len(dlAsked) + 1
  BY <1>1, <1>2
<1>4. TokenAtHome'
  BY <1>1, <1>2, <1>3 DEF DownloadInv, TokenAtHome
<1>5. TokenStaysHome'
  <2> SUFFICES ASSUME NEW i \in DOMAIN dlAsked', dlAsked'[i].token, NEW j \in 1..i
               PROVE  dlAsked'[j].origin = dlAsked'[1].origin /\ dlAsked'[j].origin \in GithubOrigins
    BY DEF TokenStaysHome
  <2>1. 1 \in 1..Len(dlAsked) \/ Len(dlAsked) = 0
    BY <1>1
  <2>2. CASE i \in 1..Len(dlAsked)
    <3>1. j \in 1..Len(dlAsked) /\ 1 \in 1..Len(dlAsked)
      BY <1>1, <2>2
    <3> QED
      BY <1>1, <1>2, <2>2, <3>1 DEF DownloadInv, TokenStaysHome
  <2>3. CASE i = Len(dlAsked) + 1
    <3>1. dlAuth
      BY <1>2, <2>3
    <3>2. \A k \in DOMAIN dlAsked' : dlAsked'[k].origin = dlUrl.origin /\ dlUrl.origin \in GithubOrigins
      BY <3>1, <1>1, <1>2, <1>3 DEF DownloadInv, TokenAtHome
    <3>3. j \in DOMAIN dlAsked' /\ 1 \in DOMAIN dlAsked'
      BY <1>1, <1>2, <2>3
    <3> QED
      BY <3>2, <3>3
  <2> QED
    BY <1>3, <2>2, <2>3
<1>6. Visits' /\ RedirectsEnd'
  BY <1>1, <1>2, DownloadsAssumption DEF DownloadInv, Visits, RedirectsEnd, Downloading
<1> QED
  BY <1>4, <1>5, <1>6

\* A redirect that is followed.
LEMMA FollowKeepsHome ==
    ASSUME DownloadInv, Downloading, dlAsked' = Asked, dlPhase' = dlPhase, NEW next,
           Len(dlVisited) <= MaxRedirects, next \notin Range(dlVisited),
           dlUrl' = next, dlAuth' = AuthAfter(dlAuth, dlUrl, next),
           dlVisited' = Append(dlVisited, next)
    PROVE  TokenAtHome' /\ TokenStaysHome' /\ Visits' /\ RedirectsEnd'
<1>1. IsASequence(dlAsked) /\ Len(dlAsked) \in Nat /\ DOMAIN dlAsked = 1..Len(dlAsked)
  BY DEF DownloadInv, Visits, IsASequence
<1>2. /\ IsASequence(dlAsked') /\ Len(dlAsked') = Len(dlAsked) + 1
      /\ DOMAIN dlAsked' = 1..(Len(dlAsked) + 1)
      /\ \A i \in 1..Len(dlAsked) : dlAsked'[i] = dlAsked[i]
      /\ dlAsked'[Len(dlAsked) + 1] = [origin |-> dlUrl.origin, token |-> dlAuth]
  BY <1>1, AppendFacts DEF Asked
<1>3. \A i \in DOMAIN dlAsked' : i \in 1..Len(dlAsked) \/ i = Len(dlAsked) + 1
  BY <1>1, <1>2
<1>4. TokenAtHome'
  <2> SUFFICES ASSUME dlAuth' PROVE TokenAtHome'
    BY DEF TokenAtHome
  <2>1. dlAuth /\ next.origin = dlUrl.origin
    BY DEF AuthAfter, SameOrigin
  <2>2. \A i \in DOMAIN dlAsked' : dlAsked'[i].origin = dlUrl.origin
    BY <2>1, <1>1, <1>2, <1>3 DEF DownloadInv, TokenAtHome
  <2> QED
    BY <2>1, <2>2 DEF DownloadInv, TokenAtHome
<1>5. TokenStaysHome'
  <2> SUFFICES ASSUME NEW i \in DOMAIN dlAsked', dlAsked'[i].token, NEW j \in 1..i
               PROVE  dlAsked'[j].origin = dlAsked'[1].origin /\ dlAsked'[j].origin \in GithubOrigins
    BY DEF TokenStaysHome
  <2>2. CASE i \in 1..Len(dlAsked)
    <3>1. j \in 1..Len(dlAsked) /\ 1 \in 1..Len(dlAsked)
      BY <1>1, <2>2
    <3> QED
      BY <1>1, <1>2, <2>2, <3>1 DEF DownloadInv, TokenStaysHome
  <2>3. CASE i = Len(dlAsked) + 1
    <3>1. dlAuth
      BY <1>2, <2>3
    <3>2. \A k \in DOMAIN dlAsked' : dlAsked'[k].origin = dlUrl.origin /\ dlUrl.origin \in GithubOrigins
      BY <3>1, <1>1, <1>2, <1>3 DEF DownloadInv, TokenAtHome
    <3>3. j \in DOMAIN dlAsked' /\ 1 \in DOMAIN dlAsked'
      BY <1>1, <1>2, <2>3
    <3> QED
      BY <3>2, <3>3
  <2> QED
    BY <1>3, <2>2, <2>3
<1>6. /\ IsASequence(dlVisited') /\ Len(dlVisited') = Len(dlVisited) + 1
      /\ DOMAIN dlVisited' = 1..(Len(dlVisited) + 1)
      /\ \A i \in 1..Len(dlVisited) : dlVisited'[i] = dlVisited[i]
      /\ dlVisited'[Len(dlVisited) + 1] = next
  BY AppendFacts DEF DownloadInv, Visits
<1>7. Len(dlVisited) \in Nat /\ DOMAIN dlVisited = 1..Len(dlVisited)
  BY DEF DownloadInv, Visits, IsASequence
<1>8. IsInjective(dlVisited')
  <2>1. \A i \in 1..Len(dlVisited) : dlVisited[i] # next
    BY <1>7 DEF Range
  <2>2. \A i \in DOMAIN dlVisited' : i \in 1..Len(dlVisited) \/ i = Len(dlVisited) + 1
    BY <1>6, <1>7
  <2>3. \A a, b \in 1..Len(dlVisited) : dlVisited[a] = dlVisited[b] => a = b
    BY <1>7 DEF DownloadInv, RedirectsEnd, IsInjective
  <2> QED
    BY <1>6, <2>1, <2>2, <2>3 DEF IsInjective
<1>9. Len(dlVisited) = Len(dlAsked) + 1
  BY DEF DownloadInv, Visits
<1>10. Len(dlVisited') = Len(dlAsked') + 1 /\ Len(dlVisited') <= MaxRedirects + 1
       /\ Len(dlAsked') <= MaxRedirects + 1
  BY <1>1, <1>2, <1>6, <1>7, <1>9, DownloadsAssumption
<1>11. Visits' /\ RedirectsEnd'
  BY <1>2, <1>6, <1>8, <1>10 DEF Visits, RedirectsEnd
<1> QED
  BY <1>4, <1>5, <1>11

LEMMA NextDownload == DownloadInv /\ [DnNext]_dnVars => DownloadInv'
<1> SUFFICES ASSUME DownloadInv, [DnNext]_dnVars PROVE DownloadInv'
  OBVIOUS
<1>1. CASE UNCHANGED dnVars
  BY <1>1 DEF dnVars, DownloadInv, Chosen, Received, TokenAtHome, TokenStaysHome, Visits,
     RedirectsEnd, Downloading, Choice
<1>2. CASE Select
  <2>1. ASSUME NEW phase \in {"current", "failed"}, DlEnds(phase)
        PROVE  TokenAtHome' /\ TokenStaysHome' /\ Visits' /\ RedirectsEnd' /\ Chosen' /\ Received'
    BY <2>1 DEF DlEnds, DownloadInv, Chosen, Received, TokenAtHome, TokenStaysHome, Visits,
       RedirectsEnd, Downloading
  <2>2. UNCHANGED <<dlWant, dlList, dlSums, dlBinary>> /\ Choice' = Choice /\ dlList \in ReleaseLists
    BY <1>2 DEF Select, Choice, DownloadInv
  <2>3. CASE \E phase \in {"current", "failed"} : DlEnds(phase)
    BY <2>1, <2>2, <2>3 DEF DownloadInv
  <2>4. CASE /\ Choice # NoRelease /\ dlPick' = Choice
             /\ dlList[Choice].version # RunningVersions
             /\ StartDownload("sums", AssetUrl(dlList[Choice], ChecksumsAsset))
    <3>1. TokenAtHome' /\ TokenStaysHome' /\ Visits' /\ RedirectsEnd'
      BY <2>4, StartKeepsHome
    <3>2. dlPhase' = "sums"
      BY <2>4 DEF StartDownload
    <3>3. Chosen' /\ Received'
      BY <2>2, <2>4, <3>2 DEF Chosen, Received
    <3> QED
      BY <2>2, <3>1, <3>3 DEF DownloadInv
  <2> QED
    BY <1>2, <2>3, <2>4 DEF Select
<1>3. ASSUME NEW a \in ServerPages, FollowRedirect(a) PROVE DownloadInv'
  <2>1. /\ UNCHANGED <<dlWant, dlList, dlPick, dlSums, dlBinary>>
        /\ Choice' = Choice /\ dlList \in ReleaseLists /\ Downloading /\ dlAsked' = Asked
    BY <1>3 DEF FollowRedirect, Choice, DownloadInv
  <2>2. CASE dlPhase' = "failed" /\ UNCHANGED <<dlUrl, dlAuth, dlVisited>>
    <3>1. TokenAtHome' /\ TokenStaysHome' /\ Visits' /\ RedirectsEnd'
      BY <2>1, <2>2, AskedKeepsHome
    <3>2. Chosen' /\ Received'
      BY <2>1, <2>2 DEF Chosen, Received
    <3> QED
      BY <2>1, <3>1, <3>2 DEF DownloadInv
  <2>3. ASSUME NEW next, ~(Len(dlVisited) > MaxRedirects), next \notin Range(dlVisited),
               dlUrl' = next, dlAuth' = AuthAfter(dlAuth, dlUrl, next),
               dlVisited' = Append(dlVisited, next), dlPhase' = dlPhase
        PROVE  DownloadInv'
    <3>a. Len(dlVisited) \in Nat /\ MaxRedirects \in Nat
      BY DownloadsAssumption DEF DownloadInv, Visits, IsASequence
    <3>0. Len(dlVisited) <= MaxRedirects
      BY <2>3, <3>a
    <3>1. TokenAtHome' /\ TokenStaysHome' /\ Visits' /\ RedirectsEnd'
      BY <2>1, <2>3, <3>0, FollowKeepsHome
    <3>2. Chosen' /\ Received'
      BY <2>1, <2>3 DEF Chosen, Received, DownloadInv
    <3> QED
      BY <2>1, <3>1, <3>2 DEF DownloadInv
  <2> QED
    BY <1>3, <2>2, <2>3 DEF FollowRedirect
<1>4. ASSUME NEW a \in ServerPages, ReceiveSums(a) PROVE DownloadInv'
  <2>1. /\ UNCHANGED <<dlWant, dlList, dlPick, dlBinary>>
        /\ Choice' = Choice /\ dlList \in ReleaseLists /\ dlPhase = "sums"
    BY <1>4 DEF ReceiveSums, ServerAnswers, Choice, DownloadInv
  <2>2. CASE HasChecksum(dlSums') /\ StartDownload("binary", AssetUrl(dlList[dlPick], PlatformAsset))
    <3>1. TokenAtHome' /\ TokenStaysHome' /\ Visits' /\ RedirectsEnd'
      BY <2>2, StartKeepsHome
    <3>2. dlPhase' = "binary"
      BY <2>2 DEF StartDownload
    <3>3. HasChecksum(dlSums)'
      BY <2>2 DEF HasChecksum, LinesFor
    <3>4. Chosen' /\ Received'
      BY <2>1, <3>2, <3>3 DEF Chosen, Received, DownloadInv
    <3> QED
      BY <2>1, <3>1, <3>4 DEF DownloadInv
  <2>3. CASE dlPhase' = "failed" /\ dlAsked' = Asked /\ UNCHANGED <<dlUrl, dlAuth, dlVisited>>
    <3>1. TokenAtHome' /\ TokenStaysHome' /\ Visits' /\ RedirectsEnd'
      BY <2>1, <2>3, AskedKeepsHome DEF Downloading
    <3>2. Chosen' /\ Received'
      BY <2>3 DEF Chosen, Received
    <3> QED
      BY <2>1, <3>1, <3>2 DEF DownloadInv
  <2> QED
    BY <1>4, <2>2, <2>3 DEF ReceiveSums
<1>5. ASSUME NEW a \in ServerPages, ReceiveBinary(a) PROVE DownloadInv'
  <2>1. /\ UNCHANGED <<dlWant, dlList, dlPick, dlUrl, dlAuth, dlVisited, dlSums>>
        /\ Choice' = Choice /\ dlList \in ReleaseLists /\ dlPhase = "binary" /\ dlAsked' = Asked
        /\ dlPhase' \in {"failed", "verified"}
        /\ dlPhase' = "verified" => Sha256(dlBinary') = Checksum(dlSums)
    BY <1>5 DEF ReceiveBinary, ServerAnswers, Choice, DownloadInv
  <2>2. TokenAtHome' /\ TokenStaysHome' /\ Visits' /\ RedirectsEnd'
    BY <2>1, AskedKeepsHome DEF Downloading
  <2>3. Chosen'
    BY <2>1 DEF Chosen, DownloadInv
  <2>4. HasChecksum(dlSums)' /\ Checksum(dlSums)' = Checksum(dlSums) /\ Sha256(dlBinary)' = Sha256(dlBinary')
    BY <2>1 DEF Received, DownloadInv, HasChecksum, LinesFor, Checksum, Sha256
  <2>5. Received'
    BY <2>1, <2>4 DEF Received
  <2> QED
    BY <2>1, <2>2, <2>3, <2>5 DEF DownloadInv
<1>6. ASSUME NEW a \in ServerPages, DownloadFails(a) PROVE DownloadInv'
  <2>1. /\ UNCHANGED <<dlWant, dlList, dlPick, dlUrl, dlAuth, dlVisited, dlSums, dlBinary>>
        /\ dlList \in ReleaseLists /\ Downloading /\ dlPhase' = "failed" /\ dlAsked' = Asked
    BY <1>6 DEF DownloadFails, DownloadInv
  <2>2. TokenAtHome' /\ TokenStaysHome' /\ Visits' /\ RedirectsEnd'
    BY <2>1, AskedKeepsHome
  <2>3. Chosen' /\ Received'
    BY <2>1 DEF Chosen, Received
  <2> QED
    BY <2>1, <2>2, <2>3 DEF DownloadInv
<1> QED
  BY <1>1, <1>2, <1>3, <1>4, <1>5, <1>6 DEF DnNext

\* For every list of releases, redirect and length, the binary handed over is
\* the one the manifest names of a release asked for, and the repository's token
\* goes to its origin only (check_and_update_target, follow_redirects).
THEOREM DownloadsStayTrusted == DnSpec => []DownloadsTrusted
  BY InitDownload, NextDownload, VerifiedIsTrusted, PTL DEF DnSpec

-----------------------------------------------------------------------------
(***************************************************************************)
(* The HTTP client.                                                        *)
(***************************************************************************)

\* What a server sends, and where the decoder of chunks is.
Tokens == [t : {"status", "chunked", "coding", "gzip", "noise", "length", "blank", "byte",
                "size", "crlf", "trailer"}, n : Nat]
Decoder == [at : {"size", "bytes", "end", "trailers", "whole", "invalid"}, left : Int, body : Seq(Tokens)]

LEMMA TakeTokenType ==
    ASSUME NEW d \in Decoder, NEW x \in Tokens
    PROVE  TakeToken(d, x) \in Decoder
<1>1. /\ d.at \in {"size", "bytes", "end", "trailers", "whole", "invalid"}
      /\ d.left \in Int /\ d.body \in Seq(Tokens) /\ x.n \in Nat
      /\ d = [at |-> d.at, left |-> d.left, body |-> d.body]
  BY DEF Decoder, Tokens
<1>2. Append(d.body, x) \in Seq(Tokens)
  BY <1>1
<1>3. CASE d.at = "size" /\ x.t = "size"
  <2>1. TakeToken(d, x) = [d EXCEPT !.at = IF x.n = 0 THEN "trailers" ELSE "bytes", !.left = x.n]
    BY <1>3 DEF TakeToken
  <2>2. \E a \in {"trailers", "bytes"} : TakeToken(d, x) = [at |-> a, left |-> x.n, body |-> d.body]
    BY <1>1, <2>1
  <2> QED
    BY <1>1, <2>2 DEF Decoder
<1>4. CASE d.at = "bytes"
  <2>1. TakeToken(d, x) = [at |-> IF d.left = 1 THEN "end" ELSE "bytes", left |-> d.left - 1,
                           body |-> Append(d.body, x)]
    BY <1>4 DEF TakeToken
  <2> QED
    BY <1>1, <1>2, <2>1 DEF Decoder
<1>5. CASE ~(d.at = "size" /\ x.t = "size") /\ d.at # "bytes"
  <2>1. \E a \in {"size", "trailers", "whole", "invalid"} : TakeToken(d, x) = [d EXCEPT !.at = a]
    BY <1>1, <1>5 DEF TakeToken
  <2> QED
    BY <1>1, <2>1 DEF Decoder
<1> QED
  BY <1>3, <1>4, <1>5

\* The fold of DecodeChunked, taken apart.
LEMMA DecodeUnfolds ==
    ASSUME NEW raw \in Seq(Tokens)
    PROVE  \E h : /\ DecodeChunked(raw) = h[1..Len(raw)]
                  /\ h[{}] = AtFirst
                  /\ \A s \in SUBSET (1..Len(raw)) : s # {} =>
                        h[s] = TakeToken(h[s \ {Max(s)}], raw[Max(s)])
<1> DEFINE n == Len(raw)
           Solves(g) == g = [s \in SUBSET (DOMAIN raw) |->
                               IF s = {} THEN AtFirst ELSE TakeToken(g[s \ {Max(s)}], raw[Max(s)])]
           h == CHOOSE g : Solves(g)
           step == [p \in (1..n) \X Decoder |-> TakeToken(p[2], raw[p[1]])]
<1>1. DecodeChunked(raw) = h[DOMAIN raw]
  BY DEF DecodeChunked, FoldLeft, MapThenFoldSet
<1>2. n \in Nat /\ DOMAIN raw = 1..n /\ \A k \in 1..n : raw[k] \in Tokens
  OBVIOUS
<1>3. AtFirst \in Decoder
  BY DEF AtFirst, Decoder
<1>4. step \in [(1..n) \X Decoder -> Decoder]
  <2>1. \A p \in (1..n) \X Decoder : TakeToken(p[2], raw[p[1]]) \in Decoder
    <3> TAKE p \in (1..n) \X Decoder
    <3>1. p[1] \in 1..n /\ p[2] \in Decoder
      OBVIOUS
    <3> QED
      BY <1>2, <3>1, TakeTokenType
  <2> QED
    BY <2>1
<1> HIDE DEF n, step
<1>5. PICK f \in [SUBSET (1..n) -> Decoder] : FoldsOver(f, n, AtFirst, step)
  BY <1>2, <1>3, <1>4, FoldOverIndices
<1>6. \A s \in SUBSET (1..n) : f[s] = IF s = {} THEN AtFirst ELSE TakeToken(f[s \ {Max(s)}], raw[Max(s)])
  <2> SUFFICES ASSUME NEW s \in SUBSET (1..n), s # {}
               PROVE  f[s] = TakeToken(f[s \ {Max(s)}], raw[Max(s)])
    BY <1>5 DEF FoldsOver
  <2>1. Max(s) \in 1..n /\ f[s \ {Max(s)}] \in Decoder
    BY <1>2, PartOfIndices
  <2>2. <<Max(s), f[s \ {Max(s)}]>> \in (1..n) \X Decoder
    BY <2>1
  <2>3. f[s] = step[<<Max(s), f[s \ {Max(s)}]>>]
    BY <1>5 DEF FoldsOver
  <2> QED
    BY <2>2, <2>3 DEF step
<1>7. Solves(f)
  <2>1. f = [s \in SUBSET (1..n) |-> f[s]]
    OBVIOUS
  <2> QED
    BY <1>2, <1>6, <2>1, Zenon
<1>8. Solves(h)
  BY <1>7
<1> HIDE DEF h
<1>9. \A s \in SUBSET (1..n) : h[s] = IF s = {} THEN AtFirst ELSE TakeToken(h[s \ {Max(s)}], raw[Max(s)])
  BY <1>2, <1>8, Zenon
<1> QED
  BY <1>1, <1>2, <1>9 DEF n

\* One more token is one more turn of the decoder.
LEMMA DecodeAppend ==
    ASSUME NEW raw \in Seq(Tokens), NEW x \in Tokens
    PROVE  /\ DecodeChunked(raw) \in Decoder
           /\ DecodeChunked(Append(raw, x)) = TakeToken(DecodeChunked(raw), x)
<1> DEFINE n == Len(raw)
           longer == Append(raw, x)
<1>1. /\ n \in Nat /\ longer \in Seq(Tokens) /\ Len(longer) = n + 1 /\ longer[n + 1] = x
      /\ \A k \in 1..n : longer[k] = raw[k] /\ raw[k] \in Tokens
  OBVIOUS
<1> HIDE DEF longer
<1>2. PICK h : /\ DecodeChunked(raw) = h[1..n] /\ h[{}] = AtFirst
               /\ \A s \in SUBSET (1..n) : s # {} => h[s] = TakeToken(h[s \ {Max(s)}], raw[Max(s)])
  BY DecodeUnfolds
<1>3. PICK g : /\ DecodeChunked(longer) = g[1..Len(longer)] /\ g[{}] = AtFirst
               /\ \A s \in SUBSET (1..Len(longer)) : s # {} => g[s] = TakeToken(g[s \ {Max(s)}], longer[Max(s)])
  BY <1>1, DecodeUnfolds
<1> HIDE DEF n
<1> DEFINE T == {k \in 0..n : h[1..k] = g[1..k] /\ h[1..k] \in Decoder}
<1>3a. /\ DecodeChunked(longer) = g[1..(n + 1)]
       /\ \A s \in SUBSET (1..(n + 1)) : s # {} => g[s] = TakeToken(g[s \ {Max(s)}], longer[Max(s)])
  <2>1. Len(longer) = n + 1
    BY <1>1
  <2> HIDE DEF T
  <2> QED
    BY <1>3, <2>1, Zenon
<1>4. 0 \in T
  <2>1. 1..0 = {} /\ AtFirst \in Decoder
    BY DEF AtFirst, Decoder
  <2> QED
    BY <1>1, <1>2, <1>3, <2>1
<1>5. ASSUME NEW k \in 1..n, k - 1 \in T PROVE k \in T
  <2>1. h[1..k] = TakeToken(h[1..(k - 1)], raw[k])
    BY <1>1, <1>2, LastOfUpTo
  <2>2. k \in 1..(n + 1) /\ n + 1 \in Nat
    BY <1>1
  <2>3. Max(1..k) = k /\ (1..k) \ {k} = 1..(k - 1) /\ 1..k \in SUBSET (1..(n + 1)) /\ 1..k # {}
    BY <2>2, LastOfUpTo
  <2>4. g[1..k] = TakeToken(g[1..(k - 1)], longer[k])
    BY <1>3a, <2>3
  <2>5. h[1..(k - 1)] = g[1..(k - 1)] /\ h[1..(k - 1)] \in Decoder
    BY <1>5
  <2> QED
    BY <1>1, <2>1, <2>4, <2>5, TakeTokenType
<1> HIDE DEF T
<1>6. n \in T
  BY <1>1, <1>4, <1>5, ByCounting
<1>7. h[1..n] = g[1..n] /\ h[1..n] \in Decoder
  BY <1>6 DEF T
<1>8. g[1..(n + 1)] = TakeToken(g[1..n], x)
  <2>1. n + 1 \in 1..(n + 1) /\ n + 1 \in Nat /\ (n + 1) - 1 = n
    BY <1>1
  <2>2. Max(1..(n + 1)) = n + 1 /\ (1..(n + 1)) \ {n + 1} = 1..((n + 1) - 1)
        /\ 1..(n + 1) \in SUBSET (1..(n + 1)) /\ 1..(n + 1) # {}
    BY <2>1, LastOfUpTo
  <2> QED
    BY <1>1, <1>3a, <2>1, <2>2
<1>9. DecodeChunked(longer) = TakeToken(DecodeChunked(raw), x) /\ DecodeChunked(raw) \in Decoder
  BY <1>2, <1>3a, <1>7, <1>8
<1> QED
  BY <1>9, Zenon DEF longer

LEMMA DecodeEmpty == DecodeChunked(<<>>) = AtFirst
<1>1. <<>> \in Seq(Tokens) /\ Len(<<>>) = 0 /\ 1..0 = {}
  OBVIOUS
<1>2. PICK h : DecodeChunked(<<>>) = h[1..Len(<<>>)] /\ h[{}] = AtFirst
  BY <1>1, DecodeUnfolds
<1> QED
  BY <1>1, <1>2

BodyTokens == {x \in Tokens : x.t = "byte"}

\* The lines of a head, the first blank one its last, and what follows them.
Parted(lines, raw, s) ==
    /\ lines \in Seq(Tokens) /\ raw \in Seq(Tokens) /\ s = lines \o raw
    /\ Len(lines) >= 1 /\ lines[Len(lines)].t = "blank"
    /\ \A i \in 1..Len(lines) : i # Len(lines) => lines[i].t # "blank"
    /\ \A i \in 1..Len(raw) : raw[i].t \in {"byte", "size", "crlf", "trailer"}

\* Where the decoder is when the server is in a phase of the chunks, with so
\* many bytes of the body to come.
InChunks(d, phase, left, rest) ==
    \/ phase \in {"size", "end"} /\ d.at = phase
    \/ phase = "bytes" /\ d.at = "bytes" /\ d.left = left /\ left \in 1..rest
    \/ phase \in {"trailers", "trailed"} /\ d.at = "trailers" /\ rest = 0
    \/ phase = "over" /\ d.at = "whole" /\ rest = 0

HeadAndBody(lines, raw, s, y, phase, k, left) ==
    /\ Parted(lines, raw, s)
    /\ \/ /\ phase = "plain" /\ raw = SubSeq(y, 1, k)
          /\ DecodeChunked(raw).at \in {"size", "invalid"}
       \/ /\ Says("chunked", lines) /\ DecodeChunked(raw).body = SubSeq(y, 1, k)
          /\ InChunks(DecodeChunked(raw), phase, left, Len(y) - k)

\* What the server has sent, of body y the first k bytes with it.
Served(s, y, phase, k, left) ==
    /\ s \in Seq(Tokens) /\ y \in Seq(BodyTokens) /\ k \in 0..Len(y) /\ left \in Nat
    /\ \/ phase \in {"status", "head"} /\ k = 0 /\ ~Says("blank", s)
       \/ \E b \in 1..Len(s) :
             HeadAndBody(SubSeq(s, 1, b), SubSeq(s, b + 1, Len(s)), s, y, phase, k, left)

Begins(p, s) == Len(p) <= Len(s) /\ \A i \in 1..Len(p) : p[i] = s[i]

\* What http_post_stream has taken of the head: it would have failed at a line
\* that says chunked, at a second length, and it stops at the blank line.
HeadTaken(h, s) ==
    /\ h \in Seq(Tokens) /\ Begins(h, s)
    /\ ~Says("chunked", h) /\ ~SaysTwice("length", h)
    /\ \A i \in 1..Len(h) : i # Len(h) => h[i].t # "blank"

BodyRead(o, h, s) ==
    /\ o \in Seq(Tokens) /\ Len(h) + Len(o) <= Len(s)
    /\ \A j \in 1..Len(o) : o[j] = s[Len(h) + j]
    /\ Len(o) # 0 => Says("blank", h)

HtInv ==
    /\ call \in {"whole", "stream"} /\ outcome \in {"sending", "reading", "ok", "failed"}
    /\ source \in Nat /\ claimed \in Nat
    /\ Served(serverSends, body, serves, told, chunkLeft)
    /\ data \in Seq(Tokens) /\ Begins(data, serverSends)
    /\ call = "stream" => HeadTaken(head, serverSends) /\ BodyRead(bodyOut, head, serverSends)
    /\ call = "stream" /\ Len(bodyOut) # 0 => Len(bodyOut) <= Announced /\ Announced <= ResponseLimit
    /\ call = "whole" /\ outcome # "ok" => bodyOut = <<>>
    /\ outcome \in {"reading", "ok"} => source >= claimed
    /\ ResponseWhole

LEMMA Parts ==
    ASSUME NEW lines \in Seq(Tokens), NEW raw \in Seq(Tokens), NEW s, s = lines \o raw, Len(lines) >= 1
    PROVE  /\ s \in Seq(Tokens) /\ Len(s) = Len(lines) + Len(raw) /\ Len(lines) \in 1..Len(s)
           /\ \A i \in 1..Len(lines) : s[i] = lines[i]
           /\ \A i \in 1..Len(raw) : s[Len(lines) + i] = raw[i]
           /\ SubSeq(s, 1, Len(lines)) = lines /\ SubSeq(s, Len(lines) + 1, Len(s)) = raw
<1>1. /\ s \in Seq(Tokens) /\ Len(s) = Len(lines) + Len(raw) /\ Len(lines) \in 1..Len(s)
      /\ \A i \in 1..Len(lines) : s[i] = lines[i]
      /\ \A i \in 1..Len(raw) : s[Len(lines) + i] = raw[i]
  OBVIOUS
<1>2. SubSeq(s, 1, Len(lines)) = lines
  <2>1. /\ SubSeq(s, 1, Len(lines)) \in Seq(Tokens) /\ Len(SubSeq(s, 1, Len(lines))) = Len(lines)
        /\ \A i \in 1..Len(lines) : SubSeq(s, 1, Len(lines))[i] = s[i]
    BY <1>1
  <2> QED
    BY <1>1, <2>1, SeqEqual
<1>3. SubSeq(s, Len(lines) + 1, Len(s)) = raw
  <2>1. /\ SubSeq(s, Len(lines) + 1, Len(s)) \in Seq(Tokens) /\ Len(SubSeq(s, Len(lines) + 1, Len(s))) = Len(raw)
        /\ \A i \in 1..Len(raw) : SubSeq(s, Len(lines) + 1, Len(s))[i] = s[Len(lines) + i]
    BY <1>1
  <2> QED
    BY <1>1, <2>1, SeqEqual
<1> QED
  BY <1>1, <1>2, <1>3

\* One more token behind the head.
LEMMA PartedGrows ==
    ASSUME NEW lines, NEW raw, NEW s, Parted(lines, raw, s),
           NEW x \in Tokens, x.t \in {"byte", "size", "crlf", "trailer"}
    PROVE  /\ Parted(lines, Append(raw, x), Append(s, x))
           /\ DecodeChunked(raw) \in Decoder
           /\ DecodeChunked(Append(raw, x)) = TakeToken(DecodeChunked(raw), x)
<1>1. lines \in Seq(Tokens) /\ raw \in Seq(Tokens) /\ s = lines \o raw
  BY DEF Parted
<1>2. Append(raw, x) \in Seq(Tokens) /\ Append(s, x) = lines \o Append(raw, x)
  <2>1. /\ s \in Seq(Tokens) /\ Append(raw, x) \in Seq(Tokens) /\ Append(s, x) \in Seq(Tokens)
        /\ lines \o Append(raw, x) \in Seq(Tokens)
        /\ Len(Append(s, x)) = Len(lines) + Len(raw) + 1 /\ Len(lines \o Append(raw, x)) = Len(lines) + Len(raw) + 1
    BY <1>1
  <2>2. ASSUME NEW i \in 1..Len(Append(s, x)) PROVE Append(s, x)[i] = (lines \o Append(raw, x))[i]
    <3>1. CASE i \in 1..Len(lines)
      BY <1>1, <2>1, <3>1
    <3>2. CASE i \in (Len(lines) + 1)..(Len(lines) + Len(raw))
      <4>1. i - Len(lines) \in 1..Len(raw) /\ Append(raw, x)[i - Len(lines)] = raw[i - Len(lines)]
        BY <1>1, <3>2
      <4>2. (lines \o Append(raw, x))[i] = Append(raw, x)[i - Len(lines)] /\ s[i] = raw[i - Len(lines)]
        BY <1>1, <2>1, <3>2
      <4> QED
        BY <1>1, <2>1, <3>2, <4>1, <4>2
    <3>3. CASE i = Len(lines) + Len(raw) + 1
      <4>1. i - Len(lines) = Len(raw) + 1 /\ Append(raw, x)[Len(raw) + 1] = x /\ Append(s, x)[i] = x
        BY <1>1, <2>1, <3>3
      <4>2. (lines \o Append(raw, x))[i] = Append(raw, x)[i - Len(lines)]
        BY <1>1, <2>1, <3>3
      <4> QED
        BY <4>1, <4>2
    <3>4. i \in 1..Len(lines) \/ i \in (Len(lines) + 1)..(Len(lines) + Len(raw)) \/ i = Len(lines) + Len(raw) + 1
      <4>1. Len(lines) \in Nat /\ Len(raw) \in Nat /\ i \in 1..(Len(lines) + Len(raw) + 1)
        BY <1>1, <2>1
      <4> QED
        BY <4>1
    <3> QED
      BY <3>1, <3>2, <3>3, <3>4
  <2>3. Len(Append(s, x)) = Len(lines \o Append(raw, x))
    BY <2>1
  <2> QED
    BY <2>1, <2>2, <2>3, SeqEqual
<1>3. \A i \in 1..Len(Append(raw, x)) : Append(raw, x)[i].t \in {"byte", "size", "crlf", "trailer"}
  <2>1. \A i \in 1..Len(Append(raw, x)) : (i \in 1..Len(raw) /\ Append(raw, x)[i] = raw[i]) \/ Append(raw, x)[i] = x
    BY <1>1
  <2> QED
    BY <2>1 DEF Parted
<1>4. Parted(lines, Append(raw, x), Append(s, x))
  BY <1>2, <1>3 DEF Parted
<1> QED
  BY <1>1, <1>4, DecodeAppend

\* What has been answered has been served.
LEMMA AnsweredServes ==
    ASSUME NEW lines, NEW raw, NEW s, NEW y \in Seq(BodyTokens), NEW phase,
           NEW k \in 0..Len(y), NEW left \in Nat, HeadAndBody(lines, raw, s, y, phase, k, left)
    PROVE  Served(s, y, phase, k, left)
<1>1. lines \in Seq(Tokens) /\ raw \in Seq(Tokens) /\ s = lines \o raw /\ Len(lines) >= 1
  BY DEF HeadAndBody, Parted
<1>2. /\ s \in Seq(Tokens) /\ Len(lines) \in 1..Len(s)
      /\ SubSeq(s, 1, Len(lines)) = lines /\ SubSeq(s, Len(lines) + 1, Len(s)) = raw
  BY <1>1, Parts
<1>3. \E b \in 1..Len(s) : HeadAndBody(SubSeq(s, 1, b), SubSeq(s, b + 1, Len(s)), s, y, phase, k, left)
  BY <1>2, Zenon
<1> QED
  BY <1>2, <1>3 DEF Served

LEMMA ServedIsAnswered ==
    ASSUME NEW s, NEW y, NEW phase, NEW k, NEW left, Served(s, y, phase, k, left),
           phase \notin {"status", "head"} \/ Says("blank", s)
    PROVE  \E lines, raw : HeadAndBody(lines, raw, s, y, phase, k, left)
BY Zenon DEF Served

\* What stands behind the head says nothing of how the body comes.
LEMMA PartedSays ==
    ASSUME NEW lines, NEW raw, NEW s, Parted(lines, raw, s), NEW i \in 1..Len(s),
           s[i].t \in {"length", "chunked", "blank"}
    PROVE  i \in 1..Len(lines) /\ s[i] = lines[i] /\ (s[i].t = "blank" => i = Len(lines))
<1>1. /\ lines \in Seq(Tokens) /\ raw \in Seq(Tokens) /\ s = lines \o raw /\ Len(lines) >= 1
      /\ \A j \in 1..Len(raw) : raw[j].t \in {"byte", "size", "crlf", "trailer"}
      /\ \A j \in 1..Len(lines) : j # Len(lines) => lines[j].t # "blank"
  BY DEF Parted
<1>2. i \in 1..Len(lines)
  <2> SUFFICES ASSUME i \notin 1..Len(lines) PROVE FALSE
    OBVIOUS
  <2>1. i - Len(lines) \in 1..Len(raw) /\ Len(lines) + (i - Len(lines)) = i
    <3>1. Len(lines) \in Nat /\ Len(raw) \in Nat /\ Len(s) = Len(lines) + Len(raw)
      BY <1>1, Parts
    <3>2. i \in Nat /\ i <= Len(s) /\ i > Len(lines)
      BY <3>1
    <3> QED
      BY <3>1, <3>2
  <2>2. s[i] = raw[i - Len(lines)]
    BY <1>1, <2>1, Parts
  <2> QED
    BY <1>1, <2>1, <2>2
<1>3. s[i] = lines[i]
  BY <1>1, <1>2, Parts
<1> QED
  BY <1>1, <1>2, <1>3

(***************************************************************************)
(* What the server says keeps what it has served.                          *)
(***************************************************************************)
LEMMA HeadServed ==
    ASSUME NEW s, NEW y, NEW phase \in {"status", "head"}, NEW k, NEW left, Served(s, y, phase, k, left),
           NEW x \in Tokens, x.t # "blank"
    PROVE  Served(Append(s, x), y, "head", k, left)
<1>1. /\ s \in Seq(Tokens) /\ y \in Seq(BodyTokens) /\ k \in 0..Len(y) /\ left \in Nat
      /\ k = 0 /\ ~Says("blank", s)
  <2>1. \A lines, raw : ~HeadAndBody(lines, raw, s, y, phase, k, left)
    BY DEF HeadAndBody, InChunks
  <2> QED
    BY <2>1, Zenon DEF Served
<1>2. ~Says("blank", Append(s, x))
  BY <1>1 DEF Says
<1>3. Append(s, x) \in Seq(Tokens)
  BY <1>1
<1> QED
  BY <1>1, <1>2, <1>3 DEF Served

\* The beginning of what is served.
LEMMA SomeOf ==
    ASSUME NEW y \in Seq(BodyTokens), NEW k \in 0..Len(y)
    PROVE  /\ SubSeq(y, 1, k) \in Seq(Tokens) /\ Len(SubSeq(y, 1, k)) = k
           /\ \A i \in 1..k : SubSeq(y, 1, k)[i] = y[i]
           /\ k < Len(y) => /\ Append(SubSeq(y, 1, k), y[k + 1]) = SubSeq(y, 1, k + 1)
                            /\ y[k + 1] \in Tokens /\ y[k + 1].t = "byte"
<1>1. y \in Seq(Tokens) /\ \A i \in 1..Len(y) : y[i] \in Tokens /\ y[i].t = "byte"
  BY DEF BodyTokens
<1>2. \A m \in 0..Len(y) : /\ SubSeq(y, 1, m) \in Seq(Tokens) /\ Len(SubSeq(y, 1, m)) = m
                          /\ \A i \in 1..m : SubSeq(y, 1, m)[i] = y[i]
  BY <1>1
<1>3. ASSUME k < Len(y) PROVE Append(SubSeq(y, 1, k), y[k + 1]) = SubSeq(y, 1, k + 1)
  <2>1. k + 1 \in 0..Len(y) /\ k + 1 \in 1..Len(y)
    BY <1>3
  <2> DEFINE p == SubSeq(y, 1, k)
             q == SubSeq(y, 1, k + 1)
  <2>2. /\ p \in Seq(Tokens) /\ q \in Seq(Tokens) /\ Len(p) = k /\ Len(q) = k + 1
        /\ \A i \in 1..k : p[i] = y[i]
        /\ \A i \in 1..(k + 1) : q[i] = y[i]
        /\ y[k + 1] \in Tokens
    BY <1>1, <1>2, <2>1
  <2> HIDE DEF p, q
  <2>3. /\ Append(p, y[k + 1]) \in Seq(Tokens) /\ Len(Append(p, y[k + 1])) = k + 1
        /\ \A i \in 1..(k + 1) : Append(p, y[k + 1])[i] = q[i]
    BY <2>2
  <2>4. Append(p, y[k + 1]) = q
    BY <2>2, <2>3, SeqEqual
  <2> QED
    BY <2>4 DEF p, q
<1> QED
  BY <1>1, <1>2, <1>3

LEMMA HeadIsEnded ==
    ASSUME NEW s, NEW y, NEW k, NEW left, Served(s, y, "head", k, left)
    PROVE  /\ Served(Append(s, Token("blank", 0)), y, "plain", k, left)
           /\ Says("chunked", s) => Served(Append(s, Token("blank", 0)), y, "size", k, left)
<1> DEFINE x == Token("blank", 0)
           lines == Append(s, x)
<1>1. /\ s \in Seq(Tokens) /\ y \in Seq(BodyTokens) /\ k \in 0..Len(y) /\ left \in Nat
      /\ k = 0 /\ ~Says("blank", s)
  <2>1. \A ls, raw : ~HeadAndBody(ls, raw, s, y, "head", k, left)
    BY DEF HeadAndBody, InChunks
  <2> QED
    BY <2>1, Zenon DEF Served
<1>2. x \in Tokens /\ x.t = "blank"
  BY DEF Token, Tokens
<1> HIDE DEF x
<1>3. /\ lines \in Seq(Tokens) /\ Len(lines) = Len(s) + 1 /\ lines[Len(lines)] = x
      /\ \A i \in 1..Len(s) : lines[i] = s[i]
  BY <1>1, <1>2
<1>4. \A i \in 1..Len(lines) : i # Len(lines) => lines[i].t # "blank"
  BY <1>1, <1>3 DEF Says
<1>5. Parted(lines, <<>>, lines)
  <2>1. lines = lines \o <<>> /\ <<>> \in Seq(Tokens) /\ Len(<<>>) = 0 /\ Len(lines) >= 1
    BY <1>1, <1>3
  <2> HIDE DEF lines
  <2> QED
    BY <1>2, <1>3, <1>4, <2>1 DEF Parted
<1>6. SubSeq(y, 1, k) = <<>>
  BY <1>1, SomeOf
<1>7. DecodeChunked(<<>>).at = "size" /\ DecodeChunked(<<>>).body = <<>>
  BY DecodeEmpty DEF AtFirst
<1>8. Says("chunked", s) => Says("chunked", lines)
  BY <1>1, <1>3 DEF Says
<1> HIDE DEF lines
<1>9. HeadAndBody(lines, <<>>, lines, y, "plain", k, left)
  BY <1>5, <1>6, <1>7 DEF HeadAndBody
<1>10. Says("chunked", s) => HeadAndBody(lines, <<>>, lines, y, "size", k, left)
  BY <1>5, <1>6, <1>7, <1>8 DEF HeadAndBody, InChunks
<1>11. Served(lines, y, "plain", k, left) /\ (Says("chunked", s) => Served(lines, y, "size", k, left))
  BY <1>1, <1>9, <1>10, AnsweredServes
<1> QED
  BY <1>11 DEF lines, x

LEMMA PlainServed ==
    ASSUME NEW s, NEW y, NEW k, NEW left, Served(s, y, "plain", k, left), k < Len(y)
    PROVE  Served(Append(s, y[k + 1]), y, "plain", k + 1, left)
<1>1. y \in Seq(BodyTokens) /\ k \in 0..Len(y) /\ left \in Nat /\ k + 1 \in 0..Len(y)
  BY DEF Served
<1>2. PICK lines, raw : HeadAndBody(lines, raw, s, y, "plain", k, left)
  BY ServedIsAnswered
<1>3. Parted(lines, raw, s) /\ raw = SubSeq(y, 1, k) /\ DecodeChunked(raw).at \in {"size", "invalid"}
  BY <1>2 DEF HeadAndBody, InChunks
<1> DEFINE x == y[k + 1]
<1>4. x \in Tokens /\ x.t = "byte" /\ Append(raw, x) = SubSeq(y, 1, k + 1)
  BY <1>1, <1>3, SomeOf
<1> HIDE DEF x
<1>5. /\ Parted(lines, Append(raw, x), Append(s, x))
      /\ DecodeChunked(raw) \in Decoder
      /\ DecodeChunked(Append(raw, x)) = TakeToken(DecodeChunked(raw), x)
  BY <1>3, <1>4, PartedGrows
<1>6. DecodeChunked(Append(raw, x)).at = "invalid"
  <2>1. TakeToken(DecodeChunked(raw), x) = [DecodeChunked(raw) EXCEPT !.at = "invalid"]
    BY <1>3, <1>4 DEF TakeToken
  <2> QED
    BY <1>5, <2>1 DEF Decoder
<1>7. HeadAndBody(lines, Append(raw, x), Append(s, x), y, "plain", k + 1, left)
  BY <1>4, <1>5, <1>6 DEF HeadAndBody
<1>8. Served(Append(s, x), y, "plain", k + 1, left)
  BY <1>1, <1>7, AnsweredServes
<1> QED
  BY <1>8 DEF x

\* The server, in chunks: the decoder takes the token as it was meant.
LEMMA ChunkServed ==
    ASSUME NEW s, NEW y, NEW phase, NEW k, NEW left, Served(s, y, phase, k, left),
           phase \notin {"status", "head", "plain"},
           NEW x \in Tokens, x.t \in {"byte", "size", "crlf", "trailer"},
           NEW to, NEW m \in 0..Len(y), NEW more \in Nat,
           ASSUME NEW d \in Decoder, d.body = SubSeq(y, 1, k), InChunks(d, phase, left, Len(y) - k)
           PROVE  TakeToken(d, x).body = SubSeq(y, 1, m) /\ InChunks(TakeToken(d, x), to, more, Len(y) - m)
    PROVE  Served(Append(s, x), y, to, m, more)
<1>1. y \in Seq(BodyTokens) /\ k \in 0..Len(y) /\ left \in Nat
  BY DEF Served
<1>2. PICK lines, raw : HeadAndBody(lines, raw, s, y, phase, k, left)
  BY ServedIsAnswered
<1>3. /\ Parted(lines, raw, s) /\ Says("chunked", lines) /\ DecodeChunked(raw).body = SubSeq(y, 1, k)
      /\ InChunks(DecodeChunked(raw), phase, left, Len(y) - k)
  BY <1>2 DEF HeadAndBody
<1>5. /\ Parted(lines, Append(raw, x), Append(s, x))
      /\ DecodeChunked(raw) \in Decoder
      /\ DecodeChunked(Append(raw, x)) = TakeToken(DecodeChunked(raw), x)
  BY <1>3, PartedGrows
<1>6. /\ TakeToken(DecodeChunked(raw), x).body = SubSeq(y, 1, m)
      /\ InChunks(TakeToken(DecodeChunked(raw), x), to, more, Len(y) - m)
  BY <1>3, <1>5
<1>7. HeadAndBody(lines, Append(raw, x), Append(s, x), y, to, m, more)
  BY <1>3, <1>5, <1>6 DEF HeadAndBody
<1> QED
  BY <1>1, <1>7, AnsweredServes

(***************************************************************************)
(* What the client has read.                                               *)
(***************************************************************************)
LEMMA BeginsIsPrefix ==
    ASSUME NEW p \in Seq(Tokens), NEW y \in Seq(Tokens), Begins(p, y)
    PROVE  IsPrefix(p, y)
<1>1. Len(p) <= Len(y) /\ \A i \in 1..Len(p) : p[i] = y[i]
  BY DEF Begins
<1>2. /\ SubSeq(p, 1, Len(p)) \in Seq(Tokens) /\ Len(SubSeq(p, 1, Len(p))) = Len(p)
      /\ SubSeq(y, 1, Len(p)) \in Seq(Tokens) /\ Len(SubSeq(y, 1, Len(p))) = Len(p)
      /\ \A i \in 1..Len(p) : SubSeq(p, 1, Len(p))[i] = p[i] /\ SubSeq(y, 1, Len(p))[i] = y[i]
  BY <1>1
<1>3. SubSeq(p, 1, Len(p)) = SubSeq(y, 1, Len(p))
  BY <1>1, <1>2, SeqEqual
<1> QED
  BY <1>1, <1>3 DEF IsPrefix

LEMMA LengthIsIn ==
    ASSUME NEW s \in Seq(Tokens), Says("length", s)
    PROVE  \E i \in 1..Len(s) : s[i].t = "length" /\ LengthIn(s) = s[i].n /\ s[i].n \in Nat
<1> DEFINE i == CHOOSE j \in DOMAIN s : s[j].t = "length"
<1>1. i \in DOMAIN s /\ s[i].t = "length"
  BY DEF Says
<1>2. LengthIn(s) = s[i].n
  BY DEF LengthIn
<1> HIDE DEF i
<1>3. i \in 1..Len(s) /\ s[i] \in Tokens
  BY <1>1
<1>4. s[i].n \in Nat
  BY <1>3 DEF Tokens
<1> QED
  BY <1>1, <1>2, <1>3, <1>4

\* A token more of the answer takes nothing from what was read.
LEMMA ReadStays ==
    ASSUME NEW s \in Seq(Tokens), NEW x \in Tokens, NEW h
    PROVE  /\ h \in Seq(Tokens) /\ Begins(h, s) => Begins(h, Append(s, x))
           /\ HeadTaken(h, s) => HeadTaken(h, Append(s, x))
           /\ \A o : h \in Seq(Tokens) /\ BodyRead(o, h, s) => BodyRead(o, h, Append(s, x))
<1>1. Append(s, x) \in Seq(Tokens) /\ Len(Append(s, x)) = Len(s) + 1 /\ \A i \in 1..Len(s) : Append(s, x)[i] = s[i]
  OBVIOUS
<1>2. h \in Seq(Tokens) /\ Begins(h, s) => Begins(h, Append(s, x))
  BY <1>1 DEF Begins
<1>3. HeadTaken(h, s) => HeadTaken(h, Append(s, x))
  BY <1>2 DEF HeadTaken
<1>4. ASSUME NEW o, h \in Seq(Tokens), BodyRead(o, h, s) PROVE BodyRead(o, h, Append(s, x))
  <2>1. Len(o) \in Nat /\ Len(h) \in Nat /\ Len(s) \in Nat /\ Len(h) + Len(o) <= Len(s)
        /\ \A j \in 1..Len(o) : o[j] = s[Len(h) + j]
    BY <1>4 DEF BodyRead
  <2>2. \A j \in 1..Len(o) : Len(h) + j \in 1..Len(s)
    BY <2>1
  <2>3. \A j \in 1..Len(o) : o[j] = Append(s, x)[Len(h) + j]
    BY <1>1, <2>1, <2>2
  <2>4. Len(h) + Len(o) <= Len(Append(s, x))
    BY <1>1, <2>1
  <2> QED
    BY <1>4, <2>3, <2>4 DEF BodyRead
<1> QED
  BY <1>2, <1>3, <1>4

\* What is streamed is of the body: its head is the server's, and says no chunks.
LEMMA StreamIsBody ==
    ASSUME NEW s, NEW y, NEW phase, NEW k, NEW left, Served(s, y, phase, k, left),
           NEW h, HeadTaken(h, s), NEW o, BodyRead(o, h, s)
    PROVE  /\ IsPrefix(o, y)
           /\ Says("blank", h) =>
                 \A i \in 1..Len(s) : s[i].t \in {"length", "chunked"} => i \in 1..Len(h) /\ s[i] = h[i]
<1>1. /\ s \in Seq(Tokens) /\ h \in Seq(Tokens) /\ o \in Seq(Tokens) /\ y \in Seq(BodyTokens) /\ y \in Seq(Tokens)
      /\ k \in 0..Len(y)
  BY DEF Served, HeadTaken, BodyRead, BodyTokens
<1>2. CASE ~Says("blank", h)
  <2>1. Begins(o, y)
    BY <1>1, <1>2 DEF BodyRead, Begins
  <2> QED
    BY <1>1, <1>2, <2>1, BeginsIsPrefix
<1>3. CASE Says("blank", h)
  <2>1. PICK b \in 1..Len(h) : h[b].t = "blank"
    BY <1>1, <1>3 DEF Says
  <2>2. b = Len(h) /\ b \in 1..Len(s) /\ s[b].t = "blank" /\ \A i \in 1..Len(h) : s[i] = h[i]
    BY <1>1, <2>1 DEF HeadTaken, Begins
  <2>3. Says("blank", s)
    BY <1>1, <2>2 DEF Says
  <2>4. PICK lines, raw : HeadAndBody(lines, raw, s, y, phase, k, left)
    BY <2>3, ServedIsAnswered
  <2>5. Parted(lines, raw, s)
    BY <2>4 DEF HeadAndBody
  <2>6. /\ lines \in Seq(Tokens) /\ raw \in Seq(Tokens) /\ s = lines \o raw /\ Len(lines) >= 1
    BY <2>5 DEF Parted
  <2>7. b = Len(lines)
    BY <2>2, <2>5, PartedSays
  <2>8. \A i \in 1..Len(s) : s[i].t \in {"length", "chunked"} => i \in 1..Len(h) /\ s[i] = h[i]
    BY <2>2, <2>5, <2>7, PartedSays
  <2>9. ~Says("chunked", lines)
    <3>1. \A i \in 1..Len(lines) : lines[i] = h[i]
      BY <2>2, <2>6, <2>7, Parts
    <3>2. DOMAIN lines = 1..Len(lines) /\ DOMAIN h = 1..Len(h) /\ Len(lines) = Len(h)
      <4>1. lines \in Seq(Tokens) /\ h \in Seq(Tokens)
        BY <1>1, <2>6
      <4>2. Len(lines) = Len(h)
        BY <2>2, <2>7
      <4> QED
        BY <4>1, <4>2
    <3>3. ~Says("chunked", h)
      BY DEF HeadTaken
    <3> QED
      BY <3>1, <3>2, <3>3 DEF Says
  <2>10. raw = SubSeq(y, 1, k)
    BY <2>4, <2>9 DEF HeadAndBody
  <2>11. Len(raw) = k /\ \A j \in 1..k : raw[j] = y[j]
    BY <1>1, <2>10, SomeOf
  <2>12. Len(s) = Len(lines) + k /\ \A j \in 1..k : s[Len(lines) + j] = y[j]
    <3>1. Len(s) = Len(lines) + Len(raw) /\ \A j \in 1..Len(raw) : s[Len(lines) + j] = raw[j]
      BY <2>6, Parts
    <3> QED
      BY <2>11, <3>1
  <2>13. Len(o) <= k /\ \A j \in 1..Len(o) : o[j] = s[Len(lines) + j]
    BY <1>1, <2>2, <2>6, <2>7, <2>12 DEF BodyRead
  <2>14. Begins(o, y)
    BY <1>1, <2>12, <2>13 DEF Begins
  <2> QED
    BY <1>1, <2>8, <2>14, BeginsIsPrefix
<1> QED
  BY <1>2, <1>3

\* What parse_http_response makes of an answer read to its end.
LEMMA WholeIsBody ==
    ASSUME NEW s, NEW y, NEW phase, NEW k, NEW left, Served(s, y, phase, k, left), Says("blank", s),
           NEW sep \in DOMAIN s, s[sep].t = "blank"
    PROVE  /\ HeadAndBody(SubSeq(s, 1, sep), SubSeq(s, sep + 1, Len(s)), s, y, phase, k, left)
           /\ \A i \in 1..Len(s) : s[i].t \in {"length", "chunked"} =>
                 i \in 1..Len(SubSeq(s, 1, sep)) /\ s[i] = SubSeq(s, 1, sep)[i]
<1>1. /\ s \in Seq(Tokens) /\ y \in Seq(BodyTokens) /\ k \in 0..Len(y)
  BY DEF Served
<1>2. PICK ls, rs : HeadAndBody(ls, rs, s, y, phase, k, left)
  BY ServedIsAnswered
<1>3. Parted(ls, rs, s)
  BY <1>2 DEF HeadAndBody
<1>4. /\ ls \in Seq(Tokens) /\ rs \in Seq(Tokens) /\ s = ls \o rs /\ Len(ls) >= 1 /\ ls[Len(ls)].t = "blank"
  BY <1>3 DEF Parted
<1>6. sep = Len(ls)
  BY <1>1, <1>3, PartedSays
<1>7. SubSeq(s, 1, sep) = ls /\ SubSeq(s, sep + 1, Len(s)) = rs
  <2>1. SubSeq(s, 1, Len(ls)) = ls /\ SubSeq(s, Len(ls) + 1, Len(s)) = rs
    BY <1>4, Parts
  <2> QED
    BY <1>6, <2>1, Zenon
<1>8. \A i \in 1..Len(s) : s[i].t \in {"length", "chunked"} => i \in 1..Len(ls) /\ s[i] = ls[i]
  BY <1>3, PartedSays
<1> QED
  BY <1>2, <1>7, <1>8

\* A head that is not ambiguous says it once.
LEMMA SaidOnce ==
    ASSUME NEW s \in Seq(Tokens), NEW h \in Seq(Tokens),
           ~SaysTwice("length", h), ~SaysTwice("chunked", h), ~(Says("length", h) /\ Says("chunked", h)),
           \A i \in 1..Len(s) : s[i].t \in {"length", "chunked"} => i \in 1..Len(h) /\ s[i] = h[i]
    PROVE  LET F == {i \in DOMAIN s : s[i].t \in {"length", "chunked"}}
           IN  /\ \A i, j \in F : i = j
               /\ \A i \in F : IF s[i].t = "chunked" THEN Says("chunked", h)
                               ELSE Says("length", h) /\ LengthIn(h) = s[i].n /\ ~Says("chunked", h)
<1> DEFINE F == {i \in DOMAIN s : s[i].t \in {"length", "chunked"}}
<1>1. DOMAIN s = 1..Len(s) /\ DOMAIN h = 1..Len(h)
  OBVIOUS
<1>2. \A i \in F : i \in DOMAIN h /\ s[i] = h[i] /\ h[i].t \in {"length", "chunked"}
  BY <1>1
<1> HIDE DEF F
<1>3. \A i, j \in F : i = j
  <2> SUFFICES ASSUME NEW i \in F, NEW j \in F, i # j PROVE FALSE
    OBVIOUS
  <2>1. i \in DOMAIN h /\ j \in DOMAIN h /\ h[i].t \in {"length", "chunked"} /\ h[j].t \in {"length", "chunked"}
    BY <1>2
  <2>2. CASE h[i].t = h[j].t
    BY <2>1, <2>2 DEF SaysTwice
  <2>3. CASE h[i].t # h[j].t
    BY <2>1, <2>3 DEF Says
  <2> QED
    BY <2>2, <2>3
<1>4. ASSUME NEW i \in F PROVE IF s[i].t = "chunked" THEN Says("chunked", h)
                               ELSE Says("length", h) /\ LengthIn(h) = s[i].n /\ ~Says("chunked", h)
  <2>1. i \in DOMAIN h /\ s[i] = h[i] /\ h[i].t \in {"length", "chunked"}
    BY <1>2
  <2>2. CASE s[i].t = "chunked"
    BY <2>1, <2>2 DEF Says
  <2>3. CASE s[i].t # "chunked"
    <3>1. h[i].t = "length"
      BY <2>1, <2>3
    <3>2. Says("length", h)
      BY <2>1, <3>1 DEF Says
    <3>3. PICK j \in 1..Len(h) : h[j].t = "length" /\ LengthIn(h) = h[j].n
      BY <3>2, LengthIsIn
    <3>4. j = i
      BY <1>1, <2>1, <3>1, <3>3 DEF SaysTwice
    <3> QED
      BY <2>1, <2>3, <3>2, <3>3, <3>4
  <2> QED
    BY <2>2, <2>3
<1> QED
  BY <1>3, <1>4, Zenon DEF F

(***************************************************************************)
(* The steps.                                                              *)
(***************************************************************************)
LEMMA ServerKeeps ==
    ASSUME HtInv, NEW x \in Tokens, NEW next, ServerSays(x, next),
           Served(Append(serverSends, x), body, next, told', chunkLeft')
    PROVE  HtInv'
<1>1. /\ call' = call /\ source' = source /\ claimed' = claimed /\ expected' = expected /\ body' = body
      /\ serverSends' = Append(serverSends, x) /\ serves' = next
      /\ data' = data /\ head' = head /\ bodyOut' = bodyOut /\ outcome' = outcome /\ outcome = "reading"
  BY DEF ServerSays, requestVars
<1>2. Served(serverSends', body', serves', told', chunkLeft')
  BY <1>1
<1>3. serverSends \in Seq(Tokens) /\ data \in Seq(Tokens) /\ Begins(data, serverSends)
  BY DEF HtInv, Served
<1>4. Begins(data', serverSends')
  BY <1>1, <1>3, ReadStays
<1>5. call = "stream" => HeadTaken(head, Append(serverSends, x)) /\ BodyRead(bodyOut, head, Append(serverSends, x))
  <2>1. call = "stream" => head \in Seq(Tokens) /\ HeadTaken(head, serverSends) /\ BodyRead(bodyOut, head, serverSends)
    BY DEF HtInv, HeadTaken
  <2> QED
    BY <1>3, <2>1, ReadStays
<1>6. Announced' = Announced
  BY <1>1 DEF Announced
<1>7. ResponseWhole'
  <2>1. IsPrefix(bodyOut, body) /\ (call = "stream" => Len(bodyOut) <= ResponseLimit /\ Len(bodyOut) <= Announced)
    BY DEF HtInv, ResponseWhole
  <2> QED
    BY <1>1, <1>6, <2>1 DEF ResponseWhole
<1> QED
  BY <1>1, <1>2, <1>3, <1>4, <1>5, <1>6, <1>7 DEF HtInv

LEMMA SaysHead ==
    ASSUME HtInv, ServerSaysStatus \/ (\E line \in HeadLines : ServerSaysLine(line)) \/ ServerEndsHead
    PROVE  HtInv'
<1>1. Served(serverSends, body, serves, told, chunkLeft)
  BY DEF HtInv
<1>2. told' = told /\ chunkLeft' = chunkLeft
  BY DEF ServerSaysStatus, ServerSaysLine, ServerEndsHead
<1>3. CASE ServerSaysStatus
  <2>1. serves = "status" /\ ServerSays(Token("status", 200), "head")
    BY <1>3 DEF ServerSaysStatus
  <2>2. Token("status", 200) \in Tokens /\ Token("status", 200).t # "blank"
    BY DEF Token, Tokens
  <2> HIDE DEF Token
  <2>3. Served(Append(serverSends, Token("status", 200)), body, "head", told, chunkLeft)
    BY <1>1, <2>1, <2>2, HeadServed
  <2> QED
    BY <1>2, <2>1, <2>2, <2>3, ServerKeeps
<1>4. ASSUME NEW line \in HeadLines, ServerSaysLine(line) PROVE HtInv'
  <2>1. serves = "head" /\ ServerSays(line, "head")
    BY <1>4 DEF ServerSaysLine
  <2>2. line \in Tokens /\ line.t # "blank"
    BY DEF HeadLines, Token, Tokens
  <2>3. Served(Append(serverSends, line), body, "head", told, chunkLeft)
    BY <1>1, <2>1, <2>2, HeadServed
  <2> QED
    BY <1>2, <2>1, <2>2, <2>3, ServerKeeps
<1>5. CASE ServerEndsHead
  <2>1. Token("blank", 0) \in Tokens
    BY DEF Token, Tokens
  <2>2. serves = "head"
    BY <1>5 DEF ServerEndsHead
  <2>3. /\ Served(Append(serverSends, Token("blank", 0)), body, "plain", told, chunkLeft)
        /\ Says("chunked", serverSends) => Served(Append(serverSends, Token("blank", 0)), body, "size", told, chunkLeft)
    BY <1>1, <2>2, HeadIsEnded
  <2>4. CASE ServerSays(Token("blank", 0), "plain")
    BY <1>2, <2>1, <2>3, <2>4, ServerKeeps
  <2>5. CASE Says("chunked", serverSends) /\ ServerSays(Token("blank", 0), "size")
    BY <1>2, <2>1, <2>3, <2>5, ServerKeeps
  <2> QED
    BY <1>5, <2>4, <2>5 DEF ServerEndsHead
<1> QED
  BY <1>3, <1>4, <1>5

\* A step of the decoder, for a step of the server.
LEMMA DecodesByte ==
    ASSUME NEW y \in Seq(BodyTokens), NEW k \in 0..Len(y), k < Len(y), NEW left \in Nat,
           NEW d \in Decoder, d.body = SubSeq(y, 1, k), InChunks(d, "bytes", left, Len(y) - k)
    PROVE  /\ left >= 1
           /\ TakeToken(d, y[k + 1]).body = SubSeq(y, 1, k + 1)
           /\ InChunks(TakeToken(d, y[k + 1]), IF left = 1 THEN "end" ELSE "bytes", left - 1, Len(y) - (k + 1))
<1> DEFINE x == y[k + 1]
<1>1. Append(SubSeq(y, 1, k), x) = SubSeq(y, 1, k + 1)
  BY SomeOf
<1> HIDE DEF x
<1>2. d.at = "bytes" /\ d.left = left /\ left \in 1..(Len(y) - k) /\ Len(y) \in Nat /\ k \in Nat
  BY DEF InChunks
<1>3. TakeToken(d, x) = [at |-> IF left = 1 THEN "end" ELSE "bytes", left |-> left - 1, body |-> Append(d.body, x)]
  BY <1>2 DEF TakeToken
<1> DEFINE e == TakeToken(d, x)
<1>4. e.at = (IF left = 1 THEN "end" ELSE "bytes") /\ e.left = left - 1 /\ e.body = SubSeq(y, 1, k + 1)
  BY <1>1, <1>3
<1> HIDE DEF e
<1>5. left >= 1 /\ (left # 1 => left - 1 \in 1..(Len(y) - (k + 1)))
  BY <1>2
<1>6. InChunks(e, IF left = 1 THEN "end" ELSE "bytes", left - 1, Len(y) - (k + 1))
  BY <1>4, <1>5 DEF InChunks
<1> QED
  BY <1>4, <1>5, <1>6 DEF e, x

LEMMA DecodesSize ==
    ASSUME NEW rest \in Nat, NEW left, NEW n \in Nat, IF rest = 0 THEN n = 0 ELSE n \in 1..rest,
           NEW d \in Decoder, InChunks(d, "size", left, rest)
    PROVE  /\ TakeToken(d, Token("size", n)).body = d.body
           /\ InChunks(TakeToken(d, Token("size", n)), IF n = 0 THEN "trailers" ELSE "bytes", n, rest)
<1> DEFINE x == Token("size", n)
           e == TakeToken(d, x)
<1>1. x.t = "size" /\ x.n = n
  BY DEF Token
<1> HIDE DEF x
<1>2. d.at = "size" /\ d = [at |-> d.at, left |-> d.left, body |-> d.body]
  BY DEF InChunks, Decoder
<1>3. e = [d EXCEPT !.at = IF x.n = 0 THEN "trailers" ELSE "bytes", !.left = x.n]
  BY <1>1, <1>2 DEF TakeToken
<1>4. e = [at |-> IF n = 0 THEN "trailers" ELSE "bytes", left |-> n, body |-> d.body]
  BY <1>1, <1>2, <1>3
<1> HIDE DEF e
<1>5. e.at = (IF n = 0 THEN "trailers" ELSE "bytes") /\ e.left = n /\ e.body = d.body
  BY <1>4
<1>6. InChunks(e, IF n = 0 THEN "trailers" ELSE "bytes", n, rest)
  BY <1>5 DEF InChunks
<1> QED
  BY <1>5, <1>6 DEF e, x

LEMMA DecodesEnd ==
    ASSUME NEW left, NEW rest, NEW d \in Decoder, NEW x
    PROVE  /\ x.t = "crlf" /\ InChunks(d, "end", left, rest) =>
                 TakeToken(d, x).body = d.body /\ InChunks(TakeToken(d, x), "size", left, rest)
           /\ x.t = "trailer" /\ InChunks(d, "trailers", left, rest) =>
                 TakeToken(d, x).body = d.body /\ InChunks(TakeToken(d, x), "trailed", left, rest)
           /\ x.t = "crlf" /\ (InChunks(d, "trailers", left, rest) \/ InChunks(d, "trailed", left, rest)) =>
                 TakeToken(d, x).body = d.body /\ InChunks(TakeToken(d, x), "over", left, rest)
<1> DEFINE e == TakeToken(d, x)
<1>1. /\ d.at = "end" /\ x.t = "crlf" => e = [d EXCEPT !.at = "size"]
      /\ d.at = "trailers" => e = [d EXCEPT !.at = IF x.t = "crlf" THEN "whole" ELSE "trailers"]
  BY DEF TakeToken
<1> HIDE DEF e
<1>2. /\ d.at = "end" /\ x.t = "crlf" => e.body = d.body /\ e.at = "size"
      /\ d.at = "trailers" => e.body = d.body /\ e.at = IF x.t = "crlf" THEN "whole" ELSE "trailers"
  BY <1>1 DEF Decoder
<1>3. x.t = "crlf" /\ InChunks(d, "end", left, rest) => e.body = d.body /\ InChunks(e, "size", left, rest)
  BY <1>2 DEF InChunks
<1>4. x.t = "trailer" /\ InChunks(d, "trailers", left, rest) => e.body = d.body /\ InChunks(e, "trailed", left, rest)
  BY <1>2 DEF InChunks
<1>5. x.t = "crlf" /\ (InChunks(d, "trailers", left, rest) \/ InChunks(d, "trailed", left, rest)) =>
         e.body = d.body /\ InChunks(e, "over", left, rest)
  BY <1>2 DEF InChunks
<1> QED
  BY <1>3, <1>4, <1>5 DEF e

LEMMA SaysBody ==
    ASSUME HtInv, ServerSaysByte \/ (\E n \in 0..MaxBody : ServerSaysSize(n)) \/ ServerEndsChunk
    PROVE  HtInv'
<1>1. /\ Served(serverSends, body, serves, told, chunkLeft)
      /\ body \in Seq(BodyTokens) /\ told \in 0..Len(body) /\ chunkLeft \in Nat
  BY DEF HtInv, Served
<1>2. CASE ServerSaysByte
  <2> DEFINE x == body[told + 1]
  <2>1. told < Len(body) /\ told' = told + 1 /\ told + 1 \in 0..Len(body)
    BY <1>1, <1>2 DEF ServerSaysByte
  <2>2. x \in Tokens /\ x.t = "byte"
    BY <1>1, <2>1, SomeOf
  <2>3. CASE serves = "plain" /\ ServerSays(x, "plain") /\ chunkLeft' = chunkLeft
    <3>1. Served(Append(serverSends, x), body, "plain", told + 1, chunkLeft)
      BY <1>1, <2>1, <2>3, PlainServed
    <3> HIDE DEF x
    <3> QED
      BY <2>1, <2>2, <2>3, <3>1, ServerKeeps
  <2>4. CASE /\ serves = "bytes" /\ chunkLeft' = chunkLeft - 1
             /\ ServerSays(x, IF chunkLeft = 1 THEN "end" ELSE "bytes")
    <3> DEFINE to == IF chunkLeft = 1 THEN "end" ELSE "bytes"
    <3>1. ASSUME NEW d \in Decoder, d.body = SubSeq(body, 1, told), InChunks(d, "bytes", chunkLeft, Len(body) - told)
          PROVE  /\ chunkLeft >= 1 /\ TakeToken(d, x).body = SubSeq(body, 1, told + 1)
                 /\ InChunks(TakeToken(d, x), to, chunkLeft - 1, Len(body) - (told + 1))
      BY <1>1, <2>1, <3>1, DecodesByte
    <3>2. chunkLeft - 1 \in Nat
      <4>1. PICK lines, raw : HeadAndBody(lines, raw, serverSends, body, "bytes", told, chunkLeft)
        BY <1>1, <2>4, ServedIsAnswered
      <4>2. chunkLeft \in 1..(Len(body) - told)
        BY <4>1 DEF HeadAndBody, InChunks
      <4> QED
        BY <1>1, <4>2
    <3> HIDE DEF x, to
    <3>3. Served(serverSends, body, "bytes", told, chunkLeft)
      BY <1>1, <2>4
    <3>4. Served(Append(serverSends, x), body, to, told + 1, chunkLeft - 1)
      BY <2>1, <2>2, <3>1, <3>2, <3>3, ChunkServed
    <3>5. ServerSays(x, to)
      BY <2>4 DEF to
    <3> QED
      BY <2>1, <2>2, <2>4, <3>4, <3>5, ServerKeeps
  <2> QED
    BY <1>2, <2>3, <2>4 DEF ServerSaysByte
<1>3. ASSUME NEW n \in 0..MaxBody, ServerSaysSize(n) PROVE HtInv'
  <2> DEFINE x == Token("size", n)
             to == IF n = 0 THEN "trailers" ELSE "bytes"
             rest == Len(body) - told
  <2>1. /\ serves = "size" /\ chunkLeft' = n /\ told' = told /\ ServerSays(x, to)
        /\ IF told = Len(body) THEN n = 0 ELSE n \in 1..(Len(body) - told)
    BY <1>3 DEF ServerSaysSize
  <2>2. n \in Nat /\ rest \in Nat /\ IF rest = 0 THEN n = 0 ELSE n \in 1..rest
    BY <1>1, <2>1
  <2>3. x \in Tokens /\ x.t = "size"
    BY <2>2 DEF Token, Tokens
  <2> HIDE DEF rest
  <2>4. ASSUME NEW d \in Decoder, d.body = SubSeq(body, 1, told), InChunks(d, "size", chunkLeft, rest)
        PROVE  TakeToken(d, x).body = SubSeq(body, 1, told) /\ InChunks(TakeToken(d, x), to, n, rest)
    BY <2>2, <2>4, DecodesSize
  <2> HIDE DEF x, to
  <2> USE DEF rest
  <2>5. Served(serverSends, body, "size", told, chunkLeft)
    BY <1>1, <2>1
  <2>6. Served(Append(serverSends, x), body, to, told, n)
    BY <1>1, <2>2, <2>3, <2>4, <2>5, ChunkServed
  <2> QED
    BY <2>1, <2>3, <2>6, ServerKeeps
<1>4. CASE ServerEndsChunk
  <2>1. told' = told /\ chunkLeft' = chunkLeft
    BY <1>4 DEF ServerEndsChunk
  <2>2. /\ Token("crlf", 0) \in Tokens /\ Token("crlf", 0).t = "crlf"
        /\ Token("trailer", 0) \in Tokens /\ Token("trailer", 0).t = "trailer"
    BY DEF Token, Tokens
  <2> HIDE DEF Token
  <2>3. CASE serves = "end" /\ ServerSays(Token("crlf", 0), "size")
    <3>1. Served(serverSends, body, "end", told, chunkLeft)
      BY <1>1, <2>3
    <3>2. Served(Append(serverSends, Token("crlf", 0)), body, "size", told, chunkLeft)
      BY <1>1, <2>2, <3>1, DecodesEnd, ChunkServed
    <3> QED
      BY <2>1, <2>2, <2>3, <3>2, ServerKeeps
  <2>4. CASE serves = "trailers" /\ ServerSays(Token("trailer", 0), "trailed")
    <3>1. Served(serverSends, body, "trailers", told, chunkLeft)
      BY <1>1, <2>4
    <3>2. Served(Append(serverSends, Token("trailer", 0)), body, "trailed", told, chunkLeft)
      BY <1>1, <2>2, <3>1, DecodesEnd, ChunkServed
    <3> QED
      BY <2>1, <2>2, <2>4, <3>2, ServerKeeps
  <2>5. CASE serves \in {"trailers", "trailed"} /\ ServerSays(Token("crlf", 0), "over")
    <3>1. CASE serves = "trailers"
      <4>1. Served(serverSends, body, "trailers", told, chunkLeft)
        BY <1>1, <3>1
      <4>2. Served(Append(serverSends, Token("crlf", 0)), body, "over", told, chunkLeft)
        BY <1>1, <2>2, <4>1, DecodesEnd, ChunkServed
      <4> QED
        BY <2>1, <2>2, <2>5, <4>2, ServerKeeps
    <3>2. CASE serves = "trailed"
      <4>1. Served(serverSends, body, "trailed", told, chunkLeft)
        BY <1>1, <3>2
      <4>2. Served(Append(serverSends, Token("crlf", 0)), body, "over", told, chunkLeft)
        BY <1>1, <2>2, <4>1, DecodesEnd, ChunkServed
      <4> QED
        BY <2>1, <2>2, <2>5, <4>2, ServerKeeps
    <3> QED
      BY <2>5, <3>1, <3>2
  <2> QED
    BY <1>4, <2>3, <2>4, <2>5 DEF ServerEndsChunk
<1> QED
  BY <1>2, <1>3, <1>4

\* What is not a read: an end that is no success, a beginning, a close.
LEMMA NoReadKeeps ==
    ASSUME HtInv, UNCHANGED <<requestVars, body, serverSends, serves, told, chunkLeft, data, head, bodyOut>>,
           \/ outcome' = outcome
           \/ outcome \in {"sending", "reading"} /\ outcome' = "failed"
           \/ outcome \in {"sending", "reading"} /\ outcome' = "reading" /\ source >= claimed
    PROVE  HtInv'
<1>1. /\ call' = call /\ source' = source /\ claimed' = claimed /\ expected' = expected /\ body' = body
      /\ serverSends' = serverSends /\ serves' = serves /\ told' = told /\ chunkLeft' = chunkLeft
      /\ data' = data /\ head' = head /\ bodyOut' = bodyOut
  BY DEF requestVars
<1>2. Announced' = Announced
  BY <1>1 DEF Announced
<1>3. Served(serverSends, body, serves, told, chunkLeft)'
  BY <1>1 DEF HtInv
<1>4. ResponseWhole'
  <2>1. ResponseWhole /\ Framing' = Framing
    BY <1>1 DEF HtInv, Framing
  <2> QED
    BY <1>1, <1>2, <2>1 DEF ResponseWhole
<1> QED
  BY <1>1, <1>2, <1>3, <1>4 DEF HtInv

LEMMA FailsKeeps == ASSUME HtInv, outcome \in {"sending", "reading"}, Fails PROVE HtInv'
<1>1. outcome' = "failed" /\ UNCHANGED <<requestVars, body, serverSends, serves, told, chunkLeft, data, head, bodyOut>>
  BY DEF Fails, Finish, serverSide
<1> QED
  BY <1>1, NoReadKeeps

LEMMA ReadWholeKeeps == ASSUME HtInv, NEW n \in 1..2, ReadWhole(n) PROVE HtInv'
<1>1. outcome = "reading" /\ call = "whole" /\ Len(data) + n <= Len(serverSends)
  BY DEF ReadWhole
<1>2. CASE Len(data) + n > MaxResponse
  <2>1. Fails
    BY <1>2 DEF ReadWhole
  <2> QED
    BY <1>1, <2>1, FailsKeeps
<1>3. CASE ~(Len(data) + n > MaxResponse)
  <2>1. /\ data' = SubSeq(serverSends, 1, Len(data) + n)
        /\ call' = call /\ source' = source /\ claimed' = claimed /\ expected' = expected /\ body' = body
        /\ serverSends' = serverSends /\ serves' = serves /\ told' = told /\ chunkLeft' = chunkLeft
        /\ head' = head /\ bodyOut' = bodyOut /\ outcome' = outcome
    BY <1>3 DEF ReadWhole, requestVars, serverSide
  <2>2. serverSends \in Seq(Tokens) /\ Len(data) \in Nat
    BY DEF HtInv, Served
  <2>3. data' \in Seq(Tokens) /\ Begins(data', serverSends)
    BY <1>1, <2>1, <2>2 DEF Begins
  <2>4. Served(serverSends, body, serves, told, chunkLeft)'
    BY <2>1 DEF HtInv
  <2>5. ResponseWhole'
    BY <1>1, <2>1 DEF HtInv, ResponseWhole
  <2> QED
    BY <1>1, <2>1, <2>3, <2>4, <2>5 DEF HtInv
<1> QED
  BY <1>2, <1>3

\* The answer is at its end: what is taken for its body is the body.
LEMMA ParseWholeKeeps == ASSUME HtInv, ParseWhole PROVE HtInv'
<1> DEFINE sep == Min({i \in DOMAIN data : data[i].t = "blank"})
           lines == SubSeq(data, 1, sep)
           raw == SubSeq(data, sep + 1, Len(data))
           decoded == DecodeChunked(raw)
<1>1. outcome = "reading" /\ call = "whole" /\ Len(data) = Len(serverSends)
  BY DEF ParseWhole
<1>2. /\ Served(serverSends, body, serves, told, chunkLeft) /\ serverSends \in Seq(Tokens)
      /\ body \in Seq(BodyTokens) /\ told \in 0..Len(body) /\ body \in Seq(Tokens) /\ source >= claimed
  BY <1>1 DEF HtInv, Served, BodyTokens
<1>3. data = serverSends
  BY <1>1, <1>2, SeqEqual DEF HtInv, Begins
<1>4. CASE Fails
  BY <1>1, <1>4, FailsKeeps
<1>5. CASE ~Fails
  <2>1. /\ Says("blank", data) /\ ~Ambiguous(lines)
        /\ \/ Says("chunked", lines) /\ Complete(decoded) /\ Finish("ok", decoded.body)
           \/ ~Says("chunked", lines) /\ ~(Says("length", lines) /\ LengthIn(lines) # Len(raw)) /\ Finish("ok", raw)
    BY <1>5 DEF ParseWhole
  <2>2. PICK what : Finish("ok", what)
    BY <2>1
  <2>3. /\ outcome' = "ok" /\ bodyOut' = what
        /\ call' = call /\ source' = source /\ claimed' = claimed /\ expected' = expected /\ body' = body
        /\ serverSends' = serverSends /\ serves' = serves /\ told' = told /\ chunkLeft' = chunkLeft
        /\ head' = head /\ data' = data
    BY <2>2 DEF Finish, requestVars, serverSide
  <2>4. /\ HeadAndBody(lines, raw, serverSends, body, serves, told, chunkLeft)
        /\ \A i \in 1..Len(serverSends) :
             serverSends[i].t \in {"length", "chunked"} => i \in 1..Len(lines) /\ serverSends[i] = lines[i]
    <3>1. Says("blank", serverSends)
      BY <1>3, <2>1
    <3> DEFINE blanks == {i \in DOMAIN data : data[i].t = "blank"}
    <3>2. blanks \subseteq Nat /\ blanks # {} /\ sep = Min(blanks)
      BY <1>2, <1>3, <2>1 DEF Says
    <3> HIDE DEF blanks
    <3>3. sep \in blanks
      BY <3>2, MinIn
    <3>4. sep \in DOMAIN serverSends /\ serverSends[sep].t = "blank"
      BY <1>3, <3>3 DEF blanks
    <3>5. lines = SubSeq(serverSends, 1, sep) /\ raw = SubSeq(serverSends, sep + 1, Len(serverSends))
      BY <1>3
    <3> HIDE DEF sep, lines, raw
    <3> QED
      <4>1. Served(serverSends, body, serves, told, chunkLeft)
        BY <1>2
      <4>2. /\ HeadAndBody(SubSeq(serverSends, 1, sep), SubSeq(serverSends, sep + 1, Len(serverSends)),
                         serverSends, body, serves, told, chunkLeft)
            /\ \A i \in 1..Len(serverSends) : serverSends[i].t \in {"length", "chunked"} =>
                  i \in 1..Len(SubSeq(serverSends, 1, sep)) /\ serverSends[i] = SubSeq(serverSends, 1, sep)[i]
        BY <3>1, <3>4, <4>1, WholeIsBody
      <4> QED
        BY <3>5, <4>2
  <2> HIDE DEF sep, lines, raw, decoded
  <2>5. lines \in Seq(Tokens)
    BY <2>4 DEF HeadAndBody, Parted
  <2>6. /\ \A i, j \in Framing : i = j
        /\ \A i \in Framing : IF serverSends[i].t = "chunked" THEN Says("chunked", lines)
                            ELSE Says("length", lines) /\ LengthIn(lines) = serverSends[i].n /\ ~Says("chunked", lines)
    BY <1>2, <2>1, <2>4, <2>5, SaidOnce DEF Ambiguous, Framing
  <2>7. /\ SubSeq(body, 1, told) \in Seq(Tokens) /\ Len(SubSeq(body, 1, told)) = told
        /\ \A i \in 1..told : SubSeq(body, 1, told)[i] = body[i]
    BY <1>2, SomeOf
  <2>8. bodyOut' = SubSeq(body, 1, told) /\ (Says("chunked", lines) => told = Len(body))
    <3>1. CASE Says("chunked", lines)
      <4>1. Complete(decoded) /\ bodyOut' = decoded.body
        BY <2>1, <3>1 DEF Finish
      <4>2. decoded.at = "whole"
        BY <4>1 DEF Complete
      <4>3. decoded.body = SubSeq(body, 1, told) /\ Len(body) - told = 0
        BY <2>4, <4>2 DEF HeadAndBody, InChunks, decoded
      <4> QED
        BY <1>2, <4>1, <4>3
    <3>2. CASE ~Says("chunked", lines)
      <4>1. bodyOut' = raw
        BY <2>1, <3>2 DEF Finish
      <4>2. raw = SubSeq(body, 1, told)
        BY <2>4, <3>2 DEF HeadAndBody
      <4> QED
        BY <3>2, <4>1, <4>2
    <3> QED
      BY <3>1, <3>2
  <2>9. Begins(SubSeq(body, 1, told), body)
    BY <1>2, <2>7 DEF Begins
  <2>10. IsPrefix(bodyOut', body)
    BY <1>2, <2>7, <2>8, <2>9, BeginsIsPrefix
  <2>11. told = Len(body) => SubSeq(body, 1, told) = body
    BY <1>2, <2>7, SeqEqual
  <2>12. ~Says("chunked", lines) /\ Says("length", lines) => Len(bodyOut') = LengthIn(lines)
    BY <2>1 DEF Finish
  <2>13. \A i \in Framing : IF serverSends[i].t = "chunked" THEN bodyOut' = body ELSE Len(bodyOut') = serverSends[i].n
    BY <2>6, <2>8, <2>11, <2>12
  <2>14. Framing' = Framing
    BY <2>3 DEF Framing
  <2>15. ResponseWhole'
    BY <1>1, <2>3, <2>6, <2>10, <2>13, <2>14 DEF ResponseWhole
  <2>16. Served(serverSends, body, serves, told, chunkLeft)'
    BY <1>2, <2>3
  <2> QED
    BY <1>1, <2>3, <2>15, <2>16 DEF HtInv
<1> QED
  BY <1>4, <1>5

LEMMA ReadHeadLineKeeps == ASSUME HtInv, ReadHeadLine PROVE HtInv'
<1> DEFINE line == serverSends[Len(head) + 1]
<1>1. outcome = "reading" /\ call = "stream" /\ ~Says("blank", head)
  BY DEF ReadHeadLine
<1>2. /\ HeadTaken(head, serverSends) /\ BodyRead(bodyOut, head, serverSends) /\ serverSends \in Seq(Tokens)
      /\ head \in Seq(Tokens) /\ Begins(head, serverSends) /\ bodyOut \in Seq(Tokens)
  BY <1>1 DEF HtInv, Served, HeadTaken, BodyRead
<1>3. CASE Fails
  BY <1>1, <1>3, FailsKeeps
<1>4. CASE ~Fails
  <2>1. /\ Len(serverSends) # Len(head) /\ line.t \notin {"chunked", "coding", "gzip"}
        /\ ~(line.t = "length" /\ Says("length", head))
        /\ head' = Append(head, line)
        /\ UNCHANGED <<requestVars, serverSide, data, bodyOut, outcome>>
    BY <1>4 DEF ReadHeadLine
  <2>2. /\ call' = call /\ source' = source /\ claimed' = claimed /\ expected' = expected /\ body' = body
        /\ serverSends' = serverSends /\ serves' = serves /\ told' = told /\ chunkLeft' = chunkLeft
        /\ data' = data /\ bodyOut' = bodyOut /\ outcome' = outcome
    BY <2>1 DEF requestVars, serverSide
  <2>3. Len(head) + 1 \in 1..Len(serverSends) /\ line \in Tokens
    BY <1>2, <2>1 DEF Begins
  <2> HIDE DEF line
  <2>4. /\ head' \in Seq(Tokens) /\ Len(head') = Len(head) + 1 /\ head'[Len(head) + 1] = line
        /\ \A i \in 1..Len(head) : head'[i] = head[i]
    BY <1>2, <2>1, <2>3
  <2>5. Begins(head', serverSends)
    <3>1. Len(head) \in Nat /\ Len(head) <= Len(serverSends) /\ \A i \in 1..Len(head) : head[i] = serverSends[i]
      BY <1>2 DEF Begins
    <3>2. head'[Len(head) + 1] = serverSends[Len(head) + 1]
      BY <2>4 DEF line
    <3>3. \A i \in 1..Len(head') : head'[i] = serverSends[i]
      BY <2>4, <3>1, <3>2
    <3> QED
      BY <2>3, <2>4, <3>1, <3>3 DEF Begins
  <2>6. ~Says("chunked", head')
    BY <1>2, <2>1, <2>4 DEF Says, HeadTaken
  <2>7. ~SaysTwice("length", head')
    BY <1>2, <2>1, <2>4 DEF Says, SaysTwice, HeadTaken
  <2>8. \A i \in 1..Len(head') : i # Len(head') => head'[i].t # "blank"
    BY <1>1, <1>2, <2>4 DEF Says
  <2>9. HeadTaken(head', serverSends)
    BY <2>4, <2>5, <2>6, <2>7, <2>8 DEF HeadTaken
  <2>10. Len(bodyOut) = 0
    BY <1>1, <1>2 DEF BodyRead
  <2>11. BodyRead(bodyOut, head', serverSends)
    BY <1>2, <2>3, <2>4, <2>10 DEF BodyRead
  <2>12. 0 <= Announced'
    <3>1. CASE Says("length", head')
      BY <2>4, <3>1, LengthIsIn DEF Announced
    <3>2. CASE ~Says("length", head')
      BY <3>2 DEF Announced
    <3> QED
      BY <3>1, <3>2
  <2>13. ResponseWhole'
    BY <1>1, <2>2, <2>10, <2>12, HttpAssumption DEF HtInv, ResponseWhole
  <2>14. Served(serverSends, body, serves, told, chunkLeft)'
    BY <2>2 DEF HtInv
  <2> QED
    BY <1>1, <2>2, <2>9, <2>10, <2>11, <2>13, <2>14 DEF HtInv
<1> QED
  BY <1>3, <1>4

LEMMA CopyResponseKeeps == ASSUME HtInv, NEW n \in 1..2, CopyResponse(n) PROVE HtInv'
<1> DEFINE at == Len(head) + Len(bodyOut)
<1>1. outcome = "reading" /\ call = "stream" /\ Says("blank", head)
  BY DEF CopyResponse
<1>2. /\ HeadTaken(head, serverSends) /\ BodyRead(bodyOut, head, serverSends) /\ serverSends \in Seq(Tokens)
      /\ head \in Seq(Tokens) /\ Begins(head, serverSends) /\ bodyOut \in Seq(Tokens)
      /\ Served(serverSends, body, serves, told, chunkLeft) /\ source >= claimed
  BY <1>1 DEF HtInv, Served, HeadTaken, BodyRead
<1>3. CASE Fails
  BY <1>1, <1>3, FailsKeeps
<1>4. CASE ~Fails
  <2>1. /\ ~(Announced > ResponseLimit) /\ (expected = NoLength \/ Announced = expected)
        /\ \/ Len(bodyOut) = Announced /\ Finish("ok", bodyOut)
           \/ /\ Len(bodyOut) # Announced
              /\ at + n <= Len(serverSends) /\ Len(bodyOut) + n <= Announced
              /\ bodyOut' = bodyOut \o SubSeq(serverSends, at + 1, at + n)
              /\ UNCHANGED <<requestVars, serverSide, data, head, outcome>>
    BY <1>4 DEF CopyResponse
  <2>2. /\ call' = call /\ source' = source /\ claimed' = claimed /\ expected' = expected /\ body' = body
        /\ serverSends' = serverSends /\ serves' = serves /\ told' = told /\ chunkLeft' = chunkLeft
        /\ data' = data /\ head' = head
    BY <2>1 DEF Finish, requestVars, serverSide
  <2>3. Announced' = Announced /\ Framing' = Framing
    BY <2>2 DEF Announced, Framing
  <2>4. Announced \in Nat /\ ResponseLimit \in Nat /\ Announced <= ResponseLimit
    <3>1. Announced \in Nat
      BY <1>2, LengthIsIn DEF Announced
    <3> QED
      BY <2>1, <3>1, HttpAssumption
  <2>5. Served(serverSends, body, serves, told, chunkLeft)'
    BY <1>2, <2>2
  <2>6. CASE Len(bodyOut) = Announced /\ Finish("ok", bodyOut)
    <3>1. bodyOut' = bodyOut /\ outcome' = "ok"
      BY <2>6 DEF Finish
    <3>2. \A i \in 1..Len(serverSends) :
            serverSends[i].t \in {"length", "chunked"} => i \in 1..Len(head) /\ serverSends[i] = head[i]
      BY <1>1, <1>2, StreamIsBody
    <3>3. ~Says("chunked", head) /\ ~SaysTwice("length", head)
      BY <1>2 DEF HeadTaken
    <3>4. ~SaysTwice("chunked", head)
      BY <3>3 DEF Says, SaysTwice
    <3>5. /\ \A i, j \in Framing : i = j
          /\ \A i \in Framing : IF serverSends[i].t = "chunked" THEN Says("chunked", head)
                              ELSE Says("length", head) /\ LengthIn(head) = serverSends[i].n /\ ~Says("chunked", head)
      BY <1>2, <3>2, <3>3, <3>4, SaidOnce DEF Framing
    <3>6. \A i \in Framing : IF serverSends[i].t = "chunked" THEN bodyOut = body ELSE Len(bodyOut) = serverSends[i].n
      BY <2>6, <3>3, <3>5 DEF Announced
    <3>7. expected \in {NoLength, Announced} /\ Len(bodyOut) <= Announced /\ Len(bodyOut) <= ResponseLimit
      BY <2>1, <2>4, <2>6
    <3>8. ResponseWhole'
      BY <1>1, <1>2, <2>2, <2>3, <2>6, <3>1, <3>5, <3>6, <3>7 DEF ResponseWhole, HtInv
    <3> QED
      BY <1>1, <1>2, <2>2, <2>3, <2>4, <2>5, <2>6, <3>1, <3>8 DEF HtInv
  <2>7. CASE /\ at + n <= Len(serverSends) /\ Len(bodyOut) + n <= Announced
             /\ bodyOut' = bodyOut \o SubSeq(serverSends, at + 1, at + n)
             /\ UNCHANGED <<requestVars, serverSide, data, head, outcome>>
    <3> DEFINE m == SubSeq(serverSends, at + 1, at + n)
    <3>1. Len(head) \in Nat /\ Len(bodyOut) \in Nat /\ at \in Nat /\ at <= Len(serverSends) /\ n \in Nat
      BY <1>2 DEF BodyRead
    <3>2. m \in Seq(Tokens) /\ Len(m) = n /\ \A j \in 1..n : m[j] = serverSends[at + j]
      <4>1. serverSends \in Seq(Tokens) /\ at + n <= Len(serverSends)
        BY <1>2, <2>7
      <4>2. at \in Nat /\ n \in Nat
        BY <3>1
      <4> HIDE DEF at
      <4> QED
        BY <4>1, <4>2, SliceOf DEF m
    <3> HIDE DEF m
    <3>3. bodyOut' = bodyOut \o m
      BY <2>7 DEF m
    <3>4. /\ bodyOut' \in Seq(Tokens) /\ Len(bodyOut') = Len(bodyOut) + n
          /\ \A j \in 1..Len(bodyOut) : bodyOut'[j] = bodyOut[j]
          /\ \A j \in (Len(bodyOut) + 1)..(Len(bodyOut) + n) : bodyOut'[j] = m[j - Len(bodyOut)]
      BY <1>2, <3>1, <3>2, <3>3
    <3>5. \A j \in 1..Len(bodyOut') : bodyOut'[j] = serverSends[Len(head) + j]
      <4> SUFFICES ASSUME NEW j \in 1..Len(bodyOut') PROVE bodyOut'[j] = serverSends[Len(head) + j]
        OBVIOUS
      <4>1. CASE j \in 1..Len(bodyOut)
        BY <1>2, <3>4, <4>1 DEF BodyRead
      <4>2. CASE j \in (Len(bodyOut) + 1)..(Len(bodyOut) + n)
        <5>1. j - Len(bodyOut) \in 1..n /\ at + (j - Len(bodyOut)) = Len(head) + j
          BY <3>1, <4>2
        <5>2. m[j - Len(bodyOut)] = serverSends[at + (j - Len(bodyOut))]
          BY <3>2, <5>1
        <5> HIDE DEF at
        <5> QED
          BY <3>4, <4>2, <5>1, <5>2
      <4> QED
        BY <3>1, <3>4, <4>1, <4>2
    <3>6. BodyRead(bodyOut', head, serverSends)
      BY <1>1, <2>7, <3>1, <3>4, <3>5 DEF BodyRead
    <3>7. IsPrefix(bodyOut', body)
      BY <1>2, <3>6, StreamIsBody
    <3>8. Len(bodyOut') <= Announced /\ Len(bodyOut') <= ResponseLimit
      BY <2>4, <2>7, <3>1, <3>4
    <3>9. outcome' = outcome
      BY <2>7
    <3>10. ResponseWhole'
      BY <1>1, <2>2, <2>3, <3>7, <3>8, <3>9 DEF ResponseWhole
    <3> QED
      BY <1>1, <1>2, <2>2, <2>3, <2>4, <2>5, <3>6, <3>8, <3>9, <3>10 DEF HtInv
  <2> QED
    BY <2>1, <2>6, <2>7
<1> QED
  BY <1>3, <1>4

LEMMA HtInvStarts == HtInit => HtInv
<1> SUFFICES ASSUME HtInit PROVE HtInv
  OBVIOUS
<1>1. PICK m \in 0..MaxBody : body = [i \in 1..m |-> Token("byte", i)]
  BY DEF HtInit
<1>2. m \in Nat
  BY HttpAssumption
<1>3. /\ call \in {"whole", "stream"} /\ outcome = "sending" /\ source \in Nat /\ claimed \in Nat
      /\ serverSends = <<>> /\ serves = "status" /\ told = 0 /\ chunkLeft = 0
      /\ data = <<>> /\ head = <<>> /\ bodyOut = <<>>
  BY DEF HtInit
<1>4. body \in Seq(BodyTokens) /\ body \in Seq(Tokens)
  <2>1. \A i \in 1..m : Token("byte", i) \in BodyTokens /\ Token("byte", i) \in Tokens
    BY <1>2 DEF Token, BodyTokens, Tokens
  <2> HIDE DEF Token
  <2> QED
    BY <1>1, <1>2, <2>1
<1>5. <<>> \in Seq(Tokens) /\ Len(<<>>) = 0 /\ 0 \in 0..Len(body) /\ \A t : ~Says(t, <<>>) /\ ~SaysTwice(t, <<>>)
  BY <1>4 DEF Says, SaysTwice
<1>6. Served(serverSends, body, serves, told, chunkLeft)
  BY <1>3, <1>4, <1>5 DEF Served
<1>7. Begins(<<>>, <<>>) /\ Begins(<<>>, body)
  BY <1>4 DEF Begins
<1>8. HeadTaken(head, serverSends) /\ BodyRead(bodyOut, head, serverSends)
  BY <1>3, <1>5, <1>7 DEF HeadTaken, BodyRead
<1>9. Announced = 0 /\ ResponseLimit \in Nat
  BY <1>3, <1>5, HttpAssumption DEF Announced
<1>10. IsPrefix(bodyOut, body)
  BY <1>3, <1>4, <1>5, <1>7, BeginsIsPrefix
<1>11. ResponseWhole
  BY <1>3, <1>5, <1>9, <1>10 DEF ResponseWhole
<1> QED
  BY <1>3, <1>5, <1>6, <1>7, <1>8, <1>11 DEF HtInv

LEMMA HtInvKept == HtInv /\ [HtNext]_htVars => HtInv'
<1> SUFFICES ASSUME HtInv, [HtNext]_htVars PROVE HtInv'
  OBVIOUS
<1>1. CASE SendRequest
  <2>1. CASE source < claimed
    BY <1>1, <2>1, FailsKeeps DEF SendRequest
  <2>2. CASE ~(source < claimed)
    <3>1. source >= claimed
      BY <2>2 DEF HtInv
    <3>2. /\ outcome \in {"sending", "reading"} /\ outcome' = "reading"
          /\ UNCHANGED <<requestVars, body, serverSends, serves, told, chunkLeft, data, head, bodyOut>>
      BY <1>1, <2>2 DEF SendRequest, serverSide
    <3> QED
      BY <3>1, <3>2, NoReadKeeps
  <2> QED
    BY <2>1, <2>2
<1>2. CASE ReadStalls
  BY <1>2, FailsKeeps DEF ReadStalls
<1>3. CASE ServerCloses \/ UNCHANGED htVars
  <2>1. /\ outcome' = outcome
        /\ UNCHANGED <<requestVars, body, serverSends, serves, told, chunkLeft, data, head, bodyOut>>
    BY <1>3 DEF ServerCloses, htVars, serverSide
  <2> QED
    BY <2>1, NoReadKeeps
<1>4. CASE ServerSaysStatus \/ (\E line \in HeadLines : ServerSaysLine(line)) \/ ServerEndsHead
  BY <1>4, SaysHead
<1>5. CASE ServerSaysByte \/ (\E n \in 0..MaxBody : ServerSaysSize(n)) \/ ServerEndsChunk
  BY <1>5, SaysBody
<1>6. CASE \E n \in 1..2 : ReadWhole(n) \/ CopyResponse(n)
  BY <1>6, ReadWholeKeeps, CopyResponseKeeps
<1> QED
  BY <1>1, <1>2, <1>3, <1>4, <1>5, <1>6, ParseWholeKeeps, ReadHeadLineKeeps DEF HtNext

\* However a server frames its answer, in whatever pieces it sends it and
\* wherever the connection ends: the caller gets a beginning of the body, all
\* of it when the head says how long it is and the call succeeds, and never
\* more of a stream than was announced, expected and allowed.  The invariant
\* beneath says at which token of the server's grammar the decoder of chunks
\* is, that the head taken apart line by line is the server's head, and that a
\* stream is only copied from behind it.
THEOREM ResponsesStayWhole == HtSpec => []ResponseWhole
<1>1. HtInit => HtInv
  BY HtInvStarts
<1>2. HtInv /\ [HtNext]_htVars => HtInv'
  BY HtInvKept
<1>3. HtInv => ResponseWhole
  BY DEF HtInv
<1> QED
  BY <1>1, <1>2, <1>3, PTL DEF HtSpec

-----------------------------------------------------------------------------
(***************************************************************************)
(* The upgrade.                                                            *)
(***************************************************************************)
SymbolsOf(r) == Range(r) \cup {CR, LF}

\* A sequence in two parts.
LEMMA PartsOf ==
    ASSUME NEW S, NEW front \in Seq(S), NEW back \in Seq(S), NEW s, s = front \o back
    PROVE  /\ s \in Seq(S) /\ Len(s) = Len(front) + Len(back)
           /\ \A i \in 1..Len(front) : s[i] = front[i]
           /\ \A i \in 1..Len(back) : s[Len(front) + i] = back[i]
           /\ SubSeq(s, 1, Len(front)) = front /\ SubSeq(s, Len(front) + 1, Len(s)) = back
<1>1. /\ s \in Seq(S) /\ Len(s) = Len(front) + Len(back)
      /\ \A i \in 1..Len(front) : s[i] = front[i]
      /\ \A i \in 1..Len(back) : s[Len(front) + i] = back[i]
  OBVIOUS
<1>2. SubSeq(s, 1, Len(front)) = front
  <2>1. /\ SubSeq(s, 1, Len(front)) \in Seq(S) /\ Len(SubSeq(s, 1, Len(front))) = Len(front)
        /\ \A i \in 1..Len(front) : SubSeq(s, 1, Len(front))[i] = s[i]
    BY <1>1
  <2> QED
    BY <1>1, <2>1, SeqEqual
<1>3. SubSeq(s, Len(front) + 1, Len(s)) = back
  <2>1. /\ SubSeq(s, Len(front) + 1, Len(s)) \in Seq(S) /\ Len(SubSeq(s, Len(front) + 1, Len(s))) = Len(back)
        /\ \A i \in 1..Len(back) : SubSeq(s, Len(front) + 1, Len(s))[i] = s[Len(front) + i]
    BY <1>1
  <2> QED
    BY <1>1, <2>1, SeqEqual
<1> QED
  BY <1>1, <1>2, <1>3

EndsAt(s, i) == i >= 4 /\ s[i - 3] = CR /\ s[i - 2] = LF /\ s[i - 1] = CR /\ s[i] = LF

LEMMA HeadEndsAt ==
    ASSUME NEW S, CR \in S, LF \in S, NEW s \in Seq(S), NEW i \in 4..Len(s)
    PROVE  SubSeq(s, i - 3, i) = EndOfHead <=> EndsAt(s, i)
<1> DEFINE t == SubSeq(s, i - 3, i)
<1>1. /\ t \in Seq(S) /\ Len(t) = 4 /\ t[1] = s[i - 3] /\ t[2] = s[i - 2] /\ t[3] = s[i - 1] /\ t[4] = s[i]
  OBVIOUS
<1>2. /\ EndOfHead \in Seq(S) /\ Len(EndOfHead) = 4
      /\ EndOfHead[1] = CR /\ EndOfHead[2] = LF /\ EndOfHead[3] = CR /\ EndOfHead[4] = LF
  BY DEF EndOfHead
<1> HIDE DEF t
<1>3. EndsAt(s, i) <=> t[1] = CR /\ t[2] = LF /\ t[3] = CR /\ t[4] = LF
  BY <1>1 DEF EndsAt
<1>4. ASSUME EndsAt(s, i) PROVE t = EndOfHead
  <2>1. \A k \in 1..4 : t[k] = EndOfHead[k]
    BY <1>2, <1>3, <1>4
  <2> QED
    BY <1>1, <1>2, <2>1, SeqEqual
<1>5. ASSUME t = EndOfHead PROVE EndsAt(s, i)
  BY <1>2, <1>3, <1>5
<1> QED
  BY <1>4, <1>5 DEF t

\* The head as far as it was read, one byte a time: it ends nowhere before its
\* last byte, and what is not of it is still to be read.
ReadSoFarOf(reply, got, rest, whole) ==
    /\ got \in Seq(SymbolsOf(reply)) /\ rest \in Seq(SymbolsOf(reply)) /\ reply = got \o rest
    /\ \A x \in Range(reply) : x = Atom(x.name, x.value)
    /\ \A i \in 1..Len(got) : EndsAt(got, i) => whole /\ i = Len(got)
    /\ whole => Len(got) >= 4 /\ EndsAt(got, Len(got))

UpgradeInv ==
    /\ wsPhase \in {"idle", "upgrading"} => wsHead = <<>>
    /\ wsPhase \in {"reading", "verifying", "open"} =>
          ReadSoFarOf(wsReply, wsHead, wsInbound, wsPhase # "reading")
    /\ wsPhase = "open" => Verified(wsHead, wsKey) /\ (squeeze => wsOffer /\ DeflateIn(wsHead))

LEMMA UpgradeStarts == HsInit => UpgradeInv
BY DEF HsInit, UpgradeInv

LEMMA ReadByteKeeps == ASSUME UpgradeInv, ReadByte PROVE UpgradeInv'
<1> DEFINE x == Head(wsInbound)
           Symbols == SymbolsOf(wsReply)
<1>1. /\ wsPhase = "reading" /\ wsInbound # <<>> /\ wsReply' = wsReply
      /\ wsHead' = Append(wsHead, x) /\ wsInbound' = Tail(wsInbound)
      /\ \/ HeadRead(wsHead') /\ wsPhase' = "verifying"
         \/ ~HeadRead(wsHead') /\ wsPhase' \in {"failed", "reading"}
  BY DEF ReadByte, WsFails
<1>2. /\ wsHead \in Seq(Symbols) /\ wsInbound \in Seq(Symbols) /\ wsReply = wsHead \o wsInbound
      /\ CR \in Symbols /\ LF \in Symbols
      /\ \A i \in 1..Len(wsHead) : ~EndsAt(wsHead, i)
      /\ \A s \in Range(wsReply) : s = Atom(s.name, s.value)
  BY <1>1 DEF UpgradeInv, ReadSoFarOf, SymbolsOf
<1>3. x \in Symbols /\ Tail(wsInbound) \in Seq(Symbols) /\ wsInbound = <<x>> \o Tail(wsInbound)
  BY <1>1, <1>2, HeadTailProperties
<1> HIDE DEF x, Symbols
<1>4. /\ wsHead' \in Seq(Symbols) /\ Len(wsHead') = Len(wsHead) + 1
      /\ \A i \in 1..Len(wsHead) : wsHead'[i] = wsHead[i]
  BY <1>1, <1>2, <1>3
<1>5. wsReply' = wsHead' \o wsInbound'
  <2>1. wsHead \o (<<x>> \o Tail(wsInbound)) = (wsHead \o <<x>>) \o Tail(wsInbound)
    <3>1. <<x>> \in Seq(Symbols)
      BY <1>3
    <3> QED
      BY <1>2, <1>3, <3>1, ConcatAssociative
  <2>2. wsHead \o <<x>> = Append(wsHead, x)
    BY <1>2, <1>3, AppendIsConcat
  <2> QED
    BY <1>1, <1>2, <1>3, <2>1, <2>2
<1>6. \A i \in 1..Len(wsHead') : EndsAt(wsHead', i) => i = Len(wsHead')
  <2> SUFFICES ASSUME NEW i \in 1..Len(wsHead'), EndsAt(wsHead', i), i # Len(wsHead') PROVE FALSE
    OBVIOUS
  <2>1. i \in 1..Len(wsHead) /\ i >= 4
    BY <1>2, <1>4 DEF EndsAt
  <2>2. i - 3 \in 1..Len(wsHead) /\ i - 2 \in 1..Len(wsHead) /\ i - 1 \in 1..Len(wsHead)
    BY <1>2, <2>1
  <2>3. EndsAt(wsHead, i)
    BY <1>4, <2>1, <2>2 DEF EndsAt
  <2> QED
    BY <1>2, <2>1, <2>3
<1>7. HeadRead(wsHead') <=> Len(wsHead') >= 4 /\ EndsAt(wsHead', Len(wsHead'))
  <2>1. ASSUME Len(wsHead') >= 4 PROVE HeadRead(wsHead') <=> EndsAt(wsHead', Len(wsHead'))
    <3>1. Len(wsHead') \in 4..Len(wsHead')
      BY <1>4, <2>1
    <3>2. SubSeq(wsHead', Len(wsHead') - 3, Len(wsHead')) = EndOfHead <=> EndsAt(wsHead', Len(wsHead'))
      BY <1>2, <1>4, <3>1, HeadEndsAt
    <3> QED
      BY <2>1, <3>2 DEF HeadRead
  <2> QED
    BY <2>1 DEF HeadRead
<1>8. wsPhase' \in {"reading", "verifying"} => ReadSoFarOf(wsReply', wsHead', wsInbound', wsPhase' # "reading")
  <2>1. EndsAt(wsHead', Len(wsHead')) => Len(wsHead') >= 4
    BY DEF EndsAt
  <2> QED
    BY <1>1, <1>2, <1>3, <1>4, <1>5, <1>6, <1>7, <2>1 DEF ReadSoFarOf, Symbols
<1> QED
  BY <1>1, <1>8 DEF UpgradeInv

LEMMA NextUpgrade == UpgradeInv /\ [HsNext]_hsVars => UpgradeInv'
<1> SUFFICES ASSUME UpgradeInv, [HsNext]_hsVars PROVE UpgradeInv'
  OBVIOUS
<1>1. ASSUME NEW e, NEW p, NEW t, NEW offer, WsConnect(e, p, t, offer) PROVE UpgradeInv'
  <2>1. wsPhase = "idle" /\ wsPhase' \in {"failed", "upgrading"} /\ wsHead' = wsHead
    BY <1>1 DEF WsConnect, WsFails
  <2> QED
    BY <2>1 DEF UpgradeInv
<1>2. CASE Upgrade
  <2>1. /\ wsPhase = "upgrading" /\ wsPhase' = "reading" /\ wsReply' \in Replies /\ wsInbound' = wsReply'
        /\ wsHead' = <<>>
    BY <1>2 DEF Upgrade, UpgradeInv
  <2> DEFINE S == SymbolsOf(wsReply')
  <2>2. wsReply' \in Seq(S) /\ \A x \in Range(wsReply') : x = Atom(x.name, x.value)
    <3>1. wsReply' \in Seq(Range(wsReply')) /\ \A x \in Range(wsReply') : x = Atom(x.name, x.value)
      BY <2>1, HandshakeAssumption
    <3>2. \A i \in 1..Len(wsReply') : wsReply'[i] \in S
      BY <3>1, ElementOfSeq DEF SymbolsOf
    <3> HIDE DEF S
    <3> QED
      BY <3>1, <3>2
  <2> HIDE DEF S
  <2>3. wsReply' = <<>> \o wsInbound' /\ <<>> \in Seq(S) /\ Len(<<>>) = 0
    BY <2>1, <2>2
  <2>4. ReadSoFarOf(wsReply', wsHead', wsInbound', FALSE)
    BY <2>1, <2>2, <2>3 DEF ReadSoFarOf, S
  <2> QED
    BY <2>1, <2>4 DEF UpgradeInv
<1>3. CASE ReadByte
  BY <1>3, ReadByteKeeps
<1>4. CASE Verify
  <2>1. /\ wsPhase = "verifying" /\ wsReply' = wsReply /\ wsHead' = wsHead /\ wsInbound' = wsInbound
        /\ wsKey' = wsKey /\ wsOffer' = wsOffer
        /\ \/ wsPhase' = "open" /\ Verified(wsHead, wsKey) /\ squeeze' = (wsOffer /\ DeflateIn(wsHead))
           \/ wsPhase' = "failed"
    BY <1>4 DEF Verify, WsFails
  <2>2. ReadSoFarOf(wsReply, wsHead, wsInbound, TRUE)
    BY <2>1 DEF UpgradeInv
  <2> QED
    BY <2>1, <2>2 DEF UpgradeInv
<1>5. CASE ReadEnd \/ LinkBreaks
  <2>1. wsPhase' = "failed"
    BY <1>5 DEF ReadEnd, LinkBreaks, WsFails
  <2> QED
    BY <2>1 DEF UpgradeInv
<1>6. CASE \/ \E op \in {"text", "binary", "ping", "pong", "close"}, p \in WsPayloads : SendFrame(op, p)
           \/ WritePiece \/ UNCHANGED hsVars
  <2>1. /\ wsPhase' = wsPhase /\ wsReply' = wsReply /\ wsHead' = wsHead /\ wsInbound' = wsInbound
        /\ wsKey' = wsKey /\ wsOffer' = wsOffer /\ squeeze' = squeeze
    BY <1>6 DEF SendFrame, WritePiece, hsVars, outward
  <2> QED
    BY <2>1 DEF UpgradeInv
<1> QED
  BY <1>1, <1>2, <1>3, <1>4, <1>5, <1>6 DEF HsNext

LEMMA UpgradeInvSuffices == UpgradeInv => UpgradeProven
<1> SUFFICES ASSUME UpgradeInv, wsPhase = "open"
             PROVE  \E end \in HeadEnds(wsReply) :
                       LET seen == {wsReply[i] : i \in 1..end} IN
                       /\ Atom("status", "101") \in seen /\ Atom("accept", wsKey) \in seen
                       /\ squeeze => wsOffer /\ Atom("extensions", "deflate") \in seen
                       /\ \A before \in HeadEnds(wsReply) : end <= before
                       /\ wsInbound = SubSeq(wsReply, end + 1, Len(wsReply))
  BY Zenon DEF UpgradeProven
<1> DEFINE end == Len(wsHead)
           seen == {wsReply[i] : i \in 1..end}
           Symbols == SymbolsOf(wsReply)
<1>1. /\ wsHead \in Seq(Symbols) /\ wsInbound \in Seq(Symbols) /\ wsReply = wsHead \o wsInbound
      /\ \A i \in 1..Len(wsHead) : EndsAt(wsHead, i) => i = Len(wsHead)
      /\ Len(wsHead) >= 4 /\ EndsAt(wsHead, Len(wsHead))
      /\ CR \in Symbols /\ LF \in Symbols /\ \A s \in Range(wsReply) : s = Atom(s.name, s.value)
  BY DEF UpgradeInv, ReadSoFarOf, SymbolsOf
<1> HIDE DEF Symbols
<1>2. /\ wsReply \in Seq(Symbols) /\ Len(wsReply) = Len(wsHead) + Len(wsInbound)
      /\ \A i \in 1..Len(wsHead) : wsReply[i] = wsHead[i]
      /\ SubSeq(wsReply, Len(wsHead) + 1, Len(wsReply)) = wsInbound
  BY <1>1, PartsOf
<1>3. end \in Nat /\ end \in 4..Len(wsReply)
  BY <1>1, <1>2
<1>4. \A i \in 4..end : EndsAt(wsReply, i) <=> EndsAt(wsHead, i)
  <2> SUFFICES ASSUME NEW i \in 4..end PROVE EndsAt(wsReply, i) <=> EndsAt(wsHead, i)
    OBVIOUS
  <2>1. i \in 1..end /\ i - 3 \in 1..end /\ i - 2 \in 1..end /\ i - 1 \in 1..end
    BY <1>3
  <2> QED
    BY <1>2, <2>1 DEF EndsAt
<1>5. end \in HeadEnds(wsReply)
  BY <1>1, <1>2, <1>3, <1>4, HeadEndsAt DEF HeadEnds
<1>6. \A before \in HeadEnds(wsReply) : end <= before
  <2> SUFFICES ASSUME NEW before \in HeadEnds(wsReply), ~(end <= before) PROVE FALSE
    OBVIOUS
  <2>1. before \in 4..Len(wsReply) /\ SubSeq(wsReply, before - 3, before) = EndOfHead
    BY DEF HeadEnds
  <2>2. before \in 4..end /\ before \in 1..Len(wsHead) /\ before # Len(wsHead)
    BY <1>3, <2>1
  <2>3. EndsAt(wsReply, before)
    BY <1>1, <1>2, <2>1, HeadEndsAt
  <2> QED
    BY <1>1, <1>4, <2>2, <2>3
<1>7. \A i \in DOMAIN wsHead : Atom(wsHead[i].name, wsHead[i].value) \in seen
  <2> SUFFICES ASSUME NEW i \in DOMAIN wsHead PROVE Atom(wsHead[i].name, wsHead[i].value) \in seen
    OBVIOUS
  <2>1. i \in 1..end /\ i \in DOMAIN wsReply /\ wsReply[i] = wsHead[i]
    BY <1>1, <1>2, <1>3
  <2>2. wsReply[i] = Atom(wsHead[i].name, wsHead[i].value)
    BY <1>1, <2>1 DEF Range
  <2> QED
    BY <2>1, <2>2
<1>8. Verified(wsHead, wsKey) /\ (squeeze => wsOffer /\ DeflateIn(wsHead))
  BY DEF UpgradeInv
<1> HIDE DEF seen, end
<1>9. Atom("status", "101") \in seen
  <2>1. PICK i \in DOMAIN wsHead : wsHead[i].name = "status" /\ wsHead[i].value = "101"
    BY <1>8 DEF Verified, StatusAtoms
  <2> QED
    BY <1>7, <2>1
<1>10. Atom("accept", wsKey) \in seen
  <2>1. PICK i \in DOMAIN wsHead : wsHead[i].name = "accept" /\ wsHead[i].value = wsKey
    BY <1>8 DEF Verified, AcceptIs, AcceptsIn, HeaderAtoms
  <2> QED
    BY <1>7, <2>1
<1>11. squeeze => wsOffer /\ Atom("extensions", "deflate") \in seen
  <2> SUFFICES ASSUME squeeze PROVE Atom("extensions", "deflate") \in seen
    BY <1>8
  <2>1. PICK i \in DOMAIN wsHead : wsHead[i].name = "extensions" /\ wsHead[i].value = "deflate"
    BY <1>8 DEF DeflateIn, HeaderAtoms
  <2> QED
    BY <1>7, <2>1
<1>12. wsInbound = SubSeq(wsReply, end + 1, Len(wsReply))
  BY <1>2 DEF end
<1> QED
  BY <1>5, <1>6, <1>9, <1>10, <1>11, <1>12 DEF seen

\* Whatever a server answers, in its head and behind it: a WebSocket is open
\* only on a 101 that answers this very key, compresses only if both sides said
\* so, and what stands behind the first end of a head is left for the frames.
THEOREM UpgradesStayProven == HsSpec => []UpgradeProven
<1>1. HsInit => UpgradeInv
  BY UpgradeStarts
<1>2. UpgradeInv /\ [HsNext]_hsVars => UpgradeInv'
  BY NextUpgrade
<1>3. UpgradeInv => UpgradeProven
  BY UpgradeInvSuffices
<1> QED
  BY <1>1, <1>2, <1>3, PTL DEF HsSpec

(***************************************************************************)
(* write_masked_frame: the header and its lengths, the mask, the chunks.   *)
(***************************************************************************)
Weights == {1, 2, 4, 8, 16, 32, 64, 128}

\* Eight bits and the byte they are.
LEMMA BitsOfAByte ==
    ASSUME NEW a \in Byte
    PROVE  /\ \A weight \in Weights : Bit(a, weight) \in 0..1
           /\ a = Bit(a, 1) + 2 * Bit(a, 2) + 4 * Bit(a, 4) + 8 * Bit(a, 8) + 16 * Bit(a, 16)
                  + 32 * Bit(a, 32) + 64 * Bit(a, 64) + 128 * Bit(a, 128)
BY DEF Byte, Bit, Weights

LEMMA ByteOfBits ==
    ASSUME NEW b0 \in 0..1, NEW b1 \in 0..1, NEW b2 \in 0..1, NEW b3 \in 0..1,
           NEW b4 \in 0..1, NEW b5 \in 0..1, NEW b6 \in 0..1, NEW b7 \in 0..1,
           NEW n, n = b0 + 2 * b1 + 4 * b2 + 8 * b3 + 16 * b4 + 32 * b5 + 64 * b6 + 128 * b7
    PROVE  /\ n \in Byte
           /\ Bit(n, 1) = b0 /\ Bit(n, 2) = b1 /\ Bit(n, 4) = b2 /\ Bit(n, 8) = b3
           /\ Bit(n, 16) = b4 /\ Bit(n, 32) = b5 /\ Bit(n, 64) = b6 /\ Bit(n, 128) = b7
BY DEF Byte, Bit

\* What was masked twice is as it was.
LEMMA MaskedTwice ==
    ASSUME NEW a \in Byte, NEW b \in Byte
    PROVE  ByteXor(a, b) \in Byte /\ ByteXor(ByteXor(a, b), b) = a
<1> DEFINE part(weight) == IF Bit(a, weight) = Bit(b, weight) THEN 0 ELSE 1
           n == ByteXor(a, b)
<1>1. /\ \A weight \in Weights : Bit(a, weight) \in 0..1 /\ Bit(b, weight) \in 0..1
      /\ a = Bit(a, 1) + 2 * Bit(a, 2) + 4 * Bit(a, 4) + 8 * Bit(a, 8) + 16 * Bit(a, 16)
             + 32 * Bit(a, 32) + 64 * Bit(a, 64) + 128 * Bit(a, 128)
  BY BitsOfAByte
<1>2. n = part(1) + 2 * part(2) + 4 * part(4) + 8 * part(8) + 16 * part(16)
          + 32 * part(32) + 64 * part(64) + 128 * part(128)
  BY DEF ByteXor
<1>3. \A weight \in Weights : part(weight) \in 0..1
  OBVIOUS
<1> HIDE DEF part, n
<1>4. /\ n \in Byte
      /\ \A weight \in Weights : Bit(n, weight) = part(weight)
  <2>1. /\ part(1) \in 0..1 /\ part(2) \in 0..1 /\ part(4) \in 0..1 /\ part(8) \in 0..1
        /\ part(16) \in 0..1 /\ part(32) \in 0..1 /\ part(64) \in 0..1 /\ part(128) \in 0..1
    BY <1>3 DEF Weights
  <2> QED
    BY <1>2, <2>1, ByteOfBits DEF Weights
<1>5. \A weight \in Weights :
         (IF Bit(n, weight) = Bit(b, weight) THEN 0 ELSE weight) = weight * Bit(a, weight)
  <2> SUFFICES ASSUME NEW weight \in Weights
               PROVE  (IF Bit(n, weight) = Bit(b, weight) THEN 0 ELSE weight) = weight * Bit(a, weight)
    OBVIOUS
  <2>1. Bit(n, weight) = Bit(b, weight) <=> Bit(a, weight) = 0
    BY <1>1, <1>4 DEF part
  <2>2. weight \in Nat /\ Bit(a, weight) \in 0..1
    BY <1>1 DEF Weights
  <2> QED
    BY <2>1, <2>2
<1> DEFINE kept(weight) == IF Bit(n, weight) = Bit(b, weight) THEN 0 ELSE weight
<1>6. /\ kept(1) = Bit(a, 1) /\ kept(2) = 2 * Bit(a, 2) /\ kept(4) = 4 * Bit(a, 4)
      /\ kept(8) = 8 * Bit(a, 8) /\ kept(16) = 16 * Bit(a, 16) /\ kept(32) = 32 * Bit(a, 32)
      /\ kept(64) = 64 * Bit(a, 64) /\ kept(128) = 128 * Bit(a, 128)
  <2>1. \A weight \in Weights : kept(weight) = weight * Bit(a, weight)
    BY <1>5
  <2> HIDE DEF kept
  <2>2. 1 * Bit(a, 1) = Bit(a, 1)
    BY <1>1 DEF Weights
  <2> QED
    BY <2>1, <2>2 DEF Weights
<1>7. ByteXor(n, b) = kept(1) + kept(2) + kept(4) + kept(8) + kept(16) + kept(32) + kept(64) + kept(128)
  BY DEF ByteXor
<1> HIDE DEF kept
<1> QED
  BY <1>1, <1>4, <1>6, <1>7 DEF n


FrameOps == {"text", "binary", "ping", "pong", "close"}

\* Two bytes are the last sixteen bits, and four are all of a short number.
LEMMA WordRead ==
    ASSUME NEW n \in Nat
    PROVE  /\ HighByte(n) \in Byte /\ LowByte(n) \in Byte
           /\ 256 * HighByte(n) + LowByte(n) = n % TwoToThe16
<1>1. 256 * HighByte(n) + LowByte(n) = n % TwoToThe16
  BY SMT DEF HighByte, LowByte, TwoToThe16
<1>2. HighByte(n) \in Byte /\ LowByte(n) \in Byte
  BY DEF HighByte, LowByte, Byte
<1> QED
  BY <1>1, <1>2

LEMMA LengthRead ==
    ASSUME NEW n \in Nat, n <= LongestBody
    PROVE  /\ n \div TwoToThe16 \in Nat
           /\ TwoToThe16 * ((n \div TwoToThe16) % TwoToThe16) + (n % TwoToThe16) = n
BY SMT DEF TwoToThe16, LongestBody

\* The bytes from b on begin with f.
Lies(bytes, b, f) == \A j \in 1..Len(f) : bytes[b + j] = f[j]

\* The three forms of a header and what is read of each.
LEMMA HeaderRead ==
    ASSUME NEW op \in FrameOps, NEW size \in Nat, size <= LongestBody, NEW rsv1 \in BOOLEAN,
           NEW bytes, NEW b \in Nat, Lies(bytes, b, FrameHeader(op, size, rsv1))
    PROVE  LET h == FrameHeader(op, size, rsv1) IN
           /\ h \in Seq(Byte) /\ Len(h) >= 2
           /\ Opcode(bytes, b) = OpCode(op) /\ (HasRsv1(bytes, b) <=> rsv1)
           /\ PayloadLen(bytes, b) = size /\ MaskAt(bytes, b) = b + Len(h)
<1> DEFINE h == FrameHeader(op, size, rsv1)
           first == (IF rsv1 THEN 192 ELSE 128) + OpCode(op)
           above == size \div TwoToThe16
           Read(n) == /\ h \in Seq(Byte) /\ Len(h) = n
                      /\ Opcode(bytes, b) = OpCode(op) /\ (HasRsv1(bytes, b) <=> rsv1)
                      /\ PayloadLen(bytes, b) = size /\ MaskAt(bytes, b) = b + n
<1>1. first \in Byte
  BY DEF FrameOps, OpCode, Byte
<1>2. ASSUME bytes[b + 1] = first
      PROVE  Opcode(bytes, b) = OpCode(op) /\ (HasRsv1(bytes, b) <=> rsv1)
  <2>1. OpCode(op) \in 1..10
    BY DEF FrameOps, OpCode
  <2> QED
    BY <1>2, <2>1 DEF Opcode, HasRsv1
<1>3. \A j \in 1..Len(h) : bytes[b + j] = h[j]
  BY DEF Lies
<1>4. /\ h = IF size < ShortSize THEN <<first, 128 + size>>
             ELSE IF size <= WordSize THEN <<first, 254, HighByte(size), LowByte(size)>>
             ELSE <<first, 255, 0, 0, 0, 0, HighByte(above), LowByte(above),
                    HighByte(size), LowByte(size)>>
      /\ ShortSize \in 1..126 /\ WordSize \in Nat /\ WordSize < TwoToThe16
  BY HandshakeAssumption DEF FrameHeader
<1> HIDE DEF h, first, above
<1>5. CASE size < ShortSize
  <2>1. h = <<first, 128 + size>> /\ 128 + size \in Byte
    BY <1>4, <1>5 DEF Byte
  <2>2. h \in Seq(Byte) /\ Len(h) = 2 /\ h[1] = first /\ h[2] = 128 + size
    BY <1>1, <2>1
  <2>3. bytes[b + 1] = first /\ bytes[b + 2] = 128 + size
    BY <1>3, <2>2
  <2>4. Field(bytes, b) = size /\ size # 126 /\ size # 127
    BY <1>4, <1>5, <2>3 DEF Field
  <2> QED
    BY <1>2, <2>2, <2>3, <2>4 DEF PayloadLen, MaskAt, LengthBytes, h, first
<1>6. CASE ~(size < ShortSize) /\ size <= WordSize
  <2>1. /\ h = <<first, 254, HighByte(size), LowByte(size)>>
        /\ HighByte(size) \in Byte /\ LowByte(size) \in Byte /\ 254 \in Byte
        /\ 256 * HighByte(size) + LowByte(size) = size % TwoToThe16
    BY <1>4, <1>6, WordRead DEF Byte
  <2>2. /\ h \in Seq(Byte) /\ Len(h) = 4 /\ h[1] = first /\ h[2] = 254
        /\ h[3] = HighByte(size) /\ h[4] = LowByte(size)
    BY <1>1, <2>1
  <2>3. /\ bytes[b + 1] = first /\ bytes[b + 2] = 254
        /\ bytes[b + 3] = HighByte(size) /\ bytes[b + 4] = LowByte(size)
    BY <1>3, <2>2
  <2>4. Field(bytes, b) = 126
    BY <2>3 DEF Field
  <2>5. bytes[(b + 3) + 1] = LowByte(size) /\ size % TwoToThe16 = size
    <3>1. (b + 3) + 1 = b + 4
      OBVIOUS
    <3>2. size % TwoToThe16 = size
      BY <1>4, <1>6, SMT DEF TwoToThe16
    <3> QED
      BY <2>3, <3>1, <3>2
  <2>6. WordAt(bytes, b + 3) = size
    BY <2>1, <2>3, <2>5 DEF WordAt
  <2> QED
    BY <1>2, <2>2, <2>3, <2>4, <2>6 DEF PayloadLen, MaskAt, LengthBytes, h, first
<1>7. CASE ~(size < ShortSize) /\ ~(size <= WordSize)
  <2>1. above \in Nat /\ TwoToThe16 * (above % TwoToThe16) + (size % TwoToThe16) = size
    BY LengthRead DEF above
  <2>2. /\ HighByte(size) \in Byte /\ LowByte(size) \in Byte
        /\ 256 * HighByte(size) + LowByte(size) = size % TwoToThe16
        /\ HighByte(above) \in Byte /\ LowByte(above) \in Byte
        /\ 256 * HighByte(above) + LowByte(above) = above % TwoToThe16
    BY <2>1, WordRead
  <2>3. /\ h = <<first, 255, 0, 0, 0, 0, HighByte(above), LowByte(above), HighByte(size), LowByte(size)>>
        /\ 255 \in Byte /\ 0 \in Byte
    BY <1>4, <1>7 DEF Byte
  <2>4. /\ h \in Seq(Byte) /\ Len(h) = 10 /\ h[1] = first /\ h[2] = 255
        /\ h[7] = HighByte(above) /\ h[8] = LowByte(above)
        /\ h[9] = HighByte(size) /\ h[10] = LowByte(size)
    BY <1>1, <2>2, <2>3
  <2>5. /\ bytes[b + 1] = first /\ bytes[b + 2] = 255
        /\ bytes[b + 7] = HighByte(above) /\ bytes[b + 8] = LowByte(above)
        /\ bytes[b + 9] = HighByte(size) /\ bytes[b + 10] = LowByte(size)
    <3>1. \A j \in 1..10 : bytes[b + j] = h[j]
      BY <1>3, <2>4
    <3>2. bytes[b + 1] = h[1] /\ bytes[b + 2] = h[2] /\ bytes[b + 7] = h[7] /\ bytes[b + 8] = h[8]
      BY <3>1
    <3>3. bytes[b + 9] = h[9] /\ bytes[b + 10] = h[10]
      BY <3>1
    <3> QED
      BY <2>4, <3>2, <3>3
  <2>6. Field(bytes, b) = 127
    BY <2>5 DEF Field
  <2>7. (b + 7) + 1 = b + 8 /\ (b + 9) + 1 = b + 10
    OBVIOUS
  <2>8. WordAt(bytes, b + 7) = above % TwoToThe16 /\ WordAt(bytes, b + 9) = size % TwoToThe16
    BY <2>2, <2>5, <2>7 DEF WordAt
  <2> QED
    BY <1>2, <2>1, <2>4, <2>5, <2>6, <2>8 DEF PayloadLen, MaskAt, LengthBytes, h, first
<1> QED
  BY <1>5, <1>6, <1>7 DEF h

LEMMA BytesJoined ==
    ASSUME NEW s \in Seq(Byte), NEW t \in Seq(Byte)
    PROVE  /\ s \o t \in Seq(Byte) /\ Len(s \o t) = Len(s) + Len(t)
           /\ \A i \in 1..Len(s) : (s \o t)[i] = s[i]
           /\ \A i \in 1..Len(t) : (s \o t)[Len(s) + i] = t[i]
<1>1. /\ s \o t \in Seq(Byte) /\ Len(s \o t) = Len(s) + Len(t)
      /\ \A i \in 1..Len(s) + Len(t) : (s \o t)[i] = IF i <= Len(s) THEN s[i] ELSE t[i - Len(s)]
  BY ConcatProperties
<1>2. Len(s) \in Nat /\ Len(t) \in Nat
  OBVIOUS
<1>3. ASSUME NEW i \in 1..Len(s) PROVE (s \o t)[i] = s[i]
  BY <1>1, <1>2
<1>4. ASSUME NEW i \in 1..Len(t) PROVE (s \o t)[Len(s) + i] = t[i]
  <2>1. Len(s) + i \in 1..Len(s) + Len(t) /\ ~(Len(s) + i <= Len(s)) /\ (Len(s) + i) - Len(s) = i
    BY <1>2
  <2> QED
    BY <1>1, <2>1
<1> QED
  BY <1>1, <1>3, <1>4

Joins(u, s, t) == u = s \o t

LEMMA JoinedAs ==
    ASSUME NEW s, NEW t, NEW u, s \in Seq(Byte), t \in Seq(Byte), Joins(u, s, t)
    PROVE  /\ u \in Seq(Byte) /\ Len(u) = Len(s) + Len(t)
           /\ \A i \in 1..Len(s) : u[i] = s[i]
           /\ \A i \in 1..Len(t) : u[Len(s) + i] = t[i]
BY BytesJoined DEF Joins

\* All the bytes of a frame, and one read back whole.
FrameOf(op, content, rsv1, mask) == FrameHeader(op, Len(content), rsv1) \o mask \o Masked(content, mask)

LEMMA MaskedIs ==
    ASSUME NEW coded \in Seq(Byte), NEW mask \in Seq(Byte), Len(mask) = 4
    PROVE  /\ Masked(coded, mask) \in Seq(Byte) /\ Len(Masked(coded, mask)) = Len(coded)
           /\ \A i \in 1..Len(coded) :
                 /\ ((i - 1) % 4) + 1 \in 1..4
                 /\ Masked(coded, mask)[i] = ByteXor(coded[i], mask[((i - 1) % 4) + 1])
                 /\ ByteXor(Masked(coded, mask)[i], mask[((i - 1) % 4) + 1]) = coded[i]
<1>1. DOMAIN coded = 1..Len(coded) /\ Len(coded) \in Nat
  OBVIOUS
<1>2. ASSUME NEW i \in 1..Len(coded)
      PROVE  /\ ((i - 1) % 4) + 1 \in 1..4
             /\ ByteXor(coded[i], mask[((i - 1) % 4) + 1]) \in Byte
             /\ ByteXor(ByteXor(coded[i], mask[((i - 1) % 4) + 1]), mask[((i - 1) % 4) + 1]) = coded[i]
  <2>1. ((i - 1) % 4) + 1 \in 1..4
    OBVIOUS
  <2> DEFINE k == ((i - 1) % 4) + 1
  <2> HIDE DEF k
  <2>2. coded[i] \in Byte /\ mask[k] \in Byte
    <3>1. k \in 1..Len(mask)
      BY <2>1 DEF k
    <3> QED
      BY <3>1, ElementOfSeq
  <2>3. ByteXor(coded[i], mask[k]) \in Byte /\ ByteXor(ByteXor(coded[i], mask[k]), mask[k]) = coded[i]
    BY <2>2, MaskedTwice
  <2> QED
    BY <2>1, <2>3 DEF k
<1> DEFINE m == [i \in 1..Len(coded) |-> ByteXor(coded[i], mask[((i - 1) % 4) + 1])]
<1>3. Masked(coded, mask) = m
  BY <1>1 DEF Masked
<1>4. m \in [1..Len(coded) -> Byte]
  BY <1>2
<1>5. m \in Seq(Byte) /\ Len(m) = Len(coded)
  BY <1>1, <1>4
<1>6. \A i \in 1..Len(coded) : m[i] = ByteXor(coded[i], mask[((i - 1) % 4) + 1])
  OBVIOUS
<1> HIDE DEF m
<1> QED
  BY <1>2, <1>3, <1>5, <1>6

IsMadeOf(f, h, mask, coded) ==
    /\ f \in Seq(Byte) /\ Len(f) = Len(h) + Len(mask) + Len(coded)
    /\ \A j \in 1..Len(h) : f[j] = h[j]
    /\ \A j \in 1..Len(mask) : f[Len(h) + j] = mask[j]
    /\ \A j \in 1..Len(coded) : f[Len(h) + Len(mask) + j] = coded[j]

LEMMA ThreeJoined ==
    ASSUME NEW h, NEW mask, NEW coded, NEW start, NEW f,
           h \in Seq(Byte), mask \in Seq(Byte), coded \in Seq(Byte),
           Joins(start, h, mask), Joins(f, start, coded)
    PROVE  IsMadeOf(f, h, mask, coded)
<1>1. /\ start \in Seq(Byte) /\ Len(start) = Len(h) + Len(mask)
      /\ \A j \in 1..Len(h) : start[j] = h[j]
      /\ \A j \in 1..Len(mask) : start[Len(h) + j] = mask[j]
  BY JoinedAs
<1>2. /\ f \in Seq(Byte) /\ Len(f) = Len(start) + Len(coded)
      /\ \A j \in 1..Len(start) : f[j] = start[j]
      /\ \A j \in 1..Len(coded) : f[Len(start) + j] = coded[j]
  BY <1>1, JoinedAs
<1>3. Len(h) \in Nat /\ Len(mask) \in Nat /\ Len(coded) \in Nat
  OBVIOUS
<1>4. ASSUME NEW j \in 1..Len(h) PROVE f[j] = h[j]
  BY <1>1, <1>2, <1>3
<1>5. ASSUME NEW j \in 1..Len(mask) PROVE f[Len(h) + j] = mask[j]
  BY <1>1, <1>2, <1>3
<1> QED
  BY <1>1, <1>2, <1>4, <1>5 DEF IsMadeOf

LEMMA FrameIs ==
    ASSUME NEW op \in FrameOps, NEW content \in Seq(Byte), Len(content) <= LongestBody, NEW rsv1 \in BOOLEAN,
           NEW mask, mask \in Seq(Byte), Len(mask) = 4, NEW h, h = FrameHeader(op, Len(content), rsv1),
           NEW f, f = FrameOf(op, content, rsv1, mask)
    PROVE  h \in Seq(Byte) /\ Len(h) >= 2 /\ IsMadeOf(f, h, mask, Masked(content, mask))
<1>1. h \in Seq(Byte) /\ Len(h) >= 2
  <2>1. Len(content) \in Nat /\ Lies(h, 0, h)
    BY DEF Lies
  <2> QED
    BY <2>1, HeaderRead
<1>2. PICK coded : coded = Masked(content, mask)
  OBVIOUS
<1>3. PICK start : start = h \o mask
  OBVIOUS
<1>4. coded \in Seq(Byte) /\ Len(coded) = Len(content)
  BY <1>2, MaskedIs
<1>5. Joins(start, h, mask) /\ Joins(f, start, coded)
  BY <1>2, <1>3 DEF Joins, FrameOf
<1>6. IsMadeOf(f, h, mask, coded)
  BY <1>1, <1>4, <1>5, ThreeJoined
<1> QED
  BY <1>1, <1>2, <1>6

LEMMA FrameRead ==
    ASSUME NEW op \in FrameOps, NEW content \in Seq(Byte), Len(content) <= LongestBody, NEW rsv1 \in BOOLEAN,
           NEW mask \in Seq(Byte), Len(mask) = 4, NEW bytes, NEW b \in Nat,
           Lies(bytes, b, FrameHeader(op, Len(content), rsv1))
    PROVE  LET f == FrameOf(op, content, rsv1, mask) IN
           /\ Opcode(bytes, b) = OpCode(op) /\ (HasRsv1(bytes, b) <=> rsv1)
           /\ FrameEnd(bytes, b) = b + Len(f)
           /\ Lies(bytes, b, f) => Unmasked(bytes, b) = content
<1> DEFINE h == FrameHeader(op, Len(content), rsv1)
           f == FrameOf(op, content, rsv1, mask)
           n == Len(h)
           size == Len(content)
<1>1. /\ Opcode(bytes, b) = OpCode(op) /\ (HasRsv1(bytes, b) <=> rsv1)
      /\ PayloadLen(bytes, b) = size /\ MaskAt(bytes, b) = b + n
  BY HeaderRead
<1>2. /\ n \in Nat /\ size \in Nat /\ Len(f) = n + 4 + size
      /\ \A j \in 1..4 : f[n + j] = mask[j]
      /\ \A j \in 1..size : f[n + 4 + j] = Masked(content, mask)[j]
  <2>1. h \in Seq(Byte) /\ Len(h) >= 2 /\ IsMadeOf(f, h, mask, Masked(content, mask))
    BY FrameIs
  <2>2. Len(Masked(content, mask)) = size
    BY MaskedIs
  <2> HIDE DEF h, f
  <2> QED
    BY <2>1, <2>2 DEF IsMadeOf
<1>3. \A j \in 1..size : ((j - 1) % 4) + 1 \in 1..4
                         /\ ByteXor(Masked(content, mask)[j], mask[((j - 1) % 4) + 1]) = content[j]
  BY MaskedIs
<1> HIDE DEF f, n, size
<1>4. FrameEnd(bytes, b) = b + Len(f)
  BY <1>1, <1>2 DEF FrameEnd
<1>5. ASSUME Lies(bytes, b, f) PROVE Unmasked(bytes, b) = content
  <2>1. \A j \in 1..Len(f) : bytes[b + j] = f[j]
    BY <1>5 DEF Lies
  <2>2. ASSUME NEW k \in 1..size
        PROVE  ByteXor(bytes[MaskAt(bytes, b) + 4 + k], bytes[MaskAt(bytes, b) + ((k - 1) % 4) + 1]) = content[k]
    <3> DEFINE r == ((k - 1) % 4) + 1
    <3>1. r \in 1..4 /\ ByteXor(Masked(content, mask)[k], mask[r]) = content[k]
      BY <1>3
    <3>2. MaskAt(bytes, b) + 4 + k = b + (n + 4 + k) /\ MaskAt(bytes, b) + ((k - 1) % 4) + 1 = b + (n + r)
      BY <1>1, <1>2
    <3> HIDE DEF r
    <3>3. n + 4 + k \in 1..Len(f) /\ n + r \in 1..Len(f)
      <4>1. Len(f) = n + 4 + size /\ n \in Nat /\ size \in Nat /\ k \in 1..size /\ r \in 1..4
        BY <1>2, <3>1
      <4> HIDE DEF f
      <4> QED
        BY <4>1
    <3>4. bytes[b + (n + 4 + k)] = Masked(content, mask)[k] /\ bytes[b + (n + r)] = mask[r]
      BY <1>2, <2>1, <3>1, <3>3
    <3> QED
      BY <3>1, <3>2, <3>4
  <2>3. Unmasked(bytes, b) = [k \in 1..size |-> content[k]]
    BY <1>1, <2>2 DEF Unmasked
  <2>4. content = [k \in 1..size |-> content[k]]
    BY DEF size
  <2> QED
    BY <2>3, <2>4
<1> QED
  BY <1>1, <1>4, <1>5 DEF f

\* payload.chunks(MASK_CHUNK_SIZE): where the chunks end, and that masking them
\* one by one is masking the whole.
EndOfChunk(c, size) == IF c * MaskChunk < size THEN c * MaskChunk ELSE size

LEMMA ChunksEnd ==
    ASSUME NEW size \in Nat, NEW n, n = (size + MaskChunk - 1) \div MaskChunk
    PROVE  /\ n \in Nat /\ EndOfChunk(0, size) = 0 /\ EndOfChunk(n, size) = size
           /\ \A c \in 1..n : /\ (c - 1) * MaskChunk \in Nat /\ c * MaskChunk \in Nat
                             /\ (c - 1) * MaskChunk < size /\ EndOfChunk(c - 1, size) = (c - 1) * MaskChunk
                             /\ EndOfChunk(c, size) \in Nat /\ EndOfChunk(c, size) <= size
                             /\ (c - 1) * MaskChunk < EndOfChunk(c, size)
<1>1. MaskChunk \in Nat \ {0}
  BY HandshakeAssumption
<1> DEFINE a == size + MaskChunk - 1
           r == a % MaskChunk
<1>2. a \in Nat /\ n = a \div MaskChunk
  BY <1>1
<1> HIDE DEF a
<1>3. n \in Nat /\ r \in 0..(MaskChunk - 1) /\ a = MaskChunk * n + r
  <2>1. a \div MaskChunk \in Nat
    BY <1>1, <1>2, Quotient
  <2>2. a \in Int /\ r \in 0..(MaskChunk - 1) /\ a = MaskChunk * (a \div MaskChunk) + r
    BY <1>1, <1>2, Division
  <2> QED
    BY <1>2, <2>1, <2>2
<1> HIDE DEF r
<1>4. n * MaskChunk \in Nat /\ n * MaskChunk = size + MaskChunk - 1 - r
  BY <1>1, <1>3 DEF a
<1>5. ASSUME NEW c \in 1..n
      PROVE  /\ (c - 1) * MaskChunk \in Nat /\ c * MaskChunk \in Nat
             /\ c * MaskChunk = (c - 1) * MaskChunk + MaskChunk /\ (c - 1) * MaskChunk < size
  <2>1. c - 1 \in Nat /\ n - c \in Nat /\ c \in Nat
    BY <1>3
  <2>2. (n - c) * MaskChunk \in Nat /\ (c - 1) * MaskChunk \in Nat /\ c * MaskChunk \in Nat
    BY <1>1, <2>1
  <2>3. n * MaskChunk = c * MaskChunk + (n - c) * MaskChunk /\ c * MaskChunk = (c - 1) * MaskChunk + MaskChunk
    BY <1>1, <1>3, <2>1
  <2> QED
    BY <1>1, <1>3, <1>4, <2>2, <2>3
<1>6. EndOfChunk(0, size) = 0
  BY <1>1 DEF EndOfChunk
<1>7. EndOfChunk(n, size) = size
  BY <1>1, <1>3, <1>4 DEF EndOfChunk
<1>8. ASSUME NEW c \in 1..n
      PROVE  /\ EndOfChunk(c - 1, size) = (c - 1) * MaskChunk
             /\ EndOfChunk(c, size) \in Nat /\ EndOfChunk(c, size) <= size
             /\ (c - 1) * MaskChunk < EndOfChunk(c, size)
  BY <1>1, <1>5 DEF EndOfChunk
<1> QED
  BY <1>3, <1>5, <1>6, <1>7, <1>8

LEMMA ChunkMasked ==
    ASSUME NEW content \in Seq(Byte), NEW mask \in Seq(Byte), Len(mask) = 4,
           NEW c \in 1..Len(MaskedChunks(content, mask))
    PROVE  LET piece == MaskedChunks(content, mask)[c]
               from == EndOfChunk(c - 1, Len(content)) IN
           /\ piece \in Seq(Byte) /\ Len(piece) > 0 /\ from \in Nat
           /\ EndOfChunk(c, Len(content)) = from + Len(piece)
           /\ \A j \in 1..Len(piece) : piece[j] = Masked(content, mask)[from + j]
<1> DEFINE size == Len(content)
           n == (size + MaskChunk - 1) \div MaskChunk
           before == (c - 1) * MaskChunk
           end == EndOfChunk(c, size)
           chunk == SubSeq(content, before + 1, end)
<1>1. size \in Nat /\ MaskChunk \in Nat \ {0} /\ MaskChunk % 4 = 0
  BY HandshakeAssumption
<1>2. /\ n \in Nat
      /\ c \in 1..n
      /\ MaskedChunks(content, mask)[c] = Masked(chunk, mask)
  <2>1. n \in Nat
    BY <1>1, ChunksEnd
  <2>2. DOMAIN ChunksOf(content) = 1..n
    BY DEF ChunksOf
  <2>3. MaskedChunks(content, mask) = [k \in 1..n |-> Masked(ChunksOf(content)[k], mask)]
    BY <2>2 DEF MaskedChunks
  <2>4. Len(MaskedChunks(content, mask)) = n
    BY <2>1, <2>3
  <2>5. c \in 1..n
    BY <2>4
  <2>6. ChunksOf(content)[c] = chunk
    BY <2>5 DEF ChunksOf, EndOfChunk
  <2> QED
    BY <2>1, <2>3, <2>5, <2>6
<1>3. /\ before \in Nat /\ before < size /\ EndOfChunk(c - 1, size) = before
      /\ end \in Nat /\ end <= size /\ before < end
  BY <1>1, <1>2, ChunksEnd
<1>4. PICK q \in Nat : before = 4 * q
  <2>1. PICK p \in Nat : MaskChunk = 4 * p
    <3>1. MaskChunk = 4 * (MaskChunk \div 4) /\ MaskChunk \div 4 \in Nat
      BY <1>1
    <3> QED
      BY <3>1
  <2>2. c - 1 \in Nat
    BY <1>2
  <2>3. (c - 1) * p \in Nat /\ (c - 1) * (4 * p) = 4 * ((c - 1) * p)
    BY <2>2
  <2> QED
    BY <2>1, <2>3
<1> HIDE DEF n, before, end
<1>5. /\ chunk \in Seq(Byte) /\ Len(chunk) = end - before
      /\ \A j \in 1..(end - before) : chunk[j] = content[before + j]
  <2>1. before + 1 \in Int /\ end \in Int /\ \A i \in (before + 1)..end : content[i] \in Byte
    <3>1. ASSUME NEW i \in (before + 1)..end PROVE content[i] \in Byte
      <4>1. i \in 1..Len(content)
        BY <1>1, <1>3
      <4> QED
        BY <4>1
    <3> QED
      BY <1>3, <3>1
  <2>2. /\ chunk \in Seq(Byte)
        /\ Len(chunk) = IF before + 1 <= end THEN end - (before + 1) + 1 ELSE 0
        /\ \A i \in 1..(end - (before + 1) + 1) : chunk[i] = content[(before + 1) + i - 1]
    BY <2>1, SubSeqProperties
  <2> HIDE DEF chunk
  <2>3. end - (before + 1) + 1 = end - before /\ before + 1 <= end
    BY <1>3
  <2>4. ASSUME NEW j \in 1..(end - before) PROVE chunk[j] = content[before + j]
    <3>1. (before + 1) + j - 1 = before + j
      BY <1>3
    <3> QED
      BY <2>2, <2>3, <3>1
  <2> QED
    BY <2>2, <2>3, <2>4
<1> HIDE DEF chunk
<1> DEFINE piece == Masked(chunk, mask)
<1>6. /\ piece \in Seq(Byte) /\ Len(piece) = end - before
      /\ \A j \in 1..(end - before) : piece[j] = ByteXor(chunk[j], mask[((j - 1) % 4) + 1])
  BY <1>5, MaskedIs
<1>7. \A j \in 1..size : Masked(content, mask)[j] = ByteXor(content[j], mask[((j - 1) % 4) + 1])
  BY MaskedIs
<1> HIDE DEF piece
<1>8. ASSUME NEW j \in 1..(end - before) PROVE piece[j] = Masked(content, mask)[before + j]
  <2>1. before + j \in 1..size
    BY <1>1, <1>3
  <2>2. ((before + j) - 1) % 4 = (j - 1) % 4
    BY <1>4
  <2> QED
    BY <1>5, <1>6, <1>7, <2>1, <2>2
<1>9. /\ MaskedChunks(content, mask)[c] = piece /\ EndOfChunk(c, Len(content)) = end
      /\ EndOfChunk(c - 1, Len(content)) = before
  BY <1>2, <1>3 DEF piece, end
<1>10. Len(piece) > 0 /\ end = before + Len(piece)
  BY <1>3, <1>6
<1> HIDE DEF size
<1> QED
  BY <1>3, <1>6, <1>8, <1>9, <1>10

\* The pieces hold, one after the other, what a frame f has behind its first m
\* bytes; spelt[k] of f is held once k of them are.
SpeltBy(spelt, ps, f, m) ==
    /\ spelt \in [0..Len(ps) -> 0..Len(f)] /\ spelt[0] = m /\ spelt[Len(ps)] = Len(f)
    /\ \A k \in 1..Len(ps) :
          /\ ps[k] \in Seq(Byte) /\ Len(ps[k]) > 0 /\ spelt[k] = spelt[k - 1] + Len(ps[k])
          /\ \A j \in 1..Len(ps[k]) : ps[k][j] = f[spelt[k - 1] + j]

Spells(ps, f, m) == \E spelt \in [0..Len(ps) -> 0..Len(f)] : SpeltBy(spelt, ps, f, m)

Takes(piece, rest, f, m) ==
    /\ piece \in Seq(Byte) /\ Len(piece) > 0 /\ m + Len(piece) <= Len(f)
    /\ \A j \in 1..Len(piece) : piece[j] = f[m + j]
    /\ rest \in Seq(Seq(Byte)) /\ Spells(rest, f, m + Len(piece))

LEMMA LenOf == ASSUME NEW s, s \in Seq(Byte) PROVE Len(s) \in Nat
OBVIOUS

LEMMA PieceTaken ==
    ASSUME NEW ps, ps \in Seq(Seq(Byte)), ps # <<>>, NEW f, f \in Seq(Byte), NEW m, m \in Nat,
           Spells(ps, f, m)
    PROVE  Takes(Head(ps), Tail(ps), f, m)
<1>1. PICK spelt \in [0..Len(ps) -> 0..Len(f)] : SpeltBy(spelt, ps, f, m)
  BY DEF Spells
<1>2. PICK rest : rest = Tail(ps)
  OBVIOUS
<1>3. /\ rest \in Seq(Seq(Byte)) /\ Len(ps) \in Nat /\ Len(ps) > 0 /\ Len(rest) = Len(ps) - 1
      /\ \A k \in 1..Len(rest) : rest[k] = ps[k + 1]
      /\ Head(ps) = ps[1]
  BY <1>2, HeadTailProperties
<1>4. /\ spelt[0] = m /\ spelt[Len(ps)] = Len(f)
      /\ \A k \in 1..Len(ps) :
            /\ ps[k] \in Seq(Byte) /\ Len(ps[k]) > 0 /\ spelt[k] = spelt[k - 1] + Len(ps[k])
            /\ \A j \in 1..Len(ps[k]) : ps[k][j] = f[spelt[k - 1] + j]
  BY <1>1 DEF SpeltBy
<1>5. /\ ps[1] \in Seq(Byte) /\ Len(ps[1]) > 0 /\ spelt[1] = spelt[1 - 1] + Len(ps[1])
      /\ \A j \in 1..Len(ps[1]) : ps[1][j] = f[spelt[1 - 1] + j]
  BY <1>3, <1>4
<1>6. 1 - 1 = 0 /\ spelt[1] \in 0..Len(f) /\ Len(f) \in Nat /\ Len(ps[1]) \in Nat
  <2>1. Len(f) \in Nat /\ Len(ps[1]) \in Nat
    BY <1>5, LenOf
  <2>2. 1 \in 0..Len(ps) /\ 1 - 1 = 0
    BY <1>3
  <2>3. spelt[1] \in 0..Len(f)
    BY <2>2
  <2> QED
    BY <2>1, <2>2, <2>3
<1>7. /\ spelt[1] = m + Len(ps[1]) /\ m + Len(ps[1]) <= Len(f)
      /\ \A j \in 1..Len(ps[1]) : ps[1][j] = f[m + j]
  BY <1>4, <1>5, <1>6
<1> DEFINE later == [k \in 0..Len(rest) |-> spelt[k + 1]]
<1>8. SpeltBy(later, rest, f, m + Len(ps[1]))
  <2>1. ASSUME NEW k \in 0..Len(rest) PROVE k + 1 \in 0..Len(ps)
    BY <1>3
  <2>2. later \in [0..Len(rest) -> 0..Len(f)]
    BY <2>1
  <2>3. later[0] = spelt[1] /\ later[Len(rest)] = spelt[Len(ps)]
    <3>1. 0 \in 0..Len(rest) /\ Len(rest) \in 0..Len(rest) /\ 0 + 1 = 1 /\ Len(rest) + 1 = Len(ps)
      BY <1>3
    <3> QED
      BY <3>1
  <2>4. ASSUME NEW k \in 1..Len(rest)
        PROVE  /\ rest[k] \in Seq(Byte) /\ Len(rest[k]) > 0
               /\ later[k] = later[k - 1] + Len(rest[k])
               /\ \A j \in 1..Len(rest[k]) : rest[k][j] = f[later[k - 1] + j]
    <3>1. k + 1 \in 1..Len(ps) /\ k \in 0..Len(rest) /\ k - 1 \in 0..Len(rest)
          /\ (k + 1) - 1 = k /\ (k - 1) + 1 = k
      BY <1>3
    <3>2. later[k] = spelt[k + 1] /\ later[k - 1] = spelt[k]
      BY <3>1
    <3> HIDE DEF later
    <3>3. rest[k] = ps[k + 1]
      BY <1>3
    <3>4. /\ ps[k + 1] \in Seq(Byte) /\ Len(ps[k + 1]) > 0
          /\ spelt[k + 1] = spelt[(k + 1) - 1] + Len(ps[k + 1])
          /\ \A j \in 1..Len(ps[k + 1]) : ps[k + 1][j] = f[spelt[(k + 1) - 1] + j]
      BY <1>4, <3>1
    <3> QED
      BY <3>1, <3>2, <3>3, <3>4
  <2> HIDE DEF later
  <2> QED
    BY <1>4, <1>7, <2>2, <2>3, <2>4 DEF SpeltBy
<1>9. later \in [0..Len(rest) -> 0..Len(f)]
  BY <1>8 DEF SpeltBy
<1> HIDE DEF later
<1>10. Spells(rest, f, m + Len(ps[1]))
  BY <1>8, <1>9 DEF Spells
<1>11. Takes(ps[1], rest, f, m)
  BY <1>3, <1>5, <1>7, <1>10 DEF Takes
<1> QED
  BY <1>2, <1>3, <1>11

\* What write_masked_frame is about to write is the frame.
LEMMA FrameSpelt ==
    ASSUME NEW op \in FrameOps, NEW content \in Seq(Byte), Len(content) <= LongestBody, NEW rsv1 \in BOOLEAN,
           NEW mask \in Seq(Byte), Len(mask) = 4
    PROVE  LET h == FrameHeader(op, Len(content), rsv1)
               ps == <<h, mask>> \o MaskedChunks(content, mask) IN
           /\ ps \in Seq(Seq(Byte)) /\ ps # <<>> /\ Head(ps) = h
           /\ Spells(ps, FrameOf(op, content, rsv1, mask), 0)
<1>1. PICK h : h = FrameHeader(op, Len(content), rsv1)
  OBVIOUS
<1>2. PICK f : f = FrameOf(op, content, rsv1, mask)
  OBVIOUS
<1>3. PICK chunks : chunks = MaskedChunks(content, mask)
  OBVIOUS
<1>4. PICK ps : ps = <<h, mask>> \o chunks
  OBVIOUS
<1>5. PICK n : n = Len(chunks)
  OBVIOUS
<1>6. PICK size : size = Len(content)
  OBVIOUS
<1>7. PICK coded : coded = Masked(content, mask)
  OBVIOUS
<1>8. /\ h \in Seq(Byte) /\ Len(h) >= 2
      /\ f \in Seq(Byte) /\ Len(f) = Len(h) + 4 + size
      /\ \A j \in 1..Len(h) : f[j] = h[j]
      /\ \A j \in 1..4 : f[Len(h) + j] = mask[j]
      /\ \A j \in 1..size : f[Len(h) + 4 + j] = coded[j]
  <2>1. h \in Seq(Byte) /\ Len(h) >= 2 /\ IsMadeOf(f, h, mask, coded)
    BY <1>1, <1>2, <1>7, FrameIs
  <2>2. Len(coded) = size
    BY <1>6, <1>7, MaskedIs
  <2> QED
    BY <2>1, <2>2 DEF IsMadeOf
<1>9. \A c \in 1..n :
         /\ chunks[c] \in Seq(Byte) /\ Len(chunks[c]) > 0
         /\ EndOfChunk(c, size) = EndOfChunk(c - 1, size) + Len(chunks[c])
         /\ \A j \in 1..Len(chunks[c]) : chunks[c][j] = coded[EndOfChunk(c - 1, size) + j]
  BY <1>3, <1>5, <1>6, <1>7, ChunkMasked
<1>10. /\ n \in Nat /\ chunks \in Seq(Seq(Byte)) /\ size \in Nat
       /\ EndOfChunk(0, size) = 0 /\ EndOfChunk(n, size) = size
       /\ \A c \in 0..n : EndOfChunk(c, size) \in 0..size
  <2> DEFINE k == (size + MaskChunk - 1) \div MaskChunk
  <2>1. size \in Nat
    BY <1>6, LenOf
  <2>2. /\ k \in Nat /\ EndOfChunk(0, size) = 0 /\ EndOfChunk(k, size) = size
        /\ \A c \in 1..k : EndOfChunk(c, size) \in Nat /\ EndOfChunk(c, size) <= size
    BY <2>1, ChunksEnd
  <2>3. DOMAIN ChunksOf(content) = 1..k
    BY <1>6 DEF ChunksOf
  <2>4. chunks = [c \in 1..k |-> Masked(ChunksOf(content)[c], mask)]
    BY <1>3, <2>3 DEF MaskedChunks
  <2> HIDE DEF k
  <2>5. n = k /\ DOMAIN chunks = 1..n
    BY <1>5, <2>2, <2>4
  <2>6. chunks = [c \in 1..n |-> chunks[c]]
    BY <2>4, <2>5
  <2>7. chunks \in Seq(Seq(Byte))
    <3>1. \A c \in 1..n : chunks[c] \in Seq(Byte)
      BY <1>9
    <3>2. chunks \in [1..n -> Seq(Byte)]
      BY <2>6, <3>1
    <3>3. n \in Nat
      BY <2>2, <2>5
    <3> QED
      BY <3>2, <3>3
  <2>8. ASSUME NEW c \in 0..n PROVE EndOfChunk(c, size) \in 0..size
    BY <2>1, <2>2, <2>5
  <2> QED
    BY <2>1, <2>2, <2>5, <2>7, <2>8
<1>11. /\ ps \in Seq(Seq(Byte)) /\ Len(ps) = 2 + n /\ ps[1] = h /\ ps[2] = mask
       /\ \A c \in 1..n : ps[2 + c] = chunks[c]
  <2>1. PICK two : two = <<h, mask>>
    OBVIOUS
  <2>2. two \in Seq(Seq(Byte)) /\ Len(two) = 2 /\ two[1] = h /\ two[2] = mask
    BY <1>8, <2>1
  <2>3. /\ two \o chunks \in Seq(Seq(Byte)) /\ Len(two \o chunks) = Len(two) + Len(chunks)
        /\ \A i \in 1..Len(two) + Len(chunks) :
              (two \o chunks)[i] = IF i <= Len(two) THEN two[i] ELSE chunks[i - Len(two)]
    BY <1>10, <2>2, ConcatProperties
  <2>4. /\ ps \in Seq(Seq(Byte)) /\ Len(ps) = 2 + n
        /\ \A i \in 1..(2 + n) : ps[i] = IF i <= 2 THEN two[i] ELSE chunks[i - 2]
    BY <1>4, <1>5, <2>1, <2>2, <2>3
  <2>5. ASSUME NEW c \in 1..n PROVE ps[2 + c] = chunks[c]
    <3>1. 2 + c \in 1..(2 + n) /\ ~(2 + c <= 2) /\ (2 + c) - 2 = c
      BY <1>10
    <3> QED
      BY <2>4, <3>1
  <2>6. 1 \in 1..(2 + n) /\ 2 \in 1..(2 + n)
    BY <1>10
  <2> QED
    BY <2>2, <2>4, <2>5, <2>6
<1>12. PICK x : x = Len(h)
  OBVIOUS
<1>13. x \in Nat /\ x >= 2 /\ Len(f) = x + 4 + size
  BY <1>8, <1>12, LenOf
<1> DEFINE spelt == [k \in 0..Len(ps) |->
                        IF k = 0 THEN 0 ELSE IF k = 1 THEN x ELSE x + 4 + EndOfChunk(k - 2, size)]
<1>14. /\ spelt[0] = 0 /\ spelt[1] = x /\ spelt[2] = x + 4 /\ spelt[Len(ps)] = Len(f)
       /\ \A c \in 0..n : spelt[2 + c] = x + 4 + EndOfChunk(c, size)
       /\ spelt \in [0..Len(ps) -> 0..Len(f)]
  <2>1. ASSUME NEW c \in 0..n PROVE spelt[2 + c] = x + 4 + EndOfChunk(c, size)
    <3>1. 2 + c \in 0..Len(ps) /\ 2 + c # 0 /\ 2 + c # 1 /\ (2 + c) - 2 = c
      BY <1>10, <1>11
    <3> QED
      BY <3>1
  <2>2. 0 \in 0..Len(ps) /\ 1 \in 0..Len(ps) /\ 0 \in 0..n /\ n \in 0..n /\ 2 + 0 = 2
    BY <1>10, <1>11
  <2>3. spelt[0] = 0 /\ spelt[1] = x
    BY <2>2
  <2>4. ASSUME NEW k \in 0..Len(ps)
        PROVE  (IF k = 0 THEN 0 ELSE IF k = 1 THEN x ELSE x + 4 + EndOfChunk(k - 2, size)) \in 0..Len(f)
    <3>1. CASE k \in {0, 1}
      BY <1>10, <1>13, <3>1
    <3>2. CASE k \notin {0, 1}
      <4>1. k - 2 \in 0..n
        BY <1>10, <1>11, <3>2
      <4>2. EndOfChunk(k - 2, size) \in 0..size
        BY <1>10, <4>1
      <4> QED
        BY <1>10, <1>13, <3>2, <4>2
    <3> QED
      BY <3>1, <3>2
  <2>5. spelt \in [0..Len(ps) -> 0..Len(f)]
    BY <2>4
  <2> HIDE DEF spelt
  <2>6. spelt[2] = x + 4 + EndOfChunk(0, size) /\ spelt[2 + n] = x + 4 + EndOfChunk(n, size)
    BY <2>1, <2>2
  <2>7. spelt[2] = x + 4 /\ spelt[Len(ps)] = Len(f)
    BY <1>10, <1>11, <1>13, <2>6
  <2> QED
    BY <2>1, <2>3, <2>5, <2>7
<1> HIDE DEF spelt
<1>15. ASSUME NEW k \in 1..Len(ps)
       PROVE  /\ ps[k] \in Seq(Byte) /\ Len(ps[k]) > 0 /\ spelt[k] = spelt[k - 1] + Len(ps[k])
              /\ \A j \in 1..Len(ps[k]) : ps[k][j] = f[spelt[k - 1] + j]
  <2>1. CASE k = 1
    <3>1. k - 1 = 0
      BY <2>1
    <3>2. ASSUME NEW j \in 1..Len(h) PROVE h[j] = f[0 + j]
      <4>1. 0 + j = j
        BY <1>12, <1>13
      <4> QED
        BY <1>8, <4>1
    <3> QED
      BY <1>8, <1>11, <1>12, <1>13, <1>14, <2>1, <3>1, <3>2
  <2>2. CASE k = 2
    <3>1. k - 1 = 1
      BY <2>2
    <3>2. spelt[k] = x + 4 /\ spelt[k - 1] = x /\ ps[k] = mask
      BY <1>11, <1>14, <2>2, <3>1
    <3>3. \A j \in 1..Len(mask) : mask[j] = f[x + j]
      BY <1>8, <1>12
    <3>4. mask \in Seq(Byte) /\ Len(mask) > 0 /\ x + 4 = x + Len(mask)
      OBVIOUS
    <3> QED
      BY <3>2, <3>3, <3>4
  <2>3. CASE k \notin {1, 2}
    <3>1. PICK c \in 1..n : k = 2 + c
      <4>1. Len(ps) = 2 + n /\ n \in Nat
        BY <1>10, <1>11
      <4>2. k \in Int /\ k >= 1 /\ k <= 2 + n
        BY <4>1
      <4>3. k - 2 \in 1..n /\ k = 2 + (k - 2)
        BY <2>3, <4>1, <4>2
      <4> QED
        BY <4>3
    <3>2. c \in 0..n /\ c - 1 \in 0..n /\ k = 2 + c /\ k - 1 = 2 + (c - 1)
      BY <1>10, <3>1
    <3>3. /\ ps[k] = chunks[c] /\ spelt[k] = x + 4 + EndOfChunk(c, size)
          /\ spelt[k - 1] = x + 4 + EndOfChunk(c - 1, size)
      BY <1>11, <1>14, <3>2
    <3>4. /\ chunks[c] \in Seq(Byte) /\ Len(chunks[c]) > 0
          /\ EndOfChunk(c, size) = EndOfChunk(c - 1, size) + Len(chunks[c])
          /\ \A j \in 1..Len(chunks[c]) : chunks[c][j] = coded[EndOfChunk(c - 1, size) + j]
      BY <1>9, <3>2
    <3>5. /\ EndOfChunk(c, size) \in 0..size /\ EndOfChunk(c - 1, size) \in 0..size
          /\ Len(chunks[c]) \in Nat
      BY <1>10, <3>2, <3>4, LenOf
    <3>6. ASSUME NEW j \in 1..Len(chunks[c])
          PROVE  chunks[c][j] = f[(x + 4 + EndOfChunk(c - 1, size)) + j]
      <4>1. EndOfChunk(c - 1, size) + j \in 1..size
        <5>1. PICK d : d = EndOfChunk(c - 1, size)
          OBVIOUS
        <5>2. d \in Nat /\ d + Len(chunks[c]) <= size /\ Len(chunks[c]) \in Nat /\ size \in Nat
          BY <1>10, <3>4, <3>5, <5>1
        <5>3. d + j \in 1..size
          BY <5>2
        <5> QED
          BY <5>1, <5>3
      <4>2. (x + 4 + EndOfChunk(c - 1, size)) + j = x + 4 + (EndOfChunk(c - 1, size) + j)
        BY <1>13, <3>5
      <4> QED
        BY <1>8, <1>12, <3>4, <4>1, <4>2
    <3>7. x + 4 + EndOfChunk(c, size) = (x + 4 + EndOfChunk(c - 1, size)) + Len(chunks[c])
      <4>1. PICK d : d = EndOfChunk(c - 1, size)
        OBVIOUS
      <4>2. PICK l : l = Len(chunks[c])
        OBVIOUS
      <4>3. d \in Nat /\ l \in Nat /\ EndOfChunk(c, size) = d + l
        BY <1>10, <3>4, <3>5, <4>1, <4>2
      <4>4. x + 4 + (d + l) = (x + 4 + d) + l
        BY <1>13, <4>3
      <4> QED
        BY <4>1, <4>2, <4>3, <4>4
    <3> QED
      BY <3>3, <3>4, <3>6, <3>7
  <2> QED
    BY <2>1, <2>2, <2>3
<1>16. SpeltBy(spelt, ps, f, 0)
  BY <1>14, <1>15 DEF SpeltBy
<1>17. Spells(ps, f, 0)
  BY <1>14, <1>16 DEF Spells
<1>18. ps # <<>> /\ Head(ps) = h
  BY <1>10, <1>11
<1> QED
  BY <1>1, <1>2, <1>3, <1>4, <1>11, <1>17, <1>18

\* A frame handed to write_masked_frame, and its bytes.
SentFrames == [op : FrameOps, payload : WsPayloads]
Zips(sent, zip) == zip /\ sent.op \in {"text", "binary"}
ContentOf(sent, zip) == IF Zips(sent, zip) THEN DeflatedPayload(sent.payload) ELSE sent.payload
HeaderWith(sent, zip) == FrameHeader(sent.op, Len(ContentOf(sent, zip)), Zips(sent, zip))
FrameWith(sent, zip, mask) == FrameOf(sent.op, ContentOf(sent, zip), Zips(sent, zip), mask)

LEMMA BodyIs ==
    ASSUME NEW sent, sent \in SentFrames, NEW zip \in BOOLEAN
    PROVE  /\ sent.op \in FrameOps /\ Zips(sent, zip) \in BOOLEAN
           /\ ContentOf(sent, zip) \in Seq(Byte) /\ Len(ContentOf(sent, zip)) <= LongestBody
<1>1. PICK p : p = sent.payload
  OBVIOUS
<1>2. /\ sent.op \in FrameOps /\ p \in WsPayloads /\ Zips(sent, zip) \in BOOLEAN
  BY <1>1 DEF SentFrames, Zips
<1>3. p \in Seq(Byte) /\ Len(p) \in Nat /\ Len(p) < LongestBody /\ LongestBody \in Nat
  <2>1. p \in Seq(Byte) /\ Len(p) < LongestBody
    BY <1>2, HandshakeAssumption
  <2>2. LongestBody \in Nat
    BY SMT DEF LongestBody
  <2> QED
    BY <2>1, <2>2, LenOf
<1>4. DeflatedPayload(p) \in Seq(Byte) /\ Len(DeflatedPayload(p)) = 1 + Len(p)
  <2>1. PICK one : one = <<1>>
    OBVIOUS
  <2>2. one \in Seq(Byte) /\ Len(one) = 1
    BY <2>1 DEF Byte
  <2>3. one \o p \in Seq(Byte) /\ Len(one \o p) = Len(one) + Len(p)
    BY <1>3, <2>2, ConcatProperties
  <2> QED
    BY <2>1, <2>2, <2>3 DEF DeflatedPayload
<1> QED
  BY <1>1, <1>2, <1>3, <1>4 DEF ContentOf

\* A frame that is on the wire from b to next, and the last one, of which pieces
\* may still be owed.
WholeFrame(bytes, b, next, sent, zip) ==
    \E mask \in Masks :
       next = b + Len(FrameWith(sent, zip, mask)) /\ next <= Len(bytes)
       /\ Lies(bytes, b, FrameWith(sent, zip, mask))

UnderwayWith(bytes, ps, b, h, f) ==
    /\ b <= Len(bytes)
    /\ \A j \in 1..(Len(bytes) - b) : bytes[b + j] = f[j]
    /\ Len(bytes) = b => ps # <<>> /\ Head(ps) = h
    /\ Len(bytes) # b => Len(bytes) - b >= Len(h)
    /\ Spells(ps, f, Len(bytes) - b)

Underway(bytes, ps, b, sent, zip) ==
    \E mask \in Masks :
       UnderwayWith(bytes, ps, b, HeaderWith(sent, zip), FrameWith(sent, zip, mask))

LEMMA FrameWithIs ==
    ASSUME NEW sent, sent \in SentFrames, NEW zip \in BOOLEAN, NEW mask \in Masks
    PROVE  LET h == HeaderWith(sent, zip)
               f == FrameWith(sent, zip, mask) IN
           /\ h \in Seq(Byte) /\ f \in Seq(Byte) /\ Len(h) \in Nat /\ Len(f) \in Nat
           /\ Len(h) >= 2 /\ Len(h) <= Len(f)
           /\ \A j \in 1..Len(h) : f[j] = h[j]
<1>1. PICK content : content = ContentOf(sent, zip)
  OBVIOUS
<1>2. PICK op : op = sent.op
  OBVIOUS
<1>3. PICK rsv1 : rsv1 = Zips(sent, zip)
  OBVIOUS
<1>4. PICK h : h = FrameHeader(op, Len(content), rsv1)
  OBVIOUS
<1>5. PICK f : f = FrameOf(op, content, rsv1, mask)
  OBVIOUS
<1>6. PICK coded : coded = Masked(content, mask)
  OBVIOUS
<1>7. op \in FrameOps /\ rsv1 \in BOOLEAN /\ content \in Seq(Byte) /\ Len(content) <= LongestBody
  BY <1>1, <1>2, <1>3, BodyIs
<1>8. mask \in Seq(Byte) /\ Len(mask) = 4
  BY HandshakeAssumption
<1>9. h \in Seq(Byte) /\ Len(h) >= 2 /\ IsMadeOf(f, h, mask, coded) /\ coded \in Seq(Byte)
  BY <1>4, <1>5, <1>6, <1>7, <1>8, FrameIs, MaskedIs
<1>10. /\ f \in Seq(Byte) /\ Len(f) = Len(h) + Len(mask) + Len(coded)
       /\ \A j \in 1..Len(h) : f[j] = h[j]
  BY <1>9 DEF IsMadeOf
<1>11. Len(h) \in Nat /\ Len(f) \in Nat /\ Len(coded) \in Nat
  BY <1>9, <1>10, LenOf
<1>12. Len(h) <= Len(f)
  BY <1>8, <1>10, <1>11
<1> QED
  BY <1>1, <1>2, <1>3, <1>4, <1>5, <1>9, <1>10, <1>11, <1>12 DEF HeaderWith, FrameWith

LEMMA WholeIsRead ==
    ASSUME NEW sent, sent \in SentFrames, NEW zip \in BOOLEAN, NEW bytes, NEW b \in Nat, NEW next,
           WholeFrame(bytes, b, next, sent, zip)
    PROVE  /\ FrameEnd(bytes, b) = next /\ Opcode(bytes, b) = OpCode(sent.op)
           /\ HasRsv1(bytes, b) <=> Zips(sent, zip)
           /\ Unmasked(bytes, b) = ContentOf(sent, zip)
<1>1. PICK mask \in Masks : /\ next = b + Len(FrameWith(sent, zip, mask))
                           /\ Lies(bytes, b, FrameWith(sent, zip, mask))
  BY DEF WholeFrame
<1>2. mask \in Seq(Byte) /\ Len(mask) = 4
  BY HandshakeAssumption
<1>3. /\ sent.op \in FrameOps /\ Zips(sent, zip) \in BOOLEAN
      /\ ContentOf(sent, zip) \in Seq(Byte) /\ Len(ContentOf(sent, zip)) <= LongestBody
  BY BodyIs
<1>4. Lies(bytes, b, HeaderWith(sent, zip))
  <2>1. PICK f : f = FrameWith(sent, zip, mask)
    OBVIOUS
  <2>2. PICK h : h = HeaderWith(sent, zip)
    OBVIOUS
  <2>3. /\ Len(h) \in Nat /\ Len(f) \in Nat /\ Len(h) <= Len(f)
        /\ \A j \in 1..Len(h) : f[j] = h[j]
    BY <2>1, <2>2, FrameWithIs
  <2>4. \A j \in 1..Len(f) : bytes[b + j] = f[j]
    BY <1>1, <2>1 DEF Lies
  <2>5. \A j \in 1..Len(h) : bytes[b + j] = h[j]
    BY <2>3, <2>4
  <2> QED
    BY <2>2, <2>5 DEF Lies
<1>5. Lies(bytes, b, FrameHeader(sent.op, Len(ContentOf(sent, zip)), Zips(sent, zip)))
  BY <1>4 DEF HeaderWith
<1>6. /\ next = b + Len(FrameOf(sent.op, ContentOf(sent, zip), Zips(sent, zip), mask))
      /\ Lies(bytes, b, FrameOf(sent.op, ContentOf(sent, zip), Zips(sent, zip), mask))
  BY <1>1 DEF FrameWith
<1> QED
  BY <1>2, <1>3, <1>5, <1>6, FrameRead

LEMMA UnderwayIsRead ==
    ASSUME NEW sent, sent \in SentFrames, NEW zip \in BOOLEAN, NEW bytes, bytes \in Seq(Byte),
           NEW b \in Nat, NEW ps, ps \in Seq(Seq(Byte)), ps # <<>>, Len(bytes) > b,
           Underway(bytes, ps, b, sent, zip)
    PROVE  FrameEnd(bytes, b) > Len(bytes)
<1>1. PICK mask \in Masks : UnderwayWith(bytes, ps, b, HeaderWith(sent, zip), FrameWith(sent, zip, mask))
  BY DEF Underway
<1>2. PICK f : f = FrameWith(sent, zip, mask)
  OBVIOUS
<1>3. PICK h : h = HeaderWith(sent, zip)
  OBVIOUS
<1>4. /\ f \in Seq(Byte) /\ Len(h) \in Nat /\ Len(f) \in Nat /\ Len(h) <= Len(f)
      /\ \A j \in 1..Len(h) : f[j] = h[j]
  BY <1>2, <1>3, FrameWithIs
<1>5. /\ \A j \in 1..(Len(bytes) - b) : bytes[b + j] = f[j]
      /\ Len(bytes) # b => Len(bytes) - b >= Len(h)
      /\ Spells(ps, f, Len(bytes) - b)
  BY <1>1, <1>2, <1>3 DEF UnderwayWith
<1>6. Len(bytes) \in Nat /\ Len(bytes) - b \in Nat /\ Len(bytes) - b >= Len(h)
  BY <1>5, LenOf
<1>7. Lies(bytes, b, h)
  <2>1. ASSUME NEW j \in 1..Len(h) PROVE bytes[b + j] = h[j]
    <3>1. j \in 1..(Len(bytes) - b)
      BY <1>4, <1>6
    <3> QED
      BY <1>4, <1>5, <3>1
  <2> QED
    BY <2>1 DEF Lies
<1>8. PICK m : m = Len(bytes) - b
  OBVIOUS
<1>9. /\ Head(ps) \in Seq(Byte) /\ Len(Head(ps)) > 0 /\ m + Len(Head(ps)) <= Len(f)
  <2>1. Spells(ps, f, m)
    BY <1>5, <1>8
  <2>2. Takes(Head(ps), Tail(ps), f, m)
    BY <1>4, <1>6, <1>8, <2>1, PieceTaken
  <2> QED
    BY <2>2 DEF Takes
<1>10. FrameEnd(bytes, b) = b + Len(f)
  <2>1. /\ sent.op \in FrameOps /\ Zips(sent, zip) \in BOOLEAN
        /\ ContentOf(sent, zip) \in Seq(Byte) /\ Len(ContentOf(sent, zip)) <= LongestBody
    BY BodyIs
  <2>2. mask \in Seq(Byte) /\ Len(mask) = 4
    BY HandshakeAssumption
  <2>3. Lies(bytes, b, FrameHeader(sent.op, Len(ContentOf(sent, zip)), Zips(sent, zip)))
    BY <1>3, <1>7 DEF HeaderWith
  <2>4. FrameEnd(bytes, b) = b + Len(FrameOf(sent.op, ContentOf(sent, zip), Zips(sent, zip), mask))
    BY <2>1, <2>2, <2>3, FrameRead
  <2> QED
    BY <1>2, <2>4 DEF FrameWith
<1>11. Len(Head(ps)) \in Nat
  BY <1>9, LenOf
<1> QED
  BY <1>4, <1>6, <1>8, <1>9, <1>10, <1>11

\* What the frames' steps do to them.
LEMMA WholeStays ==
    ASSUME NEW sent, NEW zip, NEW bytes, bytes \in Seq(Byte), NEW b \in Nat, NEW next,
           NEW more, more \in Seq(Byte), sent \in SentFrames, zip \in BOOLEAN,
           WholeFrame(bytes, b, next, sent, zip)
    PROVE  WholeFrame(bytes \o more, b, next, sent, zip)
<1>1. PICK mask \in Masks : /\ next = b + Len(FrameWith(sent, zip, mask)) /\ next <= Len(bytes)
                           /\ Lies(bytes, b, FrameWith(sent, zip, mask))
  BY DEF WholeFrame
<1>2. PICK f : f = FrameWith(sent, zip, mask)
  OBVIOUS
<1>3. PICK all : all = bytes \o more
  OBVIOUS
<1>4. /\ Len(all) = Len(bytes) + Len(more) /\ \A i \in 1..Len(bytes) : all[i] = bytes[i]
  BY <1>3, JoinedAs DEF Joins
<1>5. Len(f) \in Nat /\ Len(bytes) \in Nat /\ Len(more) \in Nat
  BY <1>2, FrameWithIs, LenOf
<1>6. next = b + Len(f) /\ \A j \in 1..Len(f) : bytes[b + j] = f[j]
  BY <1>1, <1>2 DEF Lies
<1>7. ASSUME NEW j \in 1..Len(f) PROVE all[b + j] = f[j]
  <2>1. b + j \in 1..Len(bytes)
    BY <1>1, <1>5, <1>6
  <2> QED
    BY <1>4, <1>6, <2>1
<1>8. next <= Len(all)
  BY <1>1, <1>4, <1>5, <1>6
<1> QED
  BY <1>1, <1>2, <1>3, <1>7, <1>8 DEF WholeFrame, Lies

LEMMA UnderwayGoesOn ==
    ASSUME NEW sent, sent \in SentFrames, NEW zip \in BOOLEAN, NEW bytes, bytes \in Seq(Byte),
           NEW b \in Nat, NEW ps, ps \in Seq(Seq(Byte)), ps # <<>>, Underway(bytes, ps, b, sent, zip)
    PROVE  /\ Head(ps) \in Seq(Byte) /\ Tail(ps) \in Seq(Seq(Byte)) /\ bytes \o Head(ps) \in Seq(Byte)
           /\ Underway(bytes \o Head(ps), Tail(ps), b, sent, zip)
<1>1. PICK mask \in Masks : UnderwayWith(bytes, ps, b, HeaderWith(sent, zip), FrameWith(sent, zip, mask))
  BY DEF Underway
<1>2. PICK f : f = FrameWith(sent, zip, mask)
  OBVIOUS
<1>3. PICK h : h = HeaderWith(sent, zip)
  OBVIOUS
<1>4. h \in Seq(Byte) /\ f \in Seq(Byte) /\ Len(h) \in Nat /\ Len(f) \in Nat
  BY <1>2, <1>3, FrameWithIs
<1>5. /\ b <= Len(bytes)
      /\ \A j \in 1..(Len(bytes) - b) : bytes[b + j] = f[j]
      /\ Len(bytes) = b => Head(ps) = h
      /\ Len(bytes) # b => Len(bytes) - b >= Len(h)
      /\ Spells(ps, f, Len(bytes) - b)
  BY <1>1, <1>2, <1>3 DEF UnderwayWith
<1>6. PICK m : m = Len(bytes) - b
  OBVIOUS
<1>7. m \in Nat /\ Len(bytes) \in Nat /\ Len(bytes) = b + m
  BY <1>5, <1>6, LenOf
<1>8. PICK piece : piece = Head(ps)
  OBVIOUS
<1>9. PICK rest : rest = Tail(ps)
  OBVIOUS
<1>10. /\ piece \in Seq(Byte) /\ Len(piece) > 0
       /\ \A j \in 1..Len(piece) : piece[j] = f[m + j]
       /\ rest \in Seq(Seq(Byte)) /\ Spells(rest, f, m + Len(piece))
  <2>1. Spells(ps, f, m)
    BY <1>5, <1>6
  <2>2. Takes(piece, rest, f, m)
    BY <1>4, <1>7, <1>8, <1>9, <2>1, PieceTaken
  <2> QED
    BY <2>2 DEF Takes
<1>11. Len(piece) \in Nat
  BY <1>10, LenOf
<1>12. PICK all : all = bytes \o piece
  OBVIOUS
<1>13. /\ all \in Seq(Byte) /\ Len(all) = Len(bytes) + Len(piece)
       /\ \A i \in 1..Len(bytes) : all[i] = bytes[i]
       /\ \A i \in 1..Len(piece) : all[Len(bytes) + i] = piece[i]
  BY <1>10, <1>12, JoinedAs DEF Joins
<1>14. Len(all) - b = m + Len(piece) /\ b <= Len(all) /\ Len(all) # b
  BY <1>7, <1>10, <1>11, <1>13
<1>15. ASSUME NEW j \in 1..(m + Len(piece)) PROVE all[b + j] = f[j]
  <2>1. CASE j <= m
    <3>1. b + j \in 1..Len(bytes) /\ j \in 1..(Len(bytes) - b)
      BY <1>7, <2>1
    <3> QED
      BY <1>5, <1>13, <3>1
  <2>2. CASE ~(j <= m)
    <3>1. PICK i \in 1..Len(piece) : j = m + i
      <4>1. j - m \in 1..Len(piece) /\ j = m + (j - m)
        BY <1>7, <1>11, <2>2
      <4> QED
        BY <4>1
    <3>2. b + j = Len(bytes) + i
      BY <1>7, <3>1
    <3> QED
      BY <1>10, <1>13, <3>1, <3>2
  <2> QED
    BY <2>1, <2>2
<1>16. Len(all) - b >= Len(h)
  <2>1. CASE Len(bytes) = b
    <3>1. piece = h /\ m = 0
      BY <1>5, <1>7, <1>8, <2>1
    <3> QED
      BY <1>4, <1>14, <3>1
  <2>2. CASE Len(bytes) # b
    BY <1>4, <1>5, <1>6, <1>7, <1>11, <1>14, <2>2
  <2> QED
    BY <2>1, <2>2
<1>17. UnderwayWith(all, rest, b, h, f)
  BY <1>10, <1>14, <1>15, <1>16 DEF UnderwayWith
<1>18. Underway(all, rest, b, sent, zip)
  BY <1>2, <1>3, <1>17 DEF Underway
<1> QED
  BY <1>8, <1>9, <1>10, <1>12, <1>13, <1>18

LEMMA NothingSpelt ==
    ASSUME NEW ps, NEW f, NEW m, Spells(ps, f, m)
    PROVE  Len(ps) = 0 => m = Len(f)
<1>1. PICK spelt \in [0..Len(ps) -> 0..Len(f)] : SpeltBy(spelt, ps, f, m)
  BY DEF Spells
<1>2. spelt[0] = m /\ spelt[Len(ps)] = Len(f)
  BY <1>1 DEF SpeltBy
<1> QED
  BY <1>2

LEMMA UnderwayEnds ==
    ASSUME NEW sent, sent \in SentFrames, NEW zip \in BOOLEAN, NEW bytes, bytes \in Seq(Byte),
           NEW b \in Nat, NEW none, Len(none) = 0, Underway(bytes, none, b, sent, zip)
    PROVE  WholeFrame(bytes, b, Len(bytes), sent, zip)
<1>1. PICK mask \in Masks :
         UnderwayWith(bytes, none, b, HeaderWith(sent, zip), FrameWith(sent, zip, mask))
  BY DEF Underway
<1>2. PICK f : f = FrameWith(sent, zip, mask)
  OBVIOUS
<1>3. PICK m : m = Len(bytes) - b
  OBVIOUS
<1>4. /\ b <= Len(bytes) /\ Spells(none, f, m)
      /\ \A j \in 1..m : bytes[b + j] = f[j]
  BY <1>1, <1>2, <1>3 DEF UnderwayWith
<1>5. m = Len(f)
  BY <1>4, NothingSpelt
<1>6. Len(bytes) \in Nat /\ Len(bytes) = b + Len(f)
  <2>1. Len(bytes) \in Nat
    BY LenOf
  <2>2. Len(bytes) - b = Len(f) /\ Len(bytes) = b + (Len(bytes) - b)
    BY <1>3, <1>5, <2>1
  <2> QED
    BY <2>1, <2>2
<1> QED
  BY <1>2, <1>4, <1>5, <1>6 DEF WholeFrame, Lies

LEMMA UnderwayStarts ==
    ASSUME NEW sent, sent \in SentFrames, NEW zip \in BOOLEAN, NEW bytes, bytes \in Seq(Byte),
           NEW mask \in Masks, NEW ps,
           ps = <<HeaderWith(sent, zip), mask>> \o MaskedChunks(ContentOf(sent, zip), mask)
    PROVE  ps \in Seq(Seq(Byte)) /\ Underway(bytes, ps, Len(bytes), sent, zip)
<1>1. PICK content : content = ContentOf(sent, zip)
  OBVIOUS
<1>2. PICK op : op = sent.op
  OBVIOUS
<1>3. PICK rsv1 : rsv1 = Zips(sent, zip)
  OBVIOUS
<1>4. op \in FrameOps /\ rsv1 \in BOOLEAN /\ content \in Seq(Byte) /\ Len(content) <= LongestBody
  BY <1>1, <1>2, <1>3, BodyIs
<1>5. mask \in Seq(Byte) /\ Len(mask) = 4
  BY HandshakeAssumption
<1>6. LET h == FrameHeader(op, Len(content), rsv1)
          made == <<h, mask>> \o MaskedChunks(content, mask) IN
      /\ made \in Seq(Seq(Byte)) /\ made # <<>> /\ Head(made) = h
      /\ Spells(made, FrameOf(op, content, rsv1, mask), 0)
  BY <1>4, <1>5, FrameSpelt
<1>7. PICK h : h = HeaderWith(sent, zip)
  OBVIOUS
<1>8. PICK f : f = FrameWith(sent, zip, mask)
  OBVIOUS
<1>9. ps \in Seq(Seq(Byte)) /\ ps # <<>> /\ Head(ps) = h /\ Spells(ps, f, 0)
  BY <1>1, <1>2, <1>3, <1>6, <1>7, <1>8 DEF HeaderWith, FrameWith
<1>10. Len(bytes) \in Nat /\ Len(bytes) - Len(bytes) = 0
  BY LenOf
<1>11. UnderwayWith(bytes, ps, Len(bytes), h, f)
  BY <1>9, <1>10 DEF UnderwayWith
<1> QED
  BY <1>7, <1>8, <1>9, <1>11 DEF Underway

\* Of every frame but the last all bytes lie between its start and the next; of
\* the last those that were written, and what is owed is the rest of it.
FramesInv ==
    /\ squeeze \in BOOLEAN
    /\ wsPhase \notin {"open", "failed"} => frameStarts = <<>>
    /\ onWire \in Seq(Byte) /\ pieces \in Seq(Seq(Byte))
    /\ frameStarts \in Seq(Nat) /\ framesSent \in Seq(SentFrames)
    /\ Len(framesSent) = Len(frameStarts)
    /\ Len(frameStarts) = 0 => Len(onWire) = 0 /\ pieces = <<>>
    /\ Len(frameStarts) > 0 => frameStarts[1] = 0
    /\ \A i \in 1..(Len(frameStarts) - 1) :
          WholeFrame(onWire, frameStarts[i], frameStarts[i + 1], framesSent[i], squeeze)
    /\ Len(frameStarts) > 0 =>
          Underway(onWire, pieces, frameStarts[Len(frameStarts)], framesSent[Len(frameStarts)], squeeze)

LEMMA FramesStart == HsInit => FramesInv
<1> SUFFICES ASSUME HsInit PROVE FramesInv
  OBVIOUS
<1>1. /\ onWire = <<>> /\ pieces = <<>> /\ frameStarts = <<>> /\ framesSent = <<>> /\ squeeze = FALSE
  BY DEF HsInit
<1>2. /\ onWire \in Seq(Byte) /\ pieces \in Seq(Seq(Byte)) /\ frameStarts \in Seq(Nat)
      /\ framesSent \in Seq(SentFrames) /\ Len(frameStarts) = 0 /\ Len(onWire) = 0 /\ Len(framesSent) = 0
  BY <1>1
<1>3. ~(Len(frameStarts) > 0) /\ 1..(Len(frameStarts) - 1) = {}
  BY <1>2
<1> QED
  BY <1>1, <1>2, <1>3 DEF FramesInv

LEMMA SendFrameKeeps ==
    ASSUME FramesInv, NEW op \in FrameOps, NEW p \in WsPayloads, SendFrame(op, p)
    PROVE  FramesInv'
<1> DEFINE sent == [op |-> op, payload |-> p]
           content == IF Squeezed(op) THEN DeflatedPayload(p) ELSE p
<1>1. PICK mask \in Masks :
         pieces' = <<FrameHeader(op, Len(content), Squeezed(op)), mask>> \o MaskedChunks(content, mask)
  BY DEF SendFrame
<1>2. /\ wsPhase = "open" /\ pieces = <<>> /\ wsPhase' = wsPhase
      /\ framesSent' = Append(framesSent, sent) /\ frameStarts' = Append(frameStarts, Len(onWire))
      /\ squeeze' = squeeze /\ onWire' = onWire
  BY DEF SendFrame
<1>3. /\ squeeze \in BOOLEAN /\ onWire \in Seq(Byte) /\ frameStarts \in Seq(Nat)
      /\ framesSent \in Seq(SentFrames) /\ Len(framesSent) = Len(frameStarts)
      /\ Len(frameStarts) = 0 => Len(onWire) = 0
      /\ Len(frameStarts) > 0 => frameStarts[1] = 0
      /\ \A i \in 1..(Len(frameStarts) - 1) :
            WholeFrame(onWire, frameStarts[i], frameStarts[i + 1], framesSent[i], squeeze)
      /\ Len(frameStarts) > 0 =>
            Underway(onWire, pieces, frameStarts[Len(frameStarts)], framesSent[Len(frameStarts)], squeeze)
  BY DEF FramesInv
<1>4. sent \in SentFrames
  BY DEF SentFrames
<1>5. Zips(sent, squeeze) = Squeezed(op) /\ ContentOf(sent, squeeze) = content /\ sent.op = op
  BY <1>3 DEF Zips, Squeezed, ContentOf
<1> HIDE DEF sent
<1>6. pieces' = <<HeaderWith(sent, squeeze), mask>> \o MaskedChunks(ContentOf(sent, squeeze), mask)
  BY <1>1, <1>5 DEF HeaderWith
<1>7. PICK n : n = Len(frameStarts)
  OBVIOUS
<1>8. n \in Nat /\ Len(onWire) \in Nat
  BY <1>3, <1>7, LenOf
<1>9. pieces' \in Seq(Seq(Byte)) /\ Underway(onWire, pieces', Len(onWire), sent, squeeze)
  BY <1>3, <1>4, <1>6, UnderwayStarts
<1>10. /\ frameStarts' \in Seq(Nat) /\ Len(frameStarts') = n + 1 /\ frameStarts'[n + 1] = Len(onWire)
       /\ \A i \in 1..n : frameStarts'[i] = frameStarts[i]
  BY <1>2, <1>3, <1>7, <1>8, AppendProperties
<1>11. /\ framesSent' \in Seq(SentFrames) /\ Len(framesSent') = n + 1 /\ framesSent'[n + 1] = sent
       /\ \A i \in 1..n : framesSent'[i] = framesSent[i]
  BY <1>2, <1>3, <1>4, <1>7, AppendProperties
<1>12. frameStarts'[1] = 0
  <2>1. CASE n = 0
    BY <1>3, <1>7, <1>10, <2>1
  <2>2. CASE n > 0
    <3>1. 1 \in 1..n
      BY <1>8, <2>2
    <3> QED
      BY <1>3, <1>7, <1>10, <2>2, <3>1
  <2> QED
    BY <1>8, <2>1, <2>2
<1>13. ASSUME NEW i \in 1..n
       PROVE  WholeFrame(onWire, frameStarts'[i], frameStarts'[i + 1], framesSent'[i], squeeze)
  <2>1. CASE i < n
    <3>1. i \in 1..(n - 1) /\ i + 1 \in 1..n
      BY <1>8, <2>1
    <3> QED
      BY <1>3, <1>7, <1>10, <1>11, <3>1
  <2>2. CASE i = n
    <3>1. n > 0 /\ n \in 1..n
      BY <1>8, <2>2
    <3>2. PICK b : b = frameStarts[n]
      OBVIOUS
    <3>3. PICK last : last = framesSent[n]
      OBVIOUS
    <3>4. b \in Nat /\ last \in SentFrames
      <4>1. n \in 1..Len(frameStarts) /\ n \in 1..Len(framesSent)
        BY <1>3, <1>7, <3>1
      <4> QED
        BY <1>3, <3>2, <3>3, <4>1, ElementOfSeq
    <3>5. Underway(onWire, pieces, b, last, squeeze)
      BY <1>3, <1>7, <3>1, <3>2, <3>3
    <3>6. Len(pieces) = 0
      BY <1>2
    <3>7. WholeFrame(onWire, b, Len(onWire), last, squeeze)
      BY <1>3, <3>4, <3>5, <3>6, UnderwayEnds
    <3>8. frameStarts'[i] = b /\ frameStarts'[i + 1] = Len(onWire) /\ framesSent'[i] = last
      BY <1>10, <1>11, <2>2, <3>1, <3>2, <3>3
    <3> QED
      BY <3>7, <3>8
  <2> QED
    BY <1>8, <2>1, <2>2
<1>14. /\ Len(frameStarts') # 0 /\ Len(frameStarts') > 0 /\ Len(frameStarts') - 1 = n
       /\ Len(framesSent') = Len(frameStarts')
  BY <1>8, <1>10, <1>11
<1>15. Underway(onWire, pieces', frameStarts'[Len(frameStarts')], framesSent'[Len(frameStarts')], squeeze)
  BY <1>9, <1>10, <1>11
<1>16. \A i \in 1..(Len(frameStarts') - 1) :
          WholeFrame(onWire', frameStarts'[i], frameStarts'[i + 1], framesSent'[i], squeeze')
  BY <1>2, <1>13, <1>14
<1>17. Underway(onWire', pieces', frameStarts'[Len(frameStarts')], framesSent'[Len(frameStarts')], squeeze')
  BY <1>2, <1>15
<1>18. /\ squeeze' \in BOOLEAN /\ wsPhase' = "open" /\ onWire' \in Seq(Byte)
  BY <1>2, <1>3
<1> QED
  BY <1>9, <1>10, <1>11, <1>12, <1>14, <1>16, <1>17, <1>18 DEF FramesInv

LEMMA WritePieceKeeps == ASSUME FramesInv, WritePiece PROVE FramesInv'
<1>1. /\ wsPhase = "open" /\ pieces # <<>> /\ wsPhase' = wsPhase
      /\ onWire' = onWire \o Head(pieces) /\ pieces' = Tail(pieces)
      /\ framesSent' = framesSent /\ frameStarts' = frameStarts /\ squeeze' = squeeze
  BY DEF WritePiece, outward
<1>2. /\ squeeze \in BOOLEAN /\ onWire \in Seq(Byte) /\ pieces \in Seq(Seq(Byte))
      /\ frameStarts \in Seq(Nat) /\ framesSent \in Seq(SentFrames) /\ Len(framesSent) = Len(frameStarts)
      /\ Len(frameStarts) = 0 => pieces = <<>>
      /\ Len(frameStarts) > 0 => frameStarts[1] = 0
      /\ \A i \in 1..(Len(frameStarts) - 1) :
            WholeFrame(onWire, frameStarts[i], frameStarts[i + 1], framesSent[i], squeeze)
      /\ Len(frameStarts) > 0 =>
            Underway(onWire, pieces, frameStarts[Len(frameStarts)], framesSent[Len(frameStarts)], squeeze)
  BY DEF FramesInv
<1>3. PICK n : n = Len(frameStarts)
  OBVIOUS
<1>4. n \in Nat /\ n > 0
  BY <1>1, <1>2, <1>3
<1>5. PICK b : b = frameStarts[n]
  OBVIOUS
<1>6. PICK last : last = framesSent[n]
  OBVIOUS
<1>7. b \in Nat /\ last \in SentFrames
  <2>1. n \in 1..Len(frameStarts) /\ n \in 1..Len(framesSent)
    BY <1>2, <1>3, <1>4
  <2> QED
    BY <1>2, <1>5, <1>6, <2>1, ElementOfSeq
<1>8. Underway(onWire, pieces, b, last, squeeze)
  BY <1>2, <1>3, <1>4, <1>5, <1>6
<1>9. /\ Head(pieces) \in Seq(Byte) /\ pieces' \in Seq(Seq(Byte)) /\ onWire' \in Seq(Byte)
      /\ Underway(onWire', pieces', b, last, squeeze)
  BY <1>1, <1>2, <1>7, <1>8, UnderwayGoesOn
<1>10. ASSUME NEW i \in 1..(n - 1)
       PROVE  WholeFrame(onWire', frameStarts[i], frameStarts[i + 1], framesSent[i], squeeze)
  <2>1. PICK c : c = frameStarts[i]
    OBVIOUS
  <2>2. PICK sent : sent = framesSent[i]
    OBVIOUS
  <2>3. c \in Nat /\ sent \in SentFrames
    <3>1. i \in 1..Len(frameStarts) /\ i \in 1..Len(framesSent)
      BY <1>2, <1>3, <1>4
    <3> QED
      BY <1>2, <2>1, <2>2, <3>1, ElementOfSeq
  <2>4. WholeFrame(onWire, c, frameStarts[i + 1], sent, squeeze)
    BY <1>2, <1>3, <2>1, <2>2
  <2> QED
    BY <1>1, <1>2, <1>9, <2>1, <2>2, <2>3, <2>4, WholeStays
<1>11. \A i \in 1..(Len(frameStarts') - 1) :
          WholeFrame(onWire', frameStarts'[i], frameStarts'[i + 1], framesSent'[i], squeeze')
  BY <1>1, <1>3, <1>10
<1>12. Underway(onWire', pieces', frameStarts'[Len(frameStarts')], framesSent'[Len(frameStarts')], squeeze')
  BY <1>1, <1>3, <1>5, <1>6, <1>9
<1>13. Len(frameStarts') # 0
  BY <1>1, <1>3, <1>4
<1> QED
  BY <1>1, <1>2, <1>9, <1>11, <1>12, <1>13 DEF FramesInv

\* The other steps leave the frames alone, and only Verify, before the first
\* of them, sets the compression.
LEMMA NextFrames == FramesInv /\ [HsNext]_hsVars => FramesInv'
<1> SUFFICES ASSUME FramesInv, [HsNext]_hsVars PROVE FramesInv'
  OBVIOUS
<1>1. ASSUME NEW op \in FrameOps, NEW p \in WsPayloads, SendFrame(op, p) PROVE FramesInv'
  BY <1>1, SendFrameKeeps
<1>2. CASE WritePiece
  BY <1>2, WritePieceKeeps
<1>3. ASSUME /\ squeeze' \in BOOLEAN
             /\ wsPhase' \notin {"open", "failed"} => wsPhase \notin {"open", "failed"}
             /\ squeeze' = squeeze \/ wsPhase \notin {"open", "failed"}
             /\ onWire' = onWire /\ pieces' = pieces /\ framesSent' = framesSent
             /\ frameStarts' = frameStarts
      PROVE  FramesInv'
  <2>1. CASE squeeze' = squeeze
    BY <1>3, <2>1 DEF FramesInv
  <2>2. CASE wsPhase \notin {"open", "failed"}
    <3>1. Len(frameStarts) = 0
      BY <2>2 DEF FramesInv
    <3>2. Len(frameStarts') = 0 /\ 1..(Len(frameStarts') - 1) = {} /\ ~(Len(frameStarts') > 0)
      BY <1>3, <3>1
    <3>3. \A i \in 1..(Len(frameStarts') - 1) :
             WholeFrame(onWire', frameStarts'[i], frameStarts'[i + 1], framesSent'[i], squeeze')
      BY <3>2
    <3>4. frameStarts' = <<>>
      BY <1>3, <2>2 DEF FramesInv
    <3>5. /\ onWire' \in Seq(Byte) /\ pieces' \in Seq(Seq(Byte))
          /\ frameStarts' \in Seq(Nat) /\ framesSent' \in Seq(SentFrames)
          /\ Len(framesSent') = Len(frameStarts') /\ Len(onWire') = 0 /\ pieces' = <<>>
      BY <1>3, <3>1 DEF FramesInv
    <3>6. squeeze' \in BOOLEAN
      BY <1>3
    <3> QED
      BY <3>2, <3>3, <3>4, <3>5, <3>6 DEF FramesInv
  <2> QED
    BY <1>3, <2>1, <2>2
<1>4. squeeze \in BOOLEAN
  BY DEF FramesInv
<1>5. ASSUME NEW e, NEW p, NEW t, NEW offer, WsConnect(e, p, t, offer) PROVE FramesInv'
  BY <1>3, <1>4, <1>5 DEF WsConnect, WsFails, outward
<1>6. CASE Upgrade \/ ReadByte \/ ReadEnd
  BY <1>3, <1>4, <1>6 DEF Upgrade, ReadByte, ReadEnd, WsFails, outward
<1>7. CASE Verify
  <2>1. squeeze' \in BOOLEAN
    BY <1>4, <1>7 DEF Verify
  <2> QED
    BY <1>3, <1>7, <2>1 DEF Verify, WsFails, outward
<1>8. CASE LinkBreaks
  BY <1>3, <1>4, <1>8 DEF LinkBreaks, WsFails, outward
<1>9. CASE UNCHANGED hsVars
  BY <1>3, <1>4, <1>9 DEF hsVars, outward
<1> QED
  BY <1>1, <1>2, <1>5, <1>6, <1>7, <1>8, <1>9 DEF HsNext, FrameOps

LEMMA FramesInvSuffices == FramesInv => FramesArrive
<1> SUFFICES ASSUME FramesInv PROVE FramesArrive
  OBVIOUS
<1>1. /\ squeeze \in BOOLEAN /\ onWire \in Seq(Byte) /\ pieces \in Seq(Seq(Byte))
      /\ frameStarts \in Seq(Nat) /\ framesSent \in Seq(SentFrames) /\ Len(framesSent) = Len(frameStarts)
      /\ Len(frameStarts) > 0 => frameStarts[1] = 0
      /\ \A i \in 1..(Len(frameStarts) - 1) :
            WholeFrame(onWire, frameStarts[i], frameStarts[i + 1], framesSent[i], squeeze)
      /\ Len(frameStarts) > 0 =>
            Underway(onWire, pieces, frameStarts[Len(frameStarts)], framesSent[Len(frameStarts)], squeeze)
  BY DEF FramesInv
<1>2. PICK n : n = Len(frameStarts)
  OBVIOUS
<1>3. n \in Nat /\ DOMAIN frameStarts = 1..n /\ Len(onWire) \in Nat
  BY <1>1, <1>2, LenOf
<1>4. frameStarts # <<>> => frameStarts[1] = 0
  BY <1>1, <1>2, <1>3
<1> DEFINE next(i) == IF i < n THEN frameStarts[i + 1] ELSE Len(onWire)
           Arrives(i) ==
              IF i = n /\ pieces # <<>>
              THEN Len(onWire) > frameStarts[i] => FrameEnd(onWire, frameStarts[i]) > Len(onWire)
              ELSE /\ FrameEnd(onWire, frameStarts[i]) = next(i)
                   /\ Opcode(onWire, frameStarts[i]) = OpCode(framesSent[i].op)
                   /\ HasRsv1(onWire, frameStarts[i]) <=> Squeezed(framesSent[i].op)
                   /\ Unmasked(onWire, frameStarts[i]) =
                         IF Squeezed(framesSent[i].op)
                         THEN DeflatedPayload(framesSent[i].payload) ELSE framesSent[i].payload
<1>5. ASSUME NEW i \in 1..n PROVE Arrives(i)
  <2>1. PICK b : b = frameStarts[i]
    OBVIOUS
  <2>2. PICK sent : sent = framesSent[i]
    OBVIOUS
  <2>3. b \in Nat /\ sent \in SentFrames
    <3>1. i \in 1..Len(frameStarts) /\ i \in 1..Len(framesSent)
      BY <1>1, <1>2
    <3> QED
      BY <1>1, <2>1, <2>2, <3>1, ElementOfSeq
  <2>4. ASSUME NEW end, WholeFrame(onWire, b, end, sent, squeeze)
        PROVE  /\ FrameEnd(onWire, b) = end /\ Opcode(onWire, b) = OpCode(sent.op)
               /\ HasRsv1(onWire, b) <=> Squeezed(sent.op)
               /\ Unmasked(onWire, b) = IF Squeezed(sent.op) THEN DeflatedPayload(sent.payload) ELSE sent.payload
    <3>1. /\ FrameEnd(onWire, b) = end /\ Opcode(onWire, b) = OpCode(sent.op)
          /\ HasRsv1(onWire, b) <=> Zips(sent, squeeze)
          /\ Unmasked(onWire, b) = ContentOf(sent, squeeze)
      BY <1>1, <2>3, <2>4, WholeIsRead
    <3> QED
      BY <3>1 DEF Zips, ContentOf, Squeezed
  <2>5. CASE i < n
    <3>1. WholeFrame(onWire, b, next(i), sent, squeeze)
      <4>1. i \in 1..(Len(frameStarts) - 1)
        BY <1>2, <1>3, <2>5
      <4> QED
        BY <1>1, <2>1, <2>2, <2>5, <4>1
    <3>2. i # n
      BY <1>3, <2>5
    <3> HIDE DEF next
    <3> QED
      BY <2>1, <2>2, <2>4, <3>1, <3>2
  <2>6. CASE i = n
    <3>1. n > 0 /\ next(i) = Len(onWire)
      BY <1>3, <2>6
    <3>2. Underway(onWire, pieces, b, sent, squeeze)
      BY <1>1, <1>2, <2>1, <2>2, <2>6, <3>1
    <3> HIDE DEF next
    <3>3. CASE pieces = <<>>
      <4>1. Len(pieces) = 0
        BY <3>3
      <4>2. WholeFrame(onWire, b, Len(onWire), sent, squeeze)
        BY <1>1, <2>3, <3>2, <4>1, UnderwayEnds
      <4> QED
        BY <2>1, <2>2, <2>4, <2>6, <3>1, <3>3, <4>2
    <3>4. CASE pieces # <<>>
      <4>1. Len(onWire) > b => FrameEnd(onWire, b) > Len(onWire)
        BY <1>1, <2>3, <3>2, <3>4, UnderwayIsRead
      <4> QED
        BY <2>1, <2>6, <3>4, <4>1
    <3> QED
      BY <3>3, <3>4
  <2> QED
    BY <1>3, <2>5, <2>6
<1>6. \A i \in DOMAIN frameStarts : Arrives(i)
  BY <1>3, <1>5
<1> QED
  BY <1>1, <1>2, <1>4, <1>6 DEF FramesArrive

\* Whatever is sent, masked, compressed or not, and wherever a write ends: the
\* server finds every frame where it begins and unmasks what was sent.
THEOREM FramesStayWhole == HsSpec => []FramesArrive
<1>1. HsInit => FramesInv
  BY FramesStart
<1>2. FramesInv /\ [HsNext]_hsVars => FramesInv'
  BY NextFrames
<1>3. FramesInv => FramesArrive
  BY FramesInvSuffices
<1> QED
  BY <1>1, <1>2, <1>3, PTL DEF HsSpec

-----------------------------------------------------------------------------
\* A connection goes where the settings say and brings what may be trusted: the
\* dialer (dns.rs), the tunnel (proxy.rs), the WebSocket (ws.rs) and the download of
\* a release (update.rs) keep what they promise, whatever the network does.
THEOREM ConnectionsStaySound == DlSpec /\ TuSpec /\ HsSpec /\ DnSpec => []ConnectionsSound
<1>1. DialsTheHost /\ TunnelsRight /\ UpgradeProven /\ FramesArrive /\ DownloadsTrusted
         => ConnectionsSound
  BY DEF ConnectionsSound
<1> QED
  BY <1>1, DialsStayRight, TunnelsStayRight, UpgradesStayProven, FramesStayWhole, DownloadsStayTrusted, PTL

=============================================================================

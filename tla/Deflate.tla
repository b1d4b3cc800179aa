------------------------------- MODULE Deflate -------------------------------
(***************************************************************************)
(* The compressor of gzip.rs, which writes one block of fixed Huffman      *)
(* codes, its gzip container, and the decompressor of inflate.rs, which    *)
(* reads what the server deflated.  A behaviour takes either a text        *)
(* through the compressor and back through the decompressor, or a stream   *)
(* of the server through the decompressor alone.                           *)
(*                                                                         *)
(* A stream is a sequence of bits, the lowest bit of each byte first.      *)
(***************************************************************************)
EXTENDS Integers, Sequences, SequencesExt, FiniteSets, FiniteSetsExt, Bitwise

CONSTANTS
    Inputs,      \* texts to compress, sequences of bytes
    Compressed,  \* what the server deflated
    Window,      \* bound: WIN
    ChainLimit,  \* bound: CHAIN
    Enough,      \* bound: 32, a match that ends the search
    Buckets,     \* bound: HSIZE
    ChecksumSize, \* bound: size of the texts whose checksum is compared
    MaxInflate   \* bound: MAX_INFLATE_SIZE

VARIABLES
    zphase,   \* "deflate", "inflate", "block", "between", "done", "failed"
    zin,      \* the text (history)
    zstream,  \* the server's stream, or NoStream (history)
    zpos,     \* pos of deflate, from 0
    zhead,    \* head: the last position hashed to each bucket
    zprev,    \* prev: the position before it
    zbits,    \* the deflated bits
    zat,      \* bits the decompressor has taken
    zfinal,   \* BFINAL of the block
    zll,      \* its literal and length codes
    zdist,    \* its distance codes
    zout,     \* what was decompressed
    zcause    \* the InflateErr

zVars == <<zphase, zin, zstream, zpos, zhead, zprev, zbits, zat, zfinal, zll, zdist,
           zout, zcause>>

NoStream == [blocks |-> <<>>, ending |-> "none", bad |-> FALSE]
Nil == -1

-----------------------------------------------------------------------------
(* Tables of RFC 1951. *)

MinMatch == 3
MaxMatch == 258

LenBase == <<3, 4, 5, 6, 7, 8, 9, 10, 11, 13, 15, 17, 19, 23, 27, 31, 35, 43, 51, 59, 67,
             83, 99, 115, 131, 163, 195, 227, 258>>
LenExtra == <<0, 0, 0, 0, 0, 0, 0, 0, 1, 1, 1, 1, 2, 2, 2, 2, 3, 3, 3, 3, 4, 4, 4, 4, 5, 5,
              5, 5, 0>>
DistBase == <<1, 2, 3, 4, 5, 7, 9, 13, 17, 25, 33, 49, 65, 97, 129, 193, 257, 385, 513, 769,
              1025, 1537, 2049, 3073, 4097, 6145, 8193, 12289, 16385, 24577>>
DistExtra == <<0, 0, 0, 0, 1, 1, 2, 2, 3, 3, 4, 4, 5, 5, 6, 6, 7, 7, 8, 8, 9, 9, 10, 10, 11,
               11, 12, 12, 13, 13>>
ClOrder == <<16, 17, 18, 0, 8, 7, 9, 6, 10, 5, 11, 4, 12, 3, 13, 2, 14, 1, 15>>

FixedLens ==
    [i \in 1 .. 288 |->
        IF i <= 144 THEN 8 ELSE IF i <= 256 THEN 9 ELSE IF i <= 280 THEN 7 ELSE 8]
FixedDistLens == [i \in 1 .. 30 |-> 5]

EndOfBlock == 256

-----------------------------------------------------------------------------
(* The compressor. *)

\* The codes of the fixed block as gzip.rs tabulates them.
LlCode(sym) ==
    IF sym <= 143 THEN 48 + sym ELSE IF sym <= 255 THEN 400 + sym - 144
    ELSE IF sym <= 279 THEN sym - 256 ELSE 192 + sym - 280

LsbFirst(val, len) == [i \in 1 .. len |-> (val \div 2 ^ (i - 1)) % 2]
MsbFirst(val, len) == [i \in 1 .. len |-> (val \div 2 ^ (len - i)) % 2]

SymBits(sym) == MsbFirst(LlCode(sym), FixedLens[sym + 1])

\* The index of the last base that is not above n: len_sym and dist_sym.
BaseIndex(base, n) == Max({i \in DOMAIN base : base[i] <= n})

\* Mutant: the base that is next to it.
BaseAbove(base, n) == Min({i \in DOMAIN base : base[i] >= n})

Graded(base, extra, n, code(_)) ==
    LET i == BaseIndex(base, n) IN code(i) \o LsbFirst(n - base[i], extra[i])

MatchBits(len, dist) ==
    LET LenCode(i) == SymBits(256 + i)
        DistCode(i) == MsbFirst(i - 1, 5)
    IN Graded(LenBase, LenExtra, len, LenCode) \o Graded(DistBase, DistExtra, dist, DistCode)

\* BW.flush: the last byte is filled with zeros.
Padded(bits) == bits \o [i \in 1 .. (8 - (Len(bits) % 8)) % 8 |-> 0]

SymbolAt(p) == zin[p + 1]
Bucket(p) == (((SymbolAt(p) * 1024) ^^ (SymbolAt(p + 1) * 32)) ^^ SymbolAt(p + 2)) % Buckets

\* mlen: how far the text at a repeats the text at b, before it.
MatchLen(a, b) ==
    LET most == Min({MaxMatch, Len(zin) - a})
        differ == {i \in 0 .. most - 1 : SymbolAt(a + i) # SymbolAt(b + i)}
    IN IF differ = {} THEN most ELSE Min(differ)

RECURSIVE Search(_, _, _)
\* Along the chain of the bucket, the longest match seen first.
Search(cp, depth, best) ==
    IF cp = Nil \/ depth = ChainLimit \/ zpos - cp > Window THEN best
    ELSE LET m == MatchLen(zpos, cp) IN
         IF m > best.len
         THEN IF m >= Enough THEN [len |-> m, dist |-> zpos - cp]
              ELSE Search(zprev[cp + 1], depth + 1, [len |-> m, dist |-> zpos - cp])
         ELSE Search(zprev[cp + 1], depth + 1, best)

BestMatch == Search(zhead[Bucket(zpos)], 0, [len |-> 0, dist |-> 0])

\* The positions a step up to until lets into the chains: those with three
\* bytes behind them.
Entering(until) == zpos .. Min({until, Len(zin) - 2}) - 1

\* The head of the chain of b when the positions before p have entered it.
HeadAt(p, b) ==
    LET entered == {q \in Entering(p) : Bucket(q) = b} IN
    IF entered = {} THEN zhead[b] ELSE Max(entered)

ZInit ==
    /\ \/ zin \in Inputs /\ zstream = NoStream /\ zphase = "deflate" /\ zbits = <<1, 1, 0>>
       \/ zin = <<>> /\ zstream \in Compressed /\ zphase = "inflate" /\ zbits = <<>>
    /\ zpos = 0
    /\ zhead = [b \in 0 .. Buckets - 1 |-> Nil]
    /\ zprev = [i \in DOMAIN zin |-> Nil]
    /\ zat = 0 /\ zfinal = FALSE /\ zll = <<>> /\ zdist = <<>> /\ zout = <<>>
    /\ zcause = "none"

Deflating == zphase = "deflate" /\ zpos < Len(zin)
UnchangedInflate == UNCHANGED <<zphase, zin, zstream, zat, zfinal, zll, zdist, zout, zcause>>

\* Every position a step passes enters its hash chain.
Advance(n) ==
    /\ zpos' = zpos + n
    /\ zhead' = [b \in DOMAIN zhead |-> HeadAt(zpos + n, b)]
    /\ zprev' = [i \in DOMAIN zprev |->
                    IF i - 1 \in Entering(zpos + n)
                    THEN HeadAt(i - 1, Bucket(i - 1)) ELSE zprev[i]]

Matched == zpos + MinMatch <= Len(zin) /\ BestMatch.len >= MinMatch

EmitLiteral ==
    /\ Deflating /\ ~Matched
    /\ zbits' = zbits \o SymBits(SymbolAt(zpos))
    /\ Advance(1)
    /\ UnchangedInflate

EmitMatch ==
    /\ Deflating /\ Matched
    /\ zbits' = zbits \o MatchBits(BestMatch.len, BestMatch.dist)
    /\ Advance(BestMatch.len)
    /\ UnchangedInflate

EmitEnd ==
    /\ zphase = "deflate" /\ zpos = Len(zin)
    /\ zbits' = Padded(zbits \o SymBits(EndOfBlock))
    /\ zphase' = "between"
    /\ UNCHANGED <<zin, zstream, zpos, zhead, zprev, zat, zfinal, zll, zdist, zout, zcause>>

-----------------------------------------------------------------------------
(* The gzip container: CRC-32 as 32 bits, the lowest first. *)

Reflected ==   \* 0xEDB88320
    LsbFirst(32, 8) \o LsbFirst(131, 8) \o LsbFirst(184, 8) \o LsbFirst(237, 8)

XorBits(a, b) == [i \in DOMAIN a |-> (a[i] + b[i]) % 2]
ShiftDown(a, n) == SubSeq(a, n + 1, Len(a)) \o [i \in 1 .. n |-> 0]
ShiftOnce(a) ==
    IF a[1] = 1 THEN XorBits(ShiftDown(a, 1), Reflected) ELSE ShiftDown(a, 1)

CrcTable ==
    [i \in 0 .. 255 |->
        FoldLeft(LAMBDA crc, j : ShiftOnce(crc), LsbFirst(i, 8) \o LsbFirst(0, 24),
                 <<1, 2, 3, 4, 5, 6, 7, 8>>)]

Ones(n) == [i \in 1 .. n |-> 1]
ByteOf(bits) == FoldLeft(LAMBDA n, i : 2 * n + bits[9 - i], 0, <<1, 2, 3, 4, 5, 6, 7, 8>>)

CrcStep(crc, byte) ==
    XorBits(CrcTable[ByteOf(XorBits(SubSeq(crc, 1, 8), LsbFirst(byte, 8)))],
            ShiftDown(crc, 8))

Crc(data) == XorBits(FoldLeft(CrcStep, Ones(32), data), Ones(32))

\* gzip_compress: the trailer behind the deflated bits; the size modulo 2^32,
\* of which the texts of a run fill sixteen bits.
GzipTrailer(data) == Crc(data) \o LsbFirst(Len(data), 16) \o [i \in 1 .. 16 |-> 0]

-----------------------------------------------------------------------------
(* The decompressor. *)

Has(at, n) == at + n <= Len(zbits)

\* BitReader.read and read_bit: n bits from at on, the lowest first.
Taken(at, n) ==
    FoldLeft(LAMBDA v, i : 2 * v + zbits[at + n + 1 - i], 0, [i \in 1 .. n |-> i])

\* Huff::build: how many codes of each length, and the symbols in the order
\* of their codes.
CountsOf(lens) == [l \in 1 .. 15 |-> Cardinality({i \in DOMAIN lens : lens[i] = l})]

SymbolsOf(lens) ==
    LET all == [i \in DOMAIN lens |-> i - 1] IN
    FlattenSeq([l \in 1 .. 15 |-> SelectSeq(all, LAMBDA sym : lens[sym + 1] = l)])

\* Never more codes than a length has room for.
RoomAfter(lens) ==
    LET room[l \in 0 .. 15] ==
            IF l = 0 THEN 1 ELSE 2 * room[l - 1] - CountsOf(lens)[l]
    IN room

Oversubscribed(lens) == \E l \in 1 .. 15 : RoomAfter(lens)[l] < 0

Huff(lens) == [counts |-> CountsOf(lens), symbols |-> SymbolsOf(lens)]

FixedLl == Huff(FixedLens)
FixedDist == Huff(FixedDistLens)

\* Mutant: first subtracted on both sides of what is left of the comparison.
SubtractedTwice(code, first, count) == code < count - first

Within(code, first, count) == code < first + count

Failure(cause) == [cause |-> cause, sym |-> 0, at |-> 0]

RECURSIVE WalkTree(_, _, _, _, _, _)
WalkTree(h, at, len, code, first, index) ==
    IF len > 15 THEN Failure("code")
    ELSE IF ~Has(at, 1) THEN Failure("eof")
    ELSE LET next == 2 * code + zbits[at + 1]
             count == h.counts[len]
         IN IF Within(next, first, count)
            THEN [cause |-> "none", sym |-> h.symbols[index + next - first + 1], at |-> at + 1]
            ELSE WalkTree(h, at + 1, len + 1, next, 2 * (first + count), index + count)

Inflated(h, at) == WalkTree(h, at, 1, 0, 0, 0)

ZFails(cause) ==
    /\ zphase' = "failed" /\ zcause' = cause
    /\ UNCHANGED <<zat, zfinal, zll, zdist, zout>>

ZSource == <<zin, zstream, zpos, zhead, zprev, zbits>>

Aligned(at) == 8 * ((at + 7) \div 8)

\* decode_stored, all of it: the bytes up to the limit or the end.
Stored(at) ==
    LET a == Aligned(at)
        len == Taken(a, 16)
        left == (Len(zbits) - a - 32) \div 8
        room == MaxInflate - Len(zout)
        bytes == [i \in 1 .. len |-> Taken(a + 24 + 8 * i, 8)]
    IN IF ~Has(a, 32) THEN ZFails("eof")
       ELSE IF len + Taken(a + 16, 16) # 65535 THEN ZFails("invalid")
       ELSE IF room < len /\ room <= left THEN ZFails("size")
       ELSE IF left < len THEN ZFails("eof")
       ELSE /\ zout' = zout \o bytes
            /\ zat' = a + 32 + 8 * len
            /\ zphase' = IF Taken(zat, 1) = 1 THEN "done" ELSE "between"
            /\ zfinal' = (Taken(zat, 1) = 1)
            /\ UNCHANGED <<zll, zdist, zcause>>

StoredBlock ==
    /\ zphase = "between" /\ Has(zat, 3) /\ Taken(zat + 1, 2) = 0
    /\ Stored(zat + 3)
    /\ UNCHANGED ZSource

Opens(ll, dist, at) ==
    /\ zphase' = "block" /\ zfinal' = (Taken(zat, 1) = 1)
    /\ zll' = ll /\ zdist' = dist /\ zat' = at
    /\ UNCHANGED <<zout, zcause>>

FixedBlock ==
    /\ zphase = "between" /\ Has(zat, 3) /\ Taken(zat + 1, 2) = 1
    /\ Opens(FixedLl, FixedDist, zat + 3)
    /\ UNCHANGED ZSource

\* No header, or the block type that does not exist.
BadBlock ==
    /\ zphase = "between"
    /\ \/ ~Has(zat, 3) /\ ZFails("eof")
       \/ Has(zat, 3) /\ Taken(zat + 1, 2) = 3 /\ ZFails("invalid")
    /\ UNCHANGED ZSource

\* The lengths of build_dynamic: a code for itself, or a run of the last one
\* or of zeros, which may cross from the literals to the distances.
RunOf(sym) ==
    CASE sym = 16 -> [bits |-> 2, least |-> 3]
      [] sym = 17 -> [bits |-> 3, least |-> 3]
      [] sym = 18 -> [bits |-> 7, least |-> 11]

BadLens(cause) == [cause |-> cause, lens |-> <<>>, at |-> 0]

RECURSIVE LensFrom(_, _, _, _)
LensFrom(h, at, lens, total) ==
    IF Len(lens) >= total THEN [cause |-> "none", lens |-> lens, at |-> at]
    ELSE LET d == Inflated(h, at) IN
         IF d.cause # "none" THEN BadLens(d.cause)
         ELSE IF d.sym <= 15 THEN LensFrom(h, d.at, Append(lens, d.sym), total)
         ELSE IF d.sym = 16 /\ lens = <<>> THEN BadLens("invalid")
         ELSE LET run == RunOf(d.sym)
                  times == run.least + Taken(d.at, run.bits)
                  same == IF d.sym = 16 THEN lens[Len(lens)] ELSE 0
              IN IF ~Has(d.at, run.bits) THEN BadLens("eof")
                 ELSE IF Len(lens) + times > total THEN BadLens("invalid")
                 ELSE LensFrom(h, d.at + run.bits, lens \o [i \in 1 .. times |-> same], total)

DynamicBlock ==
    /\ zphase = "between" /\ Has(zat, 3) /\ Taken(zat + 1, 2) = 2
    /\ LET a == zat + 3
           hlit == Taken(a, 5) + 257
           hdist == Taken(a + 5, 5) + 1
           hclen == Taken(a + 10, 4) + 4
           place(sym) == CHOOSE i \in DOMAIN ClOrder : ClOrder[i] = sym
           cl == [i \in 1 .. 19 |->
                    IF place(i - 1) <= hclen THEN Taken(a + 11 + 3 * place(i - 1), 3) ELSE 0]
           read == LensFrom(Huff(cl), a + 14 + 3 * hclen, <<>>, hlit + hdist)
           ll == SubSeq(read.lens, 1, hlit)
           dist == SubSeq(read.lens, hlit + 1, hlit + hdist)
       IN IF ~Has(a, 14) THEN ZFails("eof")
          ELSE IF hlit > 286 \/ hdist > 30 THEN ZFails("invalid")
          ELSE IF ~Has(a + 14, 3 * hclen) THEN ZFails("eof")
          ELSE IF Oversubscribed(cl) THEN ZFails("code")
          ELSE IF read.cause # "none" THEN ZFails(read.cause)
          ELSE IF Oversubscribed(ll) \/ Oversubscribed(dist) THEN ZFails("code")
          ELSE Opens(Huff(ll), Huff(dist), read.at)
    /\ UNCHANGED ZSource

InBlock == zphase = "block"
Here == Inflated(zll, zat)

Literal ==
    /\ InBlock /\ Here.cause = "none" /\ Here.sym < EndOfBlock
    /\ IF Len(zout) >= MaxInflate THEN ZFails("size")
       ELSE /\ zout' = Append(zout, Here.sym) /\ zat' = Here.at
            /\ UNCHANGED <<zphase, zfinal, zll, zdist, zcause>>
    /\ UNCHANGED ZSource

CloseBlock ==
    /\ InBlock /\ Here.cause = "none" /\ Here.sym = EndOfBlock
    /\ zphase' = IF zfinal THEN "done" ELSE "between"
    /\ zat' = Here.at
    /\ UNCHANGED <<zfinal, zll, zdist, zout, zcause>>
    /\ UNCHANGED ZSource

\* The copy reads what it has just written when it overlaps itself.
Copied(dist, len) ==
    zout \o [i \in 1 .. len |-> zout[Len(zout) - dist + ((i - 1) % dist) + 1]]

BackReference ==
    /\ InBlock /\ Here.cause = "none" /\ Here.sym > EndOfBlock
    /\ LET l == Here.sym - EndOfBlock
           len == LenBase[l] + Taken(Here.at, LenExtra[l])
           d == Inflated(zdist, Here.at + LenExtra[l])
           dist == DistBase[d.sym + 1] + Taken(d.at, DistExtra[d.sym + 1])
       IN IF l > 29 THEN ZFails("invalid")
          ELSE IF ~Has(Here.at, LenExtra[l]) THEN ZFails("eof")
          ELSE IF d.cause # "none" THEN ZFails(d.cause)
          ELSE IF ~Has(d.at, DistExtra[d.sym + 1]) THEN ZFails("eof")
          ELSE IF dist > Len(zout) THEN ZFails("distance")
          ELSE IF Len(zout) + len > MaxInflate THEN ZFails("size")
          ELSE /\ zout' = Copied(dist, len)
               /\ zat' = d.at + DistExtra[d.sym + 1]
               /\ UNCHANGED <<zphase, zfinal, zll, zdist, zcause>>
    /\ UNCHANGED ZSource

NoSymbol ==
    /\ InBlock /\ Here.cause # "none"
    /\ ZFails(Here.cause)
    /\ UNCHANGED ZSource

-----------------------------------------------------------------------------
(* The server (external): canonical codes by the weight of the codes       *)
(* before them, and its blocks as bits.                                    *)

\* RFC 1951, 3.2.2: the codes before sym in (length, symbol) order fill the
\* line from 0 to 1 up to where the code of sym begins.
ServerCode(lens, sym) ==
    LET l == lens[sym + 1]
        before(k) ==
            Cardinality({i \in DOMAIN lens : lens[i] = k /\ (k < l \/ i < sym + 1)})
    IN MsbFirst(MapThenSumSet(LAMBDA k : before(k) * 2 ^ (15 - k), 1 .. l) \div 2 ^ (15 - l), l)

TokenBits(ll, dist, t) ==
    IF t.len = 0 THEN ServerCode(ll, t.value)
    ELSE LET LenCode(i) == ServerCode(ll, 256 + i)
             DistCode(i) == ServerCode(dist, i - 1)
             i == Max({k \in DOMAIN LenBase : LenBase[k] <= t.len})
             j == Max({k \in DOMAIN DistBase : DistBase[k] <= t.value})
         IN ServerCode(ll, 256 + i) \o LsbFirst(t.len - LenBase[i], LenExtra[i])
            \o ServerCode(dist, j - 1) \o LsbFirst(t.value - DistBase[j], DistExtra[j])

TokensBits(ll, dist, tokens) ==
    FlattenSeq([i \in DOMAIN tokens |-> TokenBits(ll, dist, tokens[i])])
    \o ServerCode(ll, EndOfBlock)

\* The lengths a list of runs <<symbol, times>> stands for.
RECURSIVE RunsMean(_, _)
RunsMean(runs, lens) ==
    IF runs = <<>> THEN lens
    ELSE LET sym == runs[1][1]  times == runs[1][2]
             value == IF sym <= 15 THEN sym ELSE IF sym = 16 THEN lens[Len(lens)] ELSE 0
         IN RunsMean(Tail(runs), lens \o [i \in 1 .. times |-> value])

RunBits(cl, run) ==
    ServerCode(cl, run[1])
    \o IF run[1] <= 15 THEN <<>>
       ELSE LsbFirst(run[2] - RunOf(run[1]).least, RunOf(run[1]).bits)

StoredBits(b, before) ==
    LET size == Len(b.data) IN
    [i \in 1 .. (8 - ((before + 3) % 8)) % 8 |-> 0]
    \o LsbFirst(size, 16) \o LsbFirst(65535 - size - b.damage, 16)
    \o [i \in 1 .. 8 * size |-> LsbFirst(b.data[(i + 7) \div 8], 8)[((i - 1) % 8) + 1]]

DynamicBits(b) ==
    LET lens == RunsMean(b.runs, <<>>)
        ll == SubSeq(lens, 1, b.hlit)
        dist == SubSeq(lens, b.hlit + 1, Len(lens))
    IN LsbFirst(b.hlit - 257, 5) \o LsbFirst(b.hdist - 1, 5) \o LsbFirst(15, 4)
       \o FlattenSeq([i \in DOMAIN ClOrder |-> LsbFirst(b.cl[ClOrder[i] + 1], 3)])
       \o FlattenSeq([i \in DOMAIN b.runs |-> RunBits(b.cl, b.runs[i])])
       \o IF b.damage = 1 THEN <<>> ELSE TokensBits(ll, dist, b.tokens)

BlockBits(b, final, before) ==
    <<IF final THEN 1 ELSE 0>> \o LsbFirst(b.type, 2)
    \o CASE b.type = 0 -> StoredBits(b, before)
         [] b.type = 1 -> TokensBits(FixedLens, [i \in 1 .. 32 |-> 5], b.tokens)
         [] b.type = 2 -> DynamicBits(b)
         [] b.type = 3 -> <<>>

\* A message ends with a sync flush whose last four bytes are not sent; the
\* final block of another stream ends it.  "cut" and "bare" are read without
\* the agent's trailer: the first lacks a byte, the second a final block.
BlocksBits(s) ==
    FoldLeft(LAMBDA bits, i : bits \o BlockBits(s.blocks[i],
                                  s.ending \in {"cut", "final"} /\ i = Len(s.blocks), Len(bits)),
             <<>>, [i \in DOMAIN s.blocks |-> i])

ServerBits(s) ==
    CASE s.ending = "sync" -> Padded(BlocksBits(s) \o <<0, 0, 0>>)
      [] s.ending = "bare" -> Padded(BlocksBits(s) \o <<0, 0, 0>>) \o LsbFirst(0, 16) \o Ones(16)
      [] s.ending = "cut" -> SubSeq(Padded(BlocksBits(s)), 1, Len(Padded(BlocksBits(s))) - 8)
      [] s.ending = "final" -> Padded(BlocksBits(s))

\* inflate_permessage_deflate: the four bytes back, and one more empty block
\* that is final.
WithTrailer(bits) ==
    bits \o LsbFirst(0, 16) \o Ones(16) \o LsbFirst(1, 8) \o LsbFirst(0, 16) \o Ones(16)

TakeMessage ==
    /\ zphase = "inflate"
    /\ zbits' = IF zstream.ending \in {"cut", "bare"} THEN ServerBits(zstream)
                ELSE WithTrailer(ServerBits(zstream))
    /\ zphase' = "between"
    /\ UNCHANGED <<zin, zstream, zpos, zhead, zprev, zat, zfinal, zll, zdist, zout, zcause>>

ZNext ==
    \/ EmitLiteral \/ EmitMatch \/ EmitEnd \/ TakeMessage
    \/ StoredBlock \/ FixedBlock \/ DynamicBlock \/ BadBlock
    \/ Literal \/ BackReference \/ CloseBlock \/ NoSymbol

ZSpec == ZInit /\ [][ZNext]_zVars

-----------------------------------------------------------------------------

ZTypeOK ==
    /\ zphase \in {"deflate", "inflate", "block", "between", "done", "failed"}
    /\ zcause \in {"none", "eof", "invalid", "distance", "code", "size"}
    /\ (zcause # "none") = (zphase = "failed")
    /\ zpos \in 0 .. Len(zin) /\ zat \in 0 .. Len(zbits)
    /\ \A i \in DOMAIN zbits : zbits[i] \in {0, 1}

\* What the server's blocks say, by RFC 1951.
RECURSIVE TokensMean(_, _)
TokensMean(tokens, text) ==
    IF tokens = <<>> THEN text
    ELSE LET t == tokens[1] IN
         TokensMean(Tail(tokens),
             IF t.len = 0 THEN Append(text, t.value)
             ELSE text \o [i \in 1 .. t.len |->
                              text[Len(text) - t.value + ((i - 1) % t.value) + 1]])

Meaning(s) ==
    FoldLeft(LAMBDA text, b : IF b.type = 0 THEN text \o b.data ELSE TokensMean(b.tokens, text),
             <<>>, s.blocks)

\* A check of the remainder bit by bit, without the table.
CrcByDivision(data) ==
    LET bits == FlattenSeq([i \in DOMAIN data |-> LsbFirst(data[i], 8)])
        step(crc, bit) == ShiftOnce(<<(crc[1] + bit) % 2>> \o Tail(crc))
    IN XorBits(FoldLeft(step, Ones(32), bits), Ones(32))

ChecksumRight ==
    Len(zin) <= ChecksumSize => SubSeq(GzipTrailer(zin), 1, 32) = CrcByDivision(zin)

\* What the agent deflates inflates to the text it was, and its container's
\* checksum is the text's; what the server deflated inflates to what the
\* server meant; and nothing damaged, cut or larger than the limit is taken.
DeflateSound ==
    /\ Len(zout) <= MaxInflate
    /\ zphase = "done" /\ zstream = NoStream =>
          zout = zin /\ ChecksumRight
    /\ zphase = "failed" /\ zstream = NoStream => zcause = "size" /\ Len(zin) > MaxInflate
    /\ zphase \in {"done", "failed"} /\ zstream # NoStream =>
          (zphase = "failed") =
              \/ zstream.ending \in {"cut", "bare"} \/ zstream.bad
              \/ Len(Meaning(zstream)) > MaxInflate
    /\ zphase = "done" /\ zstream # NoStream => zout = Meaning(zstream)
=============================================================================

------------------------------ MODULE Handshake ------------------------------
(***************************************************************************)
(* WsConnection of ws.rs up to its first frames: the endpoint and the      *)
(* path, the upgrade request, the response read one byte at a time, its    *)
(* verification, and the masked frames the agent then writes.  The read    *)
(* side of an open connection is FrameReader.tla; proxies and resolution   *)
(* are Tunnel.tla and Dialing.tla; what deflating a payload does is        *)
(* Deflate.tla, and here a deflated payload is the payload behind one byte *)
(* of block header.                                                        *)
(*                                                                         *)
(* Bytes the agent writes are numbers below 256.  The head of a response   *)
(* is a sequence of symbols: CR, LF, and one atom for the text of a line.  *)
(***************************************************************************)
EXTENDS Naturals, Sequences, FiniteSets, SequencesExt, FiniteSetsExt

CONSTANTS
    Endpoints,   \* [scheme, url, host]: url FALSE when http::parse_url fails
    WsPaths,     \* request paths, sequences of bytes
    WsTokens,    \* tokens, sequences of bytes
    WsKeys,      \* the values of Sec-WebSocket-Key
    Replies,     \* what a server answers: symbols
    MaxHeadSize, \* bound: MAX_HTTP_RESPONSE_SIZE, in symbols
    ShortSize,   \* bound: 126, from which a length takes two bytes more
    WordSize,    \* bound: u16::MAX, above which it takes eight
    MaskChunk,   \* bound: MASK_CHUNK_SIZE
    Masks,       \* masking keys /dev/urandom may give
    WsPayloads,  \* payloads the callers send
    MaxSends     \* bound: frames one connection sends

VARIABLES
    wsPhase,     \* "idle", "upgrading", "reading", "verifying", "open", "failed"
    wsError,     \* the variant of WsErr that ended the connection
    wsKey,       \* the key of the upgrade request
    wsOffer,     \* enable_compression of the caller
    wsToken,     \* the token of the caller (history)
    wsPath,      \* the path of the caller (history)
    wsTarget,    \* the target of the request line
    wsReply,     \* what the server answered (history)
    wsInbound,   \* the part of it not yet read
    wsHead,      \* the bytes read_http_response_headers has
    squeeze,     \* compression_enabled
    onWire,      \* the bytes written after the upgrade
    pieces,      \* the writes the current frame still owes
    framesSent,  \* the frames handed to write_masked_frame (history)
    frameStarts  \* and the bytes that were on the wire before each (history)

outward == <<onWire, pieces, framesSent, frameStarts>>
hsVars == <<wsPhase, wsError, wsKey, wsOffer, wsToken, wsPath, wsTarget, wsReply,
            wsInbound, wsHead, squeeze, outward>>

Atom(name, value) == [name |-> name, value |-> value]
CR == Atom("cr", "")
LF == Atom("lf", "")

\* An answer is a sequence of symbols; a payload and a mask are bytes, a payload
\* of less than 2^31; the thresholds are those of the lengths' widths; and the
\* mask's four bytes go into a chunk without a rest (4096).
Byte == 0 .. 255
TwoToThe16 == 65536
LongestBody == 2147483647

ASSUME HandshakeAssumption ==
    /\ \A r \in Replies : r \in Seq(Range(r)) /\ \A x \in Range(r) : x = Atom(x.name, x.value)
    /\ \A p \in WsPayloads : p \in Seq(Byte) /\ Len(p) < LongestBody
    /\ \A mask \in Masks : mask \in Seq(Byte) /\ Len(mask) = 4
    /\ ShortSize \in 1 .. 126 /\ WordSize \in Nat /\ ShortSize <= WordSize /\ WordSize < TwoToThe16
    /\ MaskChunk \in Nat \ {0} /\ MaskChunk % 4 = 0

WsErrors == {"none", "protocol", "dns", "tls", "handshake", "io"}

HsTypeOK ==
    /\ wsPhase \in {"idle", "upgrading", "reading", "verifying", "open", "failed"}
    /\ wsError \in WsErrors
    /\ wsKey \in WsKeys \cup {"none"}
    /\ wsOffer \in BOOLEAN /\ squeeze \in BOOLEAN
    /\ \A s \in {wsTarget, onWire} : \A i \in DOMAIN s : s[i] \in 0 .. 255
    /\ Len(framesSent) \in 0 .. MaxSends

-----------------------------------------------------------------------------
(* The request. *)

\* parse_endpoint: only the two TLS schemes, and a URL parse_url takes.
EndpointTaken(e) == e.scheme \in {"wss", "https"} /\ e.url

Slash == 47  Hash == 35  Question == 63  Ampersand == 38  Percent == 37

PathTaken(p) ==
    /\ p # <<>> /\ p[1] = Slash
    /\ \A i \in DOMAIN p : p[i] > 32 /\ p[i] # 127 /\ p[i] # Hash

\* host_to_server_name: an address, or a name rustls takes.
ServerNamed(e) == e.host \in {"ip", "name"}

Unreserved ==
    (65 .. 90) \cup (97 .. 122) \cup (48 .. 57) \cup {45, 46, 95, 126}

HexDigit(n) == IF n < 10 THEN 48 + n ELSE 55 + n

UrlEncoded(s) ==
    FlattenSeq([i \in DOMAIN s |->
        IF s[i] \in Unreserved THEN <<s[i]>>
        ELSE <<Percent, HexDigit(s[i] \div 16), HexDigit(s[i] % 16)>>])

TokenParam == <<116, 111, 107, 101, 110, 61>>      \* "token="

\* A path that has a query already gets the token as one more parameter.
TargetOf(p, t) ==
    p \o <<IF Question \in Range(p) THEN Ampersand ELSE Question>> \o TokenParam
      \o UrlEncoded(t)

HsInit ==
    /\ wsPhase = "idle" /\ wsError = "none" /\ wsKey = "none"
    /\ wsOffer = FALSE /\ squeeze = FALSE
    /\ wsToken = <<>> /\ wsPath = <<>> /\ wsTarget = <<>>
    /\ wsReply = <<>> /\ wsInbound = <<>> /\ wsHead = <<>>
    /\ onWire = <<>> /\ pieces = <<>> /\ framesSent = <<>> /\ frameStarts = <<>>

WsFails(error) == wsPhase' = "failed" /\ wsError' = error

\* The first half of connect: everything before the upgrade request.  The
\* socket is dialed before the name for the certificate is looked at.
WsConnect(e, p, t, offer) ==
    /\ wsPhase = "idle"
    /\ wsOffer' = offer /\ wsToken' = t /\ wsPath' = p
    /\ \/ /\ ~EndpointTaken(e) \/ ~PathTaken(p)
          /\ WsFails("protocol")
          /\ UNCHANGED <<wsKey, wsTarget>>
       \/ /\ EndpointTaken(e) /\ PathTaken(p)
          /\ \/ \E error \in {"dns", "io"} : WsFails(error)
             \/ ~ServerNamed(e) /\ WsFails("dns")
             \/ ServerNamed(e) /\ WsFails("tls")
          /\ UNCHANGED <<wsKey, wsTarget>>
       \/ /\ EndpointTaken(e) /\ PathTaken(p) /\ ServerNamed(e)
          /\ \E k \in WsKeys : wsKey' = k
          /\ wsTarget' = TargetOf(p, t)
          /\ wsPhase' = "upgrading" /\ UNCHANGED wsError
    /\ UNCHANGED <<wsReply, wsInbound, wsHead, squeeze, outward>>

\* The request is written and flushed, and the server answers it.
Upgrade ==
    /\ wsPhase = "upgrading"
    /\ \E r \in Replies : wsReply' = r /\ wsInbound' = r
    /\ wsPhase' = "reading"
    /\ UNCHANGED <<wsError, wsKey, wsOffer, wsToken, wsPath, wsTarget, wsHead, squeeze,
                   outward>>

-----------------------------------------------------------------------------
(* The response. *)

EndOfHead == <<CR, LF, CR, LF>>

HeadRead(s) == Len(s) >= 4 /\ SubSeq(s, Len(s) - 3, Len(s)) = EndOfHead

\* read_http_response_headers: one byte, so that what follows the head stays
\* in the stream for the frame reader.
ReadByte ==
    /\ wsPhase = "reading" /\ wsInbound # <<>>
    /\ wsHead' = Append(wsHead, Head(wsInbound))
    /\ wsInbound' = Tail(wsInbound)
    /\ \/ HeadRead(wsHead') /\ wsPhase' = "verifying" /\ UNCHANGED wsError
       \/ ~HeadRead(wsHead') /\ Len(wsHead') > MaxHeadSize /\ WsFails("handshake")
       \/ ~HeadRead(wsHead') /\ Len(wsHead') <= MaxHeadSize /\ UNCHANGED <<wsPhase, wsError>>
    /\ UNCHANGED <<wsKey, wsOffer, wsToken, wsPath, wsTarget, wsReply, squeeze, outward>>

\* A zero-byte read before the end of the head.
ReadEnd ==
    /\ wsPhase = "reading" /\ wsInbound = <<>>
    /\ WsFails("handshake")
    /\ UNCHANGED <<wsKey, wsOffer, wsToken, wsPath, wsTarget, wsReply, wsInbound, wsHead,
                   squeeze, outward>>

IsAtom(s, i) == s[i] \notin {CR, LF}

\* str::lines: the number of the line a symbol is on, from 0.
LineOf(s, i) == Cardinality({j \in 1 .. i - 1 : s[j] = LF})

HasText(s, l) == \E i \in DOMAIN s : IsAtom(s, i) /\ LineOf(s, i) = l

StatusAtoms(s) == {s[i] : i \in {j \in DOMAIN s : IsAtom(s, j) /\ LineOf(s, j) = 0}}

\* The header lines parse_http_response looks at end with the first blank one.
HeaderAtoms(s) ==
    {i \in DOMAIN s :
        /\ IsAtom(s, i) /\ LineOf(s, i) > 0
        /\ \A l \in 1 .. LineOf(s, i) : HasText(s, l)}

AcceptsIn(s) == {i \in HeaderAtoms(s) : s[i].name = "accept"}

\* Mutant: any Sec-WebSocket-Accept will do.
AcceptPresent(s, key) == AcceptsIn(s) # {}

\* The last Sec-WebSocket-Accept counts.
AcceptIs(s, key) ==
    \E i \in AcceptsIn(s) : s[i].value = key /\ \A j \in AcceptsIn(s) : j <= i

DeflateIn(s) ==
    \E i \in HeaderAtoms(s) : s[i].name = "extensions" /\ s[i].value = "deflate"

\* Text in UTF-8, a status line that parses, 101, and the accept value that
\* answers this key.
Verified(s, key) ==
    /\ \A i \in DOMAIN s : s[i].name # "raw"
    /\ \E a \in StatusAtoms(s) : a.name = "status" /\ a.value = "101"
    /\ AcceptIs(s, key)

Verify ==
    /\ wsPhase = "verifying"
    /\ \/ /\ Verified(wsHead, wsKey)
          /\ wsPhase' = "open" /\ UNCHANGED wsError
          /\ squeeze' = (wsOffer /\ DeflateIn(wsHead))
       \/ /\ ~Verified(wsHead, wsKey)
          /\ WsFails("handshake") /\ UNCHANGED squeeze
    /\ UNCHANGED <<wsKey, wsOffer, wsToken, wsPath, wsTarget, wsReply, wsInbound, wsHead,
                   outward>>

-----------------------------------------------------------------------------
(* The frames. *)

OpCode(op) ==
    CASE op = "text" -> 1 [] op = "binary" -> 2 [] op = "close" -> 8
      [] op = "ping" -> 9 [] op = "pong" -> 10

\* to_be_bytes, of the last 16 bits of a number.
HighByte(n) == (n \div 256) % 256
LowByte(n) == n % 256

\* payload_len is far below 2^32, and so the first four bytes of eight are 0.
FrameHeader(op, size, rsv1) ==
    LET first == (IF rsv1 THEN 192 ELSE 128) + OpCode(op)
        above == size \div TwoToThe16
    IN  IF size < ShortSize THEN <<first, 128 + size>>
        ELSE IF size <= WordSize THEN <<first, 128 + 126, HighByte(size), LowByte(size)>>
        ELSE <<first, 128 + 127, 0, 0, 0, 0, HighByte(above), LowByte(above),
               HighByte(size), LowByte(size)>>

\* The exclusive or of two bytes.
Bit(n, weight) == (n \div weight) % 2
ByteXor(a, b) ==
    LET bit(weight) == IF Bit(a, weight) = Bit(b, weight) THEN 0 ELSE weight
    IN  bit(1) + bit(2) + bit(4) + bit(8) + bit(16) + bit(32) + bit(64) + bit(128)

\* Mutant: a mask that does not start again with the data.
MaskedOnwards(data, mask) == [i \in DOMAIN data |-> ByteXor(data[i], mask[(i % 4) + 1])]

\* apply_mask, which counts from the start of what it is given.
Masked(data, mask) == [i \in DOMAIN data |-> ByteXor(data[i], mask[((i - 1) % 4) + 1])]

\* payload.chunks(MASK_CHUNK_SIZE).
ChunksOf(p) ==
    [c \in 1 .. (Len(p) + MaskChunk - 1) \div MaskChunk |->
        SubSeq(p, (c - 1) * MaskChunk + 1,
               IF c * MaskChunk < Len(p) THEN c * MaskChunk ELSE Len(p))]

MaskedChunks(p, mask) == [c \in DOMAIN ChunksOf(p) |-> Masked(ChunksOf(p)[c], mask)]

DeflatedPayload(p) == <<1>> \o p

\* Control frames are never compressed; ping and close carry nothing.
Squeezed(op) == squeeze /\ op \in {"text", "binary"}

Sendable(op, p) == op \in {"ping", "close"} => p = <<>>

\* write_masked_frame up to its first write.
SendFrame(op, p) ==
    /\ wsPhase = "open" /\ pieces = <<>> /\ Len(framesSent) < MaxSends
    /\ Sendable(op, p)
    /\ LET body == IF Squeezed(op) THEN DeflatedPayload(p) ELSE p IN
       \E mask \in Masks :
          pieces' = <<FrameHeader(op, Len(body), Squeezed(op)), mask>>
                    \o MaskedChunks(body, mask)
    /\ framesSent' = Append(framesSent, [op |-> op, payload |-> p])
    /\ frameStarts' = Append(frameStarts, Len(onWire))
    /\ UNCHANGED <<wsPhase, wsError, wsKey, wsOffer, wsToken, wsPath, wsTarget, wsReply,
                   wsInbound, wsHead, squeeze, onWire>>

WritePiece ==
    /\ wsPhase = "open" /\ pieces # <<>>
    /\ onWire' = onWire \o Head(pieces)
    /\ pieces' = Tail(pieces)
    /\ UNCHANGED <<wsPhase, wsError, wsKey, wsOffer, wsToken, wsPath, wsTarget, wsReply,
                   wsInbound, wsHead, squeeze, framesSent, frameStarts>>

\* A read or a write fails, or there is no random mask: nothing more is sent.
LinkBreaks ==
    /\ wsPhase \in {"upgrading", "reading", "open"}
    /\ WsFails("io")
    /\ UNCHANGED <<wsKey, wsOffer, wsToken, wsPath, wsTarget, wsReply, wsInbound, wsHead,
                   squeeze, outward>>

HsNext ==
    \/ \E e \in Endpoints, p \in WsPaths, t \in WsTokens, offer \in BOOLEAN :
          WsConnect(e, p, t, offer)
    \/ Upgrade \/ ReadByte \/ ReadEnd \/ Verify
    \/ \E op \in {"text", "binary", "ping", "pong", "close"}, p \in WsPayloads :
          SendFrame(op, p)
    \/ WritePiece \/ LinkBreaks

HsSpec == HsInit /\ [][HsNext]_hsVars

-----------------------------------------------------------------------------
(* What the server makes of it (external). *)

HexValue(c) == IF c < 65 THEN c - 48 ELSE c - 55

UrlDecoded(s) ==
    LET from[i \in 1 .. Len(s) + 1] ==
            IF i > Len(s) THEN <<>>
            ELSE IF s[i] = Percent /\ i + 2 <= Len(s)
            THEN <<16 * HexValue(s[i + 1]) + HexValue(s[i + 2])>> \o from[i + 3]
            ELSE <<s[i]>> \o from[i + 1]
    IN  from[1]

\* The parameters of a target: what lies between its separators.
ParamsOf(target) ==
    LET marks == {i \in DOMAIN target : target[i] \in {Question, Ampersand}}
                 \cup {Len(target) + 1}
    IN {SubSeq(target, m[1] + 1, m[2] - 1) :
           m \in {n \in marks \X marks :
                     n[1] < n[2] /\ \A k \in marks : ~(n[1] < k /\ k < n[2])}}

\* RFC 6455, 5.2: the frame that begins behind the first b bytes.
Opcode(bytes, b) == bytes[b + 1] % 64
HasRsv1(bytes, b) == bytes[b + 1] >= 192
Field(bytes, b) == bytes[b + 2] - 128
LengthBytes(bytes, b) ==
    IF Field(bytes, b) = 126 THEN 2 ELSE IF Field(bytes, b) = 127 THEN 8 ELSE 0
WordAt(bytes, k) == 256 * bytes[k] + bytes[k + 1]
PayloadLen(bytes, b) ==
    IF Field(bytes, b) = 126 THEN WordAt(bytes, b + 3)
    ELSE IF Field(bytes, b) = 127 THEN TwoToThe16 * WordAt(bytes, b + 7) + WordAt(bytes, b + 9)
    ELSE Field(bytes, b)
MaskAt(bytes, b) == b + 2 + LengthBytes(bytes, b)
FrameEnd(bytes, b) == MaskAt(bytes, b) + 4 + PayloadLen(bytes, b)
Unmasked(bytes, b) ==
    [k \in 1 .. PayloadLen(bytes, b) |->
        ByteXor(bytes[MaskAt(bytes, b) + 4 + k], bytes[MaskAt(bytes, b) + ((k - 1) % 4) + 1])]

-----------------------------------------------------------------------------

\* Where the server's head ends, as the server meant it.
HeadEnds(r) == {i \in 4 .. Len(r) : SubSeq(r, i - 3, i) = EndOfHead}

\* A connection opens only on a 101 that answers this very key; it compresses
\* only when both sides said so; and all the server sent behind its head is
\* still there for the frame reader.
UpgradeProven ==
    wsPhase = "open" =>
        \E end \in HeadEnds(wsReply) :
            LET head == {wsReply[i] : i \in 1 .. end} IN
            /\ Atom("status", "101") \in head /\ Atom("accept", wsKey) \in head
            /\ squeeze => wsOffer /\ Atom("extensions", "deflate") \in head
            /\ \A before \in HeadEnds(wsReply) : end <= before
            /\ wsInbound = SubSeq(wsReply, end + 1, Len(wsReply))

\* The request's parameters are the path's own and the token, whatever bytes
\* the token has.
TokenArrives ==
    wsPhase \notin {"idle", "failed"} =>
        ParamsOf(wsTarget) = {TokenParam \o UrlEncoded(wsToken)} \cup ParamsOf(wsPath)
        /\ UrlDecoded(UrlEncoded(wsToken)) = wsToken
        /\ \A i \in DOMAIN wsTarget : wsTarget[i] > 32 /\ wsTarget[i] # Hash

\* Where the server, which begins with the first byte, expects the next frame,
\* the next frame begins, and what it unmasks is what was sent; a frame under way
\* it does not take for whole.
FramesArrive ==
    /\ Len(frameStarts) = Len(framesSent)
    /\ frameStarts # <<>> => frameStarts[1] = 0
    /\ \A i \in DOMAIN frameStarts :
          LET begin == frameStarts[i]
              next == IF i < Len(frameStarts) THEN frameStarts[i + 1] ELSE Len(onWire)
              sent == framesSent[i]
          IN  IF i = Len(frameStarts) /\ pieces # <<>>
              THEN Len(onWire) > begin => FrameEnd(onWire, begin) > Len(onWire)
              ELSE /\ FrameEnd(onWire, begin) = next
                   /\ Opcode(onWire, begin) = OpCode(sent.op)
                   /\ HasRsv1(onWire, begin) <=> Squeezed(sent.op)
                   /\ Unmasked(onWire, begin) =
                         IF Squeezed(sent.op) THEN DeflatedPayload(sent.payload) ELSE sent.payload

=============================================================================

-------------------------- MODULE FrameReader_proofs --------------------------
(***************************************************************************)
(* The WebSocket reader, for every limit, every kind of frames and any     *)
(* number of them, cut anywhere: theorems about FrameReader.               *)
(*                                                                         *)
(* Its memory: a payload is admitted once, by its header, against what is  *)
(* retained then; that it still fits when its last byte comes is what      *)
(* takes an invariant, since calls come and go in between.                 *)
(*                                                                         *)
(* What it delivers: the reader is some frames behind the server, and its  *)
(* state is the account the server kept when it had sent just those.       *)
(***************************************************************************)
EXTENDS FrameReader, SequenceTheorems, TLAPS

\* A byte on its way belongs to a frame that was sent.
ByteOf(frames) == (1..Len(frames)) \X Nat

Buffers ==
    /\ sent \in Seq(Frames)
    /\ wire \in Seq(ByteOf(sent))
    /\ header \in Seq(ByteOf(sent))
    /\ payload \in Seq(ByteOf(sent))
    /\ message \in Seq(ByteOf(sent))

\* Payload is read for a header that was accepted, and no more than it announced.
PayloadAdmitted ==
    payload # <<>> => HeaderDone /\ ~TooLong /\ Len(payload) <= Frame.len

MemInv == Buffers /\ Len(message) <= MaxPayload /\ PayloadAdmitted

\* Whatever two bytes are taken for a header, they are a frame.
LEMMA FrameIsKind ==
    ASSUME Buffers, HeaderKnown
    PROVE  Frame \in FrameKind
<1>1. Garbage \in FrameKind
  BY DEF Garbage, FrameKind
<1>2. header[1] \in ByteOf(sent)
  BY DEF Buffers, HeaderKnown
<1>3. header[1][1] \in 1..Len(sent)
  BY <1>2 DEF ByteOf
<1>4. sent[header[1][1]] \in FrameKind
  BY <1>3, FrameReaderAssumption DEF Buffers
<1> QED
  BY <1>1, <1>4 DEF Frame

\* What is retained of a message and the payload in hand fit together.
LEMMA MemInvBounds == MemInv => MemoryBounded
<1> SUFFICES ASSUME MemInv PROVE MemoryBounded
  OBVIOUS
<1>1. Len(message) \in Nat /\ Len(payload) \in Nat
  BY DEF MemInv, Buffers
<1>2. CASE payload = <<>>
  BY <1>1, <1>2, FrameReaderAssumption DEF MemInv, MemoryBounded
<1>3. CASE payload # <<>>
  <2>1. HeaderDone /\ ~TooLong /\ Len(payload) <= Frame.len
    BY <1>3 DEF MemInv, PayloadAdmitted
  <2>2. Frame.len \in Nat
    BY <2>1, FrameIsKind DEF MemInv, HeaderDone, FrameKind
  <2>3. ~Control(Frame) => Frame.len <= MaxPayload - Len(message)
    BY <1>1, <2>1, <2>2, FrameReaderAssumption DEF TooLong, Oversize
  <2> QED
    BY <1>1, <2>1, <2>2, <2>3, FrameReaderAssumption DEF MemInv, MemoryBounded
<1> QED
  BY <1>2, <1>3

LEMMA InitMemInv == FrInit => MemInv
  BY FrameReaderAssumption DEF FrInit, MemInv, Buffers, PayloadAdmitted

\* The frame being read, and the verdicts on it, depend on the reader's own
\* state and on the frames whose bytes it has.
LEMMA SameVerdicts ==
    ASSUME Buffers, UNCHANGED <<header, message, started>>,
           HeaderKnown => sent'[header[1][1]] = sent[header[1][1]]
    PROVE  /\ HeaderDone' = HeaderDone
           /\ HeaderKnown => Frame' = Frame
           /\ HeaderDone => TooLong' = TooLong
<1>1. HeaderKnown' = HeaderKnown /\ IsOpen' = IsOpen
  BY DEF HeaderKnown, IsOpen
<1>2. HeaderKnown => Frame' = Frame
  BY DEF Frame, Garbage
<1>3. Refused' = Refused
  BY <1>1, <1>2 DEF Refused, Illegal, Control
<1>4. HeaderDone' = HeaderDone
  BY <1>1, <1>2, <1>3 DEF HeaderDone, HeaderLen
<1>5. HeaderDone => TooLong' = TooLong
  BY <1>2, <1>4 DEF TooLong, HeaderDone, Oversize, Control
<1> QED
  BY <1>2, <1>4, <1>5

\* The server's side: more frames, and the loss of what is on the wire.
LEMMA SendKeepsMemInv ==
    ASSUME MemInv, NEW f \in Frames, Send(f)
    PROVE  MemInv'
<1>1. sent' \in Seq(Frames) /\ Len(sent') = Len(sent) + 1
  BY DEF MemInv, Buffers, Send
<1>2. ByteOf(sent) \subseteq ByteOf(sent')
  BY <1>1 DEF ByteOf, MemInv, Buffers
<1>3. f.len \in Nat /\ HeaderLen(f) \in Nat
  BY FrameReaderAssumption DEF FrameKind, HeaderLen
<1>4. Bytes(Len(sent'), f) \in Seq(ByteOf(sent'))
  <2> DEFINE m == HeaderLen(f) + f.len
  <2>1. m \in Nat /\ Len(sent') \in 1..Len(sent')
    BY <1>1, <1>3 DEF MemInv, Buffers
  <2>2. \A k \in 1..m : <<Len(sent'), k>> \in ByteOf(sent')
    BY <2>1 DEF ByteOf
  <2> QED
    BY <2>1, <2>2 DEF Bytes
<1>5. UNCHANGED <<header, payload, message, started>>
  BY DEF Send, readerVars, frameVars, messageVars
<1>6. Buffers'
  <2>1. wire' \in Seq(ByteOf(sent'))
    BY <1>2, <1>4 DEF Send, MemInv, Buffers
  <2> QED
    BY <1>1, <1>2, <1>5, <2>1 DEF MemInv, Buffers
<1>7. HeaderKnown => sent'[header[1][1]] = sent[header[1][1]]
  <2> SUFFICES ASSUME HeaderKnown PROVE sent'[header[1][1]] = sent[header[1][1]]
    OBVIOUS
  <2>1. header[1] \in ByteOf(sent)
    BY DEF MemInv, Buffers, HeaderKnown
  <2>2. header[1][1] \in 1..Len(sent)
    BY <2>1 DEF ByteOf
  <2> QED
    BY <2>2 DEF Send, MemInv, Buffers
<1>8. PayloadAdmitted'
  <2>1. payload # <<>> => HeaderDone' /\ ~TooLong' /\ Frame' = Frame
    BY <1>5, <1>7, SameVerdicts DEF MemInv, PayloadAdmitted, HeaderDone
  <2> QED
    BY <1>5, <2>1 DEF MemInv, PayloadAdmitted
<1> QED
  BY <1>5, <1>6, <1>8 DEF MemInv

\* The steps that leave every buffer of the reader as it is.
LEMMA BuffersStay ==
    ASSUME MemInv, UNCHANGED <<sent, header, payload, message, started>>,
           wire' \in Seq(ByteOf(sent))
    PROVE  MemInv'
<1>1. PayloadAdmitted'
  <2>1. payload # <<>> => HeaderDone' /\ ~TooLong' /\ Frame' = Frame
    BY SameVerdicts DEF MemInv, PayloadAdmitted, HeaderDone
  <2> QED
    BY <2>1 DEF MemInv, PayloadAdmitted
<1> QED
  BY <1>1 DEF MemInv, Buffers

\* One read of the socket adds no more than the part lacks (fill_frame_part).
LEMMA ReadKeepsMemInv ==
    ASSUME MemInv, NEW n \in 1..Len(wire), Read(n)
    PROVE  MemInv'
<1> DEFINE taken == SubSeq(wire, 1, n)
<1>0. Buffers /\ UNCHANGED <<sent, message, started>>
  BY DEF MemInv, Read, serverVars, messageVars
<1>1. /\ taken \in Seq(ByteOf(sent)) /\ Len(taken) = n
      /\ SubSeq(wire, n + 1, Len(wire)) \in Seq(ByteOf(sent))
  BY <1>0 DEF Buffers
<1>2. CASE HeaderDone
  <2>1. payload' = payload \o taken /\ UNCHANGED header
    BY <1>2 DEF Read
  <2>2. ~TooLong /\ HeaderKnown
    BY <1>2 DEF Read, Reading, HeaderDone
  <2>3. n <= Frame.len - Len(payload)
    BY <1>2, <2>2 DEF Read, Lacking
  <2>4. Frame.len \in Nat
    BY <1>0, <2>2, FrameIsKind DEF FrameKind
  <2>5. payload' \in Seq(ByteOf(sent)) /\ Len(payload') = Len(payload) + n
    BY <1>0, <1>1, <2>1 DEF Buffers
  <2>6. Len(payload') <= Frame.len
    BY <1>0, <2>3, <2>4, <2>5 DEF Buffers
  <2>7. HeaderDone' /\ ~TooLong' /\ Frame' = Frame
    BY <1>0, <1>2, <2>1, <2>2, SameVerdicts
  <2>8. Buffers'
    BY <1>0, <1>1, <2>1, <2>5 DEF Buffers, Read
  <2> QED
    BY <1>0, <2>6, <2>7, <2>8 DEF MemInv, PayloadAdmitted
<1>3. CASE ~HeaderDone
  <2>1. payload = <<>> /\ payload' = payload /\ header' = header \o taken
    BY <1>3 DEF Read, MemInv, PayloadAdmitted
  <2>2. Buffers'
    BY <1>0, <1>1, <2>1 DEF Buffers, Read
  <2> QED
    BY <1>0, <2>1, <2>2 DEF MemInv, PayloadAdmitted
<1> QED
  BY <1>2, <1>3

\* A frame that is complete leaves its buffers; what it leaves in the message fits.
LEMMA FrameKeepsMemInv ==
    ASSUME MemInv, ControlFrame \/ DataFrame
    PROVE  MemInv'
<1>0. Buffers /\ UNCHANGED <<sent, wire>> /\ header' = <<>> /\ payload' = <<>>
  BY DEF MemInv, ControlFrame, DataFrame, serverVars
<1>1. message' \in Seq(ByteOf(sent)) /\ Len(message') <= MaxPayload
  <2>1. CASE message' = <<>>
    BY <2>1, EmptySeq, FrameReaderAssumption
  <2>3. CASE message' = message
    BY <1>0, <2>3 DEF MemInv, Buffers
  <2>2. CASE DataFrame /\ message' = message \o payload
    <3>1. HeaderDone /\ ~Control(Frame)
      BY <2>2 DEF DataFrame, FrameDone
    <3>2. Len(message) + Len(payload) <= MaxPayload
      BY <3>1, MemInvBounds DEF MemoryBounded
    <3> QED
      BY <1>0, <2>2, <3>2 DEF Buffers
  <2> QED
    BY <2>1, <2>2, <2>3 DEF ControlFrame, DataFrame, messageVars
<1> QED
  BY <1>0, <1>1 DEF MemInv, Buffers, PayloadAdmitted

LEMMA NextMemInv == MemInv /\ [FrNext]_frVars => MemInv'
<1> SUFFICES ASSUME MemInv, [FrNext]_frVars PROVE MemInv'
  OBVIOUS
<1> USE DEF serverVars, frameVars, messageVars, callVars, readerVars
<1>0. wire \in Seq(ByteOf(sent))
  BY DEF MemInv, Buffers
<1>1. CASE HangUp
  <2>1. wire' \in Seq(ByteOf(sent))
    BY <1>0, <1>1 DEF HangUp
  <2> QED
    BY <1>1, <2>1, BuffersStay DEF HangUp
<1>2. CASE Call \/ TimedOut \/ ReadFails \/ HeaderRefused \/ FrameTooLong \/ EndOfStream
  BY <1>0, <1>2, BuffersStay
  DEF Call, TimedOut, ReadFails, HeaderRefused, FrameTooLong, Fail, EndOfStream
<1>3. CASE UNCHANGED frVars
  BY <1>0, <1>3, BuffersStay DEF frVars
<1> QED
  BY <1>1, <1>2, <1>3, SendKeepsMemInv, ReadKeepsMemInv, FrameKeepsMemInv DEF FrNext

\* "The sum of retained data payloads is at most 1 MiB" (ws.rs), in every state
\* between two bytes and whatever the server sends.
THEOREM ReaderMemoryBounded == FrSpec => []MemoryBounded
  BY InitMemInv, NextMemInv, MemInvBounds, PTL DEF FrSpec

(***************************************************************************)
(* What is delivered.                                                      *)
(*                                                                         *)
(* The server is ahead of the reader: what it promised after each frame is *)
(* a history, h, of accounts, one for each frame sent; the reader's state  *)
(* is the account of the frames it has finished, c of them.  off has the   *)
(* place in the stream where each frame ends.                              *)
(***************************************************************************)

Messages == [op : {"text", "cont", "ping", "close", "reserved"}, data : Seq(Nat \X Nat)]

Accounts == [promised : Seq(Messages), opened : Seq(Nat \X Nat), openOp : Nat, broken : BOOLEAN]

Size(f) == HeaderLen(f) + f.len

\* The account takes frame f for a breach.
Breach(f, a) == a.broken \/ Forbidden(f, a.openOp # 0, Len(a.opened))

\* The account after frame i of fs: Promise, as a function of the account
\* before it.
First(fs, i, a) == IF a.openOp = 0 THEN fs[i] ELSE fs[a.openOp]
Legible(fs, i, a) == First(fs, i, a).rsv1 => First(fs, i, a).inflates
Whole(fs, i, a) == a.opened \o PayloadBytes(i, fs[i])

Verdict(fs, i, a) ==
    IF Breach(fs[i], a)
    THEN [promised |-> a.promised, opened |-> a.opened, openOp |-> a.openOp, broken |-> TRUE]
    ELSE IF Control(fs[i])
    THEN [promised |-> Append(a.promised, [op |-> fs[i].op, data |-> PayloadBytes(i, fs[i])]),
          opened |-> a.opened, openOp |-> a.openOp, broken |-> fs[i].op = "close"]
    ELSE [promised |-> IF fs[i].fin /\ Legible(fs, i, a)
                       THEN Append(a.promised, [op |-> "text", data |-> Whole(fs, i, a)])
                       ELSE a.promised,
          opened |-> IF fs[i].fin THEN <<>> ELSE Whole(fs, i, a),
          openOp |-> IF fs[i].fin THEN 0 ELSE IF a.openOp = 0 THEN i ELSE a.openOp,
          broken |-> fs[i].fin /\ ~Legible(fs, i, a)]

\* What came back from read_message is what the server said, as far as it goes.
DeliveredAsSent == IsPrefix(delivered, promised)

\* Who gives the connection up has all that was said before the server broke
\* off, or has lost the socket.
EndsForCause == ended => eof \/ (broken /\ delivered = promised)

Begins(s, t) == Len(s) <= Len(t) /\ \A i \in 1..Len(s) : s[i] = t[i]

\* The server's side.
History(off, h) ==
    /\ off \in [0..Len(sent) -> Nat] /\ h \in [0..Len(sent) -> Accounts]
    /\ \A k \in 1..Len(sent) : off[k] = off[k - 1] + Size(sent[k]) /\ h[k] = Verdict(sent, k, h[k - 1])
    /\ h[Len(sent)] = [promised |-> promised, opened |-> opened, openOp |-> openOp, broken |-> broken]
    /\ \A k \in 0..Len(sent) :
          /\ off[k] <= off[Len(sent)] /\ h[k].openOp <= k
          /\ Begins(h[k].promised, promised)
          /\ h[k].broken => broken /\ h[k].promised = promised

Taken(c, off) == off[c] + Len(header) + Len(payload)

\* The bytes in hand are the first of frame c + 1, and those on the wire the
\* ones behind them, as far as they still arrive.
Stream(c, off) ==
    /\ \A k \in c + 1..Len(sent) : \A b \in 1..Size(sent[k]) :
          off[k - 1] + b - Taken(c, off) \in 1..Len(wire) =>
              wire[off[k - 1] + b - Taken(c, off)] = <<k, b>>
    /\ Taken(c, off) + Len(wire) <= off[Len(sent)]
    /\ ~eof => Taken(c, off) + Len(wire) = off[Len(sent)]
    /\ \A j \in 1..Len(header) : header[j] = <<c + 1, j>>
    /\ header # <<>> => c < Len(sent) /\ Len(header) <= HeaderLen(sent[c + 1])
    /\ payload # <<>> => header # <<>> /\ Len(header) = HeaderLen(sent[c + 1])
    /\ \A j \in 1..Len(payload) : payload[j] = <<c + 1, HeaderLen(sent[c + 1]) + j>>

\* The reader's side.
Reader(c, h) ==
    /\ delivered = h[c].promised
    /\ ~ended => message = h[c].opened /\ started = h[c].openOp /\ ~h[c].broken
    /\ ended => ~inCall /\ (eof \/ (broken /\ delivered = promised))

Tracks(c, off, h) ==
    c \in 0..Len(sent) /\ History(off, h) /\ Stream(c, off) /\ Reader(c, h)

TrackInv == \E c, off, h : Tracks(c, off, h)

LEMMA SizeType == ASSUME NEW f \in FrameKind PROVE HeaderLen(f) \in {2, 3} /\ f.len \in Nat /\ Size(f) \in Nat
  BY DEF FrameKind, HeaderLen, Size

LEMMA PayloadType ==
    ASSUME NEW i \in Nat, NEW f \in FrameKind
    PROVE  PayloadBytes(i, f) \in Seq(Nat \X Nat) /\ Len(PayloadBytes(i, f)) = f.len
<1>1. \A k \in 1..f.len : <<i, HeaderLen(f) + k>> \in Nat \X Nat
  BY SizeType
<1> QED
  BY <1>1, SizeType DEF PayloadBytes

LEMMA BeginsIsPrefix ==
    ASSUME NEW S, NEW s \in Seq(S), NEW t \in Seq(S), Begins(s, t)
    PROVE  IsPrefix(s, t)
  BY DEF Begins, IsPrefix

\* What the history says of one frame.
LEMMA HistoryAt ==
    ASSUME Buffers, NEW off, NEW h, History(off, h), NEW k \in 0..Len(sent)
    PROVE  /\ Len(sent) \in Nat /\ off[k] \in Nat /\ off[k] <= off[Len(sent)] /\ off[Len(sent)] \in Nat
           /\ h[k] \in Accounts /\ h[Len(sent)] \in Accounts /\ h[k].openOp <= k
           /\ Begins(h[k].promised, promised)
           /\ h[k].broken => broken /\ h[k].promised = promised
           /\ promised = h[Len(sent)].promised /\ opened = h[Len(sent)].opened
           /\ openOp = h[Len(sent)].openOp /\ broken = h[Len(sent)].broken
<1>1. Len(sent) \in Nat /\ Len(sent) \in 0..Len(sent)
  BY DEF Buffers
<1>2. off[k] \in Nat /\ off[Len(sent)] \in Nat /\ h[k] \in Accounts /\ h[Len(sent)] \in Accounts
  BY <1>1 DEF History
<1>3. /\ off[k] <= off[Len(sent)] /\ h[k].openOp <= k
      /\ Begins(h[k].promised, promised)
      /\ h[k].broken => broken /\ h[k].promised = promised
  BY DEF History
<1>4. /\ promised = h[Len(sent)].promised /\ opened = h[Len(sent)].opened
      /\ openOp = h[Len(sent)].openOp /\ broken = h[Len(sent)].broken
  BY DEF History
<1> QED
  BY <1>1, <1>2, <1>3, <1>4

\* The reader is behind the server, and it gives a connection up only when it
\* has all of it, or the connection is cut.
Behind ==
    /\ delivered \in Seq(Messages) /\ promised \in Seq(Messages) /\ broken \in BOOLEAN
    /\ Begins(delivered, promised)
    /\ inCall => ~ended

LEMMA TrackedProperties == Buffers /\ TrackInv => Behind /\ EndsForCause
<1> SUFFICES ASSUME Buffers, NEW c, NEW off, NEW h, Tracks(c, off, h)
             PROVE  Behind /\ EndsForCause
  BY DEF TrackInv
<1>1. History(off, h) /\ c \in 0..Len(sent) /\ delivered = h[c].promised
  BY DEF Tracks, Reader
<1>2. /\ h[c] \in Accounts /\ h[Len(sent)] \in Accounts
      /\ Begins(delivered, promised) /\ promised = h[Len(sent)].promised
      /\ broken = h[Len(sent)].broken
  BY <1>1, HistoryAt
<1>3. delivered \in Seq(Messages) /\ promised \in Seq(Messages) /\ broken \in BOOLEAN
  BY <1>1, <1>2 DEF Accounts
<1>4. Behind
  BY <1>2, <1>3 DEF Behind, Tracks, Reader
<1>5. EndsForCause
  BY DEF Tracks, Reader, EndsForCause
<1> QED
  BY <1>4, <1>5

LEMMA BehindIsPrefix == Behind => DeliveredAsSent
  BY BeginsIsPrefix DEF Behind, DeliveredAsSent

LEMMA InitTracks == FrInit => TrackInv
<1> SUFFICES ASSUME FrInit PROVE TrackInv
  OBVIOUS
<1> DEFINE a == [promised |-> <<>>, opened |-> <<>>, openOp |-> 0, broken |-> FALSE]
           off == [k \in {0} |-> 0]
           h == [k \in {0} |-> a]
<1>1. /\ sent = <<>> /\ promised = <<>> /\ opened = <<>> /\ openOp = 0 /\ broken = FALSE
      /\ wire = <<>> /\ header = <<>> /\ payload = <<>> /\ message = <<>> /\ started = 0
      /\ inCall = FALSE /\ delivered = <<>> /\ ended = FALSE
  BY DEF FrInit
<1>2. Len(sent) = 0 /\ 0..Len(sent) = {0} /\ 1..Len(sent) = {}
  BY <1>1
<1>3. a \in Accounts
  BY EmptySeq DEF Accounts
<1>4. Begins(a.promised, promised)
  BY <1>1 DEF Begins
<1>5. History(off, h)
  <2> HIDE DEF a
  <2>1. off[0] = 0 /\ h[0] = a
    OBVIOUS
  <2>2. off \in [0..Len(sent) -> Nat] /\ h \in [0..Len(sent) -> Accounts]
    BY <1>2, <1>3
  <2>3. h[Len(sent)] = [promised |-> promised, opened |-> opened, openOp |-> openOp, broken |-> broken]
    BY <1>1, <1>2, <2>1 DEF a
  <2>4. \A k \in 0..Len(sent) :
          /\ off[k] <= off[Len(sent)] /\ h[k].openOp <= k
          /\ Begins(h[k].promised, promised)
          /\ h[k].broken => broken /\ h[k].promised = promised
    <3>1. a.openOp = 0 /\ ~a.broken
      BY DEF a
    <3> HIDE DEF off, h
    <3> QED
      BY <1>2, <1>4, <2>1, <3>1
  <2> HIDE DEF off, h
  <2> QED
    BY <1>2, <2>2, <2>3, <2>4 DEF History
<1>6. Stream(0, off)
  BY <1>1, <1>2 DEF Stream, Taken
<1>7. Reader(0, h)
  BY <1>1 DEF Reader
<1>8. Tracks(0, off, h)
  BY <1>2, <1>5, <1>6, <1>7 DEF Tracks
<1> QED
  BY <1>8 DEF TrackInv

\* The frame in hand is the one behind those that are finished.
LEMMA FrameInHand ==
    ASSUME NEW c, NEW off, NEW h, Tracks(c, off, h), Buffers, header # <<>>
    PROVE  /\ c + 1 \in 1..Len(sent) /\ sent[c + 1] \in FrameKind
           /\ HeaderKnown => Frame = sent[c + 1]
<1>1. c + 1 \in 1..Len(sent)
  BY DEF Tracks, Stream, Buffers
<1>2. HeaderKnown => header[1] = <<c + 1, 1>> /\ header[2] = <<c + 1, 2>>
  BY DEF HeaderKnown, Tracks, Stream, Buffers
<1> QED
  BY <1>1, <1>2, FrameReaderAssumption DEF Frame, Buffers

\* The server's next account is what the frame makes of the last one.
LEMMA PromiseIsVerdict ==
    ASSUME Buffers, NEW off, NEW h, History(off, h), NEW f \in Frames, Send(f),
           NEW n \in Nat, n = Len(sent)
    PROVE  [promised |-> promised', opened |-> opened', openOp |-> openOp', broken |-> broken']
             = Verdict(sent', n + 1, h[n])
<1>1. h[n] = [promised |-> promised, opened |-> opened, openOp |-> openOp, broken |-> broken]
  BY DEF History
<1>0. /\ h[n].promised = promised /\ h[n].opened = opened
      /\ h[n].openOp = openOp /\ h[n].broken = broken
  BY <1>1
<1>2. Len(sent') = n + 1 /\ sent'[n + 1] = f /\ \A i \in 1..n : sent'[i] = sent[i]
  BY DEF Send, Buffers
<1>3. openOp \in Nat /\ openOp <= n /\ h[n] \in Accounts
  <2>1. n \in 0..Len(sent)
    OBVIOUS
  <2>2. h[n] \in Accounts /\ h[n].openOp <= n /\ openOp = h[n].openOp
    BY <2>1, HistoryAt
  <2> QED
    BY <2>2 DEF Accounts
<1>4. Promise(n + 1, f)
  BY <1>2 DEF Send
<1>5. First(sent', n + 1, h[n]) = IF openOp = 0 THEN f ELSE sent[openOp]
  BY <1>1, <1>2, <1>3 DEF First
<1>6. Legible(sent', n + 1, h[n]) = LET first == IF openOp = 0 THEN f ELSE sent[openOp]
                              IN  first.rsv1 => first.inflates
  BY <1>5 DEF Legible
<1>7. Whole(sent', n + 1, h[n]) = opened \o PayloadBytes(n + 1, f)
  BY <1>1, <1>2 DEF Whole
<1>8. Breach(f, h[n]) <=> broken \/ Forbidden(f, openOp # 0, Len(opened))
  BY <1>0 DEF Breach
<1>9. Breach(sent'[n + 1], h[n]) <=> Breach(f, h[n])
  BY <1>2 DEF Breach
<1>10. CASE Breach(f, h[n])
  <2>1. broken' = TRUE /\ UNCHANGED <<promised, opened, openOp>>
    BY <1>4, <1>8, <1>10 DEF Promise
  <2> QED
    BY <1>0, <1>9, <1>10, <2>1 DEF Verdict
<1>11. CASE ~Breach(f, h[n]) /\ Control(f)
  <2>1. /\ promised' = Append(promised, [op |-> f.op, data |-> PayloadBytes(n + 1, f)])
        /\ broken' = (f.op = "close")
        /\ UNCHANGED <<opened, openOp>>
    BY <1>4, <1>8, <1>11 DEF Promise
  <2> QED
    BY <1>1, <1>2, <1>9, <1>11, <2>1 DEF Verdict
<1>12. CASE ~Breach(f, h[n]) /\ ~Control(f)
  <2>1. /\ openOp' = IF f.fin THEN 0 ELSE IF openOp = 0 THEN n + 1 ELSE openOp
        /\ opened' = IF f.fin THEN <<>> ELSE Whole(sent', n + 1, h[n])
        /\ promised' = IF f.fin /\ Legible(sent', n + 1, h[n])
                       THEN Append(promised, [op |-> "text", data |-> Whole(sent', n + 1, h[n])])
                       ELSE promised
        /\ broken' = (f.fin /\ ~Legible(sent', n + 1, h[n]))
    BY <1>4, <1>6, <1>7, <1>8, <1>12 DEF Promise
  <2>2. Verdict(sent', n + 1, h[n]) =
         [promised |-> IF f.fin /\ Legible(sent', n + 1, h[n])
                       THEN Append(promised, [op |-> "text", data |-> Whole(sent', n + 1, h[n])])
                       ELSE promised,
          opened |-> IF f.fin THEN <<>> ELSE Whole(sent', n + 1, h[n]),
          openOp |-> IF f.fin THEN 0 ELSE IF openOp = 0 THEN n + 1 ELSE openOp,
          broken |-> f.fin /\ ~Legible(sent', n + 1, h[n])]
    BY <1>1, <1>2, <1>9, <1>12 DEF Verdict
  <2> QED
    BY <2>1, <2>2
<1> QED
  BY <1>10, <1>11, <1>12

\* An account of typed parts makes a typed account.
LEMMA VerdictType ==
    ASSUME NEW fs, NEW i \in Nat \ {0}, NEW a \in Accounts, fs[i] \in FrameKind
    PROVE  /\ Verdict(fs, i, a) \in Accounts
           /\ Verdict(fs, i, a).openOp \in {0, i, a.openOp}
           /\ a.broken => /\ Verdict(fs, i, a).broken
                          /\ Verdict(fs, i, a).promised = a.promised
           /\ Begins(a.promised, Verdict(fs, i, a).promised)
<1>1. /\ a.promised \in Seq(Messages) /\ a.opened \in Seq(Nat \X Nat)
      /\ a.openOp \in Nat /\ a.broken \in BOOLEAN
      /\ a = [promised |-> a.promised, opened |-> a.opened, openOp |-> a.openOp, broken |-> a.broken]
  BY DEF Accounts
<1>2. PayloadBytes(i, fs[i]) \in Seq(Nat \X Nat)
  BY PayloadType
<1>3. Whole(fs, i, a) \in Seq(Nat \X Nat)
  BY <1>1, <1>2 DEF Whole
<1>4. \A m \in Messages : /\ Append(a.promised, m) \in Seq(Messages)
                          /\ Begins(a.promised, Append(a.promised, m))
  BY <1>1 DEF Begins
<1>5. Begins(a.promised, a.promised)
  BY <1>1 DEF Begins
<1>6. CASE Breach(fs[i], a)
  <2>1. Verdict(fs, i, a) = [promised |-> a.promised, opened |-> a.opened, openOp |-> a.openOp, broken |-> TRUE]
    BY <1>1, <1>6 DEF Verdict
  <2> QED
    BY <1>1, <1>5, <2>1 DEF Accounts
<1>7. CASE ~Breach(fs[i], a) /\ Control(fs[i])
  <2>1. [op |-> fs[i].op, data |-> PayloadBytes(i, fs[i])] \in Messages
    BY <1>2 DEF Messages, FrameKind
  <2>2. ~a.broken
    BY <1>7 DEF Breach
  <2>3. Verdict(fs, i, a)
          = [promised |-> Append(a.promised, [op |-> fs[i].op, data |-> PayloadBytes(i, fs[i])]),
             opened |-> a.opened, openOp |-> a.openOp, broken |-> fs[i].op = "close"]
    BY <1>7 DEF Verdict
  <2> QED
    BY <1>1, <1>4, <2>1, <2>2, <2>3 DEF Accounts
<1>8. CASE ~Breach(fs[i], a) /\ ~Control(fs[i])
  <2>1. [op |-> "text", data |-> Whole(fs, i, a)] \in Messages
    BY <1>3 DEF Messages
  <2>2. ~a.broken
    BY <1>8 DEF Breach
  <2>3. PICK p \in {a.promised, Append(a.promised, [op |-> "text", data |-> Whole(fs, i, a)])},
             o \in {<<>>, Whole(fs, i, a)}, q \in {0, i, a.openOp}, b \in BOOLEAN :
        Verdict(fs, i, a) = [promised |-> p, opened |-> o, openOp |-> q, broken |-> b]
    BY <1>8 DEF Verdict
  <2>4. p \in Seq(Messages) /\ Begins(a.promised, p)
    BY <1>1, <1>4, <1>5, <2>1
  <2>5. q \in Nat
    BY <1>1
  <2>6. o \in Seq(Nat \X Nat)
    <3>1. <<>> \in Seq(Nat \X Nat)
      BY EmptySeq
    <3>2. o = <<>> \/ o = Whole(fs, i, a)
      OBVIOUS
    <3> QED
      BY <1>3, <3>1, <3>2
  <2> QED
    BY <2>2, <2>3, <2>4, <2>5, <2>6 DEF Accounts
<1> QED
  BY <1>6, <1>7, <1>8

\* An earlier account does not depend on the frames sent after it.
LEMMA VerdictStays ==
    ASSUME NEW fs, NEW gs, NEW k \in Nat \ {0}, NEW a \in Accounts, a.openOp < k,
           \A i \in 1..k : fs[i] = gs[i]
    PROVE  Verdict(fs, k, a) = Verdict(gs, k, a)
<1>1. fs[k] = gs[k] /\ (a.openOp # 0 => fs[a.openOp] = gs[a.openOp])
  <2>1. a.openOp \in Nat
    BY DEF Accounts
  <2> QED
    BY <2>1
<1>2. First(fs, k, a) = First(gs, k, a) /\ Whole(fs, k, a) = Whole(gs, k, a)
  BY <1>1 DEF Whole, First
<1>3. Legible(fs, k, a) <=> Legible(gs, k, a)
  BY <1>2 DEF Legible
<1> QED
  BY <1>1, <1>2, <1>3 DEF Verdict

\* A frame is sent: the history goes on, and so does the stream.
LEMMA SendTracks ==
    ASSUME Buffers, TrackInv, NEW f \in Frames, Send(f)
    PROVE  TrackInv'
<1>1. PICK c, off, h : Tracks(c, off, h)
  BY DEF TrackInv
<1>2. PICK n \in Nat : n = Len(sent)
  BY DEF Buffers
<1>3. PICK a : a = Verdict(sent', n + 1, h[n])
  OBVIOUS
<1>4. PICK off2 : off2 = [k \in 0..n + 1 |-> IF k <= n THEN off[k] ELSE off[n] + Size(f)]
  OBVIOUS
<1>5. PICK h2 : h2 = [k \in 0..n + 1 |-> IF k <= n THEN h[k] ELSE a]
  OBVIOUS
<1>6. /\ Len(sent') = n + 1 /\ sent'[n + 1] = f /\ \A i \in 1..n : sent'[i] = sent[i]
      /\ sent' \in Seq(Frames)
  BY <1>2 DEF Send, Buffers
<1>7. /\ \A k \in 0..n : off2[k] = off[k] /\ h2[k] = h[k]
      /\ off2[n + 1] = off[n] + Size(f) /\ h2[n + 1] = a
  BY <1>2, <1>4, <1>5
<1>8. f \in FrameKind /\ Size(f) \in Nat
  BY FrameReaderAssumption, SizeType
<1>9. History(off, h) /\ Stream(c, off) /\ Reader(c, h) /\ c \in 0..n
  BY <1>1, <1>2 DEF Tracks
<1>10. /\ a = [promised |-> promised', opened |-> opened', openOp |-> openOp', broken |-> broken']
       /\ h[n] = [promised |-> promised, opened |-> opened, openOp |-> openOp, broken |-> broken]
  BY <1>2, <1>3, <1>9, PromiseIsVerdict DEF History
<1>11. /\ h[n] \in Accounts /\ h[n].openOp <= n /\ off[n] \in Nat
       /\ \A k \in 0..n : /\ off[k] \in Nat /\ off[k] <= off[n] /\ h[k] \in Accounts
                          /\ h[k].openOp <= k /\ Begins(h[k].promised, promised)
                          /\ h[k].broken => broken /\ h[k].promised = promised
  <2>1. n \in 0..Len(sent)
    BY <1>2
  <2> QED
    BY <1>2, <1>9, <2>1, HistoryAt
<1>12. /\ a \in Accounts /\ a.openOp \in 0..n + 1
       /\ h[n].broken => a.broken /\ a.promised = h[n].promised
       /\ Begins(h[n].promised, a.promised)
  <2>1. sent'[n + 1] \in FrameKind /\ h[n].openOp \in Nat
    BY <1>6, <1>8, <1>11 DEF Accounts
  <2> QED
    BY <1>3, <1>11, <2>1, VerdictType
<1>13. History(off2, h2)'
  <2>1. \A k \in 0..n : /\ Begins(h[k].promised, promised')
                        /\ h[k].broken => broken' /\ h[k].promised = promised'
    <3> SUFFICES ASSUME NEW k \in 0..n
                 PROVE  /\ Begins(h[k].promised, promised')
                        /\ h[k].broken => broken' /\ h[k].promised = promised'
      OBVIOUS
    <3>1. Begins(h[k].promised, promised) /\ Begins(promised, promised')
      BY <1>10, <1>11, <1>12
    <3>2. /\ h[k].promised \in Seq(Messages) /\ promised \in Seq(Messages)
          /\ promised' \in Seq(Messages)
      <4>1. h[k] \in Accounts /\ promised = h[n].promised /\ promised' = a.promised
        BY <1>10, <1>11
      <4> QED
        BY <1>11, <1>12, <4>1 DEF Accounts
    <3>3. Begins(h[k].promised, promised')
      BY <3>1, <3>2 DEF Begins
    <3>4. h[k].broken => broken' /\ h[k].promised = promised'
      <4>1. /\ broken = h[n].broken /\ broken' = a.broken
            /\ promised = h[n].promised /\ promised' = a.promised
        BY <1>10
      <4> QED
        BY <1>11, <1>12, <4>1
    <3> QED
      BY <3>3, <3>4
  <2>2. off2 \in [0..n + 1 -> Nat] /\ h2 \in [0..n + 1 -> Accounts]
    BY <1>4, <1>5, <1>8, <1>11, <1>12
  <2>3. \A k \in 1..n + 1 : /\ off2[k] = off2[k - 1] + Size(sent'[k])
                            /\ h2[k] = Verdict(sent', k, h2[k - 1])
    <3> SUFFICES ASSUME NEW k \in 1..n + 1
                 PROVE  /\ off2[k] = off2[k - 1] + Size(sent'[k])
                        /\ h2[k] = Verdict(sent', k, h2[k - 1])
      OBVIOUS
    <3>1. CASE k = n + 1
      BY <1>2, <1>3, <1>6, <1>7, <3>1
    <3>2. CASE k \in 1..n
      <4>1. /\ k - 1 \in 0..n /\ k \in Nat \ {0} /\ k \in 0..n
            /\ \A i \in 1..k : sent'[i] = sent[i]
        BY <1>2, <1>6, <3>2
      <4>2. h[k - 1] \in Accounts /\ h[k - 1].openOp <= k - 1 /\ h[k - 1].openOp \in Nat
        BY <1>11, <4>1 DEF Accounts
      <4>3. Verdict(sent', k, h[k - 1]) = Verdict(sent, k, h[k - 1])
        BY <4>1, <4>2, VerdictStays
      <4>4. off[k] = off[k - 1] + Size(sent[k]) /\ h[k] = Verdict(sent, k, h[k - 1])
        BY <1>2, <1>9, <3>2 DEF History
      <4> QED
        BY <1>6, <1>7, <3>2, <4>1, <4>3, <4>4
    <3> QED
      BY <1>2, <3>1, <3>2
  <2>4. \A k \in 0..n + 1 :
          /\ off2[k] <= off2[n + 1] /\ h2[k].openOp <= k
          /\ Begins(h2[k].promised, promised')
          /\ h2[k].broken => broken' /\ h2[k].promised = promised'
    <3>1. a.promised = promised' /\ a.broken = broken' /\ a.promised \in Seq(Messages)
      BY <1>10, <1>12 DEF Accounts
    <3>2. Begins(a.promised, promised')
      BY <3>1 DEF Begins
    <3>3. \A k \in 0..n : off2[k] <= off2[n + 1]
      BY <1>7, <1>8, <1>11
    <3>4. \A k \in 0..n : /\ h2[k].openOp <= k /\ Begins(h2[k].promised, promised')
                          /\ h2[k].broken => broken' /\ h2[k].promised = promised'
      <4> SUFFICES ASSUME NEW k \in 0..n
                   PROVE  /\ h2[k].openOp <= k /\ Begins(h2[k].promised, promised')
                          /\ h2[k].broken => broken' /\ h2[k].promised = promised'
        OBVIOUS
      <4>1. h2[k] = h[k] /\ h[k].openOp <= k
        BY <1>7, <1>11
      <4>2. /\ Begins(h[k].promised, promised')
            /\ h[k].broken => broken' /\ h[k].promised = promised'
        BY <2>1
      <4> QED
        BY <4>1, <4>2
    <3>5. /\ off2[n + 1] <= off2[n + 1] /\ h2[n + 1].openOp <= n + 1
          /\ Begins(h2[n + 1].promised, promised')
          /\ h2[n + 1].broken => broken' /\ h2[n + 1].promised = promised'
      BY <1>7, <1>8, <1>11, <1>12, <3>1, <3>2
    <3>6. \A k \in 0..n + 1 : k \in 0..n \/ k = n + 1
      OBVIOUS
    <3> QED
      BY <3>3, <3>4, <3>5, <3>6
  <2> QED
    BY <1>6, <1>7, <1>10, <2>2, <2>3, <2>4 DEF History
<1>14. Stream(c, off2)'
  <2>1. /\ Taken(c, off2)' = Taken(c, off) /\ UNCHANGED <<header, payload, eof>> /\ ~eof
        /\ wire' = wire \o Bytes(n + 1, f)
    BY <1>6, <1>7, <1>9 DEF Taken, Send, readerVars, frameVars
  <2>2. Taken(c, off) \in Nat /\ Len(wire) \in Nat /\ Taken(c, off) + Len(wire) = off[n]
    <3>1. Len(header) \in Nat /\ Len(payload) \in Nat /\ Len(wire) \in Nat
      BY DEF Buffers
    <3>3. off[c] \in Nat
      BY <1>9, <1>11
    <3>2. Taken(c, off) + Len(wire) = off[n]
      BY <1>2, <1>9, <2>1 DEF Stream
    <3> QED
      BY <3>1, <3>2, <3>3 DEF Taken
  <2>3. /\ Len(wire') = Len(wire) + Size(f)
        /\ \A i \in 1..Len(wire) : wire'[i] = wire[i]
        /\ \A b \in 1..Size(f) : wire'[Len(wire) + b] = <<n + 1, b>>
    BY <1>8, <2>1, <2>2 DEF Bytes, Size, Buffers
  <2>4. ASSUME NEW k \in c + 1..n + 1, NEW b \in 1..Size(sent'[k]),
               off2[k - 1] + b - Taken(c, off) \in 1..Len(wire')
        PROVE  wire'[off2[k - 1] + b - Taken(c, off)] = <<k, b>>
    <3>1. CASE k = n + 1
      <4>1. off2[k - 1] + b - Taken(c, off) = Len(wire) + b
        BY <1>7, <1>8, <1>11, <2>2, <3>1
      <4> QED
        BY <1>6, <2>3, <3>1, <4>1
    <3>2. CASE k \in c + 1..n
      <4>1. /\ k \in 1..n /\ k - 1 \in 0..n /\ sent'[k] = sent[k]
            /\ off[k] = off[k - 1] + Size(sent[k]) /\ off[k] <= off[n]
            /\ off[k] \in Nat /\ off[k - 1] \in Nat
        BY <1>2, <1>6, <1>9, <1>11, <3>2 DEF History
      <4>2. Size(sent[k]) \in Nat
        BY <1>2, <4>1, FrameReaderAssumption, SizeType DEF Buffers
      <4>3. /\ off2[k - 1] = off[k - 1] /\ b \in 1..Size(sent[k])
            /\ off[k - 1] + b - Taken(c, off) \in 1..Len(wire)
        BY <1>7, <2>2, <2>4, <4>1, <4>2
      <4> QED
        BY <1>2, <1>9, <2>3, <3>2, <4>3 DEF Stream
    <3> QED
      BY <3>1, <3>2
  <2>5. /\ header # <<>> => c < n /\ sent'[c + 1] = sent[c + 1]
        /\ payload # <<>> => header # <<>>
    BY <1>2, <1>6, <1>9 DEF Stream
  <2>6. /\ \A j \in 1..Len(header) : header[j] = <<c + 1, j>>
        /\ header # <<>> => c < n + 1 /\ Len(header) <= HeaderLen(sent'[c + 1])
        /\ payload # <<>> => header # <<>> /\ Len(header) = HeaderLen(sent'[c + 1])
        /\ \A j \in 1..Len(payload) : payload[j] = <<c + 1, HeaderLen(sent'[c + 1]) + j>>
    <3>1. payload = <<>> => 1..Len(payload) = {}
      OBVIOUS
    <3> QED
      BY <1>9, <2>5, <3>1 DEF Stream
  <2>7. Taken(c, off) + Len(wire') = off2[n + 1]
    BY <1>7, <1>8, <1>11, <2>2, <2>3
  <2>8. \A k \in c + 1..n + 1 : \A b \in 1..Size(sent'[k]) :
           off2[k - 1] + b - Taken(c, off2)' \in 1..Len(wire') =>
               wire'[off2[k - 1] + b - Taken(c, off2)'] = <<k, b>>
    BY <2>1, <2>4
  <2>9. /\ Taken(c, off2)' + Len(wire') <= off2[n + 1]
        /\ ~eof' => Taken(c, off2)' + Len(wire') = off2[n + 1]
    BY <1>7, <1>8, <1>11, <2>1, <2>7
  <2>10. /\ \A j \in 1..Len(header') : header'[j] = <<c + 1, j>>
         /\ header' # <<>> => c < n + 1 /\ Len(header') <= HeaderLen(sent'[c + 1])
         /\ payload' # <<>> => header' # <<>> /\ Len(header') = HeaderLen(sent'[c + 1])
         /\ \A j \in 1..Len(payload') : payload'[j] = <<c + 1, HeaderLen(sent'[c + 1]) + j>>
    BY <2>1, <2>6
  <2> QED
    BY <1>6, <2>8, <2>9, <2>10 DEF Stream
<1>15. Reader(c, h2)'
  BY <1>7, <1>9, <1>10, <1>11, <1>12 DEF Reader, Send, readerVars, messageVars, callVars
<1> QED
  <2>1. c \in 0..Len(sent')
    BY <1>6, <1>9
  <2> QED
    BY <1>13, <1>14, <1>15, <2>1 DEF Tracks, TrackInv


\* What a step of the reader does not touch keeps what is known of it.
LEMMA HistoryStays ==
    ASSUME NEW off, NEW h, History(off, h), UNCHANGED serverVars
    PROVE  History(off, h)'
  BY DEF History, serverVars, Verdict, First, Legible, Whole

LEMMA StreamStays ==
    ASSUME NEW c, NEW off, Stream(c, off), UNCHANGED <<sent, wire, header, payload>>, eof => eof'
    PROVE  Stream(c, off)'
  BY DEF Stream, Taken

\* The steps that leave the stream as it is, and how far it is read.
LEMMA CallTracks ==
    ASSUME TrackInv, \/ Call \/ TimedOut \/ ReadFails \/ EndOfStream
                     \/ UNCHANGED frVars
    PROVE  TrackInv'
<1>1. PICK c, off, h : Tracks(c, off, h)
  BY DEF TrackInv
<1> USE DEF Call, TimedOut, ReadFails, EndOfStream, frVars, readerVars,
            serverVars, frameVars, messageVars, callVars
<1>2. UNCHANGED serverVars /\ UNCHANGED <<sent, wire, header, payload>> /\ (eof => eof')
  OBVIOUS
<1>3. History(off, h)' /\ Stream(c, off)'
  BY <1>1, <1>2, HistoryStays, StreamStays DEF Tracks
<1>4. Reader(c, h)'
  BY <1>1 DEF Tracks, Reader, Reading
<1> QED
  BY <1>1, <1>2, <1>3, <1>4 DEF Tracks, TrackInv

\* The connection is cut: what still arrives is a beginning of what was on its way.
LEMMA HangUpTracks ==
    ASSUME Buffers, TrackInv, HangUp
    PROVE  TrackInv'
<1>1. PICK c, off, h : Tracks(c, off, h)
  BY DEF TrackInv
<1>2. UNCHANGED serverVars /\ UNCHANGED readerVars /\ eof'
  BY DEF HangUp
<1>3. PICK n \in 0..Len(wire) : wire' = SubSeq(wire, 1, n)
  BY DEF HangUp
<1>4. Len(wire') = n /\ n <= Len(wire) /\ Len(wire) \in Nat /\ \A i \in 1..n : wire'[i] = wire[i]
  BY <1>3 DEF Buffers
<1>5. UNCHANGED <<sent, header, payload>> /\ Taken(c, off)' = Taken(c, off)
  BY <1>2 DEF serverVars, readerVars, frameVars, Taken
<1>6. Taken(c, off) + Len(wire) <= off[Len(sent)] /\ Taken(c, off) \in Int /\ off[Len(sent)] \in Int
  <2>1. c \in 0..Len(sent) /\ Len(sent) \in 0..Len(sent) /\ History(off, h)
    BY <1>1 DEF Buffers, Tracks
  <2>2. off[c] \in Nat /\ off[Len(sent)] \in Nat
    BY <2>1 DEF History
  <2> QED
    BY <1>1, <2>2 DEF Tracks, Stream, Taken, Buffers
<1>7. Stream(c, off)'
  <2>1. \A k \in c + 1..Len(sent) : \A b \in 1..Size(sent[k]) :
           off[k - 1] + b - Taken(c, off) \in 1..n =>
               wire'[off[k - 1] + b - Taken(c, off)] = <<k, b>>
    <3>1. \A i \in 1..n : i \in 1..Len(wire) /\ wire'[i] = wire[i]
      BY <1>4
    <3> QED
      BY <1>1, <3>1 DEF Tracks, Stream
  <2>2. Taken(c, off) + n <= off[Len(sent)]
    BY <1>4, <1>6
  <2> QED
    BY <1>1, <1>2, <1>4, <1>5, <2>1, <2>2 DEF Tracks, Stream
<1>8. History(off, h)' /\ Reader(c, h)'
  BY <1>1, <1>2, HistoryStays DEF Tracks, Reader, serverVars, readerVars, messageVars, callVars
<1> QED
  BY <1>1, <1>5, <1>7, <1>8 DEF Tracks, TrackInv

\* One read: the bytes it takes are the next ones of the frame in hand.
LEMMA ReadTracks ==
    ASSUME MemInv, TrackInv, NEW n \in 1..Len(wire), Read(n)
    PROVE  TrackInv'
<1>1. PICK c, off, h : Tracks(c, off, h)
  BY DEF TrackInv
<1>2. /\ History(off, h) /\ Stream(c, off) /\ Reader(c, h) /\ Buffers /\ c \in Nat
      /\ UNCHANGED <<serverVars, eof, messageVars, failed, callVars>> /\ UNCHANGED sent
      /\ Len(sent) \in Nat /\ c <= Len(sent)
  BY <1>1 DEF Tracks, MemInv, Read, Buffers, serverVars
<1>3. /\ Len(wire) \in Nat /\ Len(wire') = Len(wire) - n /\ n <= Len(wire) /\ n \in Nat \ {0}
      /\ \A i \in 1..Len(wire) - n : wire'[i] = wire[n + i]
      /\ Len(SubSeq(wire, 1, n)) = n /\ \A i \in 1..n : SubSeq(wire, 1, n)[i] = wire[i]
      /\ SubSeq(wire, 1, n) \in Seq(ByteOf(sent))
  <2>1. Len(wire) \in Nat /\ wire \in Seq(ByteOf(sent)) /\ n <= Len(wire) /\ n \in Nat \ {0}
    BY <1>2 DEF Buffers
  <2>2. wire' = SubSeq(wire, n + 1, Len(wire))
    BY DEF Read
  <2>3. Len(wire') = Len(wire) - n /\ \A i \in 1..Len(wire) - n : wire'[i] = wire[n + i]
    BY <2>1, <2>2
  <2> QED
    BY <2>1, <2>3
<1>4. off[c] \in Nat /\ off[Len(sent)] \in Nat /\ Len(header) \in Nat /\ Len(payload) \in Nat
  <2>1. c \in 0..Len(sent) /\ Len(sent) \in 0..Len(sent)
    BY <1>2
  <2>2. off[c] \in Nat /\ off[Len(sent)] \in Nat
    BY <1>2, <2>1, HistoryAt
  <2> QED
    BY <1>2, <2>2 DEF Buffers
<1>5. Taken(c, off) = off[c] + Len(header) + Len(payload) /\ Taken(c, off) + Len(wire) <= off[Len(sent)]
  BY <1>2 DEF Taken, Stream
<1>6. c + 1 \in 1..Len(sent) /\ c < Len(sent) /\ sent[c + 1] \in FrameKind
  <2>1. c # Len(sent)
    BY <1>3, <1>4, <1>5
  <2>2. c + 1 \in 1..Len(sent)
    BY <1>2, <2>1
  <2> QED
    BY <1>2, <2>1, <2>2, FrameReaderAssumption DEF Buffers
<1>7. \A i \in 1..n : Len(header) + Len(payload) + i <= Size(sent[c + 1])
         => wire[i] = <<c + 1, Len(header) + Len(payload) + i>>
  <2> SUFFICES ASSUME NEW i \in 1..n, Len(header) + Len(payload) + i <= Size(sent[c + 1])
               PROVE  wire[i] = <<c + 1, Len(header) + Len(payload) + i>>
    OBVIOUS
  <2>1. Len(header) + Len(payload) + i \in 1..Size(sent[c + 1]) /\ i \in 1..Len(wire)
    BY <1>3, <1>4, <1>6, SizeType
  <2>2. off[(c + 1) - 1] + (Len(header) + Len(payload) + i) - Taken(c, off) = i
    BY <1>2, <1>4, <1>5
  <2>3. c + 1 \in c + 1..Len(sent)
    BY <1>2, <1>6
  <2> QED
    BY <1>2, <2>1, <2>2, <2>3 DEF Stream
<1>8. HeaderKnown => header # <<>> /\ Frame = sent[c + 1] /\ Len(header) <= HeaderLen(sent[c + 1])
  <2>1. HeaderKnown => header # <<>>
    BY DEF HeaderKnown
  <2> QED
    BY <1>1, <1>2, <2>1, FrameInHand DEF Stream
<1>9. HeaderLen(sent[c + 1]) \in {2, 3} /\ sent[c + 1].len \in Nat
      /\ Size(sent[c + 1]) = HeaderLen(sent[c + 1]) + sent[c + 1].len
  BY <1>6, SizeType DEF Size
<1>10. /\ \A j \in 1..Len(header') : header'[j] = <<c + 1, j>>
       /\ Len(header') <= HeaderLen(sent[c + 1])
       /\ payload' # <<>> => header' # <<>> /\ Len(header') = HeaderLen(sent[c + 1])
       /\ \A j \in 1..Len(payload') : payload'[j] = <<c + 1, HeaderLen(sent[c + 1]) + j>>
       /\ Len(header') + Len(payload') = Len(header) + Len(payload) + n
  <2>1. CASE HeaderDone
    <3>1. HeaderKnown /\ Frame = sent[c + 1] /\ Len(header) = HeaderLen(sent[c + 1]) /\ header # <<>>
      BY <1>8, <2>1 DEF HeaderDone
    <3>2. n <= sent[c + 1].len - Len(payload)
      BY <2>1, <3>1 DEF Read, Lacking
    <3>3. payload' = payload \o SubSeq(wire, 1, n) /\ UNCHANGED header
      BY <2>1 DEF Read
    <3>4. /\ Len(payload') = Len(payload) + n
          /\ \A j \in 1..Len(payload) : payload'[j] = payload[j]
          /\ \A j \in Len(payload) + 1..Len(payload) + n : payload'[j] = wire[j - Len(payload)]
      BY <1>2, <1>3, <3>3 DEF Buffers
    <3>5. ASSUME NEW j \in 1..Len(payload')
          PROVE  payload'[j] = <<c + 1, HeaderLen(sent[c + 1]) + j>>
      <4>1. CASE j \in 1..Len(payload)
        BY <1>2, <3>4, <4>1 DEF Stream
      <4>2. CASE j \in Len(payload) + 1..Len(payload) + n
        <5>1. j - Len(payload) \in 1..n
          BY <1>4, <4>2
        <5>2. Len(header) + Len(payload) + (j - Len(payload)) = HeaderLen(sent[c + 1]) + j
          BY <1>4, <1>9, <3>1
        <5>3. HeaderLen(sent[c + 1]) + j <= Size(sent[c + 1])
          BY <1>4, <1>9, <3>2, <4>2
        <5> QED
          BY <1>7, <3>4, <4>2, <5>1, <5>2, <5>3
      <4> QED
        BY <1>3, <1>4, <3>4, <4>1, <4>2
    <3>6. \A j \in 1..Len(header) : header[j] = <<c + 1, j>>
      BY <1>2 DEF Stream
    <3>7. Len(header') + Len(payload') = Len(header) + Len(payload) + n
      BY <1>3, <1>4, <3>3, <3>4
    <3>8. \A j \in 1..Len(header') : header'[j] = <<c + 1, j>>
      BY <3>3, <3>6
    <3>9. Len(header') = HeaderLen(sent[c + 1]) /\ header' # <<>> /\ HeaderLen(sent[c + 1]) \in Nat
      BY <1>9, <3>1, <3>3
    <3> QED
      BY <3>5, <3>7, <3>8, <3>9
  <2>2. CASE ~HeaderDone
    <3>1. payload = <<>> /\ Len(payload) = 0 /\ UNCHANGED payload /\ header' = header \o SubSeq(wire, 1, n)
      BY <2>2 DEF Read, MemInv, PayloadAdmitted
    <3>2. Len(header) + n <= HeaderLen(sent[c + 1])
      <4>1. CASE HeaderKnown
        BY <1>3, <1>4, <1>8, <1>9, <2>2, <4>1 DEF Read, Lacking
      <4>2. CASE ~HeaderKnown
        BY <1>3, <1>4, <1>9, <4>2 DEF Read, Lacking
      <4> QED
        BY <4>1, <4>2
    <3>3. /\ Len(header') = Len(header) + n
          /\ \A j \in 1..Len(header) : header'[j] = header[j]
          /\ \A j \in Len(header) + 1..Len(header) + n : header'[j] = wire[j - Len(header)]
      BY <1>2, <1>3, <3>1 DEF Buffers
    <3>4. ASSUME NEW j \in 1..Len(header')
          PROVE  header'[j] = <<c + 1, j>>
      <4>1. CASE j \in 1..Len(header)
        BY <1>2, <3>3, <4>1 DEF Stream
      <4>2. CASE j \in Len(header) + 1..Len(header) + n
        <5>1. j - Len(header) \in 1..n
          BY <1>4, <4>2
        <5>2. Len(header) + Len(payload) + (j - Len(header)) = j /\ j <= Size(sent[c + 1])
          BY <1>4, <1>9, <3>1, <3>2, <4>2
        <5> QED
          BY <1>7, <3>3, <4>2, <5>1, <5>2
      <4> QED
        BY <1>3, <1>4, <3>3, <4>1, <4>2
    <3>5. payload' = <<>> /\ Len(payload') = 0 /\ 1..Len(payload') = {}
      BY <3>1
    <3>6. Len(header') + Len(payload') = Len(header) + Len(payload) + n
      BY <1>3, <1>4, <3>1, <3>3, <3>5
    <3> QED
      BY <3>2, <3>3, <3>4, <3>5, <3>6
  <2> QED
    BY <2>1, <2>2
<1>11. Taken(c, off)' = Taken(c, off) + n /\ Taken(c, off) \in Nat
  <2>1. Len(header') \in Nat /\ Len(payload') \in Nat
    BY ReadKeepsMemInv DEF MemInv, Buffers
  <2>2. Taken(c, off)' = off[c] + Len(header') + Len(payload')
    BY DEF Taken
  <2>3. Len(header') + Len(payload') = Len(header) + Len(payload) + n
    BY <1>10
  <2>4. n \in Nat /\ Taken(c, off) = off[c] + Len(header) + Len(payload)
    BY <1>3, <1>5
  <2>5. Taken(c, off) \in Nat
    BY <1>4, <2>4
  <2>6. Taken(c, off)' = off[c] + (Len(header') + Len(payload'))
    BY <1>4, <2>1, <2>2
  <2>7. off[c] + (Len(header) + Len(payload) + n) = Taken(c, off) + n
    BY <1>4, <2>4
  <2> QED
    BY <2>3, <2>5, <2>6, <2>7
<1>12. Stream(c, off)'
  <2>1. ASSUME NEW k \in c + 1..Len(sent), NEW b \in 1..Size(sent[k]),
               off[k - 1] + b - Taken(c, off)' \in 1..Len(wire')
        PROVE  wire'[off[k - 1] + b - Taken(c, off)'] = <<k, b>>
    <3>1. k - 1 \in 0..Len(sent) /\ k \in 1..Len(sent)
      BY <1>2
    <3>2. off[k - 1] \in Nat /\ b \in Int
      BY <1>2, <3>1, HistoryAt
    <3>3. PICK i \in Int : i = off[k - 1] + b - Taken(c, off)'
      BY <1>3, <1>11, <3>2
    <3>4. i \in 1..Len(wire) - n /\ n + i \in 1..Len(wire) /\ n + i = off[k - 1] + b - Taken(c, off)
      BY <1>3, <1>11, <2>1, <3>2, <3>3
    <3>5. wire[n + i] = <<k, b>>
      BY <1>2, <3>4 DEF Stream
    <3> QED
      BY <1>3, <3>3, <3>4, <3>5
  <2>2. /\ Taken(c, off)' + Len(wire') = Taken(c, off) + Len(wire)
    BY <1>3, <1>11
  <2>3. /\ Taken(c, off)' + Len(wire') <= off[Len(sent)]
        /\ ~eof => Taken(c, off)' + Len(wire') = off[Len(sent)]
    BY <1>2, <2>2 DEF Stream
  <2> QED
    BY <1>2, <1>6, <1>10, <2>1, <2>3 DEF Stream
<1>13. History(off, h)' /\ Reader(c, h)'
  BY <1>2, HistoryStays DEF Reader, serverVars, messageVars, callVars
<1> QED
  BY <1>2, <1>12, <1>13 DEF Tracks, TrackInv

\* The verdict of the reader on a header is the server's own.
LEMMA VerdictsAgree ==
    ASSUME Buffers, NEW c, NEW off, NEW h, Tracks(c, off, h), HeaderKnown, ~ended
    PROVE  /\ Frame = sent[c + 1] /\ header[1][1] = c + 1
           /\ Refused => Breach(Frame, h[c])
           /\ TooLong => Breach(Frame, h[c])
           /\ HeaderDone /\ ~TooLong => ~Breach(Frame, h[c])
<1>1. header # <<>> /\ c \in Nat
  BY DEF HeaderKnown, Tracks
<1>2. Frame = sent[c + 1] /\ Frame \in FrameKind /\ c + 1 \in 1..Len(sent)
  BY <1>1, FrameInHand
<1>3. header[1][1] = c + 1
  <2>1. header[1] = <<c + 1, 1>>
    BY DEF HeaderKnown, Tracks, Stream, Buffers
  <2> QED
    BY <2>1
<1>4. message = h[c].opened /\ started = h[c].openOp /\ ~h[c].broken
  BY DEF Tracks, Reader
<1>5. Len(message) \in Nat /\ Frame.len \in Nat
  BY <1>2 DEF Buffers, FrameKind
<1>6. Frame.op \in {"text", "cont", "ping", "close", "reserved"}
  BY <1>2 DEF FrameKind
<1>7. Breach(Frame, h[c]) <=> Forbidden(Frame, IsOpen, Len(message))
  BY <1>4 DEF Breach, IsOpen
<1>8. Refused => Forbidden(Frame, IsOpen, Len(message))
  BY <1>6 DEF Refused, Illegal, Forbidden, Control
<1>9. TooLong /\ ~Refused => Forbidden(Frame, IsOpen, Len(message))
  BY <1>5, <1>6, FrameReaderAssumption DEF TooLong, Oversize, Refused, Illegal, Forbidden, Control, HeaderDone
<1>10. HeaderDone /\ ~TooLong => ~Forbidden(Frame, IsOpen, Len(message))
  <2> SUFFICES ASSUME HeaderDone, ~TooLong PROVE ~Forbidden(Frame, IsOpen, Len(message))
    OBVIOUS
  <2>1. ~Illegal(Frame, IsOpen) /\ ~Oversize(Frame, Len(message))
    BY DEF TooLong, HeaderDone, Refused
  <2>2. ~Control(Frame) => ~(Len(message) + Frame.len > MaxPayload)
    BY <1>5, <2>1, FrameReaderAssumption DEF Oversize
  <2>3. ~Control(Frame) => ((Frame.op = "cont") <=> IsOpen)
    BY <1>6, <2>1 DEF Illegal, Control
  <2> QED
    BY <2>1, <2>2, <2>3 DEF Illegal, Forbidden, IsOpen
<1> QED
  BY <1>2, <1>3, <1>7, <1>8, <1>9, <1>10 DEF TooLong, HeaderDone

\* A connection is given up over a frame only when the server broke its word.
LEMMA FailTracks ==
    ASSUME Buffers, TrackInv, HeaderRefused \/ FrameTooLong
    PROVE  TrackInv' /\ broken /\ delivered = promised
<1>1. PICK c, off, h : Tracks(c, off, h)
  BY DEF TrackInv
<1>2. /\ UNCHANGED <<serverVars, wire, eof, frameVars, messageVars, delivered>>
      /\ inCall /\ ~inCall' /\ ended'
  BY DEF HeaderRefused, FrameTooLong, Fail
<1>3. HeaderKnown /\ Breach(sent[c + 1], h[c])
  <2>1. ~ended /\ HeaderKnown
    BY <1>1, <1>2 DEF Tracks, Reader, HeaderRefused, FrameTooLong, Refused, TooLong, HeaderDone
  <2> QED
    BY <1>1, <2>1, VerdictsAgree DEF HeaderRefused, FrameTooLong
<1>4. broken /\ delivered = promised
  <2>1. c + 1 \in 1..Len(sent) /\ History(off, h) /\ c \in Nat /\ delivered = h[c].promised
    BY <1>1, <1>3, FrameInHand DEF HeaderKnown, Tracks, Reader
  <2>2. h[c + 1] = Verdict(sent, c + 1, h[c])
    BY <2>1 DEF History
  <2>3. h[c + 1].broken /\ h[c + 1].promised = h[c].promised
    BY <1>3, <2>2 DEF Verdict
  <2> QED
    BY <2>1, <2>3, HistoryAt
<1>5. History(off, h)' /\ Stream(c, off)' /\ UNCHANGED sent
  BY <1>1, <1>2, HistoryStays, StreamStays DEF Tracks, serverVars, frameVars
<1>6. Reader(c, h)'
  BY <1>1, <1>2, <1>4 DEF Tracks, Reader, serverVars
<1> QED
  BY <1>1, <1>4, <1>5, <1>6 DEF Tracks, TrackInv

\* A frame in hand that is whole is the one the server sent, and the next one
\* on the wire is the one behind it.
LEMMA FrameEnds ==
    ASSUME Buffers, NEW c, NEW off, NEW h, Tracks(c, off, h), inCall, FrameDone,
           header' = <<>>, payload' = <<>>, UNCHANGED <<serverVars, wire, eof>>
    PROVE  /\ c \in Nat /\ c + 1 \in 1..Len(sent) /\ History(off, h)'
           /\ Stream(c + 1, off)' /\ Frame = sent[c + 1] /\ header[1][1] = c + 1
           /\ payload = PayloadBytes(c + 1, sent[c + 1])
           /\ ~Breach(sent[c + 1], h[c]) /\ h[c + 1] = Verdict(sent, c + 1, h[c])
           /\ Frame \in FrameKind
<1>1. HeaderDone /\ ~TooLong /\ HeaderKnown /\ ~ended /\ header # <<>> /\ History(off, h) /\ Stream(c, off)
      /\ c \in 0..Len(sent) /\ Len(sent) \in Nat
  BY DEF FrameDone, HeaderDone, HeaderKnown, Tracks, Reader, Buffers
<1>2. /\ Frame = sent[c + 1] /\ header[1][1] = c + 1 /\ ~Breach(sent[c + 1], h[c])
      /\ c + 1 \in 1..Len(sent) /\ sent[c + 1] \in FrameKind
  BY <1>1, VerdictsAgree, FrameInHand
<1>3. /\ Len(header) = HeaderLen(sent[c + 1]) /\ Len(payload) = sent[c + 1].len
      /\ HeaderLen(sent[c + 1]) \in Nat /\ sent[c + 1].len \in Nat
      /\ Size(sent[c + 1]) = HeaderLen(sent[c + 1]) + sent[c + 1].len
  BY <1>1, <1>2, SizeType DEF FrameDone, HeaderDone, Size
<1>4. off[c] \in Nat /\ off[c + 1] = off[c] + Size(sent[c + 1]) /\ h[c + 1] = Verdict(sent, c + 1, h[c])
  <2>1. (c + 1) - 1 = c
    BY <1>1
  <2>2. off[c + 1] = off[(c + 1) - 1] + Size(sent[c + 1]) /\ h[c + 1] = Verdict(sent, c + 1, h[(c + 1) - 1])
    BY <1>1, <1>2 DEF History
  <2> QED
    BY <1>1, <2>1, <2>2, HistoryAt
<1>5. Taken(c + 1, off)' = Taken(c, off)
  <2>1. Len(header') = 0 /\ Len(payload') = 0
    OBVIOUS
  <2> QED
    BY <1>3, <1>4, <2>1 DEF Taken
<1>6. UNCHANGED <<sent, wire, eof>>
  BY DEF serverVars
<1>7. Stream(c + 1, off)'
  <2>1. \A k \in (c + 1) + 1..Len(sent) : k \in c + 1..Len(sent)
    BY <1>1
  <2>2. \A k \in (c + 1) + 1..Len(sent) : \A b \in 1..Size(sent[k]) :
          off[k - 1] + b - Taken(c, off) \in 1..Len(wire) =>
              wire[off[k - 1] + b - Taken(c, off)] = <<k, b>>
    BY <1>1, <2>1 DEF Stream
  <2>3. /\ Taken(c, off) + Len(wire) <= off[Len(sent)]
        /\ ~eof => Taken(c, off) + Len(wire) = off[Len(sent)]
    BY <1>1 DEF Stream
  <2>4. 1..Len(header') = {} /\ 1..Len(payload') = {}
    OBVIOUS
  <2> QED
    BY <1>5, <1>6, <2>2, <2>3, <2>4 DEF Stream
<1>8. payload = PayloadBytes(c + 1, sent[c + 1])
  <2>1. \A j \in 1..Len(payload) : payload[j] = <<c + 1, HeaderLen(sent[c + 1]) + j>>
    BY <1>1 DEF Stream
  <2>2. payload \in Seq(ByteOf(sent)) /\ payload = [j \in 1..Len(payload) |-> payload[j]]
    BY DEF Buffers
  <2> QED
    BY <1>3, <2>1, <2>2 DEF PayloadBytes
<1>9. History(off, h)'
  BY <1>1, HistoryStays
<1> QED
  BY <1>1, <1>2, <1>4, <1>7, <1>8, <1>9

\* A control frame is returned as it was sent.
LEMMA ControlFrameTracks ==
    ASSUME Buffers, TrackInv, ControlFrame
    PROVE  TrackInv' /\ (ended' => broken /\ delivered' = promised)
<1>1. PICK c, off, h : Tracks(c, off, h)
  BY DEF TrackInv
<1>2. /\ inCall /\ FrameDone /\ Control(Frame) /\ header' = <<>> /\ payload' = <<>>
      /\ UNCHANGED <<serverVars, wire, eof>>
      /\ delivered' = Append(delivered, [op |-> Frame.op, data |-> payload]) /\ inCall' = FALSE
      /\ Frame.op # "close" => UNCHANGED <<message, started>>
      /\ ended' = (Frame.op = "close")
  BY DEF ControlFrame, Return, messageVars
<1>3. /\ c \in Nat /\ c + 1 \in 1..Len(sent) /\ History(off, h)'
      /\ Stream(c + 1, off)' /\ Frame = sent[c + 1]
      /\ payload = PayloadBytes(c + 1, sent[c + 1])
      /\ ~Breach(sent[c + 1], h[c]) /\ h[c + 1] = Verdict(sent, c + 1, h[c])
  BY <1>1, <1>2, FrameEnds
<1>4. h[c + 1] = [promised |-> Append(h[c].promised, [op |-> Frame.op, data |-> payload]),
                  opened |-> h[c].opened, openOp |-> h[c].openOp, broken |-> Frame.op = "close"]
  BY <1>2, <1>3 DEF Verdict
<1>5. h[c + 1].broken => broken /\ h[c + 1].promised = promised
  BY <1>1, <1>3, HistoryAt DEF Tracks
<1>6. Reader(c, h) /\ UNCHANGED <<broken, promised>>
  BY <1>1, <1>2 DEF Tracks, serverVars
<1>7. /\ h[c + 1].promised = delivered' /\ h[c + 1].opened = h[c].opened
      /\ h[c + 1].openOp = h[c].openOp /\ h[c + 1].broken = (Frame.op = "close")
  BY <1>2, <1>4, <1>6 DEF Reader
<1>8. Reader(c + 1, h)'
  <2>1. CASE Frame.op = "close"
    BY <1>2, <1>5, <1>6, <1>7, <2>1 DEF Reader
  <2>2. CASE Frame.op # "close"
    BY <1>2, <1>6, <1>7, <2>2 DEF Reader
  <2> QED
    BY <2>1, <2>2
<1>9. c + 1 \in 0..Len(sent)'
  BY <1>2, <1>3 DEF serverVars
<1>10. ended' => broken /\ delivered' = promised
  BY <1>2, <1>5, <1>7
<1> QED
  BY <1>3, <1>8, <1>9, <1>10 DEF Tracks, TrackInv

\* A data frame joins its message; the last one is returned with it, or does
\* not inflate, and the server knows that it does not.
LEMMA DataFrameTracks ==
    ASSUME Buffers, TrackInv, DataFrame
    PROVE  TrackInv' /\ (ended' => broken /\ delivered' = promised)
<1>1. PICK c, off, h : Tracks(c, off, h)
  BY DEF TrackInv
<1>2. /\ inCall /\ FrameDone /\ ~Control(Frame) /\ header' = <<>> /\ payload' = <<>>
      /\ UNCHANGED <<serverVars, wire, eof>>
  BY DEF DataFrame
<1>3. /\ c \in Nat /\ c + 1 \in 1..Len(sent) /\ History(off, h)'
      /\ Stream(c + 1, off)' /\ Frame = sent[c + 1] /\ header[1][1] = c + 1
      /\ payload = PayloadBytes(c + 1, sent[c + 1])
      /\ ~Breach(sent[c + 1], h[c]) /\ h[c + 1] = Verdict(sent, c + 1, h[c])
  BY <1>1, <1>2, FrameEnds
<1>4. /\ ~ended /\ delivered = h[c].promised /\ message = h[c].opened /\ started = h[c].openOp
      /\ UNCHANGED <<broken, promised>>
  BY <1>1, <1>2 DEF Tracks, Reader, serverVars
<1>5. /\ Whole(sent, c + 1, h[c]) = message \o payload
      /\ First(sent, c + 1, h[c]) = sent[Opener]
  BY <1>3, <1>4 DEF Whole, First, Opener, IsOpen
<1>6. Legible(sent, c + 1, h[c]) <=> (sent[Opener].rsv1 => sent[Opener].inflates)
  BY <1>5 DEF Legible
<1>7. h[c + 1] =
        [promised |-> IF Frame.fin /\ Legible(sent, c + 1, h[c])
                      THEN Append(delivered, [op |-> "text", data |-> message \o payload])
                      ELSE delivered,
         opened |-> IF Frame.fin THEN <<>> ELSE message \o payload,
         openOp |-> IF Frame.fin THEN 0 ELSE Opener,
         broken |-> Frame.fin /\ ~Legible(sent, c + 1, h[c])]
  <2>1. Opener = IF h[c].openOp = 0 THEN c + 1 ELSE h[c].openOp
    BY <1>3, <1>4 DEF Opener, IsOpen
  <2> QED
    BY <1>2, <1>3, <1>4, <1>5, <2>1 DEF Verdict
<1>8. h[c + 1].broken => broken /\ h[c + 1].promised = promised
  BY <1>1, <1>3, HistoryAt DEF Tracks
<1>9. Reader(c + 1, h)'
  <2>0. /\ h[c + 1].promised = IF Frame.fin /\ Legible(sent, c + 1, h[c])
                              THEN Append(delivered, [op |-> "text", data |-> message \o payload])
                              ELSE delivered
        /\ h[c + 1].opened = IF Frame.fin THEN <<>> ELSE message \o payload
        /\ h[c + 1].openOp = IF Frame.fin THEN 0 ELSE Opener
        /\ h[c + 1].broken = (Frame.fin /\ ~Legible(sent, c + 1, h[c]))
    BY <1>7
  <2>1. CASE ~Frame.fin
    <3>1. /\ message' = message \o payload /\ started' = Opener
          /\ UNCHANGED <<delivered, ended>>
      BY <2>1 DEF DataFrame, callVars
    <3> QED
      BY <1>4, <2>0, <2>1, <3>1 DEF Reader
  <2>2. CASE Frame.fin /\ ~Legible(sent, c + 1, h[c])
    <3>1. ~inCall' /\ ended' /\ UNCHANGED delivered
      BY <1>6, <2>2 DEF DataFrame
    <3> QED
      BY <1>4, <1>8, <2>0, <2>2, <3>1 DEF Reader
  <2>3. CASE Frame.fin /\ Legible(sent, c + 1, h[c])
    <3>1. /\ message' = <<>> /\ started' = 0 /\ ended' = ended
          /\ delivered' = Append(delivered, [op |-> "text", data |-> message \o payload])
      BY <1>6, <2>3 DEF DataFrame, Return
    <3> QED
      BY <1>4, <2>0, <2>3, <3>1 DEF Reader
  <2> QED
    BY <2>1, <2>2, <2>3
<1>10. c + 1 \in 0..Len(sent)'
  BY <1>2, <1>3 DEF serverVars
<1>11. ended' => broken /\ delivered' = promised
  <2>1. h[c + 1].broken = (Frame.fin /\ ~Legible(sent, c + 1, h[c]))
        /\ (~Legible(sent, c + 1, h[c]) => h[c + 1].promised = delivered)
    BY <1>7
  <2>2. ended' => Frame.fin /\ ~Legible(sent, c + 1, h[c]) /\ UNCHANGED delivered
    BY <1>4, <1>6 DEF DataFrame, callVars, Return
  <2> QED
    BY <1>8, <2>1, <2>2
<1> QED
  BY <1>3, <1>9, <1>10, <1>11 DEF Tracks, TrackInv

LEMMA NextTracks == MemInv /\ TrackInv /\ [FrNext]_frVars => TrackInv'
  BY SendTracks, HangUpTracks, CallTracks, ReadTracks, FailTracks,
     ControlFrameTracks, DataFrameTracks DEF FrNext, MemInv

\* Whatever read_message returns is what the server sent, whole, in order and
\* once: for all frames, limits and lengths of the stream, and wherever calls
\* time out or the connection is cut.
THEOREM DeliveryFaithful == FrSpec => []DeliveredAsSent
<1>1. MemInv /\ TrackInv => DeliveredAsSent
  BY TrackedProperties, BehindIsPrefix DEF MemInv
<1> QED
  BY <1>1, InitMemInv, NextMemInv, InitTracks, NextTracks, PTL DEF FrSpec

\* No connection is given up but when everything said before a close or a breach
\* of the protocol was returned, or at the end of the socket.
THEOREM EndsOnlyForCause == FrSpec => []EndsForCause
<1>1. MemInv /\ TrackInv => EndsForCause
  BY TrackedProperties DEF MemInv
<1> QED
  BY <1>1, InitMemInv, NextMemInv, InitTracks, NextTracks, PTL DEF FrSpec

(***************************************************************************)
(* The reader implements MessageStream.                                    *)
(***************************************************************************)

\* A frame that is sent is a word of the server, its breaking off, or a part of
\* what it is about to say.
LEMMA SendRefines ==
    ASSUME Behind, NEW f \in Frames, Send(f)
    PROVE  [MS!Next]_(MS!msVars)
<1> DEFINE i == Len(sent')
           first == IF openOp = 0 THEN f ELSE sent[openOp]
           whole == opened \o PayloadBytes(i, f)
           legible == first.rsv1 => first.inflates
<1>1. /\ ~eof /\ UNCHANGED <<delivered, eof, ended>> /\ Promise(i, f)
      /\ promised \in Seq(Messages) /\ broken \in BOOLEAN
  BY DEF Send, Behind, readerVars, callVars
<1>2. f.fin \in BOOLEAN
  BY FrameReaderAssumption DEF FrameKind
<1>3. ASSUME NEW m, promised' = Append(promised, m), ~broken, broken' \in BOOLEAN
      PROVE  MS!Say
  <2>1. promised' # <<>> /\ promised'[Len(promised')] = m
    BY <1>1, <1>3
  <2> QED
    BY <1>1, <1>3, <2>1 DEF MS!Say
<1>4. ASSUME UNCHANGED promised, ~broken, broken' = TRUE
      PROVE  MS!BreakOff
  BY <1>1, <1>4 DEF MS!BreakOff
<1>5. ASSUME UNCHANGED <<promised, broken>>
      PROVE  UNCHANGED MS!msVars
  BY <1>1, <1>5 DEF MS!msVars
<1>6. CASE broken \/ Forbidden(f, openOp # 0, Len(opened))
  <2>1. UNCHANGED promised /\ broken' = TRUE
    BY <1>1, <1>6 DEF Promise
  <2> QED
    BY <1>1, <1>4, <1>5, <2>1 DEF MS!Next
<1>7. CASE ~(broken \/ Forbidden(f, openOp # 0, Len(opened))) /\ Control(f)
  <2>1. /\ promised' = Append(promised, [op |-> f.op, data |-> PayloadBytes(i, f)])
        /\ broken' \in BOOLEAN
    BY <1>1, <1>7 DEF Promise
  <2> QED
    BY <1>3, <1>7, <2>1 DEF MS!Next
<1>8. CASE ~(broken \/ Forbidden(f, openOp # 0, Len(opened))) /\ ~Control(f)
  <2>1. /\ promised' = IF f.fin /\ legible
                       THEN Append(promised, [op |-> "text", data |-> whole])
                       ELSE promised
        /\ broken' = (f.fin /\ ~legible)
    BY <1>1, <1>8 DEF Promise
  <2> QED
    BY <1>1, <1>2, <1>3, <1>4, <1>5, <1>8, <2>1 DEF MS!Next
<1> QED
  BY <1>6, <1>7, <1>8

\* What is returned is the next word of the server.
LEMMA ReturnRefines ==
    ASSUME Behind, Behind', inCall, NEW m, delivered' = Append(delivered, m),
           UNCHANGED <<promised, broken, eof>>,
           ended' => broken /\ delivered' = promised
    PROVE  MS!Receive
<1>1. /\ delivered \in Seq(Messages) /\ promised \in Seq(Messages) /\ ~ended
      /\ Len(delivered') <= Len(promised)
      /\ \A i \in 1..Len(delivered') : delivered'[i] = promised[i]
  BY DEF Behind, Begins
<1>2. Len(delivered') = Len(delivered) + 1 /\ delivered'[Len(delivered) + 1] = m
  BY <1>1
<1>3. Len(delivered) \in Nat /\ Len(promised) \in Nat
  BY <1>1
<1>4. Len(delivered) + 1 \in 1..Len(delivered')
  BY <1>2, <1>3
<1>5. m = promised[Len(delivered) + 1]
  BY <1>1, <1>2, <1>4
<1>6. Len(delivered) < Len(promised)
  BY <1>1, <1>2, <1>3
<1> QED
  BY <1>1, <1>5, <1>6 DEF MS!Receive

\* eof is a flag: what the socket's end is told apart by.
CutKnown == eof \in BOOLEAN

LEMMA NextCut == CutKnown /\ [FrNext]_frVars => CutKnown'
  BY DEF CutKnown, serverVars, frameVars, messageVars, callVars, readerVars, FrNext, frVars, Send, HangUp, Call, Read, TimedOut, ReadFails, HeaderRefused,
         FrameTooLong, Fail, EndOfStream, ControlFrame, DataFrame

LEMMA ReaderStepRefines ==
    ASSUME MemInv, TrackInv, Behind, Behind', CutKnown, [FrNext]_frVars
    PROVE  [MS!Next]_(MS!msVars)
<1> USE DEF serverVars, frameVars, messageVars, callVars, readerVars
<1>1. CASE HangUp
  BY <1>1 DEF HangUp, MS!Lose, MS!Next
<1>2. CASE Call \/ TimedOut \/ (\E n \in 1..Len(wire) : Read(n)) \/ UNCHANGED frVars
  BY <1>2 DEF Call, TimedOut, Read, frVars, MS!msVars
<1>3. CASE ReadFails \/ EndOfStream
  <2>1. inCall /\ ended' = TRUE /\ eof' = TRUE /\ UNCHANGED <<promised, delivered, broken>>
    BY <1>3 DEF ReadFails, EndOfStream, Reading, CutKnown
  <2> QED
    BY <2>1 DEF Behind, MS!GiveUp, MS!Next
<1>4. CASE HeaderRefused \/ FrameTooLong
  <2>1. /\ inCall /\ ended' = TRUE /\ UNCHANGED <<promised, delivered, broken, eof>>
        /\ broken /\ delivered = promised
    BY <1>4, FailTracks DEF HeaderRefused, FrameTooLong, Fail, MemInv
  <2> QED
    BY <2>1 DEF Behind, MS!GiveUp, MS!Next
<1>5. CASE ControlFrame
  <2>1. /\ inCall /\ delivered' = Append(delivered, [op |-> Frame.op, data |-> payload])
        /\ UNCHANGED <<promised, broken, eof>>
        /\ ended' => broken /\ delivered' = promised
    BY <1>5, ControlFrameTracks DEF ControlFrame, Return, MemInv
  <2> QED
    BY <2>1, ReturnRefines DEF MS!Next
<1>6. CASE DataFrame
  <2>1. /\ inCall /\ UNCHANGED <<promised, broken, eof>>
        /\ ended' => broken /\ delivered' = promised
    BY <1>6, DataFrameTracks DEF DataFrame, MemInv
  <2>2. \/ UNCHANGED <<delivered, ended>>
        \/ ended' = TRUE /\ UNCHANGED delivered
        \/ delivered' = Append(delivered, [op |-> "text", data |-> message \o payload])
    BY <1>6 DEF DataFrame, Return
  <2>3. CASE UNCHANGED <<delivered, ended>>
    BY <2>1, <2>3 DEF MS!msVars
  <2>4. CASE ended' = TRUE /\ UNCHANGED delivered
    BY <2>1, <2>4 DEF Behind, MS!GiveUp, MS!Next
  <2>5. CASE delivered' = Append(delivered, [op |-> "text", data |-> message \o payload])
    BY <2>1, <2>5, ReturnRefines DEF MS!Next
  <2> QED
    BY <2>2, <2>3, <2>4, <2>5
<1> QED
  BY <1>1, <1>2, <1>3, <1>4, <1>5, <1>6, SendRefines DEF FrNext

\* FrameReader implements a stream of messages: for all frames, limits and
\* lengths of the stream, wherever calls time out and the connection is cut,
\* read_message returns what the server said, and gives up only for a cause.
THEOREM ReaderImplementsMessageStream == FrSpec => ImplementsMessageStream
<1>1. FrInit => MS!Init /\ CutKnown
  BY DEF FrInit, MS!Init, CutKnown
<1>2. MemInv /\ TrackInv => Behind
  BY TrackedProperties DEF MemInv
<1>3. MemInv /\ TrackInv /\ Behind /\ Behind' /\ CutKnown /\ [FrNext]_frVars
         => [MS!Next]_(MS!msVars)
  BY ReaderStepRefines
<1> QED
  BY <1>1, <1>2, <1>3, NextCut, InitMemInv, NextMemInv, InitTracks, NextTracks, PTL
  DEF FrSpec, MS!Spec, ImplementsMessageStream

=============================================================================

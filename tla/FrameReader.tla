----------------------------- MODULE FrameReader -----------------------------
(***************************************************************************)
(* Reading WebSocket messages from a socket with a read timeout (ws.rs,    *)
(* FrameReader): the tick loop calls read_message again and again and gives *)
(* it 100 ms each time, so that a call may end anywhere in a frame, and    *)
(* the next one must go on from there.                                     *)
(*                                                                         *)
(* A byte is told apart by the frame it belongs to and its place in it;    *)
(* what a header says is known from its frame.  The extended length and    *)
(* the mask are one extra header byte here.                                *)
(***************************************************************************)
EXTENDS Integers, Sequences, SequencesExt

CONSTANTS
    Frames,       \* frames the server may send
    MaxFrames,    \* bound: how many it sends
    MaxPayload,   \* MAX_FRAME_SIZE: limit of a frame and of a whole message
    MaxControl,   \* 125, the longest control frame
    Compression   \* whether permessage-deflate was negotiated

FrameKind == [op : {"text", "cont", "ping", "close", "reserved"}, fin : BOOLEAN,
              rsv1 : BOOLEAN, ext : 0..1, len : Nat, inflates : BOOLEAN]

ASSUME FrameReaderAssumption ==
    /\ Frames \subseteq FrameKind
    /\ MaxFrames \in Nat
    /\ MaxControl \in Nat
    /\ MaxPayload \in Nat /\ MaxControl <= MaxPayload
    /\ Compression \in BOOLEAN

VARIABLES
    sent,       \* server: the frames it has sent
    promised,   \* ghost: the messages they amount to
    opened,     \* ghost: bytes of the message the server is in the middle of
    openOp,     \* ghost: its first frame's index, or 0
    broken,     \* ghost: the server broke the protocol, closed or sent garbage
    wire,       \* bytes sent and not read
    eof,        \* the server has hung up: nothing follows what is on the wire
    header,     \* FrameReader.header[..header_read]
    payload,    \* FrameReader.payload[..payload_read]
    message,    \* FrameReader.message
    started,    \* frame that opened it (message_opcode, message_compressed), or 0
    failed,     \* FrameReader.failed
    inCall,     \* read_message is running
    delivered,  \* the messages it has returned
    ended       \* the caller has given the connection up

serverVars == <<sent, promised, opened, openOp, broken>>
frameVars == <<header, payload>>
messageVars == <<message, started>>
callVars == <<inCall, delivered, ended>>
readerVars == <<frameVars, messageVars, failed, callVars>>
frVars == <<serverVars, wire, eof, readerVars>>

Control(f) == f.op \in {"ping", "close"}

HeaderLen(f) == 2 + f.ext

\* The bytes of the i-th frame sent: header, then payload.
Bytes(i, f) == [k \in 1..(HeaderLen(f) + f.len) |-> <<i, k>>]
PayloadBytes(i, f) == [k \in 1..f.len |-> <<i, HeaderLen(f) + k>>]

FrInit ==
    /\ sent = <<>>
    /\ promised = <<>>
    /\ opened = <<>>
    /\ openOp = 0
    /\ broken = FALSE
    /\ wire = <<>>
    /\ eof = FALSE
    /\ header = <<>>
    /\ payload = <<>>
    /\ message = <<>>
    /\ started = 0
    /\ failed = FALSE
    /\ inCall = FALSE
    /\ delivered = <<>>
    /\ ended = FALSE

FrTypeOK ==
    /\ sent \in Seq(Frames) /\ Len(sent) <= MaxFrames
    /\ \A b \in Range(wire) \cup Range(header) \cup Range(payload) \cup Range(message) :
          b[1] \in 1..Len(sent) /\ b[2] \in 1..(HeaderLen(sent[b[1]]) + sent[b[1]].len)
    /\ Len(header) <= 3
    /\ Len(payload) <= MaxPayload
    /\ started \in 0..Len(sent)
    /\ {eof, failed, inCall, ended, broken} \subseteq BOOLEAN

(***************************************************************************)
(* What RFC 6455 lets a frame be where it stands, and a reader accept.     *)
(***************************************************************************)

\* The header is refused, with a data message open or not.
Illegal(f, isOpen) ==
    \/ f.op = "reserved"
    \/ Control(f) /\ (~f.fin \/ f.len > MaxControl \/ f.rsv1)
    \/ f.rsv1 /\ (~Compression \/ f.op = "cont")
    \/ f.op = "cont" /\ ~isOpen
    \/ f.op = "text" /\ isOpen

\* Mutant: only the frame is measured, not the message it belongs to.
OversizeFrameOnly(f, have) == f.len > MaxPayload

\* The frame, or the message with it, is too long.
Oversize(f, have) ==
    \/ f.len > MaxPayload
    \/ ~Control(f) /\ f.len > MaxPayload - have

(***************************************************************************)
(* The server.                                                             *)
(***************************************************************************)

\* A frame that RFC 6455 forbids the server behind what it has sent, or that is
\* more than a reader takes: the reference Illegal and Oversize are compared
\* with, written from the side of the one who sends.
Forbidden(f, open, have) ==
    \/ f.op = "reserved"
    \/ Control(f) /\ (~f.fin \/ f.len > MaxControl \/ f.rsv1)
    \/ f.rsv1 /\ (~Compression \/ f.op = "cont")
    \/ ~Control(f) /\ ((f.op = "cont") # open \/ have + f.len > MaxPayload)

\* What a conforming reader makes of the next frame.
Promise(i, f) ==
    IF broken \/ Forbidden(f, openOp # 0, Len(opened))
    THEN /\ broken' = TRUE
         /\ UNCHANGED <<promised, opened, openOp>>
    ELSE IF Control(f)
    THEN /\ promised' = Append(promised, [op |-> f.op, data |-> PayloadBytes(i, f)])
         /\ broken' = (f.op = "close")
         /\ UNCHANGED <<opened, openOp>>
    ELSE LET first == IF openOp = 0 THEN f ELSE sent[openOp]
             whole == opened \o PayloadBytes(i, f)
             legible == first.rsv1 => first.inflates
         IN  /\ openOp' = IF f.fin THEN 0 ELSE IF openOp = 0 THEN i ELSE openOp
             /\ opened' = IF f.fin THEN <<>> ELSE whole
             /\ promised' = IF f.fin /\ legible
                            THEN Append(promised, [op |-> "text", data |-> whole])
                            ELSE promised
             /\ broken' = (f.fin /\ ~legible)

Send(f) ==
    /\ ~eof
    /\ Len(sent) < MaxFrames
    /\ sent' = Append(sent, f)
    /\ wire' = wire \o Bytes(Len(sent'), f)
    /\ Promise(Len(sent'), f)
    /\ UNCHANGED <<eof, readerVars>>

\* The connection is cut: some of what was on its way still arrives.
HangUp ==
    /\ ~eof
    /\ eof' = TRUE
    /\ \E n \in 0..Len(wire) : wire' = SubSeq(wire, 1, n)
    /\ UNCHANGED <<serverVars, readerVars>>

(***************************************************************************)
(* The reader.                                                             *)
(***************************************************************************)

\* The frame whose header is being read.  Two bytes that are not the beginning
\* of one frame say anything; here, that they are no header.
Garbage == [op |-> "reserved", fin |-> TRUE, rsv1 |-> FALSE, ext |-> 0, len |-> 0,
            inflates |-> FALSE]
Frame ==
    IF header[1][2] = 1 /\ header[2] = <<header[1][1], 2>>
    THEN sent[header[1][1]]
    ELSE Garbage

HeaderKnown == Len(header) >= 2
IsOpen == started # 0
Refused == HeaderKnown /\ Illegal(Frame, IsOpen)
HeaderDone == HeaderKnown /\ ~Refused /\ Len(header) = HeaderLen(Frame)
TooLong == HeaderDone /\ Oversize(Frame, Len(message))
FrameDone == HeaderDone /\ ~TooLong /\ Len(payload) = Frame.len

\* fill_frame_part has bytes to ask for.
Reading == inCall /\ ~failed /\ ~Refused /\ ~TooLong /\ ~FrameDone

\* read_message is called.
Call ==
    /\ ~inCall
    /\ ~ended
    /\ inCall' = TRUE
    /\ UNCHANGED <<serverVars, wire, eof, frameVars, messageVars, failed, delivered, ended>>

\* One read returns some of the bytes the part lacks.
Lacking ==
    IF ~HeaderKnown THEN 2 - Len(header)
    ELSE IF ~HeaderDone THEN HeaderLen(Frame) - Len(header)
    ELSE Frame.len - Len(payload)

Read(n) ==
    /\ Reading
    /\ n \in 1..Lacking
    /\ n <= Len(wire)
    /\ wire' = SubSeq(wire, n + 1, Len(wire))
    /\ IF HeaderDone
       THEN payload' = payload \o SubSeq(wire, 1, n) /\ UNCHANGED header
       ELSE header' = header \o SubSeq(wire, 1, n) /\ UNCHANGED payload
    /\ UNCHANGED <<serverVars, eof, messageVars, failed, callVars>>

\* Mutant: the timeout loses what was read of the payload.
TimedOutLosesPayload ==
    /\ Reading
    /\ inCall' = FALSE
    /\ payload' = <<>>
    /\ UNCHANGED <<serverVars, wire, eof, header, messageVars, failed, delivered, ended>>

\* The read times out: the call returns, and all offsets stay as they are.
TimedOut ==
    /\ Reading
    /\ inCall' = FALSE
    /\ UNCHANGED <<serverVars, wire, eof, frameVars, messageVars, failed, delivered, ended>>

\* The call returns an error and poisons the reader; the caller gives up.
Fail ==
    /\ failed' = TRUE
    /\ inCall' = FALSE
    /\ ended' = TRUE
    /\ UNCHANGED <<serverVars, wire, eof, frameVars, messageVars, delivered>>

\* The socket fails.
ReadFails ==
    /\ Reading
    /\ failed' = TRUE
    /\ inCall' = FALSE
    /\ ended' = TRUE
    /\ eof' = TRUE
    /\ UNCHANGED <<serverVars, wire, frameVars, messageVars, delivered>>

\* A header that is refused; a frame, or a message with it, that is too long.
HeaderRefused == inCall /\ ~failed /\ Refused /\ Fail
FrameTooLong == inCall /\ ~failed /\ TooLong /\ Fail

\* The end of the stream: an error inside a frame or a message, or a plain end.
EndOfStream ==
    /\ Reading
    /\ eof
    /\ wire = <<>>
    /\ failed' = (header # <<>> \/ IsOpen)
    /\ inCall' = FALSE
    /\ ended' = TRUE
    /\ UNCHANGED <<serverVars, wire, eof, frameVars, messageVars, delivered>>

Return(op, data) ==
    /\ delivered' = Append(delivered, [op |-> op, data |-> data])
    /\ inCall' = FALSE

\* A control frame is returned at once, between the fragments of a message or
\* not; a close forgets the message.
ControlFrame ==
    /\ inCall
    /\ ~failed
    /\ FrameDone
    /\ Control(Frame)
    /\ Return(Frame.op, payload)
    /\ header' = <<>>
    /\ payload' = <<>>
    /\ IF Frame.op = "close"
       THEN message' = <<>> /\ started' = 0
       ELSE UNCHANGED messageVars
    /\ ended' = (Frame.op = "close")
    /\ UNCHANGED <<serverVars, wire, eof, failed>>

\* A data frame joins its message; the last one completes it, or fails to
\* inflate, which is for good.
Opener == IF IsOpen THEN started ELSE header[1][1]

DataFrame ==
    /\ inCall
    /\ ~failed
    /\ FrameDone
    /\ ~Control(Frame)
    /\ header' = <<>>
    /\ payload' = <<>>
    /\ IF ~Frame.fin
       THEN /\ message' = message \o payload
            /\ started' = Opener
            /\ UNCHANGED <<failed, callVars>>
       ELSE /\ message' = <<>>
            /\ started' = 0
            /\ IF sent[Opener].rsv1 /\ ~sent[Opener].inflates
               THEN failed' = TRUE /\ inCall' = FALSE /\ ended' = TRUE /\ UNCHANGED delivered
               ELSE Return("text", message \o payload) /\ UNCHANGED <<failed, ended>>
    /\ UNCHANGED <<serverVars, wire, eof>>

FrNext ==
    \/ \E f \in Frames : Send(f)
    \/ HangUp
    \/ Call
    \/ \E n \in 1..Len(wire) : Read(n)
    \/ TimedOut
    \/ ReadFails
    \/ HeaderRefused
    \/ FrameTooLong
    \/ EndOfStream
    \/ ControlFrame
    \/ DataFrame

(***************************************************************************)
(* Properties.                                                             *)
(***************************************************************************)

\* Whatever comes back from read_message is what the server sent, each message
\* whole, in order and once, wherever in a frame the calls before it timed out
\* and whatever control frames came between its fragments.  A connection is
\* given up only when there is no more to come of it: the server closed it,
\* broke the protocol or sent what does not inflate, and all it said before was
\* returned; or else the socket failed.  A timeout is no such cause.
MS == INSTANCE MessageStream WITH
    messages <- promised,
    received <- delivered,
    broken <- broken,
    cut <- eof,
    over <- ended

ImplementsMessageStream == MS!Spec

\* The reader never holds more than one message's worth of data ("the sum of
\* retained data payloads is at most 1 MiB").
MemoryBounded ==
    Len(message) + (IF HeaderDone /\ ~Control(Frame) THEN Len(payload) ELSE 0)
        <= MaxPayload

FrSpec == FrInit /\ [][FrNext]_frVars

=============================================================================

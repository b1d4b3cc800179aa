-------------------------------- MODULE Http --------------------------------
(***************************************************************************)
(* The HTTP client (http.rs): http_request, which collects a response up   *)
(* to the end of the connection and then takes it apart, and               *)
(* http_post_stream, which sends a file and writes what comes back as it   *)
(* comes.  The server frames its answer well or badly, sends it in pieces, *)
(* and the connection may end or stall anywhere.                           *)
(***************************************************************************)
EXTENDS Integers, Sequences, SequencesExt, FiniteSetsExt

CONSTANTS
    MaxBody,       \* bound: length of a body
    MaxLines,      \* bound: lines in the head of an answer
    MaxResponse,   \* 1 MiB, what http_request collects at most
    ResponseLimit  \* http_post_stream: response_limit

ASSUME HttpAssumption == {MaxBody, MaxLines, MaxResponse, ResponseLimit} \subseteq Nat

VARIABLES
    call,        \* "whole" (http_request) or "stream" (http_post_stream)
    source,      \* stream: how many bytes the reader of the request's body has
    claimed,     \* stream: body_len, as announced to the server
    expected,    \* stream: expected_response, or NoLength
    body,        \* external: the body the server means
    serverSends, \* external: what it has sent, token by token
    serves,      \* external: what comes next of it
    told,        \* external: how many bytes of the body it has sent
    chunkLeft,   \* external: how many more belong to the chunk
    closed,      \* the connection is closed by the server
    data,        \* tokens read, not yet taken apart
    head,        \* stream: tokens of the head that were taken apart
    bodyOut,     \* the body as the caller gets it
    outcome      \* "sending", "reading", "ok" or "failed"

requestVars == <<call, source, claimed, expected>>
serverSide == <<body, serverSends, serves, told, chunkLeft, closed>>
htVars == <<requestVars, serverSide, data, head, bodyOut, outcome>>

NoLength == 0 - 1
Token(t, n) == [t |-> t, n |-> n]

\* The lines of a head that say how the body comes, and one that does not.
HeadLines ==
    {Token(t, 0) : t \in {"chunked", "coding", "gzip", "noise"}}
      \cup {Token("length", n) : n \in 0..MaxBody}

Says(t, s) == \E i \in DOMAIN s : s[i].t = t
SaysTwice(t, s) == \E i, j \in DOMAIN s : i # j /\ s[i].t = t /\ s[j].t = t
LengthIn(s) == s[CHOOSE i \in DOMAIN s : s[i].t = "length"].n

HtInit ==
    /\ call \in {"whole", "stream"}
    /\ \E n \in 0..MaxBody : body = [i \in 1..n |-> Token("byte", i)]
    /\ source \in IF call = "stream" THEN 0..1 ELSE {0}
    /\ claimed \in IF call = "stream" THEN 0..1 ELSE {0}
    /\ expected \in IF call = "stream" THEN {NoLength, 1} ELSE {NoLength}
    /\ serverSends = <<>> /\ serves = "status"
    /\ told = 0 /\ chunkLeft = 0
    /\ closed = FALSE
    /\ data = <<>> /\ head = <<>> /\ bodyOut = <<>>
    /\ outcome = "sending"

(***************************************************************************)
(* The server.  Any head; then the body, in chunks only under a head that  *)
(* says so.  It may close the connection at any point.                     *)
(***************************************************************************)
ServerSays(token, next) ==
    /\ outcome = "reading" /\ ~closed
    /\ serverSends' = Append(serverSends, token)
    /\ serves' = next
    /\ UNCHANGED <<requestVars, body, closed, data, head, bodyOut, outcome>>

ServerSaysStatus ==
    /\ serves = "status" /\ ServerSays(Token("status", 200), "head")
    /\ UNCHANGED <<told, chunkLeft>>

ServerSaysLine(line) ==
    /\ serves = "head" /\ Len(serverSends) <= MaxLines
    /\ ServerSays(line, "head")
    /\ UNCHANGED <<told, chunkLeft>>

ServerEndsHead ==
    /\ serves = "head"
    /\ \/ ServerSays(Token("blank", 0), "plain")
       \/ Says("chunked", serverSends) /\ ServerSays(Token("blank", 0), "size")
    /\ UNCHANGED <<told, chunkLeft>>

ServerSaysByte ==
    /\ told < Len(body) /\ told' = told + 1
    /\ \/ serves = "plain" /\ ServerSays(body[told + 1], "plain") /\ UNCHANGED chunkLeft
       \/ /\ serves = "bytes" /\ chunkLeft' = chunkLeft - 1
          /\ ServerSays(body[told + 1], IF chunkLeft = 1 THEN "end" ELSE "bytes")

\* The size of the next chunk; of none when the body is at its end.
ServerSaysSize(n) ==
    /\ serves = "size"
    /\ IF told = Len(body) THEN n = 0 ELSE n \in 1..Len(body) - told
    /\ chunkLeft' = n
    /\ ServerSays(Token("size", n), IF n = 0 THEN "trailers" ELSE "bytes")
    /\ UNCHANGED told

\* The end of a chunk; trailers, at most one of them, and the end of the last.
ServerEndsChunk ==
    /\ \/ serves = "end" /\ ServerSays(Token("crlf", 0), "size")
       \/ serves = "trailers" /\ ServerSays(Token("trailer", 0), "trailed")
       \/ serves \in {"trailers", "trailed"} /\ ServerSays(Token("crlf", 0), "over")
    /\ UNCHANGED <<told, chunkLeft>>

ServerCloses ==
    /\ outcome = "reading" /\ ~closed
    /\ closed' = TRUE
    /\ UNCHANGED <<requestVars, body, serverSends, serves, told, chunkLeft, data, head, bodyOut, outcome>>

(***************************************************************************)
(* The client.                                                             *)
(***************************************************************************)
Finish(how, what) ==
    /\ outcome' = how
    /\ bodyOut' = what
    /\ UNCHANGED <<requestVars, serverSide, data, head>>

Fails == Finish("failed", bodyOut)

\* The request is written; what is streamed must have the length announced.
SendRequest ==
    /\ outcome = "sending"
    /\ IF source < claimed THEN Fails
       ELSE /\ outcome' = "reading"
            /\ UNCHANGED <<requestVars, serverSide, data, head, bodyOut>>

\* Every read has a deadline: the request's, or its own in a stream.
ReadStalls ==
    /\ outcome \in {"sending", "reading"}
    /\ Fails

\* read_response_with.
ReadWhole(n) ==
    /\ outcome = "reading" /\ call = "whole"
    /\ Len(data) + n <= Len(serverSends)
    /\ IF Len(data) + n > MaxResponse THEN Fails
       ELSE /\ data' = SubSeq(serverSends, 1, Len(data) + n)
            /\ UNCHANGED <<requestVars, serverSide, head, bodyOut, outcome>>

\* decode_chunked, one token at a time: the loop is before a size, in the bytes
\* of a chunk, at the end of their line, or behind the chunk of no bytes, where
\* trailers only have to end.
TakeToken(d, x) ==
    CASE d.at = "size" /\ x.t = "size" ->
            [d EXCEPT !.at = IF x.n = 0 THEN "trailers" ELSE "bytes", !.left = x.n]
      [] d.at = "bytes" ->
            [at |-> IF d.left = 1 THEN "end" ELSE "bytes", left |-> d.left - 1, body |-> Append(d.body, x)]
      [] d.at = "end" /\ x.t = "crlf" -> [d EXCEPT !.at = "size"]
      [] d.at \in {"trailers", "whole"} -> [d EXCEPT !.at = IF x.t = "crlf" THEN "whole" ELSE "trailers"]
      [] OTHER -> [d EXCEPT !.at = "invalid"]

AtFirst == [at |-> "size", left |-> 0, body |-> <<>>]
DecodeChunked(raw) == FoldLeft(TakeToken, AtFirst, raw)

\* Mutant: a body that stops between two chunks is taken for whole.
CompleteOrCut(d) == d.at \in {"whole", "size"}

Complete(d) == d.at = "whole"

\* The head says how long the body is in two ways, or in one unknown here.
Ambiguous(lines) ==
    \/ SaysTwice("length", lines) \/ SaysTwice("chunked", lines) \/ Says("coding", lines)
    \/ Says("length", lines) /\ Says("chunked", lines)

\* parse_http_response, once the connection is at its end.
ParseWhole ==
    /\ outcome = "reading" /\ call = "whole"
    /\ closed /\ Len(data) = Len(serverSends)
    /\ LET sep == Min({i \in DOMAIN data : data[i].t = "blank"})
           lines == SubSeq(data, 1, sep)
           raw == SubSeq(data, sep + 1, Len(data))
           decoded == DecodeChunked(raw)
       IN  IF ~Says("blank", data) \/ Ambiguous(lines) THEN Fails
           ELSE IF Says("chunked", lines)
           THEN IF Complete(decoded) THEN Finish("ok", decoded.body) ELSE Fails
           ELSE IF Says("length", lines) /\ LengthIn(lines) # Len(raw) THEN Fails
           ELSE Finish("ok", raw)

\* read_bounded_line, and what http_post_stream does with a line of the head.
ReadHeadLine ==
    /\ outcome = "reading" /\ call = "stream"
    /\ ~Says("blank", head)
    /\ IF Len(serverSends) = Len(head)
       THEN closed /\ Fails
       ELSE LET line == serverSends[Len(head) + 1]
            IN  IF \/ line.t \in {"chunked", "coding", "gzip"}
                   \/ line.t = "length" /\ Says("length", head)
                THEN Fails
                ELSE /\ head' = Append(head, line)
                     /\ UNCHANGED <<requestVars, serverSide, data, bodyOut, outcome>>

\* The length the head of the response announces, 0 for none.
Announced == IF Says("length", head) THEN LengthIn(head) ELSE 0

\* The copy of the response, limited to its length.
CopyResponse(n) ==
    /\ outcome = "reading" /\ call = "stream"
    /\ Says("blank", head)
    /\ IF \/ Announced > ResponseLimit
          \/ expected # NoLength /\ Announced # expected
       THEN n = 1 /\ Fails
       ELSE IF Len(bodyOut) = Announced THEN n = 1 /\ Finish("ok", bodyOut)
       ELSE LET at == Len(head) + Len(bodyOut)
            IN  IF at = Len(serverSends) THEN n = 1 /\ closed /\ Fails
                ELSE /\ at + n <= Len(serverSends) /\ Len(bodyOut) + n <= Announced
                     /\ bodyOut' = bodyOut \o SubSeq(serverSends, at + 1, at + n)
                     /\ UNCHANGED <<requestVars, serverSide, data, head, outcome>>

HtNext ==
    \/ SendRequest \/ ReadStalls \/ ParseWhole \/ ReadHeadLine
    \/ \E n \in 1..2 : ReadWhole(n) \/ CopyResponse(n)
    \/ ServerSaysStatus \/ (\E line \in HeadLines : ServerSaysLine(line)) \/ ServerEndsHead
    \/ ServerSaysByte \/ (\E n \in 0..MaxBody : ServerSaysSize(n)) \/ ServerEndsChunk \/ ServerCloses

HtSpec == HtInit /\ [][HtNext]_htVars

HtTypeOK ==
    /\ outcome \in {"sending", "reading", "ok", "failed"}
    /\ told \in 0..Len(body) /\ chunkLeft \in 0..MaxBody
    /\ Len(data) <= MaxResponse /\ Len(data) <= Len(serverSends)
    /\ Len(head) + Len(bodyOut) <= Len(serverSends)

(***************************************************************************)
(* Properties.                                                             *)
(***************************************************************************)

\* The lines that say how long the body is.
Framing == {i \in DOMAIN serverSends : serverSends[i].t \in {"length", "chunked"}}

\* The caller never gets anything but a beginning of the body.  A response whose
\* head says how long the body is, in one way, is taken only with that length,
\* and chunked only as the server meant it: cut short anywhere it is an error.  A
\* head that says it twice is never believed.  Streamed, the caller never gets
\* more than was announced, expected and allowed, not even before an error.
ResponseWhole ==
    /\ IsPrefix(bodyOut, body)
    /\ outcome = "ok" =>
          /\ \A i, j \in Framing : i = j
          /\ \A i \in Framing : IF serverSends[i].t = "chunked" THEN bodyOut = body
                                ELSE Len(bodyOut) = serverSends[i].n
    /\ call = "stream" =>
          /\ Len(bodyOut) <= ResponseLimit /\ Len(bodyOut) <= Announced
          /\ outcome = "ok" =>
                Len(bodyOut) = Announced /\ expected \in {NoLength, Announced} /\ source >= claimed

=============================================================================

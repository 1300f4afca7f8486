------------------------------ MODULE HttpFeed ------------------------------
(***************************************************************************)
(* How the bytes of an HTTP response become the body an agent fetch        *)
(* answers with: http_feed of main.rs, which TCP segments or TLS records   *)
(* are given to one after the other, and agent_capture_response_body of    *)
(* model.rs, which collects what http_feed delivers.                       *)
(*                                                                         *)
(* A response is a finite stream of bytes, each labelled with what it is   *)
(* for the sender; the parser never looks at the labels.  What is          *)
(* delivered and captured are positions in that stream.  Whether the       *)
(* response is delivered to the UDP peer too, and what its status and      *)
(* redirects do to the fetch, is in FetchEngine.                           *)
(***************************************************************************)
EXTENDS Integers, Sequences

CONSTANTS
    Responses,    \* what the peer may answer
    Base,         \* 16: chunk sizes are hexadecimal
    HeaderMax,    \* length of HTTP_HEADER_BUF
    BodyMax,      \* length of AGENT_RESPONSE_BODY
    WholeEnds,    \* no cut falls into the four bytes that end the headers
    MaxRounds,    \* FETCH_MAX_ROUNDS
    MaxFetches    \* bound: fetches the agent starts

Chars == {"hex", "CR", "LF", ";", "other"}
Zones == {"head", "digits", "ext", "lf", "data", "cr2", "lf2", "tail"}

\* A byte: the class http_feed sees and its value if it is a hexadecimal digit;
\* and for the sender the part of the response it is in, the number the digits
\* before it make, and where its chunk of data ends.
Byte == [char : Chars, val : 0..Base - 1, zone : Zones, acc : Nat, stop : Nat]

Response == [wire : Seq(Byte), head : Nat, chunked : BOOLEAN, length : Nat,
             ok : BOOLEAN]

Char(r, p) == r.wire[p].char
Zone(r, p) == r.wire[p].zone
Size(r) == Len(r.wire)

\* CR LF CR LF from p on.
EndsHeaders(r, p) ==
    /\ p + 3 <= Size(r)
    /\ Char(r, p) = "CR" /\ Char(r, p + 1) = "LF"
    /\ Char(r, p + 2) = "CR" /\ Char(r, p + 3) = "LF"

\* The headers are the bytes up to head, and end where they should.
HeadOK(r) ==
    /\ r.head \in 4..Size(r)
    /\ \A p \in 1..r.head - 3 : EndsHeaders(r, p) <=> p = r.head - 3

\* A chunked body: lines with a size in digits, perhaps an extension, CR LF; as
\* many bytes of data, CR LF; and after the line with size zero the trailer.
After(r, p, zone) == p < Size(r) => Zone(r, p + 1) = zone
SameAcc(r, p) == p < Size(r) => r.wire[p + 1].acc = r.wire[p].acc
ZeroAcc(r, p) == p < Size(r) => r.wire[p + 1].acc = 0

Line(r, p) ==
    LET b == r.wire[p] IN
    \/ b.zone = "digits" /\ b.char = "hex" /\ After(r, p, "digits")
       /\ (p < Size(r) => r.wire[p + 1].acc = b.acc * Base + b.val)
    \/ b.zone = "digits" /\ b.char = ";" /\ After(r, p, "ext") /\ SameAcc(r, p)
    \/ b.zone = "ext" /\ b.char # "CR" /\ After(r, p, "ext") /\ SameAcc(r, p)
    \/ b.zone \in {"digits", "ext"} /\ b.char = "CR" /\ After(r, p, "lf")
       /\ SameAcc(r, p)
    \/ b.zone = "lf" /\ b.char = "LF" /\ b.acc = 0 /\ After(r, p, "tail")
    \/ b.zone = "lf" /\ b.char = "LF" /\ b.acc > 0 /\ After(r, p, "data")
       /\ (p < Size(r) => r.wire[p + 1].stop = p + b.acc)

ChunkEnd(r, p) ==
    LET b == r.wire[p] IN
    \/ b.zone = "cr2" /\ b.char = "CR" /\ After(r, p, "lf2")
    \/ b.zone = "lf2" /\ b.char = "LF" /\ After(r, p, "digits") /\ ZeroAcc(r, p)

Data(r, p) ==
    LET b == r.wire[p] IN
    /\ b.zone = "data" /\ b.stop >= p
    /\ \A q \in p..b.stop : q <= Size(r) => Zone(r, q) = "data"
                                             /\ r.wire[q].stop = b.stop
    /\ b.stop < Size(r) => Zone(r, b.stop + 1) = "cr2"

ChunkedOK(r) ==
    /\ After(r, r.head, "digits") /\ ZeroAcc(r, r.head)
    /\ \A p \in r.head + 1..Size(r) :
           Line(r, p) \/ ChunkEnd(r, p) \/ Data(r, p) \/ Zone(r, p) = "tail"
    /\ \A p, q \in r.head + 1..Size(r) :
           Zone(r, p) = "tail" /\ p <= q => Zone(r, q) = "tail"

ASSUME ResponseAssumption ==
    /\ Responses # {}
    /\ \A r \in Responses : /\ r \in Response
                            /\ HeadOK(r)
                            /\ r.chunked => ChunkedOK(r)
ASSUME LimitAssumption ==
    /\ Base \in Nat \ {0} /\ HeaderMax \in Nat /\ BodyMax \in Nat \ {0}
    /\ WholeEnds \in BOOLEAN /\ MaxRounds \in Nat /\ MaxFetches \in Nat

VARIABLES
    fetch,      \* "idle", "open" while the response is read, "done" (FETCH_DONE)
    kind,       \* the agent asks its "model" or another "tool"
    round,      \* FETCH_ROUNDS
    resp,       \* what the peer answers in this round
    pos,        \* the byte http_feed looks at next
    seen,       \* the last byte it has been given
    parser,     \* HTTP_PARSE_STATE and what else http_reset clears
    reason,     \* FETCH_ERROR_REASON is "http headers too large"
    mixed,      \* history: a round before this one was given bytes
    body,       \* history: what was delivered, pairs of round and position
    len,        \* AGENT_RESPONSE_BODY_LEN
    captured,   \* AGENT_RESPONSE_BODY, such pairs
    truncated,  \* AGENT_RESPONSE_BODY_TRUNCATED
    enough,     \* AGENT_OUTPUT_TEXT_LEN # 0
    fetches     \* history: fetches started

inVars == <<fetch, kind, round, resp, seen, mixed, fetches>>
outVars == <<body, len, captured, truncated, enough>>
vars == <<inVars, pos, parser, reason, outVars>>

\* Headers, identity body, chunk size, chunk data, end of a chunk, complete.
ParserStates == {"head", "identity", "size", "data", "chunkEnd", "complete"}

\* heads: the responses with bytes in HTTP_HEADER_BUF; ok: the status is 2xx.
Parser == [state : ParserStates, header : 0..HeaderMax, heads : SUBSET Responses,
           ok : BOOLEAN, limit : Nat, recv : Nat, parse : Nat, ext : BOOLEAN,
           expectLF : BOOLEAN, remain : Nat]

\* http_reset.
Fresh == [state |-> "head", header |-> 0, heads |-> {}, ok |-> FALSE,
          limit |-> 0, recv |-> 0, parse |-> 0, ext |-> FALSE,
          expectLF |-> FALSE, remain |-> 0]

Less(a, b) == IF a < b THEN a ELSE b

-----------------------------------------------------------------------------
(* agent_capture_response_body, given the next n bytes.  The first bytes    *)
(* captured clear the flags an earlier fetch left; once the text of the     *)
(* model's answer has been found in a 2xx response the rest is skipped.     *)
Flag_Kept(b) == b
Flag(b) == b /\ len > 0
Answered == kind = "model" /\ parser.ok

Capture_NoRoom(n) ==
    /\ captured' = captured \cup {round} \X (pos..pos + n - 1)
    /\ len' = len + n /\ truncated' = FALSE /\ UNCHANGED enough
Capture(n) ==
    IF Flag(enough) /\ Answered
    THEN /\ truncated' = Flag(truncated)
         /\ UNCHANGED <<len, captured, enough>>
    ELSE LET take == Less(n, BodyMax - len) IN
         /\ captured' = captured \cup {round} \X (pos..pos + take - 1)
         /\ len' = len + take
         /\ truncated' = (Flag(truncated) \/ take < n)
         /\ \/ enough' = Flag(enough)
            \/ Answered /\ enough' = TRUE

\* send_body_chunks.
Deliver(n) == /\ body' = body \cup {round} \X (pos..pos + n - 1)
              /\ Capture(n)

-----------------------------------------------------------------------------
(* http_feed: one action for each way an iteration of its loop can go.      *)
Rest == seen - pos + 1
AtRest == pos > seen
In(state) == ~AtRest /\ parser.state = state
Return == pos' = seen + 1

\* The headers end in these bytes, and p is where: http_parse_headers.  If
\* HTTP_HEADER_BUF has bytes of several responses, each field is from one of them.
EndsAt(p) == /\ p \in pos..seen - 3
             /\ EndsHeaders(resp, p)
             /\ \A q \in pos..p - 1 : ~EndsHeaders(resp, q)
EndsNowhere == \A p \in pos..seen - 3 : ~EndsHeaders(resp, p)
Fits(n) == parser.header + n <= HeaderMax

HeadersEnd ==
    /\ In("head")
    /\ \E p \in pos..seen - 3 :
           /\ EndsAt(p) /\ Fits(p + 4 - pos)
           /\ \E c, l, o \in parser.heads \cup {resp} :
                  parser' = [parser EXCEPT
                                !.state = IF c.chunked THEN "size" ELSE "identity",
                                !.header = @ + (p + 4 - pos),
                                !.heads = @ \cup {resp},
                                !.limit = l.length, !.ok = o.ok]
           /\ pos' = p + 4
    /\ UNCHANGED <<inVars, reason, outVars>>

HeadersGoOn ==
    /\ In("head") /\ EndsNowhere /\ Fits(Rest)
    /\ parser' = [parser EXCEPT !.header = @ + Rest, !.heads = @ \cup {resp}]
    /\ Return
    /\ UNCHANGED <<inVars, reason, outVars>>

HeadersTooLarge ==
    /\ In("head")
    /\ \/ EndsNowhere /\ ~Fits(Rest)
       \/ \E p \in pos..seen - 3 : EndsAt(p) /\ ~Fits(p + 4 - pos)
    /\ fetch' = "done" /\ reason' = TRUE
    /\ Return
    /\ UNCHANGED <<kind, round, resp, seen, mixed, fetches, parser, outVars>>

Identity_Past ==
    /\ In("identity")
    /\ Deliver(Rest)
    /\ parser' = [parser EXCEPT !.recv = @ + Rest,
                     !.state = IF parser.limit > 0 /\ parser.recv > parser.limit
                               THEN "complete" ELSE @]
    /\ Return
    /\ UNCHANGED <<inVars, reason>>
Identity ==
    LET room == parser.limit - parser.recv
        take == IF parser.limit > 0 THEN Less(Rest, room) ELSE Rest
    IN  /\ In("identity")
        /\ Deliver(take)
        /\ parser' = [parser EXCEPT
                         !.recv = @ + take,
                         !.state = IF parser.limit > 0 /\ take = room
                                   THEN "complete" ELSE @]
        /\ Return
        /\ UNCHANGED <<inVars, reason>>

\* One byte of a line with a chunk size.  Whatever is none of the others is
\* passed over: the LF chunkEnd may have left, and what follows a lone CR.
SizeByte_ExtKept(b) ==
    \/ /\ parser.expectLF /\ b.char = "LF"
       /\ parser' = [parser EXCEPT !.parse = 0, !.expectLF = FALSE,
                        !.remain = parser.parse,
                        !.state = IF parser.parse = 0 THEN "complete" ELSE "data"]
    \/ /\ parser.expectLF /\ b.char # "LF" /\ UNCHANGED parser
    \/ /\ ~parser.expectLF
       /\ parser' = [parser EXCEPT
                        !.expectLF = (b.char = "CR"),
                        !.ext = (@ \/ b.char = ";"),
                        !.parse = IF b.char = "hex" /\ ~parser.ext
                                  THEN @ * Base + b.val ELSE @]
SizeByte(b) ==
    \/ /\ parser.expectLF /\ b.char = "LF"
       /\ parser' = [parser EXCEPT !.parse = 0, !.ext = FALSE, !.expectLF = FALSE,
                        !.remain = parser.parse,
                        !.state = IF parser.parse = 0 THEN "complete" ELSE "data"]
    \/ /\ parser.expectLF /\ b.char # "LF"
       /\ UNCHANGED parser
    \/ /\ ~parser.expectLF /\ b.char = "CR"
       /\ parser' = [parser EXCEPT !.expectLF = TRUE]
    \/ /\ ~parser.expectLF /\ b.char = ";" /\ ~parser.ext
       /\ parser' = [parser EXCEPT !.ext = TRUE]
    \/ /\ ~parser.expectLF /\ b.char = "hex" /\ ~parser.ext
       /\ parser' = [parser EXCEPT !.parse = @ * Base + b.val]
    \/ /\ ~parser.expectLF /\ b.char # "CR"
       /\ parser.ext \/ b.char \in {"LF", "other"}
       /\ UNCHANGED parser

ChunkSize == /\ In("size")
             /\ SizeByte(resp.wire[pos])
             /\ pos' = pos + 1
             /\ UNCHANGED <<inVars, reason, outVars>>

ChunkData ==
    LET take == Less(Rest, parser.remain) IN
    /\ In("data")
    /\ Deliver(take)
    /\ parser' = [parser EXCEPT
                     !.remain = @ - take,
                     !.state = IF take = parser.remain THEN "chunkEnd" ELSE @]
    /\ pos' = pos + take
    /\ UNCHANGED <<inVars, reason>>

\* Bytes are dropped up to a CR, and the LF after it if it is there already.
ChunkEnds ==
    /\ In("chunkEnd")
    /\ IF Char(resp, pos) = "CR"
         THEN /\ pos' = IF pos < seen /\ Char(resp, pos + 1) = "LF"
                        THEN pos + 2 ELSE pos + 1
              /\ parser' = [parser EXCEPT !.state = "size"]
         ELSE pos' = pos + 1 /\ UNCHANGED parser
    /\ UNCHANGED <<inVars, reason, outVars>>

\* After the end of the response everything is dropped.
Ignore == /\ In("complete")
          /\ Return
          /\ UNCHANGED <<inVars, parser, reason, outVars>>

Feed == \/ HeadersEnd \/ HeadersGoOn \/ HeadersTooLarge \/ Identity
        \/ ChunkSize \/ ChunkData \/ ChunkEnds \/ Ignore

-----------------------------------------------------------------------------
(* The callers.  A TCP payload is given in pieces of FETCH_CHUNK_BYTES, TLS *)
(* records as tls_read returns them; neither loop stops when http_feed ends *)
(* the fetch because of too large headers.                                  *)
Segment(n) ==
    /\ fetch = "open" \/ (fetch = "done" /\ reason)
    /\ AtRest
    /\ seen + n <= Size(resp)
    /\ WholeEnds => seen + n \notin resp.head - 3..resp.head - 1
    /\ seen' = seen + n
    /\ UNCHANGED <<fetch, kind, round, resp, mixed, fetches, pos, parser, reason,
                   outVars>>

\* fetch_start_ex and http_reset for an agent that has cleared its buffers.
StartFetch(k, r) ==
    /\ fetch = "idle" /\ fetches < MaxFetches
    /\ fetches' = fetches + 1
    /\ fetch' = "open" /\ kind' = k /\ resp' = r
    /\ round' = 0 /\ pos' = 1 /\ seen' = 0
    /\ parser' = Fresh /\ reason' = FALSE /\ mixed' = FALSE
    /\ body' = {} /\ captured' = {} /\ len' = 0 /\ enough' = FALSE
    /\ UNCHANGED truncated

\* fetch_tick when the deadline has passed, even if the fetch is done: the
\* request is made again and answered anew, and the parser goes on as it was.
RestartParser == parser
NewRound(r) ==
    /\ fetch # "idle" /\ AtRest
    /\ round < MaxRounds
    /\ round' = round + 1
    /\ fetch' = "open" /\ resp' = r
    /\ pos' = 1 /\ seen' = 0
    /\ mixed' = (mixed \/ seen > 0)
    /\ parser' = RestartParser
    /\ UNCHANGED <<kind, fetches, reason, outVars>>

\* FIN, the end of the response, nothing heard for too long, or a failure.
Close == /\ fetch = "open" /\ AtRest
         /\ fetch' = "done"
         /\ UNCHANGED <<kind, round, resp, seen, mixed, fetches, pos, parser,
                        reason, outVars>>

EndFetch == /\ fetch = "done" /\ AtRest
            /\ fetch' = "idle"
            /\ UNCHANGED <<kind, round, resp, seen, mixed, fetches, pos, parser,
                           reason, outVars>>

Init ==
    /\ fetch = "idle" /\ kind = "tool" /\ round = 0
    /\ resp \in Responses
    /\ pos = 1 /\ seen = 0 /\ parser = Fresh
    /\ reason = FALSE /\ mixed = FALSE
    /\ body = {} /\ captured = {} /\ len = 0
    /\ truncated = FALSE /\ enough = FALSE /\ fetches = 0

Next == \/ Feed
        \/ \E n \in 1..Size(resp) : Segment(n)
        \/ \E k \in {"model", "tool"}, r \in Responses : StartFetch(k, r)
        \/ \E r \in Responses : NewRound(r)
        \/ Close \/ EndFetch

Spec == Init /\ [][Next]_vars

-----------------------------------------------------------------------------
(* Properties.                                                              *)

\* Every variable has its type.
TypeOK ==
    /\ fetch \in {"idle", "open", "done"} /\ kind \in {"model", "tool"}
    /\ round \in 0..MaxRounds /\ resp \in Responses
    /\ pos \in Nat \ {0} /\ seen \in Nat
    /\ parser \in Parser
    /\ reason \in BOOLEAN /\ mixed \in BOOLEAN
    /\ body \subseteq Nat \X Nat /\ captured \subseteq body
    /\ len \in 0..BodyMax
    /\ truncated \in BOOLEAN /\ enough \in BOOLEAN /\ fetches \in 0..MaxFetches

\* Where the sender put the body, and where http_feed delivered it from.
Payload(r) == {p \in r.head + 1..Size(r) :
                  IF r.chunked THEN Zone(r, p) = "data"
                  ELSE r.length > 0 => p <= r.head + r.length}
Delivered == {p \in 1..Size(resp) : <<round, p>> \in body}

\* However the response is cut, once its headers fit: what is delivered is
\* exactly the body, as far as it has been looked at.  No chunk size,
\* extension, CR LF or trailer gets into it, nothing is lost or delivered twice
\* to the capture (http_feed).
BodyIntact == fetch # "idle" /\ ~mixed /\ ~reason =>
                  Delivered = Payload(resp) \cap 1..pos - 1

\* The parser says that the response is complete when, and only when, all of it
\* was seen that the sender's framing announces (fetch_http_response_complete
\* ends the fetch then).
Announced(r, p) ==
    IF r.chunked THEN \E q \in r.head + 1..p : /\ q <= Size(r)
                                              /\ Zone(r, q) = "lf"
                                              /\ r.wire[q].acc = 0
    ELSE r.length > 0 /\ p >= r.head + r.length
CompleteExactly == fetch # "idle" /\ ~mixed /\ ~reason =>
                       (parser.state = "complete" <=> Announced(resp, pos - 1))

\* What the agent reads is what was delivered, or the truncation flag or an
\* answer found earlier says why not; and the flag is not one an earlier fetch
\* left behind, unless nothing was captured at all
\* (agent_capture_response_body).
AnswerWhole ==
    /\ captured = {} <=> body = {}
    /\ body # {} => /\ truncated => captured # body
                    /\ ~truncated /\ ~enough => captured = body

\* What is dropped comes after what is kept, across rounds too.
Before(a, b) == a[1] < b[1] \/ (a[1] = b[1] /\ a[2] < b[2])
KeptFirst == \A a \in captured, b \in body \ captured : Before(a, b)

\* What the agent reads is the beginning of what was delivered, and it can tell
\* whether that is all (agent_capture_response_body).
CaptureTrue == AnswerWhole /\ KeptFirst

\* What a round delivers is of the body of its own response.
RoundBody == fetch # "idle" => Delivered \subseteq Payload(resp)
=============================================================================

-------------------------- MODULE HttpFeed_proofs ---------------------------
(* What HttpFeed keeps for every set of well-formed responses, every way    *)
(* they are cut into segments and records, and all buffer lengths.          *)
EXTENDS HttpFeed, TLAPS

-----------------------------------------------------------------------------
(* The responses and arithmetic.                                            *)

\* The bytes of a response, the end of its headers, and its announced length.
LEMMA ResponseFacts ==
    ASSUME NEW r \in Responses
    PROVE  /\ r.wire \in Seq(Byte) /\ Size(r) \in Nat
           /\ \A p \in 1..Size(r) : r.wire[p] \in Byte
           /\ r.head \in 4..Size(r) /\ r.chunked \in BOOLEAN
           /\ r.length \in Nat /\ r.ok \in BOOLEAN
<1>1. r \in Response /\ HeadOK(r)
  BY ResponseAssumption
<1> QED
  BY <1>1 DEF Response, HeadOK, Size

\* A line with a chunk size counts in the natural numbers.
LEMMA DigitNat ==
    ASSUME NEW a \in Nat, NEW b \in Byte
    PROVE  a * Base + b.val \in Nat
<1>1. Base \in Nat /\ b.val \in Nat
  BY LimitAssumption DEF Byte
<1>2. a * Base \in Nat
  BY <1>1
<1> QED
  BY <1>1, <1>2

-----------------------------------------------------------------------------
(* The type invariant.  What is left of an identity body or of a chunk is   *)
(* never nothing while the parser is in it, or a negative length would be   *)
(* delivered.                                                               *)
Limits ==
    /\ seen <= Size(resp)
    /\ parser.state = "head" => parser.recv = 0
    /\ parser.state = "identity" /\ parser.limit > 0 => parser.recv < parser.limit
    /\ parser.state = "data" => parser.remain > 0

TypeInv == TypeOK /\ Limits

\* What Identity and ChunkData deliver is at least one byte and at most the rest.
IdentityTake == IF parser.limit > 0 THEN Less(Rest, parser.limit - parser.recv)
                                    ELSE Rest
LEMMA TakePositive ==
    ASSUME TypeInv
    PROVE  /\ In("identity") => IdentityTake \in 1..Rest
           /\ In("data") => Less(Rest, parser.remain) \in 1..Rest
  BY DEF TypeInv, TypeOK, Limits, Parser, In, AtRest, Rest, IdentityTake, Less

\* A delivery keeps the types of what it changes.
LEMMA DeliverType ==
    ASSUME TypeOK, NEW n \in Nat, Deliver(n)
    PROVE  /\ body' \subseteq Nat \X Nat /\ captured' \subseteq body'
           /\ len' \in 0..BodyMax
           /\ truncated' \in BOOLEAN /\ enough' \in BOOLEAN
<1>1. body' \subseteq Nat \X Nat
  BY LimitAssumption DEF TypeOK, Deliver
<1>2. CASE Flag(enough) /\ Answered
  BY <1>1, <1>2 DEF TypeOK, Deliver, Capture, Flag
<1>3. CASE ~(Flag(enough) /\ Answered)
  <2> DEFINE take == Less(n, BodyMax - len)
  <2>1. take \in 0..n /\ take <= BodyMax - len
    BY LimitAssumption DEF TypeOK, Less
  <2>2. /\ captured' = captured \cup {round} \X (pos..pos + take - 1)
        /\ len' = len + take
    BY <1>3 DEF Deliver, Capture
  <2>3. pos..pos + take - 1 \subseteq pos..pos + n - 1
    BY <2>1 DEF TypeOK
  <2>4. captured' \subseteq body'
    BY <2>2, <2>3 DEF TypeOK, Deliver
  <2>5. len' \in 0..BodyMax
    BY <2>1, <2>2, LimitAssumption DEF TypeOK
  <2>6. truncated' \in BOOLEAN /\ enough' \in BOOLEAN
    BY <1>3 DEF TypeOK, Deliver, Capture, Flag
  <2> QED
    BY <1>1, <2>4, <2>5, <2>6
<1> QED
  BY <1>2, <1>3

\* The parser after http_reset.
LEMMA FreshFacts ==
    /\ Fresh \in Parser /\ Fresh.state = "head" /\ Fresh.recv = 0
    /\ Fresh.heads = {} /\ Fresh.parse = 0
    /\ Fresh.ext = FALSE /\ Fresh.expectLF = FALSE
  BY LimitAssumption DEF Fresh, Parser, ParserStates

LEMMA TypeInit == Init => TypeInv
<1> SUFFICES ASSUME Init PROVE TypeInv
  OBVIOUS
<1>1. resp \in Responses /\ Size(resp) \in Nat
  BY ResponseFacts DEF Init
<1>2. parser \in Parser /\ parser.state = "head" /\ parser.recv = 0
  BY FreshFacts DEF Init
<1>3. /\ body \subseteq Nat \X Nat /\ captured \subseteq body
      /\ reason \in BOOLEAN /\ mixed \in BOOLEAN
      /\ truncated \in BOOLEAN /\ enough \in BOOLEAN
  BY Zenon DEF Init
<1>4. TypeOK
  BY <1>1, <1>2, <1>3, LimitAssumption DEF Init, TypeOK
<1> QED
  BY <1>1, <1>2, <1>4 DEF Init, TypeInv, Limits

LEMMA TypeNext == TypeInv /\ [Next]_vars => TypeInv'
<1> SUFFICES ASSUME TypeInv, [Next]_vars PROVE TypeInv'
  OBVIOUS
<1> USE DEF TypeInv
<1>0. /\ resp \in Responses /\ Size(resp) \in Nat /\ resp.length \in Nat
      /\ \A p \in 1..Size(resp) : resp.wire[p] \in Byte
      /\ resp.ok \in BOOLEAN
  BY ResponseFacts DEF TypeOK
<1>1. CASE HeadersEnd
  <2>1. PICK p \in pos..seen - 3 :
            /\ EndsAt(p) /\ Fits(p + 4 - pos)
            /\ \E c, l, o \in parser.heads \cup {resp} :
                  parser' = [parser EXCEPT
                                !.state = IF c.chunked THEN "size" ELSE "identity",
                                !.header = @ + (p + 4 - pos),
                                !.heads = @ \cup {resp},
                                !.limit = l.length, !.ok = o.ok]
            /\ pos' = p + 4
    BY <1>1 DEF HeadersEnd
  <2>2. PICK c \in parser.heads \cup {resp}, l \in parser.heads \cup {resp},
             o \in parser.heads \cup {resp} :
                  parser' = [parser EXCEPT
                                !.state = IF c.chunked THEN "size" ELSE "identity",
                                !.header = @ + (p + 4 - pos),
                                !.heads = @ \cup {resp},
                                !.limit = l.length, !.ok = o.ok]
    BY <2>1
  <2>3. l.length \in Nat /\ o.ok \in BOOLEAN
    BY <1>0, ResponseFacts DEF TypeOK, Parser
  <2>4. parser.header + (p + 4 - pos) \in 0..HeaderMax
    BY <2>1, LimitAssumption DEF TypeOK, Parser, Fits
  <2>5. parser' \in Parser /\ parser'.recv = 0 /\ parser'.limit = l.length
        /\ parser'.state \in {"size", "identity"}
    BY <1>0, <1>1, <2>2, <2>3, <2>4
    DEF TypeOK, Limits, Parser, ParserStates, HeadersEnd, In
  <2>6. pos' \in Nat \ {0}
    BY <2>1 DEF TypeOK
  <2> QED
    BY <1>1, <2>3, <2>5, <2>6 DEF TypeOK, Limits, HeadersEnd, inVars, outVars
<1>2. CASE HeadersGoOn
  <2>0. parser.header + Rest \in 0..HeaderMax
    BY <1>2, LimitAssumption DEF TypeOK, Parser, HeadersGoOn, In, Fits, Rest, AtRest
  <2>1. parser' \in Parser /\ parser'.recv = 0 /\ parser'.state = "head"
    BY <1>0, <1>2, <2>0 DEF TypeOK, Limits, Parser, HeadersGoOn, In
  <2> QED
    BY <1>2, <2>1 DEF TypeOK, Limits, HeadersGoOn, inVars, outVars, Return
<1>3. CASE HeadersTooLarge
  BY <1>3 DEF TypeOK, Limits, HeadersTooLarge, outVars, Return
<1>4. CASE Identity
  <2>1. IdentityTake \in 1..Rest /\ Rest \in Nat
    BY <1>4, TakePositive DEF Identity, TypeOK, Rest, In, AtRest
  <2>2. /\ Deliver(IdentityTake)
        /\ parser' = [parser EXCEPT
                         !.recv = @ + IdentityTake,
                         !.state = IF parser.limit > 0
                                      /\ IdentityTake = parser.limit - parser.recv
                                   THEN "complete" ELSE @]
    BY <1>4 DEF Identity, IdentityTake
  <2>3. parser' \in Parser
    <3>1. parser.recv + IdentityTake \in Nat
      BY <2>1 DEF TypeOK, Parser
    <3>2. (IF parser.limit > 0 /\ IdentityTake = parser.limit - parser.recv
             THEN "complete" ELSE parser.state) \in ParserStates
      BY DEF TypeOK, Parser, ParserStates
    <3> QED
      BY <2>2, <3>1, <3>2 DEF TypeOK, Parser
  <2>4. parser'.state = "identity" /\ parser'.limit > 0
            => parser'.recv < parser'.limit
    BY <2>1, <2>2, <1>4 DEF TypeOK, Limits, Parser, IdentityTake, Less, Identity, In,
                            Rest
  <2>5. parser'.state \in {"identity", "complete"}
    BY <1>4, <2>2 DEF TypeOK, Parser, Identity, In
  <2>6. IdentityTake \in Nat
    BY <2>1
  <2> QED
    BY <1>4, <2>2, <2>3, <2>4, <2>5, <2>6, DeliverType
    DEF TypeOK, Limits, Identity, inVars, Return
<1>5. CASE ChunkSize
  <2>1. pos \in 1..Size(resp) /\ resp.wire[pos] \in Byte
    BY <1>0, <1>5 DEF TypeOK, Limits, ChunkSize, In, AtRest
  <2> DEFINE b == resp.wire[pos]
  <2>2. parser.parse * Base + b.val \in Nat
    BY <2>1, DigitNat DEF TypeOK, Parser
  <2>3. /\ parser' \in Parser
        /\ parser'.state \in {"size", "complete", "data"}
        /\ parser'.state = "data" => parser'.remain > 0
    <3>0. parser \in Parser /\ parser.state = "size" /\ SizeByte(b)
      BY <1>5 DEF TypeOK, ChunkSize, In
    <3>1. CASE parser.expectLF /\ b.char = "LF"
      <4>1. parser' = [parser EXCEPT !.parse = 0, !.ext = FALSE,
                          !.expectLF = FALSE, !.remain = parser.parse,
                          !.state = IF parser.parse = 0 THEN "complete" ELSE "data"]
        BY <3>0, <3>1 DEF SizeByte
      <4>2. (IF parser.parse = 0 THEN "complete" ELSE "data") \in ParserStates
            /\ parser.parse \in Nat
        BY <3>0 DEF Parser, ParserStates
      <4>3. parser' \in Parser
        BY <3>0, <4>1, <4>2 DEF Parser
      <4>4. /\ parser'.state = IF parser.parse = 0 THEN "complete" ELSE "data"
            /\ parser'.remain = parser.parse
        BY <3>0, <4>1 DEF Parser
      <4> QED
        BY <4>2, <4>3, <4>4
    <3>2. CASE ~(parser.expectLF /\ b.char = "LF")
      <4>1. \/ UNCHANGED parser
            \/ parser' = [parser EXCEPT !.expectLF = TRUE]
            \/ parser' = [parser EXCEPT !.ext = TRUE]
            \/ parser' = [parser EXCEPT !.parse = @ * Base + b.val]
        BY <3>0, <3>2 DEF SizeByte
      <4> HIDE DEF b
      <4> QED
        BY <4>1, <3>0, <2>2 DEF Parser
    <3> QED
      BY <3>1, <3>2
  <2>4. pos' \in Nat \ {0}
    BY <1>5 DEF TypeOK, ChunkSize
  <2> QED
    BY <1>5, <2>3, <2>4 DEF TypeOK, Limits, ChunkSize, inVars, outVars
<1>6. CASE ChunkData
  <2> DEFINE take == Less(Rest, parser.remain)
  <2>1. take \in 1..Rest /\ take \in Nat /\ take <= parser.remain
    BY <1>6, TakePositive DEF ChunkData, TypeOK, Rest, In, AtRest, Less, Parser
  <2>2. /\ Deliver(take)
        /\ parser' = [parser EXCEPT
                         !.remain = @ - take,
                         !.state = IF take = parser.remain THEN "chunkEnd" ELSE @]
        /\ pos' = pos + take
    BY <1>6 DEF ChunkData
  <2> HIDE DEF take
  <2>3. /\ parser' \in Parser
        /\ parser'.state \in {"data", "chunkEnd"}
        /\ parser'.state = "data" => parser'.remain > 0
    <3>1. /\ parser \in Parser /\ parser.state = "data"
          /\ parser.remain - take \in Nat
      BY <1>6, <2>1 DEF TypeOK, Parser, ChunkData, In
    <3>2. (IF take = parser.remain THEN "chunkEnd" ELSE parser.state) \in ParserStates
      BY <3>1 DEF ParserStates
    <3>3. parser' \in Parser
      BY <2>2, <3>1, <3>2 DEF Parser
    <3>4. /\ parser'.state = IF take = parser.remain THEN "chunkEnd" ELSE "data"
          /\ parser'.remain = parser.remain - take
      BY <2>2, <3>1 DEF Parser
    <3> QED
      BY <2>1, <3>1, <3>3, <3>4 DEF Parser
  <2>4. pos' \in Nat \ {0}
    BY <2>1, <2>2 DEF TypeOK
  <2> QED
    BY <1>6, <2>1, <2>2, <2>3, <2>4, DeliverType
    DEF TypeOK, Limits, ChunkData, inVars
<1>7. CASE ChunkEnds
  <2>1. pos' \in Nat \ {0} /\ parser' \in Parser
        /\ parser'.state \in {"size", "chunkEnd"}
    BY <1>7 DEF TypeOK, ChunkEnds, Parser, ParserStates, In
  <2> QED
    BY <1>7, <2>1 DEF TypeOK, Limits, ChunkEnds, inVars, outVars
<1>8. CASE Ignore
  BY <1>8 DEF TypeOK, Limits, Ignore, inVars, outVars, Return
<1>9. ASSUME NEW n \in 1..Size(resp), Segment(n) PROVE TypeInv'
  BY <1>9, <1>0 DEF TypeOK, Limits, Segment, outVars
<1>10. ASSUME NEW k \in {"model", "tool"}, NEW r \in Responses, StartFetch(k, r)
       PROVE  TypeInv'
  <2>1. Size(r) \in Nat
    BY ResponseFacts
  <2>2. parser' \in Parser /\ parser'.state = "head" /\ parser'.recv = 0
    BY <1>10, FreshFacts DEF StartFetch
  <2>3. /\ body' \subseteq Nat \X Nat /\ captured' \subseteq body'
        /\ reason' \in BOOLEAN /\ mixed' \in BOOLEAN
        /\ truncated' \in BOOLEAN /\ enough' \in BOOLEAN
    BY <1>10, Zenon DEF StartFetch, TypeOK
  <2>4. TypeOK'
    BY <1>10, <2>2, <2>3, LimitAssumption DEF TypeOK, StartFetch
  <2> QED
    BY <1>10, <2>1, <2>2, <2>4 DEF Limits, StartFetch
<1>11. ASSUME NEW r \in Responses, NewRound(r) PROVE TypeInv'
  BY <1>11, ResponseFacts, LimitAssumption
  DEF TypeOK, Limits, NewRound, RestartParser, outVars
<1>12. CASE Close
  BY <1>12 DEF TypeOK, Limits, Close, outVars
<1>13. CASE EndFetch
  BY <1>13 DEF TypeOK, Limits, EndFetch, outVars
<1>14. CASE UNCHANGED vars
  BY <1>14 DEF TypeOK, Limits, vars, inVars, outVars
<1> QED
  BY <1>1, <1>2, <1>3, <1>4, <1>5, <1>6, <1>7, <1>8, <1>9, <1>10, <1>11,
     <1>12, <1>13, <1>14 DEF Next, Feed

LEMMA TypeInvariant == Spec => []TypeInv
  BY TypeInit, TypeNext, PTL DEF Spec

\* Every variable of http_feed and of the capture has its type: nothing is
\* written behind the end of a buffer, for all buffer lengths.
THEOREM TypeCorrect == Spec => []TypeOK
  BY TypeInvariant, PTL DEF TypeInv

-----------------------------------------------------------------------------
(* The capture.  When something delivered was not captured, nothing is      *)
(* captured any more: the buffer is full, or the model's answer was found   *)
(* and the status of the response does not change until the next fetch.     *)
Past(x) == x[1] < round \/ (x[1] = round /\ x[2] < pos)

AnswerInv ==
    /\ \A x \in body : Past(x)
    /\ captured = {} <=> len = 0
    /\ body # {} => parser.state # "head"
    /\ body # captured => len = BodyMax \/ (enough /\ Answered)
    /\ AnswerWhole
    /\ KeptFirst

\* The next n bytes are new, and what is captured of them comes first.
LEMMA DeliverAnswer ==
    ASSUME TypeInv, AnswerInv, NEW n \in Nat, n > 0, Deliver(n),
           round' = round, pos' \in Nat, pos' >= pos + n,
           kind' = kind, parser'.ok = parser.ok, parser'.state # "head"
    PROVE  AnswerInv'
<1> DEFINE new == {round} \X (pos..pos + n - 1)
<1>1. /\ round \in Nat /\ pos \in Nat /\ len \in 0..BodyMax /\ BodyMax \in Nat
      /\ BodyMax > 0 /\ body \subseteq Nat \X Nat /\ captured \subseteq body
      /\ enough \in BOOLEAN /\ truncated \in BOOLEAN
  BY LimitAssumption DEF TypeInv, TypeOK
<1>2. body' = body \cup new /\ <<round, pos>> \in new
  BY <1>1 DEF Deliver
<1>3. \A x \in new : ~Past(x) /\ x \notin body
  BY <1>1 DEF AnswerInv, Past
<1>4. \A x \in body' : Past(x)'
  BY <1>1, <1>2 DEF AnswerInv, Past
<1>5. \A a \in body, b \in new : Before(a, b)
  BY <1>1 DEF AnswerInv, Past, Before
<1>6. Answered' <=> Answered
  BY DEF Answered
<1>7. body = {} <=> len = 0
  BY DEF AnswerInv, AnswerWhole
<1>8. CASE Flag(enough) /\ Answered
  <2>1. /\ truncated' = Flag(truncated) /\ len' = len /\ captured' = captured
        /\ enough' = enough /\ enough /\ len > 0
    BY <1>8 DEF Deliver, Capture, Flag
  <2>2. captured' # body' /\ body' # {} /\ captured # {}
    BY <1>1, <1>2, <1>3, <2>1 DEF AnswerInv
  <2>3. AnswerWhole'
    BY <2>1, <2>2 DEF AnswerWhole
  <2>4. KeptFirst'
    BY <1>2, <1>5, <1>1, <2>1 DEF KeptFirst, AnswerInv
  <2> QED
    BY <1>4, <1>6, <1>8, <2>1, <2>2, <2>3, <2>4 DEF AnswerInv
<1>9. CASE ~(Flag(enough) /\ Answered)
  <2> DEFINE take == Less(n, BodyMax - len)
             kept == {round} \X (pos..pos + take - 1)
  <2>1. /\ captured' = captured \cup kept
        /\ len' = len + take
        /\ truncated' = (Flag(truncated) \/ take < n)
        /\ enough' = Flag(enough) \/ enough' = TRUE
    BY <1>9 DEF Deliver, Capture
  <2>2. /\ take \in 0..n /\ take <= BodyMax - len
        /\ take < n => len + take = BodyMax
        /\ len = 0 => take > 0
    BY <1>1 DEF Less
  <2> HIDE DEF take
  <2>3. kept \subseteq new
    BY <1>1, <2>2
  <2>4. take > 0 => <<round, pos>> \in kept
    BY <1>1, <2>2
  <2>5. take = 0 => kept = {}
    BY <1>1
  <2>6. take = n => kept = new
    OBVIOUS
  <2>7. take < n => <<round, pos + take>> \in new /\ <<round, pos + take>> \notin kept
    BY <1>1, <2>2
  <2>8. \A a \in kept, b \in new \ kept : Before(a, b)
    BY <1>1, <2>2 DEF Before
  <2> HIDE DEF new, kept
  <2>9. captured' = {} <=> len' = 0
    BY <1>1, <2>1, <2>2, <2>4, <2>5 DEF AnswerInv
  <2>10. body # captured => take = 0
    BY <1>1, <1>7, <1>9, <2>2 DEF AnswerInv, Flag
  <2>11. body' # captured' => len' = BodyMax
    BY <1>1, <1>2, <2>1, <2>2, <2>6, <2>10
  <2>12. KeptFirst'
    <3>1. CASE body # captured
      BY <1>1, <1>2, <1>5, <2>1, <2>5, <2>10, <3>1 DEF AnswerInv, KeptFirst
    <3>2. CASE body = captured
      BY <1>1, <1>2, <1>5, <2>1, <2>8, <3>2 DEF KeptFirst
    <3> QED
      BY <3>1, <3>2
  <2>13. truncated' => captured' # body'
    <3>1. CASE Flag(truncated)
      <4>1. captured # body /\ take = 0
        BY <1>7, <2>10, <3>1, <1>1 DEF AnswerInv, AnswerWhole, Flag
      <4> QED
        BY <1>1, <1>2, <1>3, <2>1, <2>5, <4>1
    <3>2. CASE take < n
      <4>1. <<round, pos + take>> \in body' /\ <<round, pos + take>> \notin captured'
        BY <1>1, <1>2, <1>3, <2>1, <2>7, <3>2
      <4> QED
        BY <4>1
    <3> QED
      BY <2>1, <3>1, <3>2
  <2>14. ~truncated' /\ ~enough' => captured' = body'
    <3> SUFFICES ASSUME ~truncated', ~enough' PROVE captured' = body'
      OBVIOUS
    <3>1. take = n /\ ~Flag(truncated) /\ ~Flag(enough)
      <4>1. ~Flag(truncated) /\ ~(take < n)
        BY <2>1, Zenon
      <4>2. ~Flag(enough)
        BY <2>1, Zenon
      <4> QED
        BY <2>2, <4>1, <4>2
    <3>2. captured = body
      <4>1. CASE len = 0
        BY <1>7, <4>1 DEF AnswerInv
      <4>2. CASE len > 0
        <5>1. body # {} /\ ~truncated /\ ~enough
          BY <1>7, <3>1, <4>2 DEF Flag
        <5> QED
          BY <5>1 DEF AnswerInv, AnswerWhole
      <4> QED
        BY <1>1, <4>1, <4>2
    <3> QED
      BY <1>2, <2>1, <2>6, <3>1, <3>2
  <2>15. captured' # {} /\ body' # {}
    BY <1>1, <1>2, <2>1, <2>2, <2>9
  <2>16. AnswerWhole'
    BY <2>13, <2>14, <2>15 DEF AnswerWhole
  <2> QED
    BY <1>4, <2>9, <2>11, <2>12, <2>16 DEF AnswerInv
<1> QED
  BY <1>8, <1>9

LEMMA AnswerInit == Init => AnswerInv
  BY LimitAssumption DEF Init, AnswerInv, AnswerWhole, KeptFirst

LEMMA AnswerNext == TypeInv /\ TypeInv' /\ AnswerInv /\ [Next]_vars => AnswerInv'
<1> SUFFICES ASSUME TypeInv, TypeInv', AnswerInv, [Next]_vars PROVE AnswerInv'
  OBVIOUS
<1>0. /\ pos \in Nat /\ pos' \in Nat /\ seen \in Nat /\ round \in Nat
      /\ parser \in Parser /\ body \subseteq Nat \X Nat
  BY LimitAssumption DEF TypeInv, TypeOK
\* Steps that deliver nothing and go forward.
<1>1. ASSUME UNCHANGED outVars, UNCHANGED kind,
             \/ round' = round /\ pos' >= pos
             \/ round' = round + 1,
             \/ body = {}
             \/ parser'.state # "head" /\ parser'.ok = parser.ok
             \/ UNCHANGED parser
      PROVE  AnswerInv'
  <2>1. \A x \in body : Past(x)'
    BY <1>0, <1>1 DEF AnswerInv, Past
  <2>2. body # {} => parser'.state # "head" /\ (Answered' <=> Answered)
    BY <1>1 DEF AnswerInv, Answered
  <2>3. body # captured => body # {}
    BY DEF TypeInv, TypeOK
  <2>4. AnswerWhole' /\ KeptFirst'
    BY <1>1 DEF AnswerInv, AnswerWhole, KeptFirst, outVars
  <2> QED
    BY <1>1, <2>1, <2>2, <2>3, <2>4 DEF AnswerInv, outVars
<1>2. CASE HeadersEnd
  <2>1. body = {} /\ UNCHANGED outVars /\ UNCHANGED kind /\ round' = round
        /\ pos' >= pos
    BY <1>0, <1>2 DEF HeadersEnd, In, AnswerInv, inVars
  <2> QED
    BY <1>1, <2>1
<1>3. CASE HeadersGoOn
  <2>1. body = {} /\ UNCHANGED outVars /\ UNCHANGED kind /\ round' = round
        /\ pos' >= pos
    BY <1>0, <1>3 DEF HeadersGoOn, In, AtRest, Return, AnswerInv, inVars
  <2> QED
    BY <1>1, <2>1
<1>4. CASE HeadersTooLarge
  <2>1. UNCHANGED <<outVars, kind, parser>> /\ round' = round /\ pos' >= pos
    BY <1>0, <1>4 DEF HeadersTooLarge, In, AtRest, Return
  <2> QED
    BY <1>1, <2>1
<1>5. CASE Identity
  <2>1. IdentityTake \in Nat /\ IdentityTake > 0 /\ IdentityTake <= Rest
    BY <1>0, <1>5, TakePositive DEF Identity, Rest, In, AtRest
  <2>2. /\ Deliver(IdentityTake)
        /\ parser'.ok = parser.ok /\ parser'.state # "head"
    BY <1>0, <1>5 DEF Identity, IdentityTake, In, Parser
  <2>3. /\ round' = round /\ kind' = kind /\ pos' >= pos + IdentityTake
    BY <1>0, <1>5, <2>1 DEF Identity, inVars, Return, Rest
  <2> QED
    BY <1>0, <2>1, <2>2, <2>3, DeliverAnswer
<1>6. CASE ChunkSize
  <2>1. \/ UNCHANGED parser
        \/ parser'.state # "head" /\ parser'.ok = parser.ok
    BY <1>0, <1>6 DEF ChunkSize, SizeByte, In, Parser
  <2>2. UNCHANGED outVars /\ UNCHANGED kind /\ round' = round /\ pos' >= pos
    BY <1>0, <1>6 DEF ChunkSize, inVars
  <2> QED
    BY <1>1, <2>1, <2>2
<1>7. CASE ChunkData
  <2> DEFINE take == Less(Rest, parser.remain)
  <2>1. take \in Nat /\ take > 0
    BY <1>0, <1>7, TakePositive DEF ChunkData, Rest
  <2>2. /\ Deliver(take)
        /\ parser'.ok = parser.ok /\ parser'.state # "head"
    BY <1>0, <1>7 DEF ChunkData, In, Parser
  <2>3. round' = round /\ kind' = kind /\ pos' >= pos + take
    BY <1>0, <1>7, <2>1 DEF ChunkData, inVars
  <2> HIDE DEF take
  <2> QED
    BY <1>0, <2>1, <2>2, <2>3, DeliverAnswer
<1>8. CASE ChunkEnds
  <2>1. \/ UNCHANGED parser
        \/ parser'.state # "head" /\ parser'.ok = parser.ok
    BY <1>0, <1>8 DEF ChunkEnds, In, Parser
  <2>2. UNCHANGED outVars /\ UNCHANGED kind /\ round' = round /\ pos' >= pos
    BY <1>0, <1>8 DEF ChunkEnds, inVars
  <2> QED
    BY <1>1, <2>1, <2>2
<1>9. CASE Ignore
  <2>1. UNCHANGED <<outVars, kind, parser>> /\ round' = round /\ pos' >= pos
    BY <1>0, <1>9 DEF Ignore, In, AtRest, Return, inVars
  <2> QED
    BY <1>1, <2>1
<1>10. ASSUME NEW n \in 1..Size(resp), Segment(n) PROVE AnswerInv'
  <2>1. UNCHANGED <<outVars, kind, parser>> /\ round' = round /\ pos' >= pos
    BY <1>0, <1>10 DEF Segment
  <2> QED
    BY <1>1, <2>1
<1>11. ASSUME NEW k \in {"model", "tool"}, NEW r \in Responses, StartFetch(k, r)
       PROVE  AnswerInv'
  BY <1>11 DEF StartFetch, AnswerInv, AnswerWhole, KeptFirst
<1>12. ASSUME NEW r \in Responses, NewRound(r) PROVE AnswerInv'
  <2>1. UNCHANGED <<outVars, kind, parser>> /\ round' = round + 1
    BY <1>12 DEF NewRound, RestartParser
  <2> QED
    BY <1>1, <2>1
<1>13. CASE Close \/ EndFetch \/ UNCHANGED vars
  <2>1. UNCHANGED <<outVars, kind, parser>> /\ round' = round /\ pos' >= pos
    BY <1>0, <1>13 DEF Close, EndFetch, vars, inVars
  <2> QED
    BY <1>1, <2>1
<1> QED
  BY <1>2, <1>3, <1>4, <1>5, <1>6, <1>7, <1>8, <1>9, <1>10, <1>11, <1>12, <1>13
  DEF Next, Feed

LEMMA AnswerInvariant == Spec => []AnswerInv
  BY AnswerInit, AnswerNext, TypeInvariant, PTL DEF Spec

\* Whatever arrives and however it is cut, AGENT_RESPONSE_BODY holds what
\* http_feed has delivered, or the truncation flag or an answer already found
\* says why not; the flag speaks of this fetch as soon as it has a body; and
\* what is missing comes after all that is there, even when rounds are mixed.
THEOREM CaptureAlwaysTrue == Spec => []CaptureTrue
  BY AnswerInvariant, PTL DEF AnswerInv, CaptureTrue

-----------------------------------------------------------------------------
(* The framing.  As long as the bytes are of one response and its headers   *)
(* have fitted, the state of the parser says in which part of the response  *)
(* the next byte is, what number the digits before it make, and where its   *)
(* chunk ends.                                                              *)
Acc(r, p) == r.wire[p].acc
Stop(r, p) == r.wire[p].stop
LastLine(r, p) == Zone(r, p) = "lf" /\ Acc(r, p) = 0

\* What the grammar of a chunked body says of one of its bytes.
LEMMA ChunkFacts ==
    ASSUME NEW r \in Responses, r.chunked, NEW p \in r.head + 1..Size(r)
    PROVE  /\ p < Size(r) => p + 1 \in r.head + 1..Size(r)
           /\ Zone(r, p) = "digits" =>
                /\ Char(r, p) \in {"hex", ";", "CR"}
                /\ p < Size(r) =>
                     /\ Char(r, p) = "hex" =>
                          /\ Zone(r, p + 1) = "digits"
                          /\ Acc(r, p + 1) = Acc(r, p) * Base + r.wire[p].val
                     /\ Char(r, p) = ";" => Zone(r, p + 1) = "ext"
                     /\ Char(r, p) # "hex" => Acc(r, p + 1) = Acc(r, p)
           /\ Zone(r, p) = "ext" /\ p < Size(r) =>
                /\ Char(r, p) # "CR" => Zone(r, p + 1) = "ext"
                /\ Acc(r, p + 1) = Acc(r, p)
           /\ Zone(r, p) \in {"digits", "ext"} /\ Char(r, p) = "CR" /\ p < Size(r) =>
                Zone(r, p + 1) = "lf"
           /\ Zone(r, p) = "lf" =>
                /\ Char(r, p) = "LF"
                /\ p < Size(r) => IF Acc(r, p) = 0 THEN Zone(r, p + 1) = "tail"
                                  ELSE /\ Zone(r, p + 1) = "data"
                                       /\ Stop(r, p + 1) = p + Acc(r, p)
           /\ Zone(r, p) = "cr2" =>
                /\ Char(r, p) = "CR"
                /\ p < Size(r) => Zone(r, p + 1) = "lf2"
           /\ Zone(r, p) = "lf2" =>
                /\ Char(r, p) = "LF"
                /\ p < Size(r) => Zone(r, p + 1) = "digits" /\ Acc(r, p + 1) = 0
<1>1. ChunkedOK(r) /\ r.wire[p] \in Byte /\ r.head \in Nat /\ Size(r) \in Nat
  BY ResponseFacts, ResponseAssumption
<1>2. Line(r, p) \/ ChunkEnd(r, p) \/ Data(r, p) \/ Zone(r, p) = "tail"
  BY <1>1 DEF ChunkedOK
<1>3. Acc(r, p) \in Nat /\ Zone(r, p) = r.wire[p].zone /\ Char(r, p) = r.wire[p].char
  BY <1>1 DEF Byte, Acc, Zone, Char
<1>4. p < Size(r) => p + 1 \in r.head + 1..Size(r)
  BY <1>1
<1>5. CASE Line(r, p)
  <2> DEFINE b == r.wire[p]
  <2>1. CASE b.zone = "digits" /\ b.char = "hex"
    BY <1>3, <1>4, <1>5, <2>1 DEF Line, After, Acc
  <2>2. CASE b.zone = "digits" /\ b.char = ";"
    BY <1>3, <1>4, <1>5, <2>2 DEF Line, After, SameAcc, Acc
  <2>3. CASE b.zone = "ext" /\ b.char # "CR"
    BY <1>3, <1>4, <1>5, <2>3 DEF Line, After, SameAcc, Acc
  <2>4. CASE b.zone \in {"digits", "ext"} /\ b.char = "CR"
    BY <1>3, <1>4, <1>5, <2>4 DEF Line, After, SameAcc, Acc
  <2>5. CASE b.zone = "lf"
    BY <1>3, <1>4, <1>5, <2>5 DEF Line, After, Acc, Stop
  <2> QED
    BY <1>5, <2>1, <2>2, <2>3, <2>4, <2>5 DEF Line
<1>6. CASE ChunkEnd(r, p)
  BY <1>3, <1>4, <1>6 DEF ChunkEnd, After, ZeroAcc, Acc
<1>7. CASE Data(r, p) \/ Zone(r, p) = "tail"
  BY <1>3, <1>4, <1>7 DEF Data
<1> QED
  BY <1>2, <1>5, <1>6, <1>7

\* A chunk's data, and the trailer.
LEMMA DataFacts ==
    ASSUME NEW r \in Responses, r.chunked, NEW p \in r.head + 1..Size(r)
    PROVE  /\ Zone(r, p) = "data" =>
                /\ Stop(r, p) \in Nat /\ Stop(r, p) >= p
                /\ \A q \in p..Stop(r, p) :
                       q <= Size(r) => Zone(r, q) = "data" /\ Stop(r, q) = Stop(r, p)
                /\ Stop(r, p) < Size(r) => Zone(r, Stop(r, p) + 1) = "cr2"
           /\ LastLine(r, p) => \A q \in p + 1..Size(r) : Zone(r, q) = "tail"
<1>1. ChunkedOK(r) /\ r.wire[p] \in Byte /\ r.head \in Nat /\ Size(r) \in Nat
  BY ResponseFacts, ResponseAssumption
<1>2. ASSUME Zone(r, p) = "data"
      PROVE  /\ Stop(r, p) \in Nat /\ Stop(r, p) >= p
             /\ \A q \in p..Stop(r, p) :
                    q <= Size(r) => Zone(r, q) = "data" /\ Stop(r, q) = Stop(r, p)
             /\ Stop(r, p) < Size(r) => Zone(r, Stop(r, p) + 1) = "cr2"
  <2>1. Data(r, p)
    BY <1>1, <1>2 DEF ChunkedOK, Line, ChunkEnd, Zone
  <2> QED
    BY <1>1, <2>1 DEF Data, Stop, Byte
<1>3. ASSUME LastLine(r, p) PROVE \A q \in p + 1..Size(r) : Zone(r, q) = "tail"
  <2>1. p < Size(r) => Zone(r, p + 1) = "tail" /\ p + 1 \in r.head + 1..Size(r)
    BY <1>3, ChunkFacts DEF LastLine
  <2> QED
    BY <1>1, <2>1 DEF ChunkedOK
<1> QED
  BY <1>2, <1>3

Clean == fetch # "idle" /\ ~mixed /\ ~reason

\* Between two lines the parser has no number and no flag of a line.
Unread == parser.parse = 0 /\ ~parser.ext /\ ~parser.expectLF

InLine ==
    pos <= Size(resp) =>
        \/ parser.expectLF /\ Zone(resp, pos) = "lf" /\ Acc(resp, pos) = parser.parse
        \/ /\ ~parser.expectLF
           /\ Zone(resp, pos) = IF parser.ext THEN "ext" ELSE "digits"
           /\ Acc(resp, pos) = parser.parse
        \/ Unread /\ Zone(resp, pos) = "lf2"

Chunked == resp.chunked /\ pos > resp.head

Framed ==
    /\ pos <= seen + 1
    /\ parser.heads \subseteq {resp}
    /\ parser.state = "head" => /\ pos <= resp.head - 3 /\ Unread
                                /\ pos = 1 => parser.heads = {}
    /\ parser.state = "identity" => /\ ~resp.chunked
                                    /\ parser.limit = resp.length
                                    /\ pos = resp.head + 1 + parser.recv
    /\ parser.state = "size" => Chunked /\ InLine
    /\ parser.state = "data" =>
           /\ Chunked /\ Unread
           /\ pos <= Size(resp) => /\ Zone(resp, pos) = "data"
                                   /\ Stop(resp, pos) = pos + parser.remain - 1
    /\ parser.state = "chunkEnd" =>
           Chunked /\ Unread /\ (pos <= Size(resp) => Zone(resp, pos) = "cr2")
    /\ parser.state = "complete" <=> Announced(resp, pos - 1)
    /\ Delivered = Payload(resp) \cap 1..pos - 1

FrameInv == WholeEnds => (Clean => Framed)

LEMMA FramedGivesProperties == FrameInv /\ WholeEnds => BodyIntact /\ CompleteExactly
  BY DEF FrameInv, Clean, Framed, BodyIntact, CompleteExactly

\* A delivery adds the positions it delivers to those of this round.
LEMMA DeliveredGrows ==
    ASSUME TypeInv, NEW n \in 1..Rest, Deliver(n), resp' = resp, round' = round
    PROVE  Delivered' = Delivered \cup pos..pos + n - 1
<1>1. /\ pos \in Nat \ {0} /\ seen \in Nat /\ seen <= Size(resp) /\ round \in Nat
      /\ Size(resp) \in Nat /\ body \subseteq Nat \X Nat
  BY ResponseFacts, LimitAssumption DEF TypeInv, TypeOK, Limits
<1>2. \A p \in pos..pos + n - 1 : p \in 1..Size(resp)
  BY <1>1 DEF Rest
<1>3. \A p \in Nat : <<round, p>> \in body' <=> <<round, p>> \in body
                                                \/ p \in pos..pos + n - 1
  BY <1>1 DEF Deliver
<1> QED
  BY <1>1, <1>2, <1>3 DEF Delivered

\* The end of the headers is found where it is, and nowhere before.
LEMMA HeadEnd ==
    ASSUME TypeInv, Framed, In("head")
    PROVE  /\ \A p \in pos..seen - 3 : EndsAt(p) => p = resp.head - 3
           /\ EndsNowhere => seen < resp.head
<1>1. /\ HeadOK(resp) /\ resp.head \in Nat /\ Size(resp) \in Nat
      /\ pos \in Nat \ {0} /\ seen \in Nat /\ seen <= Size(resp)
  BY ResponseFacts, ResponseAssumption DEF TypeInv, TypeOK, Limits
<1>2. pos <= resp.head - 3 /\ resp.head - 3 \in 1..resp.head - 3
  BY <1>1 DEF Framed, In
<1>3. EndsHeaders(resp, resp.head - 3)
      /\ \A p \in 1..resp.head - 4 : ~EndsHeaders(resp, p)
  BY <1>1, <1>2 DEF HeadOK
<1> QED
  BY <1>1, <1>2, <1>3 DEF EndsAt, EndsNowhere

LEMMA FrameFacts ==
    ASSUME TypeInv
    PROVE  /\ pos \in Nat \ {0} /\ seen \in Nat /\ seen <= Size(resp)
           /\ resp \in Responses /\ Size(resp) \in Nat
           /\ resp.head \in 4..Size(resp) /\ resp.length \in Nat
           /\ resp.chunked \in BOOLEAN
           /\ parser \in Parser /\ round \in Nat
           /\ ~AtRest => pos \in 1..Size(resp) /\ resp.wire[pos] \in Byte
                         /\ Rest \in Nat /\ Rest > 0 /\ pos + Rest = seen + 1
  BY ResponseFacts, LimitAssumption DEF TypeInv, TypeOK, Limits, AtRest, Rest

\* Bytes of a chunked body that are neither data nor the last line.
LEMMA SkipStep ==
    ASSUME TypeInv, Framed, Chunked, resp' = resp, round' = round, body' = body,
           pos' \in Nat, pos' >= pos,
           \A q \in pos..pos' - 1 : q <= Size(resp) => Zone(resp, q) # "data"
    PROVE  Delivered' = Payload(resp)' \cap 1..pos' - 1
<1>1. Delivered' = Delivered /\ Payload(resp)' = Payload(resp)
  BY DEF Delivered, Payload, Zone, Size
<1>2. \A q \in Payload(resp) : q \in 1..pos' - 1 <=> q \in 1..pos - 1
  <2>1. \A q \in Payload(resp) : q \in Nat /\ q <= Size(resp) /\ Zone(resp, q) = "data"
    BY FrameFacts DEF Payload, Chunked
  <2>2. \A q \in Payload(resp) : q \notin pos..pos' - 1
    BY <2>1
  <2> QED
    BY FrameFacts, <2>1, <2>2
<1> QED
  BY <1>1, <1>2 DEF Framed

LEMMA NotAnnounced ==
    ASSUME TypeInv, Chunked, resp' = resp, pos' \in Nat, pos' >= pos,
           ~Announced(resp, pos - 1),
           \A q \in pos..pos' - 1 : q <= Size(resp) => ~LastLine(resp, q)
    PROVE  ~Announced(resp, pos - 1)'
<1> SUFFICES ASSUME NEW q \in resp.head + 1..pos' - 1, q <= Size(resp),
                    Zone(resp, q) = "lf", resp.wire[q].acc = 0
             PROVE  FALSE
  BY DEF Announced, Chunked, Zone, Size
<1>0. resp.head \in Nat /\ pos \in Nat
  BY FrameFacts
<1>1. LastLine(resp, q)
  BY DEF LastLine, Acc
<1>4. q \in Int /\ q <= pos' - 1 /\ q >= resp.head + 1
  <2> DEFINE a == resp.head + 1
             b == pos' - 1
  <2>1. a \in Int
    BY <1>0
  <2>3. b \in Int
    OBVIOUS
  <2>4. q \in a..b
    OBVIOUS
  <2> HIDE DEF a, b
  <2>2. q \in Int /\ q <= b /\ q >= a
    BY <2>1, <2>3, <2>4
  <2> QED
    BY <2>2 DEF a, b
<1>2. CASE q < pos
  <2>1. q \in resp.head + 1..pos - 1 /\ resp.chunked
    BY <1>0, <1>2, <1>4 DEF Chunked
  <2> QED
    BY <2>1, Zenon DEF Announced
<1>3. CASE q >= pos
  <2>1. q \in pos..pos' - 1
    BY <1>0, <1>4, <1>3
  <2> QED
    BY <1>1, <2>1
<1> QED
  BY <1>0, <1>2, <1>3, <1>4

LEMMA FrameHead ==
    ASSUME TypeInv, TypeInv', Framed, WholeEnds, Clean',
           seen \notin resp.head - 3..resp.head - 1,
           HeadersEnd \/ HeadersGoOn \/ HeadersTooLarge
    PROVE  Framed'
<1> USE FrameFacts
<1>1. In("head") /\ resp' = resp /\ seen' = seen /\ round' = round /\ body' = body
  BY DEF HeadersEnd, HeadersGoOn, HeadersTooLarge, inVars, outVars
<1>2. /\ pos <= resp.head - 3 /\ Unread /\ parser.recv = 0
      /\ Delivered = {} /\ parser.heads \subseteq {resp}
  BY <1>1 DEF Framed, In, Payload, TypeInv, Limits
<1>3. Delivered' = {}
  BY <1>1, <1>2 DEF Delivered
<1>4. CASE HeadersEnd
  <2>1. PICK p \in pos..seen - 3 :
            /\ EndsAt(p)
            /\ \E c, l, o \in parser.heads \cup {resp} :
                  parser' = [parser EXCEPT
                                !.state = IF c.chunked THEN "size" ELSE "identity",
                                !.header = @ + (p + 4 - pos),
                                !.heads = @ \cup {resp},
                                !.limit = l.length, !.ok = o.ok]
            /\ pos' = p + 4
    BY <1>4 DEF HeadersEnd
  <2>2. /\ parser'.state = IF resp.chunked THEN "size" ELSE "identity"
        /\ parser'.heads = {resp} /\ parser'.limit = resp.length
        /\ parser'.recv = 0 /\ Unread'
    BY <1>2, <2>1 DEF Parser, Unread
  <2>3. pos' = resp.head + 1 /\ pos' <= seen' + 1
    BY <1>1, <2>1, HeadEnd
  <2>4. ~Announced(resp, pos - 1)'
    BY <1>1, <2>3 DEF Announced
  <2>5. Payload(resp)' \cap 1..pos' - 1 = {}
    BY <1>1, <2>3 DEF Payload
  <2>6. resp.chunked => InLine'
    <3> SUFFICES ASSUME resp.chunked, pos' <= Size(resp) PROVE InLine'
      BY <1>1 DEF InLine
    <3>1. Zone(resp, pos') = "digits" /\ Acc(resp, pos') = 0
      BY <2>3, ResponseAssumption DEF ChunkedOK, After, ZeroAcc, Acc
    <3> QED
      BY <1>1, <2>2, <3>1 DEF InLine, Unread, Zone, Acc
  <2> QED
    BY <1>1, <1>3, <2>2, <2>3, <2>4, <2>5, <2>6 DEF Framed, Chunked
<1>5. CASE HeadersGoOn
  <2>1. /\ parser'.state = "head" /\ parser'.heads = {resp} /\ Unread'
    BY <1>2, <1>5 DEF HeadersGoOn, Parser, Unread, In
  <2>2. pos' = seen + 1 /\ seen + 1 <= resp.head - 3 /\ pos' # 1
    BY <1>1, <1>5, HeadEnd DEF HeadersGoOn, Return, In, AtRest
  <2>3. ~Announced(resp, pos - 1)' /\ Payload(resp)' \cap 1..pos' - 1 = {}
    BY <1>1, <2>2 DEF Announced, Payload
  <2> QED
    BY <1>1, <1>3, <2>1, <2>2, <2>3 DEF Framed
<1>6. CASE HeadersTooLarge
  BY <1>6 DEF HeadersTooLarge, Clean
<1> QED
  BY <1>4, <1>5, <1>6

LEMMA FrameIdentity ==
    ASSUME TypeInv, TypeInv', Framed, Identity
    PROVE  Framed'
<1> USE FrameFacts
<1>1. /\ In("identity") /\ Deliver(IdentityTake) /\ pos' = seen + 1
      /\ resp' = resp /\ seen' = seen /\ round' = round
      /\ parser' = [parser EXCEPT
                       !.recv = @ + IdentityTake,
                       !.state = IF parser.limit > 0
                                    /\ IdentityTake = parser.limit - parser.recv
                                 THEN "complete" ELSE @]
  BY DEF Identity, IdentityTake, Return, inVars
<1>2. /\ ~resp.chunked /\ parser.limit = resp.length
      /\ pos = resp.head + 1 + parser.recv /\ parser.recv \in Nat
      /\ parser.heads \subseteq {resp}
  BY <1>1 DEF In, Framed, Parser
<1>3. IdentityTake \in 1..Rest /\ IdentityTake \in Nat
  BY <1>1, TakePositive DEF In
<1>4. Delivered' = Delivered \cup pos..pos + IdentityTake - 1
  BY <1>1, <1>3, DeliveredGrows
<1>5. /\ parser'.heads = parser.heads /\ parser'.limit = parser.limit
      /\ parser'.recv = parser.recv + IdentityTake
      /\ parser'.state = IF parser.limit > 0
                            /\ IdentityTake = parser.limit - parser.recv
                         THEN "complete" ELSE "identity"
  BY <1>1 DEF In, Parser
<1>6. /\ parser.limit > 0 => /\ IdentityTake <= parser.limit - parser.recv
                             /\ IdentityTake < parser.limit - parser.recv
                                    => IdentityTake = Rest
      /\ ~(parser.limit > 0) => IdentityTake = Rest
  BY <1>1, <1>2 DEF IdentityTake, Less, In, Parser
<1>7. Payload(resp)' \cap 1..pos' - 1
          = (Payload(resp) \cap 1..pos - 1) \cup pos..pos + IdentityTake - 1
  <2>1. Payload(resp)' = {q \in resp.head + 1..Size(resp) :
                             resp.length > 0 => q <= resp.head + resp.length}
    BY <1>1, <1>2 DEF Payload, Size
  <2>2. Payload(resp) = Payload(resp)'
    BY <1>1, <1>2 DEF Payload, Size
  <2>3. \A q \in Payload(resp) : q < pos' <=> q < pos \/ q \in pos..pos + IdentityTake - 1
    BY <1>1, <1>2, <1>3, <1>6, <2>1, <2>2 DEF In
  <2>4. \A q \in pos..pos + IdentityTake - 1 : q \in Payload(resp)
    BY <1>1, <1>2, <1>3, <1>6, <2>1, <2>2 DEF In
  <2> QED
    BY <2>2, <2>3, <2>4, <1>1, <2>1
<1>8. Delivered' = Payload(resp)' \cap 1..pos' - 1
  BY <1>4, <1>7 DEF Framed
<1>9. Announced(resp, pos - 1)' <=> resp.length > 0 /\ seen >= resp.head + resp.length
  BY <1>1, <1>2 DEF Announced
<1>10. parser'.state = "complete" <=> Announced(resp, pos - 1)'
  BY <1>1, <1>2, <1>3, <1>5, <1>6, <1>9 DEF In
<1>11. parser'.state = "identity" => pos' = resp.head + 1 + parser'.recv
  BY <1>1, <1>2, <1>3, <1>5, <1>6 DEF In, Parser
<1> QED
  BY <1>1, <1>2, <1>5, <1>8, <1>10, <1>11 DEF Framed

LEMMA FrameSize ==
    ASSUME TypeInv, TypeInv', Framed, ChunkSize
    PROVE  Framed'
<1> USE FrameFacts
<1> DEFINE b == resp.wire[pos]
<1>1. /\ In("size") /\ SizeByte(b) /\ pos' = pos + 1
      /\ resp' = resp /\ seen' = seen /\ round' = round /\ body' = body
  BY DEF ChunkSize, inVars, outVars
<1>2. /\ pos \in resp.head + 1..Size(resp) /\ pos <= seen /\ resp.chunked
      /\ Chunked /\ InLine /\ parser.heads \subseteq {resp} /\ b \in Byte
      /\ Zone(resp, pos) = b.zone /\ Acc(resp, pos) = b.acc
      /\ Char(resp, pos) = b.char /\ ~Announced(resp, pos - 1)
  BY <1>1 DEF In, AtRest, Framed, Chunked, Zone, Acc, Char
<1>0. /\ Zone(resp, pos) \in {"lf", "lf2"} => b.char = "LF"
      /\ Zone(resp, pos) = "lf" /\ pos < Size(resp) /\ Acc(resp, pos) # 0 =>
            Zone(resp, pos + 1) = "data" /\ Stop(resp, pos + 1) = pos + Acc(resp, pos)
  BY <1>2, ChunkFacts
<1>3. \A q \in pos..pos' - 1 : q = pos
  BY <1>1
<1>4. Zone(resp, pos) # "data"
  BY <1>2 DEF InLine
<1>5. Delivered' = Payload(resp)' \cap 1..pos' - 1
  BY <1>1, <1>2, <1>3, <1>4, SkipStep
<1>6. pos' <= seen' + 1 /\ Chunked'
  BY <1>1, <1>2 DEF Chunked
<1>7. CASE parser.expectLF /\ b.char = "LF"
  <2>1. Zone(resp, pos) = "lf" /\ Acc(resp, pos) = parser.parse
    BY <1>2, <1>7 DEF InLine, Unread
  <2>2. /\ parser'.heads = parser.heads /\ Unread'
        /\ parser'.remain = parser.parse /\ parser.parse \in Nat
        /\ parser'.state = IF parser.parse = 0 THEN "complete" ELSE "data"
    BY <1>1, <1>7 DEF SizeByte, Parser, Unread
  <2>3. CASE parser.parse = 0
    <3>1. Announced(resp, pos - 1)'
      BY <1>1, <1>2, <2>1, <2>3 DEF Announced, Zone, Acc, Size
    <3> QED
      BY <1>1, <1>2, <1>5, <1>6, <2>2, <2>3, <3>1 DEF Framed
  <2>4. CASE parser.parse # 0
    <3>1. ~Announced(resp, pos - 1)'
      BY <1>1, <1>2, <1>3, <2>1, <2>4, NotAnnounced DEF LastLine
    <3>2. pos' <= Size(resp) => /\ Zone(resp, pos') = "data"
                                /\ Stop(resp, pos') = pos + parser.parse
      BY <1>0, <1>1, <1>2, <2>1, <2>4
    <3>3. pos + parser.parse = pos' + parser'.remain - 1
      BY <1>1, <2>2
    <3> QED
      BY <1>1, <1>2, <1>5, <1>6, <2>2, <2>4, <3>1, <3>2, <3>3
      DEF Framed, Zone, Stop, Size
  <2> QED
    BY <2>3, <2>4
<1>8. CASE ~(parser.expectLF /\ b.char = "LF")
  <2>1. ~parser.expectLF
    BY <1>0, <1>2, <1>8 DEF InLine, Unread
  <2>2. Zone(resp, pos) \in {"ext", "digits", "lf2"}
    BY <1>2, <2>1 DEF InLine, Unread
  <2>3. ~Announced(resp, pos - 1)'
    BY <1>1, <1>2, <1>3, <2>2, NotAnnounced DEF LastLine
  <2>4. parser'.state = "size" /\ parser'.heads = parser.heads
    BY <1>1, <1>8 DEF SizeByte, In, Parser
  <2>5. InLine'
    <3> SUFFICES ASSUME pos + 1 <= Size(resp), pos < Size(resp) PROVE InLine'
      BY <1>1, <1>2 DEF InLine
    <3>0. /\ Zone(resp, pos)' = Zone(resp, pos + 1) /\ Acc(resp, pos)' = Acc(resp, pos + 1)
      BY <1>1 DEF Zone, Acc
    <3>1. CASE Zone(resp, pos) = "lf2"
      <4>1. b.char = "LF" /\ Unread
        BY <1>0, <1>2, <3>1, <2>1 DEF InLine
      <4>2. UNCHANGED parser
        BY <1>1, <2>1, <4>1 DEF SizeByte
      <4> QED
        BY <1>2, <3>0, <3>1, <4>1, <4>2, ChunkFacts DEF InLine, Unread
    <3>2. CASE Zone(resp, pos) \in {"digits", "ext"} /\ b.char = "CR"
      <4>1. parser'.expectLF /\ parser'.parse = parser.parse
        BY <1>1, <2>1, <3>2 DEF SizeByte, Parser
      <4>2. Acc(resp, pos) = parser.parse
        BY <1>2, <2>1, <3>2 DEF InLine, Unread
      <4>3. Zone(resp, pos + 1) = "lf" /\ Acc(resp, pos + 1) = Acc(resp, pos)
        BY <1>2, <3>2, ChunkFacts
      <4> QED
        BY <3>0, <4>1, <4>2, <4>3 DEF InLine
    <3>3. CASE Zone(resp, pos) = "ext" /\ b.char # "CR"
      <4>1. parser.ext /\ Acc(resp, pos) = parser.parse
        BY <1>2, <2>1, <3>3 DEF InLine, Unread, Parser
      <4>2. UNCHANGED parser
        BY <1>1, <2>1, <3>3, <4>1 DEF SizeByte
      <4>3. Zone(resp, pos + 1) = "ext" /\ Acc(resp, pos + 1) = Acc(resp, pos)
        BY <1>2, <3>3, ChunkFacts
      <4> QED
        BY <2>1, <3>0, <4>1, <4>2, <4>3 DEF InLine
    <3>4. CASE Zone(resp, pos) = "digits" /\ b.char # "CR"
      <4>1. ~parser.ext /\ Acc(resp, pos) = parser.parse
        BY <1>2, <2>1, <3>4 DEF InLine, Unread, Parser
      <4>2. CASE b.char = "hex"
        <5>1. parser' = [parser EXCEPT !.parse = @ * Base + b.val]
          BY <1>1, <2>1, <4>1, <4>2 DEF SizeByte
        <5>2. Zone(resp, pos + 1) = "digits"
              /\ Acc(resp, pos + 1) = parser.parse * Base + b.val
          BY <1>2, <3>4, <4>1, <4>2, ChunkFacts
        <5>3. /\ parser'.parse = parser.parse * Base + b.val
              /\ parser'.ext = parser.ext /\ parser'.expectLF = parser.expectLF
          BY <5>1 DEF Parser
        <5> QED
          BY <2>1, <3>0, <4>1, <5>2, <5>3 DEF InLine
      <4>3. CASE b.char # "hex"
        <5>1. b.char = ";"
          BY <1>2, <3>4, <4>3, ChunkFacts
        <5>2. parser' = [parser EXCEPT !.ext = TRUE]
          BY <1>1, <2>1, <4>1, <5>1 DEF SizeByte
        <5>3. parser'.ext /\ parser'.expectLF = parser.expectLF
              /\ parser'.parse = parser.parse
          BY <5>2 DEF Parser
        <5>4. Zone(resp, pos + 1) = "ext" /\ Acc(resp, pos + 1) = Acc(resp, pos)
          BY <1>2, <3>4, <4>3, <5>1, ChunkFacts
        <5> QED
          BY <2>1, <3>0, <4>1, <5>3, <5>4 DEF InLine
      <4> QED
        BY <4>2, <4>3
    <3> QED
      BY <2>2, <3>1, <3>2, <3>3, <3>4
  <2> QED
    BY <1>1, <1>2, <1>5, <1>6, <2>3, <2>4, <2>5 DEF Framed
<1> QED
  BY <1>7, <1>8

LEMMA FrameData ==
    ASSUME TypeInv, TypeInv', Framed, ChunkData
    PROVE  Framed'
<1> USE FrameFacts
<1> DEFINE take == Less(Rest, parser.remain)
<1>1. /\ In("data") /\ Deliver(take) /\ pos' = pos + take
      /\ resp' = resp /\ seen' = seen /\ round' = round
      /\ parser' = [parser EXCEPT
                       !.remain = @ - take,
                       !.state = IF take = parser.remain THEN "chunkEnd" ELSE @]
  BY DEF ChunkData, inVars
<1>2. /\ pos \in resp.head + 1..Size(resp) /\ resp.chunked /\ Chunked /\ Unread
      /\ Zone(resp, pos) = "data" /\ Stop(resp, pos) = pos + parser.remain - 1
      /\ parser.remain \in Nat /\ ~Announced(resp, pos - 1)
      /\ parser.heads \subseteq {resp}
  BY <1>1 DEF In, Framed, Chunked, Parser
<1>3. /\ take \in 1..Rest /\ take \in Nat /\ take <= parser.remain
      /\ pos + take <= seen + 1
  BY <1>1, <1>2, TakePositive DEF In, Less
<1> HIDE DEF take
<1>4. /\ \A q \in pos..pos + take - 1 : q <= Size(resp) /\ Zone(resp, q) = "data"
      /\ pos + take <= Size(resp) /\ take < parser.remain =>
            /\ Zone(resp, pos + take) = "data"
            /\ Stop(resp, pos + take) = Stop(resp, pos)
      /\ pos + take <= Size(resp) /\ take = parser.remain =>
            Zone(resp, pos + take) = "cr2"
  <2>1. /\ \A q \in pos..Stop(resp, pos) :
               q <= Size(resp) => Zone(resp, q) = "data" /\ Stop(resp, q) = Stop(resp, pos)
        /\ Stop(resp, pos) < Size(resp) => Zone(resp, Stop(resp, pos) + 1) = "cr2"
    BY <1>2, DataFacts
  <2>2. \A q \in pos..pos + take - 1 : q <= Size(resp) /\ q \in pos..Stop(resp, pos)
    BY <1>2, <1>3
  <2>3. take < parser.remain => pos + take \in pos..Stop(resp, pos)
    BY <1>2, <1>3
  <2>4. take = parser.remain => pos + take = Stop(resp, pos) + 1
    BY <1>2, <1>3
  <2>5. Stop(resp, pos) \in Int /\ pos + take \in Int
    BY <1>2, <1>3
  <2> QED
    BY <2>1, <2>2, <2>3, <2>4, <2>5
<1>5. Delivered' = Delivered \cup pos..pos + take - 1
  BY <1>1, <1>3, DeliveredGrows
<1>6. Payload(resp)' \cap 1..pos' - 1
          = (Payload(resp) \cap 1..pos - 1) \cup pos..pos + take - 1
  <2>1. Payload(resp)' = Payload(resp)
    BY <1>1 DEF Payload, Zone, Size
  <2>2. \A q \in pos..pos + take - 1 : q \in Payload(resp)
    BY <1>2, <1>3, <1>4 DEF Payload
  <2>3. \A q \in Payload(resp) : q \in Nat
    BY DEF Payload
  <2> QED
    BY <1>1, <1>3, <2>1, <2>2, <2>3
<1>7. ~Announced(resp, pos - 1)'
  BY <1>1, <1>2, <1>3, <1>4, NotAnnounced DEF LastLine
<1>8. /\ parser'.heads = parser.heads /\ Unread'
      /\ parser'.remain = parser.remain - take
      /\ parser'.state = IF take = parser.remain THEN "chunkEnd" ELSE "data"
  BY <1>1, <1>2 DEF In, Parser, Unread
<1>9. Delivered' = Payload(resp)' \cap 1..pos' - 1
  BY <1>5, <1>6 DEF Framed
<1>10. Chunked' /\ pos' <= seen' + 1
  BY <1>1, <1>2, <1>3 DEF Chunked
<1>11. CASE take = parser.remain
  <2>1. pos' <= Size(resp)' => Zone(resp, pos)' = "cr2"
    BY <1>1, <1>4, <1>11 DEF Zone, Size
  <2> QED
    BY <1>1, <1>2, <1>7, <1>8, <1>9, <1>10, <1>11, <2>1 DEF Framed
<1>12. CASE take # parser.remain
  <2>0. /\ Zone(resp, pos)' = Zone(resp, pos + take)
        /\ Stop(resp, pos)' = Stop(resp, pos + take)
        /\ Size(resp)' = Size(resp) /\ take < parser.remain
    BY <1>1, <1>2, <1>3, <1>12 DEF Zone, Size, Stop
  <2>1. pos' <= Size(resp)' => /\ Zone(resp, pos)' = "data"
                               /\ Stop(resp, pos)' = Stop(resp, pos)
    BY <1>1, <1>4, <2>0
  <2>2. Stop(resp, pos) = pos' + parser'.remain - 1
    BY <1>1, <1>2, <1>3, <1>8
  <2> QED
    BY <1>1, <1>2, <1>7, <1>8, <1>9, <1>10, <1>12, <2>1, <2>2 DEF Framed
<1> QED
  BY <1>11, <1>12

LEMMA FrameChunkEnd ==
    ASSUME TypeInv, TypeInv', Framed, ChunkEnds
    PROVE  Framed'
<1> USE FrameFacts
<1>1. /\ In("chunkEnd")
      /\ resp' = resp /\ seen' = seen /\ round' = round /\ body' = body
  BY DEF ChunkEnds, inVars, outVars
<1>2. /\ pos \in resp.head + 1..Size(resp) /\ resp.chunked /\ Chunked /\ Unread
      /\ Zone(resp, pos) = "cr2" /\ ~Announced(resp, pos - 1)
      /\ parser.heads \subseteq {resp} /\ pos <= seen
  BY <1>1 DEF In, Framed, Chunked, AtRest
<1>3. /\ Char(resp, pos) = "CR"
      /\ pos < Size(resp) => /\ Zone(resp, pos + 1) = "lf2"
                             /\ pos + 1 \in resp.head + 1..Size(resp)
  BY <1>2, ChunkFacts
<1>4. pos < Size(resp) => /\ Char(resp, pos + 1) = "LF"
                          /\ pos + 1 < Size(resp) => /\ Zone(resp, pos + 2) = "digits"
                                                     /\ Acc(resp, pos + 2) = 0
  <2> SUFFICES ASSUME pos < Size(resp)
               PROVE  /\ Char(resp, pos + 1) = "LF"
                      /\ pos + 1 < Size(resp) => /\ Zone(resp, (pos + 1) + 1) = "digits"
                                                 /\ Acc(resp, (pos + 1) + 1) = 0
    OBVIOUS
  <2> QED
    BY <1>2, <1>3, ChunkFacts
<1>5. parser' = [parser EXCEPT !.state = "size"]
      /\ pos' = IF pos < seen THEN pos + 2 ELSE pos + 1
  BY <1>3, <1>4 DEF ChunkEnds
<1>6. parser'.state = "size" /\ parser'.heads = parser.heads /\ Unread'
  BY <1>2, <1>5 DEF Parser, Unread
<1>7. \A q \in pos..pos' - 1 : Zone(resp, q) \in {"cr2", "lf2"}
  <2>1. \A q \in pos..pos' - 1 : q = pos \/ (q = pos + 1 /\ pos < Size(resp))
    BY <1>5
  <2> QED
    BY <1>2, <1>3, <2>1
<1>8. pos' \in Nat /\ pos' >= pos /\ pos' <= seen + 1
  BY <1>2, <1>5
<1>9. Delivered' = Payload(resp)' \cap 1..pos' - 1 /\ ~Announced(resp, pos - 1)'
  BY <1>1, <1>2, <1>7, <1>8, SkipStep, NotAnnounced DEF LastLine
<1>10. InLine'
  <2>1. CASE pos < seen
    BY <1>1, <1>4, <1>5, <1>6, <2>1 DEF InLine, Unread, Zone, Acc, Size
  <2>2. CASE ~(pos < seen)
    BY <1>1, <1>3, <1>5, <1>6, <2>2 DEF InLine, Zone, Size
  <2> QED
    BY <2>1, <2>2
<1> QED
  BY <1>1, <1>2, <1>6, <1>8, <1>9, <1>10 DEF Framed, Chunked

LEMMA FrameIgnore ==
    ASSUME TypeInv, TypeInv', Framed, Ignore
    PROVE  Framed'
<1> USE FrameFacts
<1>1. /\ In("complete") /\ UNCHANGED parser /\ pos' = seen + 1 /\ pos <= seen
      /\ resp' = resp /\ seen' = seen /\ round' = round /\ body' = body
  BY DEF Ignore, Return, inVars, outVars, In, AtRest
<1>2. Announced(resp, pos - 1) /\ parser.heads \subseteq {resp}
  BY <1>1 DEF Framed, In
<1>3. Announced(resp, pos - 1)' /\ \A q \in pos..seen : q \notin Payload(resp)
  <2>1. CASE resp.chunked
    <3>1. PICK q \in resp.head + 1..pos - 1 : q <= Size(resp) /\ LastLine(resp, q)
      BY <1>2, <2>1 DEF Announced, LastLine, Acc
    <3>2. \A p \in q + 1..Size(resp) : Zone(resp, p) = "tail"
      BY <2>1, <3>1, DataFacts
    <3>3. \A p \in pos..seen : Zone(resp, p) = "tail"
      BY <3>1, <3>2
    <3>4. Announced(resp, seen)
      BY <1>1, <2>1, <3>1 DEF Announced, LastLine, Acc
    <3> QED
      BY <1>1, <2>1, <3>3, <3>4 DEF Payload, Announced, Zone, Size
  <2>2. CASE ~resp.chunked
    BY <1>1, <1>2, <2>2 DEF Announced, Payload
  <2> QED
    BY <2>1, <2>2
<1>4. Delivered' = Delivered /\ Payload(resp)' = Payload(resp)
  BY <1>1 DEF Delivered, Payload, Zone, Size
<1>5. \A q \in Payload(resp) : q \in 1..pos' - 1 <=> q \in 1..pos - 1
  <2>1. \A q \in Payload(resp) : q \in Nat
    BY DEF Payload
  <2> QED
    BY <1>1, <1>3, <2>1
<1>6. Delivered' = Payload(resp)' \cap 1..pos' - 1
  BY <1>4, <1>5 DEF Framed
<1> QED
  BY <1>1, <1>2, <1>3, <1>6 DEF Framed, In

LEMMA FrameInit == Init => FrameInv
  BY DEF Init, FrameInv, Clean

\* A cut never leaves part of the bytes that end the headers to the next feed.
CutOK == WholeEnds => seen \notin resp.head - 3..resp.head - 1

LEMMA CutInvariant == Spec => [](TypeInv /\ CutOK)
<1>1. Init => CutOK
  BY ResponseFacts DEF Init, CutOK
<1>2. TypeInv /\ CutOK /\ [Next]_vars => CutOK'
  <2> SUFFICES ASSUME TypeInv, CutOK, [Next]_vars PROVE CutOK'
    OBVIOUS
  <2>1. CASE UNCHANGED <<resp, seen>>
    BY <2>1 DEF CutOK
  <2>2. ASSUME NEW n \in 1..Size(resp), Segment(n) PROVE CutOK'
    BY <2>2 DEF Segment, CutOK
  <2>3. ASSUME NEW k \in {"model", "tool"}, NEW r \in Responses,
               StartFetch(k, r) \/ NewRound(r)
        PROVE  CutOK'
    <3>1. resp' = r /\ seen' = 0 /\ r.head \in Nat /\ r.head >= 4
      BY <2>3, ResponseFacts DEF StartFetch, NewRound
    <3> QED
      BY <3>1 DEF CutOK
  <2>4. Feed \/ Close \/ EndFetch \/ UNCHANGED vars => UNCHANGED <<resp, seen>>
    BY DEF Feed, HeadersEnd, HeadersGoOn, HeadersTooLarge, Identity, ChunkSize,
           ChunkData, ChunkEnds, Ignore, Close, EndFetch, vars, inVars
  <2> QED
    BY <2>1, <2>2, <2>3, <2>4 DEF Next
<1> QED
  BY <1>1, <1>2, TypeInvariant, PTL DEF Spec

\* A fetch begins, or a round in which nothing has been read before it.
LEMMA FrameFresh ==
    ASSUME resp' \in Responses, pos' = 1, seen' = 0,
           parser'.state = "head", parser'.heads = {}, Unread',
           Delivered' = {}
    PROVE  Framed'
<1>1. resp'.head \in Nat /\ resp'.head >= 4 /\ resp'.length \in Nat
  BY ResponseFacts
<1>2. ~Announced(resp, pos - 1)' /\ Payload(resp)' \cap 1..pos' - 1 = {}
  BY <1>1 DEF Announced, Payload
<1> QED
  BY <1>1, <1>2 DEF Framed

LEMMA FrameNext ==
    TypeInv /\ TypeInv' /\ CutOK /\ AnswerInv /\ FrameInv /\ [Next]_vars => FrameInv'
<1> SUFFICES ASSUME TypeInv, TypeInv', CutOK, AnswerInv, FrameInv, [Next]_vars,
                    WholeEnds, Clean'
             PROVE  Framed'
  BY DEF FrameInv
<1> USE FrameFacts
<1>1. CASE Feed
  <2>1. Clean
    <3>1. ~HeadersTooLarge
      BY DEF HeadersTooLarge, Clean
    <3>2. UNCHANGED <<fetch, mixed, reason>>
      BY <1>1, <3>1 DEF Feed, HeadersEnd, HeadersGoOn, Identity, ChunkSize,
                        ChunkData, ChunkEnds, Ignore, inVars
    <3> QED
      BY <3>2 DEF Clean
  <2>2. Framed /\ seen \notin resp.head - 3..resp.head - 1
    BY <2>1 DEF FrameInv, CutOK
  <2> QED
    BY <1>1, <2>2, FrameHead, FrameIdentity, FrameSize, FrameData, FrameChunkEnd,
       FrameIgnore DEF Feed
<1>2. ASSUME NEW n \in 1..Size(resp), Segment(n) PROVE Framed'
  <2>1. Framed
    BY <1>2 DEF Segment, Clean, FrameInv
  <2>2. pos' <= seen' + 1 /\ UNCHANGED <<resp, pos, parser, round, body>>
    BY <1>2, <2>1 DEF Segment, outVars, Framed
  <2> QED
    BY <2>1, <2>2 DEF Framed, Unread, Chunked, InLine, Delivered, Payload, Announced,
                      Zone, Acc, Stop, Size
<1>3. ASSUME NEW k \in {"model", "tool"}, NEW r \in Responses, StartFetch(k, r)
      PROVE  Framed'
  <2>1. Delivered' = {}
    BY <1>3 DEF StartFetch, Delivered
  <2> QED
    BY <1>3, <2>1, FreshFacts, FrameFresh DEF StartFetch, Unread
<1>4. ASSUME NEW r \in Responses, NewRound(r) PROVE Framed'
  <2>1. Framed /\ seen = 0
    <3>1. ~(mixed \/ seen > 0) /\ ~reason /\ fetch # "idle"
      BY <1>4 DEF NewRound, Clean
    <3> QED
      BY <3>1 DEF Clean, FrameInv
  <2>2. pos = 1
    BY <2>1 DEF Framed
  <2>3. parser.state = "head"
    <3>1. parser.state \in ParserStates
      BY DEF Parser
    <3>2. ~Announced(resp, pos - 1)
      BY <2>2 DEF Announced
    <3> QED
      BY <2>1, <2>2, <3>1, <3>2 DEF Framed, Chunked, ParserStates, Parser
  <2>4. Delivered' = {}
    <3>1. \A x \in body : x[1] <= round
      BY DEF AnswerInv, Past, TypeInv, TypeOK
    <3> QED
      BY <1>4, <3>1 DEF NewRound, outVars, Delivered
  <2>5. parser.heads = {} /\ Unread
    BY <2>1, <2>2, <2>3 DEF Framed
  <2> QED
    BY <1>4, <2>3, <2>4, <2>5, FrameFresh DEF NewRound, RestartParser, Unread
<1>5. CASE Close \/ EndFetch \/ UNCHANGED vars
  <2>1. Framed /\ UNCHANGED <<resp, seen, pos, parser, round, body>>
    BY <1>5 DEF Close, EndFetch, vars, inVars, outVars, Clean, FrameInv
  <2> QED
    BY <2>1 DEF Framed, Unread, Chunked, InLine, Delivered, Payload, Announced,
                Zone, Acc, Stop, Size
<1> QED
  BY <1>1, <1>2, <1>3, <1>4, <1>5 DEF Next

LEMMA FrameInvariant == Spec => []FrameInv
  BY FrameInit, FrameNext, TypeInvariant, AnswerInvariant, CutInvariant, PTL DEF Spec

\* For every well-formed response and every cutting that keeps the end of the
\* headers in one feed, http_feed delivers exactly the bytes of the body.
THEOREM BodyAlwaysIntact == WholeEnds => (Spec => []BodyIntact)
<1> SUFFICES ASSUME WholeEnds PROVE Spec => []BodyIntact
  OBVIOUS
<1>1. FrameInv => BodyIntact
  BY FramedGivesProperties
<1> QED
  BY <1>1, FrameInvariant, PTL

\* And http_feed tells the end of a response where the sender's framing puts it.
THEOREM CompleteAlwaysExactly == WholeEnds => (Spec => []CompleteExactly)
<1> SUFFICES ASSUME WholeEnds PROVE Spec => []CompleteExactly
  OBVIOUS
<1>1. FrameInv => CompleteExactly
  BY FramedGivesProperties
<1> QED
  BY <1>1, FrameInvariant, PTL
=============================================================================

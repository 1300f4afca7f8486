------------------------------- MODULE MCHttp -------------------------------
(* Responses for HttpFeed: binary digits for the hexadecimal ones, and data *)
(* of all the characters that mean something to the parser elsewhere.       *)
EXTENDS HttpFeed, SequencesExt

B(char, val, zone, acc, stop) ==
    [char |-> char, val |-> val, zone |-> zone, acc |-> acc, stop |-> stop]

HeadOf(n) == [i \in 1..n |-> B(IF i \in {n - 3, n - 1} THEN "CR"
                               ELSE IF i \in {n - 2, n} THEN "LF" ELSE "other",
                               0, "head", 0, 0)]

Value(ds) == FoldLeft(LAMBDA a, d : a * Base + d, 0, ds)
LineOf(ds, ext) ==
    LET v == Value(ds) IN
    [i \in 1..Len(ds) |-> B("hex", ds[i], "digits", Value(SubSeq(ds, 1, i - 1)), 0)]
    \o (IF ext THEN <<B(";", 0, "digits", v, 0), B("hex", 1, "ext", v, 0)>> ELSE <<>>)
    \o <<B("CR", 0, IF ext THEN "ext" ELSE "digits", v, 0), B("LF", 0, "lf", v, 0)>>

\* Data that starts at position p, with the CR LF after it.
DataOf(p, chars) ==
    [i \in 1..Len(chars) |-> B(chars[i], 0, "data", 0, p + Len(chars) - 1)]
    \o <<B("CR", 0, "cr2", 0, 0), B("LF", 0, "lf2", 0, 0)>>

Trailer == <<B("CR", 0, "tail", 0, 0), B("LF", 0, "tail", 0, 0)>>

\* Two chunks, of the sizes 1 (with an extension) and 2, and the trailer.
TwoChunks ==
    LET a == HeadOf(5) \o LineOf(<<1>>, TRUE)
        b == a \o DataOf(Len(a) + 1, <<"hex">>) \o LineOf(<<1, 0>>, FALSE)
        c == b \o DataOf(Len(b) + 1, <<"CR", "LF">>) \o LineOf(<<0>>, FALSE)
    IN  [wire |-> c \o Trailer, head |-> 5, chunked |-> TRUE, length |-> 0, ok |-> TRUE]

\* A chunk that never ends: the connection is lost.
CutShort ==
    LET a == HeadOf(4) \o LineOf(<<1, 1>>, FALSE)
    IN  [wire |-> a \o SubSeq(DataOf(Len(a) + 1, <<"other", "CR", ";">>), 1, 2),
         head |-> 4, chunked |-> TRUE, length |-> 0, ok |-> FALSE]

PlainBody(n, chars, length, ok) ==
    [wire |-> HeadOf(n) \o [i \in 1..Len(chars) |-> B(chars[i], 0, "data", 0, 0)],
     head |-> n, chunked |-> FALSE, length |-> length, ok |-> ok]

MCResponses ==
    {TwoChunks, CutShort,
     PlainBody(5, <<"other", "CR", "LF", "CR", "LF", "other">>, 5, TRUE),
     PlainBody(4, <<"CR", "LF", "CR", "LF", "hex">>, 0, TRUE),
     PlainBody(7, <<"other">>, 0, FALSE)}
=============================================================================

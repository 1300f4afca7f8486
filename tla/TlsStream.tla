------------------------------ MODULE TlsStream ------------------------------
(***************************************************************************)
(* The TCP byte stream under mbedTLS while a response is read              *)
(* (FETCH_TLS_READ): the segments kmain hands to tls.rs, the receive       *)
(* buffer, the slots for segments that came early, the acknowledgement,    *)
(* and the records fetch_tick reads in between.                            *)
(*                                                                         *)
(* Byte number p of the peer's stream is p itself; on the wire it has the  *)
(* sequence number Start + p modulo SeqSpan, which is 2^32 in the code.    *)
(* The network loses, duplicates, delays and reorders segments: any        *)
(* segment the peer may have sent can arrive at any time.                  *)
(***************************************************************************)
EXTENDS Integers, Sequences, FiniteSets

CONSTANTS
    StreamLen,     \* bytes the peer sends
    Start,         \* wire number of its first byte
    SeqSpan,       \* 2^32
    Window,        \* the window send_tcp advertises (16384)
    MaxSeg,        \* the longest segment that arrives
    Slots,         \* TLS_PENDING_SLOTS
    SlotLen,       \* TLS_PENDING_MAX
    BufLen,        \* length of TLS_RX_BUF
    YieldAt,       \* TLS_RX_YIELD_BYTES
    Burst          \* bytes fetch_tick reads at least, if there are as many

\* The wire numbers of a stream and a window fit in half the number space; one
\* tick reads as much as one frame brings (64 records of 30 bytes or more), and
\* the buffer holds what may be left of a window when the loop yields.
ASSUME StreamAssumption ==
    /\ {StreamLen, Window, MaxSeg, Slots, SlotLen, BufLen, YieldAt, Burst}
           \subseteq Nat \ {0}
    /\ Start \in 0..SeqSpan - 1
    /\ SeqSpan \in Nat /\ SeqSpan % 2 = 0 /\ StreamLen + Window < SeqSpan \div 2
    /\ MaxSeg <= Burst
    /\ YieldAt + Window + MaxSeg <= BufLen

VARIABLES
    turn,          \* "rx": the loop over received frames, "tick": fetch_tick
    ack,           \* TLS_BIO.ack
    rx,            \* TLS_RX_BUF between TLS_RX_OFF and TLS_RX_LEN
    pending,       \* the valid slots: records of seq and data
    read,          \* what mbedTLS has read so far
    edge           \* the furthest byte an acknowledgement has let the peer send

vars == <<turn, ack, rx, pending, read, edge>>

-----------------------------------------------------------------------------
(* Sequence numbers and segments *)

Wire(p) == (Start + p) % SeqSpan

\* Bytes p to p + n - 1 of the stream, and a payload without its first n bytes.
Bytes(p, n) == [i \in 1..n |-> p + i - 1]
Drop(s, n) == SubSeq(s, n + 1, Len(s))

\* tcp_seq_cmp: the difference as a signed number.
tcp_seq_cmp(a, b) ==
    LET d == (a - b) % SeqSpan
    IN IF d < SeqSpan \div 2 THEN d ELSE d - SeqSpan

-----------------------------------------------------------------------------
(* tls.rs.  A stream is a record of rx, ack and pending. *)

Fits(buf, data) == Len(buf) + Len(data) <= BufLen

\* push_rx_payload compacts the buffer first; what still does not fit is dropped
\* with everything that was waiting.
Pushed(buf, data) == IF Fits(buf, data) THEN buf \o data ELSE <<>>

\* The next byte in order arrives: it is appended and acknowledged.
Accept(s, data) == [s EXCEPT !.rx = Pushed(@, data),
                             !.ack = (@ + Len(data)) % SeqSpan]

\* The slots the stream has caught up with, the one furthest behind first.
Caught(s) == {e \in s.pending : tcp_seq_cmp(e.seq, s.ack) <= 0}
Foremost(s) == CHOOSE e \in Caught(s) :
                   \A o \in Caught(s) : tcp_seq_cmp(e.seq, o.seq) <= 0

\* One round of the replay loop: the new part of the slot is accepted, and the
\* slot is free again.
ReplayOne(s) ==
    LET e == Foremost(s)
        behind == -tcp_seq_cmp(e.seq, s.ack)
        freed == [s EXCEPT !.pending = @ \ {e}]
    IN IF behind < Len(e.data) THEN Accept(freed, Drop(e.data, behind)) ELSE freed

\* Until no slot is caught up with; every round frees one.  (A singleton holds
\* the result of a round, for TLC to compute it once.)
Round(s) == IF Caught(s) = {} THEN s ELSE ReplayOne(s)
Replayed(s) ==
    LET after[n \in 0..Slots] ==
            IF n = 0 THEN {s} ELSE {Round(t) : t \in after[n - 1]}
    IN CHOOSE t \in after[Slots] : TRUE

Kept_NoLimit(s, seq, data) ==
    IF Len(data) > SlotLen THEN s
    ELSE [s EXCEPT !.pending = {e \in @ : e.seq # seq}
                                   \cup {[seq |-> seq, data |-> data]}]

\* A segment ahead of its turn is kept: in place of a shorter one with the same
\* number, or in a free slot; if it is too long or there is none it is dropped.
Kept(s, seq, data) ==
    LET same == {e \in s.pending : e.seq = seq}
        entry == [seq |-> seq, data |-> data]
    IN IF Len(data) > SlotLen THEN s
       ELSE IF same # {}
       THEN IF \A e \in same : Len(data) > Len(e.data)
            THEN [s EXCEPT !.pending = (@ \ same) \cup {entry}] ELSE s
       ELSE IF Cardinality(s.pending) < Slots
            THEN [s EXCEPT !.pending = @ \cup {entry}] ELSE s

\* push_rx_payload_seq
PushSeq(s, seq, data) ==
    LET behind == -tcp_seq_cmp(seq, s.ack)
    IN IF behind > 0 /\ behind >= Len(data) THEN s
       ELSE IF behind >= 0 THEN Replayed(Accept(s, Drop(data, behind)))
       ELSE Kept(s, seq, data)

\* kmain then acknowledges a FIN that comes next, alone or behind new data.
FinAck(old, s, seq, n) ==
    IF seq = s.ack \/ (n > 0 /\ seq = old) THEN (s.ack + 1) % SeqSpan ELSE s.ack

-----------------------------------------------------------------------------
(* The steps *)

Stream == [rx |-> rx, ack |-> ack, pending |-> pending]

Max2(a, b) == IF a > b THEN a ELSE b

\* What the acknowledgement allows the peer to send.
Allowed(a) == LET done == (a - Start) % SeqSpan
              IN Max2(edge, IF done + Window > StreamLen THEN StreamLen
                                                        ELSE done + Window)

\* The loop stops here if the buffer is filling up: tls::buffered_bytes.
Yields_Never(buf) == FALSE
Yields(buf) == Len(buf) >= YieldAt

\* A segment of n bytes from byte p, with or without FIN, is handled; the peer's
\* last segment may carry the FIN.
Segment(p, n, fin) ==
    /\ turn = "rx"
    /\ p + n <= edge
    /\ fin => p + n = StreamLen
    /\ fin \/ n > 0
    /\ \E s \in {IF n > 0 THEN PushSeq(Stream, Wire(p), Bytes(p, n)) ELSE Stream} :
           /\ rx' = s.rx
           /\ pending' = s.pending
           /\ ack' = IF fin THEN FinAck(ack, s, Wire(p), n) ELSE s.ack
    /\ edge' = Allowed(ack')
    /\ turn' = IF Yields(rx') THEN "tick" ELSE "rx"
    /\ UNCHANGED read

\* The peer retransmits from the byte that is acknowledged, sooner or later.
Acked == Len(read) + Len(rx)
Retransmit ==
    \E n \in 0..MaxSeg : Segment(Acked, n, Acked + n = StreamLen)

AnySegment == \E p \in 0..StreamLen, n \in 0..MaxSeg, fin \in BOOLEAN :
                  Segment(p, n, fin)

NoMoreFrames ==
    /\ turn = "rx"
    /\ turn' = "tick"
    /\ UNCHANGED <<ack, rx, pending, read, edge>>

Tick_WholeBursts ==
    /\ turn = "tick"
    /\ turn' = "rx"
    /\ \E n \in 0..Len(rx) :
           /\ (n = 0 /\ Len(rx) < Burst) \/ n >= Burst
           /\ read' = read \o SubSeq(rx, 1, n)
           /\ rx' = Drop(rx, n)
    /\ UNCHANGED <<ack, pending, edge>>

\* fetch_tick reads until the buffer is empty or its burst is over; tls_recv
\* hands out the bytes in order.
Tick ==
    /\ turn = "tick"
    /\ turn' = "rx"
    /\ \E n \in 0..Len(rx) :
           /\ n = Len(rx) \/ n >= Burst
           /\ read' = read \o SubSeq(rx, 1, n)
           /\ rx' = Drop(rx, n)
    /\ UNCHANGED <<ack, pending, edge>>

\* configure, when the connection is up.
Init ==
    /\ turn = "rx"
    /\ ack = Start
    /\ rx = <<>>
    /\ pending = {}
    /\ read = <<>>
    /\ edge = IF Window > StreamLen THEN StreamLen ELSE Window

Next == AnySegment \/ NoMoreFrames \/ Tick

\* The super-loop alternates between frames and tick; the peer retransmits what
\* is not acknowledged until it arrives.
Fairness == /\ WF_vars(Tick)
            /\ WF_vars(NoMoreFrames)
            /\ SF_vars(Retransmit)

Spec == Init /\ [][Next]_vars /\ Fairness

-----------------------------------------------------------------------------
(* Properties *)

TypeOK ==
    /\ turn \in {"rx", "tick"}
    /\ ack \in 0..SeqSpan - 1
    /\ rx \in Seq(0..StreamLen - 1) /\ Len(rx) <= BufLen
    /\ Cardinality(pending) <= Slots
    /\ \A e \in pending : /\ e.seq \in 0..SeqSpan - 1
                          /\ Len(e.data) \in 1..SlotLen
    /\ read \in Seq(0..StreamLen - 1)
    /\ edge \in 0..StreamLen

\* Every slot holds bytes that are still to come, and no two slots start at the
\* same byte (the replay loop, the search for TLS_PENDING_SEQ), also across the
\* wrap of the sequence number: an old slot would be taken from later segments.
SlotsAhead ==
    /\ \A e \in pending : e.data[1] > Acked
    /\ \A e, o \in pending : e.seq = o.seq => e = o

\* mbedTLS gets the peer's bytes in order, none missing and none twice, and what
\* has been acknowledged is what has been read or is in the buffer, with the FIN
\* last: no overflow, overlap, replay or wrapped number breaks the stream
\* (push_rx_payload_seq, tls_recv, break 'rx in kmain).
StreamIntact ==
    /\ read \o rx = Bytes(0, Len(read) + Len(rx))
    /\ \/ ack = Wire(Acked)
       \/ Acked = StreamLen /\ ack = Wire(StreamLen + 1)
    /\ SlotsAhead

\* The whole stream is read, however it is cut, delayed, duplicated or lost, if
\* the peer goes on retransmitting.
StreamRead == <>(Len(read) = StreamLen)
=============================================================================

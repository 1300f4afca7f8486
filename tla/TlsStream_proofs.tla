-------------------------- MODULE TlsStream_proofs --------------------------
(***************************************************************************)
(* Proofs about TlsStream for every stream, window, buffer and number of   *)
(* slots that satisfy its assumption: what mbedTLS reads is what the peer  *)
(* sent.  The sections go from sequence numbers and payloads to the buffer *)
(* and its bound, the replay of the slots, and the steps.                  *)
(***************************************************************************)
EXTENDS TlsStream, SequenceTheorems, FiniteSetTheorems, TLAPS

-----------------------------------------------------------------------------
(* Sequence numbers *)

Half == SeqSpan \div 2

LEMMA Sizes ==
    /\ SeqSpan \in Nat /\ Half \in Nat /\ SeqSpan = 2 * Half
    /\ Start \in Nat /\ Start < SeqSpan
    /\ StreamLen \in Nat /\ StreamLen > 0 /\ Window \in Nat /\ Window > 0
    /\ MaxSeg \in Nat /\ MaxSeg > 0 /\ Slots \in Nat /\ Slots > 0
    /\ SlotLen \in Nat /\ SlotLen > 0 /\ BufLen \in Nat /\ YieldAt \in Nat /\ YieldAt > 0
    /\ Burst \in Nat /\ MaxSeg <= Burst
    /\ StreamLen + Window < Half
    /\ YieldAt + Window + MaxSeg <= BufLen
  BY StreamAssumption DEF Half

\* A number less than a span away from its remainder.
LEMMA ModNear ==
    ASSUME NEW n \in Nat \ {0}, NEW r \in 0..n - 1
    PROVE  r % n = r /\ (r + n) % n = r /\ (r - n) % n = r
  <1>1. r % n = r
    OBVIOUS
  <1>2. (r + n) % n = r
    OBVIOUS
  <1>3. (r - n) % n = r
    OBVIOUS
  <1> QED BY <1>1, <1>2, <1>3

LEMMA WireIs ==
    ASSUME NEW p \in 0..StreamLen + 1
    PROVE  /\ Wire(p) = IF Start + p < SeqSpan THEN Start + p ELSE Start + p - SeqSpan
           /\ Wire(p) \in 0..SeqSpan - 1
  <1>1. CASE Start + p < SeqSpan
    <2>1. Start + p \in 0..SeqSpan - 1 /\ SeqSpan \in Nat \ {0}
      BY <1>1, Sizes
    <2> QED BY <1>1, <2>1, ModNear DEF Wire
  <1>2. CASE Start + p >= SeqSpan
    <2> DEFINE r == Start + p - SeqSpan
    <2>1. r \in 0..SeqSpan - 1 /\ SeqSpan \in Nat \ {0} /\ Start + p = r + SeqSpan
      BY <1>2, Sizes
    <2>2. (r + SeqSpan) % SeqSpan = r
      BY <2>1, ModNear
    <2> QED BY <1>2, <2>1, <2>2, Sizes DEF Wire
  <1> QED BY <1>1, <1>2, Sizes

\* tcp_seq_cmp is the distance of two bytes of the stream, also across a wrap.
LEMMA Distance ==
    ASSUME NEW p \in 0..StreamLen + 1, NEW q \in 0..StreamLen + 1
    PROVE  tcp_seq_cmp(Wire(p), Wire(q)) = p - q
  <1> DEFINE d == Wire(p) - Wire(q)
             r == IF p >= q THEN p - q ELSE p - q + SeqSpan
  <1>1. r \in 0..SeqSpan - 1 /\ SeqSpan \in Nat \ {0} /\ d \in {r, r + SeqSpan, r - SeqSpan}
    BY WireIs, Sizes
  <1>2. d % SeqSpan = r
    <2> HIDE DEF d, r
    <2> QED BY <1>1, ModNear
  <1>3. tcp_seq_cmp(Wire(p), Wire(q)) = IF r < Half THEN r ELSE r - SeqSpan
    <2> HIDE DEF r
    <2> QED BY <1>2 DEF tcp_seq_cmp, Half
  <1> QED BY <1>3, Sizes

\* No two bytes of the stream have the same number.
LEMMA WireInjective ==
    ASSUME NEW p \in 0..StreamLen + 1, NEW q \in 0..StreamLen + 1, Wire(p) = Wire(q)
    PROVE  p = q
  BY WireIs, Sizes

\* The number n bytes further on.
LEMMA WireAdd ==
    ASSUME NEW p \in 0..StreamLen + 1, NEW n \in Nat, p + n <= StreamLen + 1
    PROVE  (Wire(p) + n) % SeqSpan = Wire(p + n)
  <1>1. p + n \in 0..StreamLen + 1 /\ SeqSpan \in Nat \ {0}
    BY Sizes
  <1> DEFINE r == Wire(p + n)
  <1>2. r \in 0..SeqSpan - 1 /\ Wire(p) + n \in {r, r + SeqSpan}
    BY <1>1, WireIs, Sizes
  <1> HIDE DEF r
  <1>3. (Wire(p) + n) % SeqSpan = r
    BY <1>1, <1>2, ModNear
  <1> QED BY <1>3 DEF r

\* What has been acknowledged, from the acknowledgement.
LEMMA WireDone ==
    ASSUME NEW p \in 0..StreamLen + 1
    PROVE  (Wire(p) - Start) % SeqSpan = p
  <1>1. /\ p \in 0..SeqSpan - 1 /\ SeqSpan \in Nat \ {0}
        /\ Wire(p) - Start \in {p, p - SeqSpan}
    BY WireIs, Sizes
  <1> QED BY <1>1, ModNear

-----------------------------------------------------------------------------
(* Payloads *)

LEMMA BytesSeq ==
    ASSUME NEW p \in Nat, NEW n \in Nat
    PROVE  /\ Bytes(p, n) \in Seq(Nat) /\ Len(Bytes(p, n)) = n
           /\ \A i \in 1..n : Bytes(p, n)[i] = p + i - 1
           /\ Bytes(p, n) \in Seq(0..p + n - 1)
  BY DEF Bytes

LEMMA BytesConcat ==
    ASSUME NEW p \in Nat, NEW m \in Nat, NEW n \in Nat
    PROVE  Bytes(p, m) \o Bytes(p + m, n) = Bytes(p, m + n)
  <1> DEFINE s == Bytes(p, m) \o Bytes(p + m, n)
             t == Bytes(p, m + n)
  <1>1. /\ s \in Seq(Nat) /\ Len(s) = m + n
        /\ \A i \in 1..m + n : s[i] = IF i <= m THEN Bytes(p, m)[i]
                                               ELSE Bytes(p + m, n)[i - m]
    <2> DEFINE u == Bytes(p, m)
               v == Bytes(p + m, n)
    <2>1. p + m \in Nat
      OBVIOUS
    <2>2. u \in Seq(Nat) /\ v \in Seq(Nat) /\ Len(u) = m /\ Len(v) = n
      BY <2>1, BytesSeq
    <2> HIDE DEF u, v
    <2>3. /\ u \o v \in Seq(Nat) /\ Len(u \o v) = Len(u) + Len(v)
          /\ \A i \in 1..Len(u) + Len(v) :
                (u \o v)[i] = IF i <= Len(u) THEN u[i] ELSE v[i - Len(u)]
      BY <2>2, ConcatProperties
    <2>4. s = u \o v
      BY DEF u, v
    <2> HIDE DEF s
    <2>5. /\ s \in Seq(Nat) /\ Len(s) = m + n
          /\ \A i \in 1..m + n : s[i] = IF i <= m THEN u[i] ELSE v[i - m]
      BY <2>2, <2>3, <2>4
    <2> QED BY <2>5 DEF u, v
  <1>2. \A i \in 1..m + n : s[i] = p + i - 1
    <2> HIDE DEF s
    <2> SUFFICES ASSUME NEW i \in 1..m + n PROVE s[i] = p + i - 1
      OBVIOUS
    <2>1. CASE i <= m
      <3>1. i \in 1..m
        BY <2>1
      <3> QED BY <1>1, <2>1, <3>1, BytesSeq
    <2>2. CASE i > m
      <3>1. i - m \in 1..n /\ p + m \in Nat
        BY <2>2
      <3>2. Bytes(p + m, n)[i - m] = (p + m) + (i - m) - 1
        BY <3>1, BytesSeq
      <3> QED BY <1>1, <2>2, <3>2
    <2> QED BY <2>1, <2>2
  <1>3. t \in Seq(Nat) /\ Len(t) = m + n /\ \A i \in 1..m + n : t[i] = p + i - 1
    <2>1. m + n \in Nat
      OBVIOUS
    <2> QED BY <2>1, BytesSeq
  <1> HIDE DEF s, t
  <1>4. s = t
    BY <1>1, <1>2, <1>3, SeqEqual
  <1> QED BY <1>4 DEF s, t

\* A part of a payload is a payload.
LEMMA BytesPart ==
    ASSUME NEW p \in Nat, NEW n \in Nat, NEW a \in 1..n + 1, NEW b \in 0..n, a <= b + 1
    PROVE  SubSeq(Bytes(p, n), a, b) = Bytes(p + a - 1, b + 1 - a)
  <1> DEFINE s == Bytes(p, n)
             u == SubSeq(s, a, b)
             t == Bytes(p + a - 1, b + 1 - a)
  <1>1. s \in Seq(Nat) /\ Len(s) = n /\ \A i \in 1..n : s[i] = p + i - 1
    BY BytesSeq
  <1>2. t \in Seq(Nat) /\ Len(t) = b + 1 - a
        /\ \A i \in 1..b + 1 - a : t[i] = (p + a - 1) + i - 1
    <2>1. p + a - 1 \in Nat /\ b + 1 - a \in Nat
      OBVIOUS
    <2> QED BY <2>1, BytesSeq
  <1> HIDE DEF s, t
  <1>3. /\ u \in Seq(Nat) /\ Len(u) = b + 1 - a
        /\ \A i \in 1..b + 1 - a : u[i] = s[a + i - 1]
    <2>1. \A i \in a..b : s[i] \in Nat
      BY <1>1
    <2>2. /\ u \in Seq(Nat) /\ Len(u) = IF a <= b THEN b - a + 1 ELSE 0
          /\ \A i \in 1..b - a + 1 : u[i] = s[a + i - 1]
      BY <2>1, SubSeqProperties
    <2> QED BY <2>2
  <1> HIDE DEF u
  <1>4. \A i \in 1..b + 1 - a : u[i] = t[i]
    <2> SUFFICES ASSUME NEW i \in 1..b + 1 - a PROVE u[i] = t[i]
      OBVIOUS
    <2>1. a + i - 1 \in 1..n
      OBVIOUS
    <2>2. u[i] = p + (a + i - 1) - 1
      BY <1>1, <1>3, <2>1
    <2> QED BY <1>2, <2>2
  <1>5. u = t
    BY <1>2, <1>3, <1>4, SeqEqual
  <1> QED BY <1>5 DEF u, t, s

LEMMA BytesDrop ==
    ASSUME NEW p \in Nat, NEW n \in Nat, NEW k \in 0..n
    PROVE  Drop(Bytes(p, n), k) = Bytes(p + k, n - k)
  <1>1. k + 1 \in 1..n + 1 /\ n \in 0..n /\ k + 1 <= n + 1
    OBVIOUS
  <1>2. SubSeq(Bytes(p, n), k + 1, n) = Bytes(p + (k + 1) - 1, n + 1 - (k + 1))
    BY <1>1, BytesPart
  <1>3. p + (k + 1) - 1 = p + k /\ n + 1 - (k + 1) = n - k /\ Len(Bytes(p, n)) = n
    BY BytesSeq
  <1> QED BY <1>2, <1>3 DEF Drop

LEMMA BytesTake ==
    ASSUME NEW p \in Nat, NEW n \in Nat, NEW k \in 0..n
    PROVE  SubSeq(Bytes(p, n), 1, k) = Bytes(p, k)
  <1>1. 1 \in 1..n + 1 /\ k \in 0..n /\ 1 <= k + 1
    OBVIOUS
  <1>2. SubSeq(Bytes(p, n), 1, k) = Bytes(p + 1 - 1, k + 1 - 1)
    BY <1>1, BytesPart
  <1> QED BY <1>2

LEMMA BytesEmpty == ASSUME NEW p \in Nat PROVE Bytes(p, 0) = <<>>
  <1>1. Bytes(p, 0) \in Seq(Nat) /\ Len(Bytes(p, 0)) = 0
    BY BytesSeq
  <1> QED BY <1>1, EmptySeq

-----------------------------------------------------------------------------
(* The inductive invariant *)

First(e) == e.data[1]
Size(e) == Len(e.data)

\* A slot holds bytes of the stream under their number.
Entry(e) == /\ e = [seq |-> e.seq, data |-> e.data]
            /\ First(e) \in 0..StreamLen - 1
            /\ Size(e) \in 1..SlotLen
            /\ First(e) + Size(e) <= StreamLen
            /\ e.seq = Wire(First(e))
            /\ e.data = Bytes(First(e), Size(e))

\* The bytes that wait in slots.
Cover(slots) == {x \in 0..StreamLen - 1 :
                    \E e \in slots : First(e) <= x /\ x < First(e) + Size(e)}
Held == Cover(pending)

SlotsInv(slots, from, to) ==
    /\ IsFiniteSet(slots) /\ Cardinality(slots) <= Slots
    /\ \A e \in slots : Entry(e) /\ First(e) > from /\ First(e) + Size(e) <= to
    /\ \A e, o \in slots : e.seq = o.seq => e = o

Reach(p) == IF p + Window > StreamLen THEN StreamLen ELSE p + Window

BytesInv == /\ read = Bytes(0, Len(read)) /\ Len(read) \in Nat
            /\ rx = Bytes(Len(read), Len(rx)) /\ Len(rx) \in Nat
            /\ Acked <= StreamLen
            /\ edge = Reach(Acked)

AckInv == \/ ack = Wire(Acked)
          \/ Acked = StreamLen /\ ack = Wire(StreamLen + 1)

\* The buffer has room for all that is held and for one more segment.  A frame
\* brings no more than MaxSeg bytes, most of them perhaps for a slot; what a
\* slot sets free at once has been counted when it came.
RoomInv == Len(rx) + Cardinality(Held) <
               IF turn = "tick" THEN YieldAt + Window + MaxSeg ELSE YieldAt + Window

IInv == /\ turn \in {"rx", "tick"}
        /\ BytesInv /\ AckInv /\ RoomInv
        /\ SlotsInv(pending, Acked, edge)

LEMMA Positions ==
    ASSUME BytesInv
    PROVE  /\ Len(read) \in Nat /\ Len(rx) \in Nat
           /\ Acked \in 0..StreamLen /\ Acked = Len(read) + Len(rx)
           /\ edge \in Acked..StreamLen
           /\ edge <= Acked + Window
  BY Sizes DEF BytesInv, Acked, Reach

\* The bytes from a to b, b not included, are all in H.
Within(a, b, H) == a..b - 1 \subseteq H

LEMMA IntervalSize ==
    ASSUME NEW a \in Nat, NEW b \in Nat, a <= b
    PROVE  IsFiniteSet(a..b - 1) /\ Cardinality(a..b - 1) = b - a
  <1>1. a \in Int /\ b - 1 \in Int
    OBVIOUS
  <1>2. /\ IsFiniteSet(a..b - 1)
        /\ Cardinality(a..b - 1) = IF a > b - 1 THEN 0 ELSE (b - 1) - a + 1
    BY <1>1, FS_Interval
  <1> QED BY <1>2

\* Two intervals in a row that are both within H.
LEMMA IntervalWithin ==
    ASSUME NEW from \in Nat, NEW a \in Nat, NEW b \in Nat, from <= a, a <= b,
           NEW H, IsFiniteSet(H), Within(from, a, H), Within(a, b, H)
    PROVE  /\ Within(from, b, H)
           /\ Cardinality(H) \in Nat /\ b - from <= Cardinality(H)
  <1>1. from..b - 1 \subseteq H
    <2> SUFFICES ASSUME NEW x \in from..b - 1 PROVE x \in H
      OBVIOUS
    <2>1. x \in from..a - 1 \/ x \in a..b - 1
      OBVIOUS
    <2> QED BY <2>1 DEF Within
  <1>2. Cardinality(from..b - 1) <= Cardinality(H) /\ Cardinality(H) \in Nat
    BY <1>1, FS_Subset, FS_CardinalityType
  <1>3. Cardinality(from..b - 1) = b - from
    BY IntervalSize
  <1> QED BY <1>1, <1>2, <1>3 DEF Within

LEMMA CoverFinite ==
    ASSUME NEW slots
    PROVE  /\ IsFiniteSet(Cover(slots)) /\ Cardinality(Cover(slots)) \in Nat
           /\ Cover(slots) \subseteq 0..StreamLen - 1
  <1>1. Cover(slots) \in SUBSET (0..StreamLen - 1)
    BY DEF Cover
  <1>2. IsFiniteSet(0..StreamLen - 1)
    BY Sizes, FS_Interval
  <1>3. IsFiniteSet(Cover(slots))
    BY <1>1, <1>2, FS_Subset
  <1> QED BY <1>1, <1>3, FS_CardinalityType

\* Fewer slots hold no more.
LEMMA CoverMonotone ==
    ASSUME NEW T, NEW U, T \subseteq U
    PROVE  Cover(T) \subseteq Cover(U)
  BY DEF Cover

LEMMA EntryCovers ==
    ASSUME NEW T, NEW e \in T, Entry(e)
    PROVE  First(e)..First(e) + Size(e) - 1 \subseteq Cover(T)
  <1> SUFFICES ASSUME NEW x \in First(e)..First(e) + Size(e) - 1
               PROVE  x \in Cover(T)
    OBVIOUS
  <1>1. /\ First(e) \in Nat /\ Size(e) \in Nat
        /\ First(e) + Size(e) <= StreamLen
    BY Sizes DEF Entry
  <1>2. x \in 0..StreamLen - 1 /\ First(e) <= x /\ x < First(e) + Size(e)
    BY <1>1, Sizes
  <1> QED BY <1>2, Zenon DEF Cover

-----------------------------------------------------------------------------
(* A segment on its way, in terms of the state it met: t is the stream     *)
(* once everything before byte p has been pushed, and H the bytes there    *)
(* are from Acked on.                                                      *)

Stage(t, p, H) == /\ t \in [rx : Seq(Nat), ack : Int, pending : SUBSET pending]
                  /\ p \in Acked..edge
                  /\ t.rx = Bytes(Len(read), p - Len(read))
                  /\ t.ack = Wire(p)
                  /\ Within(Acked, p, H)

Room(H) == IsFiniteSet(H) /\ Len(rx) + Cardinality(H) <= BufLen

LEMMA StageFacts ==
    ASSUME BytesInv, NEW H, NEW t, NEW p, Stage(t, p, H)
    PROVE  /\ p \in Acked..edge /\ p \in 0..StreamLen /\ p - Len(read) \in Nat
           /\ Len(t.rx) = p - Len(read)
           /\ t.pending \subseteq pending
  <1>1. /\ Len(read) \in Nat /\ Len(rx) \in Nat /\ Acked \in 0..StreamLen
        /\ Acked >= Len(read) /\ edge \in Acked..StreamLen
    BY Positions
  <1>2. p \in Acked..edge /\ t.pending \subseteq pending
    BY DEF Stage
  <1>3. p \in 0..StreamLen /\ p - Len(read) \in Nat
    BY <1>1, <1>2, Sizes
  <1>4. Len(Bytes(Len(read), p - Len(read))) = p - Len(read)
    BY <1>1, <1>3, BytesSeq
  <1> QED BY <1>2, <1>3, <1>4 DEF Stage

LEMMA BytesAppend ==
    ASSUME NEW k \in Nat, NEW p \in Nat, NEW m \in Nat, p - k \in Nat
    PROVE  Bytes(k, p - k) \o Bytes(p, m) = Bytes(k, p + m - k)
  <1> DEFINE n == p - k
  <1>1. k + n = p /\ n + m = p + m - k
    OBVIOUS
  <1>2. n \in Nat
    OBVIOUS
  <1> HIDE DEF n
  <1>3. Bytes(k, n) \o Bytes(k + n, m) = Bytes(k, n + m)
    BY <1>2, BytesConcat
  <1>4. Bytes(k, n) \o Bytes(p, m) = Bytes(k, p + m - k)
    BY <1>1, <1>3, Zenon
  <1> QED BY <1>4 DEF n

\* The next m bytes are pushed: there is room, and they are acknowledged.
LEMMA AcceptStage ==
    ASSUME BytesInv, NEW H, Room(H), NEW t, NEW p \in Nat, Stage(t, p, H),
           NEW m \in Nat, p + m <= edge, Within(p, p + m, H)
    PROVE  LET u == Accept(t, Bytes(p, m))
           IN Stage(u, p + m, H) /\ u.pending = t.pending
  <1> DEFINE data == Bytes(p, m)
             u == Accept(t, data)
             k == Len(read)
  <1>1. /\ p >= Acked /\ p <= edge /\ p - k \in Nat /\ Len(t.rx) = p - k
    <2>1. p \in Acked..edge /\ p - k \in Nat /\ Len(t.rx) = p - k
      BY StageFacts
    <2>2. Acked \in Int /\ edge \in Int
      BY Positions
    <2> QED BY <2>1, <2>2
  <1>2. /\ Acked \in Nat /\ Len(rx) \in Nat /\ k \in Nat /\ Acked = k + Len(rx)
        /\ edge \in Nat /\ edge <= StreamLen /\ StreamLen \in Nat
    BY Positions, Sizes
  <1>3. /\ t.rx = Bytes(k, p - k) /\ t.ack = Wire(p)
        /\ Within(Acked, p, H) /\ IsFiniteSet(H)
        /\ Len(rx) + Cardinality(H) <= BufLen
        /\ t \in [rx : Seq(Nat), ack : Int, pending : SUBSET pending]
    BY DEF Stage, Room
  <1>4. data \in Seq(Nat) /\ Len(data) = m
    BY BytesSeq
  <1>5. /\ Within(Acked, p + m, H)
        /\ Cardinality(H) \in Nat /\ p + m - Acked <= Cardinality(H)
    <2>1. p + m \in Nat /\ Acked <= p /\ p <= p + m
      BY <1>1
    <2> QED BY <1>2, <1>3, <2>1, IntervalWithin
  <1>6. (p - k) + m <= BufLen
    BY <1>1, <1>2, <1>3, <1>5, Sizes
  <1>7. Pushed(t.rx, data) = t.rx \o data
    <2>1. Len(t.rx) + Len(data) <= BufLen
      BY <1>1, <1>4, <1>6
    <2> QED BY <2>1 DEF Pushed, Fits
  <1>8. t.rx \o data = Bytes(k, p + m - k)
    <2>1. k \in Nat /\ p - k \in Nat
      BY <1>1, <1>2
    <2>2. Bytes(k, p - k) \o Bytes(p, m) = Bytes(k, p + m - k)
      <3> HIDE DEF k
      <3> QED BY <2>1, BytesAppend
    <2> QED BY <1>3, <2>2
  <1>9. (t.ack + Len(data)) % SeqSpan = Wire(p + m) /\ Wire(p + m) \in Int
    <2>1. p \in 0..StreamLen + 1 /\ p + m \in 0..StreamLen + 1 /\ p + m <= StreamLen + 1
      BY <1>2
    <2>2. (Wire(p) + m) % SeqSpan = Wire(p + m)
      BY <2>1, WireAdd
    <2>3. Wire(p + m) \in 0..SeqSpan - 1
      BY <2>1, WireIs
    <2>4. t.ack = Wire(p) /\ Len(data) = m
      BY <1>3, <1>4
    <2>5. (t.ack + Len(data)) % SeqSpan = Wire(p + m)
      BY <2>2, <2>4, Zenon
    <2>6. Wire(p + m) \in Int
      BY <2>3, Sizes
    <2> QED BY <2>5, <2>6, Zenon
  <1>10. u = [t EXCEPT !.rx = Bytes(k, p + m - k), !.ack = Wire(p + m)]
    BY <1>7, <1>8, <1>9 DEF Accept
  <1>11. Bytes(k, p + m - k) \in Seq(Nat)
    <2>1. p + m - k \in Nat
      BY <1>1, <1>2
    <2> QED BY <1>2, <2>1, BytesSeq
  <1>12. /\ u.rx = Bytes(k, p + m - k) /\ u.ack = Wire(p + m)
         /\ u.pending = t.pending
         /\ u \in [rx : Seq(Nat), ack : Int, pending : SUBSET pending]
    BY <1>3, <1>9, <1>10, <1>11
  <1>13. p + m \in Acked..edge
    BY <1>1, <1>2
  <1> HIDE DEF u
  <1>14. Stage(u, p + m, H)
    BY <1>5, <1>12, <1>13 DEF Stage
  <1> QED BY <1>12, <1>14 DEF u

-----------------------------------------------------------------------------
(* The replay of the slots *)

\* A set of natural numbers has a smallest one.
LEMMA SmallestIn ==
    ASSUME NEW S \in SUBSET Nat, S # {}
    PROVE  \E m \in S : \A k \in S : m <= k
  <1>1. PICK m \in S : \A k \in S : ~ <<k, m>> \in OpToRel(<, Nat)
    BY WFMin, NatLessThanWellFounded, Zenon
  <1>2. \A k \in S : ~(k < m)
    BY <1>1, Zenon DEF OpToRel
  <1> QED BY <1>2

\* What holds at 0, and at the next number whenever it holds at one, holds up to n.
LEMMA Upto ==
    ASSUME NEW n \in Nat, NEW S, 0 \in S, \A k \in 0..n - 1 : k \in S => k + 1 \in S
    PROVE  n \in S
  <1> SUFFICES ASSUME n \notin S PROVE FALSE
    OBVIOUS
  <1> DEFINE R == {k \in 0..n : k \notin S}
  <1>1. R \in SUBSET Nat /\ R # {}
    OBVIOUS
  <1>2. PICK m \in R : \A k \in R : m <= k
    BY <1>1, SmallestIn
  <1>3. m \in 0..n /\ m \notin S /\ m # 0
    BY <1>2
  <1>4. m - 1 \in 0..n - 1 /\ m - 1 \notin R
    BY <1>2, <1>3
  <1>5. m - 1 \in S
    BY <1>4
  <1>6. (m - 1) + 1 \in S
    BY <1>4, <1>5
  <1> QED BY <1>3, <1>6

LEMMA EntryFacts ==
    ASSUME NEW e, Entry(e)
    PROVE  /\ First(e) \in Nat /\ Size(e) \in Nat /\ Size(e) >= 1 /\ Size(e) <= SlotLen
           /\ First(e) + Size(e) <= StreamLen /\ First(e) \in 0..StreamLen + 1
           /\ e.seq = Wire(First(e)) /\ e.data = Bytes(First(e), Size(e))
           /\ Len(e.data) = Size(e)
  <1>1. /\ First(e) \in 0..StreamLen - 1 /\ Size(e) \in 1..SlotLen
        /\ First(e) + Size(e) <= StreamLen
    BY DEF Entry
  <1>2. /\ First(e) \in Nat /\ Size(e) \in Nat /\ Size(e) >= 1 /\ Size(e) <= SlotLen
        /\ First(e) \in 0..StreamLen + 1
    BY <1>1, Sizes
  <1> QED BY <1>1, <1>2 DEF Entry, Size

\* How far a slot is from the acknowledgement, with wire numbers.
LEMMA CaughtIs ==
    ASSUME BytesInv, SlotsInv(pending, Acked, edge), NEW H, NEW t, NEW p \in Nat,
           Stage(t, p, H), NEW e \in t.pending
    PROVE  /\ Entry(e) /\ e \in pending /\ First(e) + Size(e) <= edge
           /\ tcp_seq_cmp(e.seq, t.ack) = First(e) - p
           /\ e \in Caught(t) <=> First(e) <= p
  <1>1. Entry(e) /\ e \in pending /\ First(e) + Size(e) <= edge
    BY StageFacts DEF SlotsInv
  <1>2. p \in 0..StreamLen + 1 /\ t.ack = Wire(p)
    <2>1. p \in 0..StreamLen
      BY StageFacts
    <2> QED BY <2>1, Sizes DEF Stage
  <1>3. tcp_seq_cmp(e.seq, t.ack) = First(e) - p
    BY <1>1, <1>2, EntryFacts, Distance
  <1>4. (First(e) - p <= 0) <=> First(e) <= p
    BY <1>1, EntryFacts
  <1> QED BY <1>1, <1>3, <1>4 DEF Caught

LEMMA ForemostIs ==
    ASSUME BytesInv, SlotsInv(pending, Acked, edge), NEW H, NEW t, NEW p \in Nat,
           Stage(t, p, H), Caught(t) # {}
    PROVE  Foremost(t) \in Caught(t)
  <1> DEFINE S == {First(e) : e \in Caught(t)}
  <1>1. \A e \in Caught(t) : e \in t.pending /\ Entry(e)
    BY CaughtIs DEF Caught
  <1>2. S \in SUBSET Nat /\ S # {}
    BY <1>1, EntryFacts
  <1>3. PICK m \in S : \A k \in S : m <= k
    BY <1>2, SmallestIn
  <1>4. PICK e \in Caught(t) : First(e) = m
    BY <1>3
  <1>5. \A o \in Caught(t) : tcp_seq_cmp(e.seq, o.seq) <= 0
    <2> SUFFICES ASSUME NEW o \in Caught(t) PROVE tcp_seq_cmp(e.seq, o.seq) <= 0
      OBVIOUS
    <2>1. tcp_seq_cmp(e.seq, o.seq) = First(e) - First(o)
      BY <1>1, EntryFacts, Distance
    <2>2. First(e) <= First(o)
      BY <1>3, <1>4
    <2>3. First(e) \in Nat /\ First(o) \in Nat
      BY <1>1, EntryFacts
    <2> QED BY <2>1, <2>2, <2>3
  <1> QED BY <1>5 DEF Foremost

\* A slot from byte f that the stream has reached byte p of.
LEMMA Overlap ==
    ASSUME NEW f \in Nat, NEW n \in Nat, NEW p \in Nat, f <= p, p - f < n
    PROVE  /\ f + n - p \in Nat /\ p + (f + n - p) = f + n /\ p + (f + n - p) >= p
           /\ p..(p + (f + n - p)) - 1 \subseteq f..f + n - 1
           /\ Drop(Bytes(f, n), p - f) = Bytes(p, f + n - p)
  <1>1. /\ f + n - p \in Nat /\ p + (f + n - p) = f + n /\ p + (f + n - p) >= p
        /\ p..(p + (f + n - p)) - 1 \subseteq f..f + n - 1
    OBVIOUS
  <1>2. p - f \in 0..n /\ f + (p - f) = p /\ n - (p - f) = f + n - p
    OBVIOUS
  <1>3. Drop(Bytes(f, n), p - f) = Bytes(f + (p - f), n - (p - f))
    <2>1. p - f \in 0..n
      OBVIOUS
    <2> QED BY <2>1, BytesDrop
  <1>4. Drop(Bytes(f, n), p - f) = Bytes(p, f + n - p)
    BY <1>2, <1>3, Zenon
  <1> QED BY <1>1, <1>4

\* A round frees one of the slots that are caught up with; what it adds to the
\* buffer are the next bytes.
LEMMA RoundStage ==
    ASSUME BytesInv, SlotsInv(pending, Acked, edge), NEW H, Room(H), Held \subseteq H,
           NEW t, NEW p \in Nat, Stage(t, p, H), Caught(t) # {}
    PROVE  \E q \in Nat, e \in t.pending :
               q >= p /\ Stage(Round(t), q, H) /\ Round(t).pending = t.pending \ {e}
  <1> DEFINE e == Foremost(t)
             behind == -tcp_seq_cmp(e.seq, t.ack)
             freed == [t EXCEPT !.pending = @ \ {e}]
  <1>1. Round(t) = IF behind < Len(e.data) THEN Accept(freed, Drop(e.data, behind))
                                           ELSE freed
    BY DEF Round, ReplayOne
  <1>2. e \in t.pending /\ First(e) <= p /\ behind = -(First(e) - p)
    <2>1. e \in Caught(t)
      BY ForemostIs
    <2>2. e \in t.pending
      BY <2>1 DEF Caught
    <2> QED BY <2>1, <2>2, CaughtIs
  <1>3. /\ Entry(e) /\ e \in pending /\ First(e) + Size(e) <= edge
        /\ First(e) \in Nat /\ Size(e) \in Nat /\ edge \in Nat
        /\ Len(e.data) = Size(e) /\ e.data = Bytes(First(e), Size(e))
    BY <1>2, CaughtIs, EntryFacts, Positions
  <1>4. Stage(freed, p, H) /\ freed.pending = t.pending \ {e}
    BY DEF Stage
  <1> HIDE DEF e, behind, freed
  <1>5. CASE behind < Len(e.data)
    <2> DEFINE m == First(e) + Size(e) - p
    <2>1. behind = p - First(e) /\ p - First(e) < Size(e)
      BY <1>2, <1>3, <1>5
    <2>2. /\ m \in Nat /\ p + m = First(e) + Size(e) /\ p + m >= p
          /\ p..(p + m) - 1 \subseteq First(e)..First(e) + Size(e) - 1
          /\ Drop(Bytes(First(e), Size(e)), p - First(e)) = Bytes(p, m)
      BY <1>2, <1>3, <2>1, Overlap
    <2>3. Drop(e.data, behind) = Bytes(p, m)
      BY <1>3, <2>1, <2>2, Zenon
    <2> HIDE DEF m
    <2>4. Within(p, p + m, H)
      <3>1. First(e)..First(e) + Size(e) - 1 \subseteq H
        BY <1>3, EntryCovers DEF Held
      <3> QED BY <2>2, <3>1, Zenon DEF Within
    <2>5. p + m <= edge
      BY <1>3, <2>2, Zenon
    <2>6. LET u == Accept(freed, Bytes(p, m))
          IN Stage(u, p + m, H) /\ u.pending = freed.pending
      BY <1>4, <2>2, <2>4, <2>5, AcceptStage
    <2>7. Round(t) = Accept(freed, Bytes(p, m))
      BY <1>1, <1>5, <2>3, Zenon
    <2>8. p + m \in Nat
      BY <2>2
    <2>9. /\ e \in t.pending /\ p + m >= p
          /\ Stage(Round(t), p + m, H) /\ Round(t).pending = t.pending \ {e}
      BY <1>2, <1>4, <2>2, <2>6, <2>7
    <2> QED BY <2>8, <2>9, Zenon
  <1>6. CASE ~(behind < Len(e.data))
    <2>1. Round(t) = freed /\ p >= p
      BY <1>1, <1>6
    <2> QED BY <1>2, <1>4, <2>1
  <1> QED BY <1>5, <1>6

\* What the loop may have after each of n rounds.
Rounds(f, s, n) ==
    f = [k \in 0..n |-> IF k = 0 THEN {s} ELSE {Round(t) : t \in f[k - 1]}]

LEMMA RoundsExist ==
    ASSUME NEW s, NEW n \in Nat
    PROVE  \E f : Rounds(f, s, n)
  <1> USE DEF Rounds
  <1> DEFINE S == {m \in Nat : \E f : Rounds(f, s, m)}
  <1>1. 0 \in S
    <2> DEFINE g == [k \in 0..0 |-> {s}]
    <2>1. Rounds(g, s, 0)
      OBVIOUS
    <2> QED BY <2>1
  <1>2. \A m \in 0..n - 1 : m \in S => m + 1 \in S
    <2> SUFFICES ASSUME NEW m \in 0..n - 1, m \in S PROVE m + 1 \in S
      OBVIOUS
    <2>1. m \in Nat /\ m + 1 \in Nat
      OBVIOUS
    <2>2. PICK f : Rounds(f, s, m)
      OBVIOUS
    <2> DEFINE g == [k \in 0..m + 1 |-> IF k = m + 1 THEN {Round(t) : t \in f[m]} ELSE f[k]]
    <2>3. ASSUME NEW k \in 0..m + 1
          PROVE  g[k] = IF k = 0 THEN {s} ELSE {Round(t) : t \in g[k - 1]}
      <3>1. CASE k = m + 1
        <4>1. g[k] = {Round(t) : t \in f[m]} /\ m \in 0..m + 1 /\ m # m + 1 /\ k - 1 = m
          BY <2>1, <3>1
        <4>2. g[k - 1] = f[m]
          BY <4>1
        <4> QED BY <2>1, <3>1, <4>1, <4>2
      <3>2. CASE k # m + 1
        <4>1. k \in 0..m
          BY <2>1, <3>2
        <4>2. g[k] = f[k]
          BY <3>2
        <4>3. f[k] = IF k = 0 THEN {s} ELSE {Round(t) : t \in f[k - 1]}
          BY <2>2, <4>1
        <4>4. k # 0 => g[k - 1] = f[k - 1]
          BY <2>1, <4>1
        <4> HIDE DEF g
        <4> QED BY <4>2, <4>3, <4>4
      <3> QED BY <3>1, <3>2
    <2>4. Rounds(g, s, m + 1)
      <3>1. DOMAIN g = 0..m + 1 /\ g = [k \in 0..m + 1 |-> g[k]]
        OBVIOUS
      <3> HIDE DEF g
      <3> QED BY <2>3, <3>1
    <2> QED BY <2>1, <2>4
  <1>3. n \in S
    <2> HIDE DEF S, Rounds
    <2> QED BY <1>1, <1>2, Upto
  <1> QED BY <1>3

LEMMA ReplayedIs ==
    ASSUME NEW s
    PROVE  \E f : /\ f[0] = {s}
                  /\ \A n \in 1..Slots : f[n] = {Round(t) : t \in f[n - 1]}
                  /\ Replayed(s) = CHOOSE t \in f[Slots] : TRUE
  <1> DEFINE after == CHOOSE f : Rounds(f, s, Slots)
  <1>1. after = [n \in 0..Slots |-> IF n = 0 THEN {s} ELSE {Round(t) : t \in after[n - 1]}]
    <2>1. \E f : Rounds(f, s, Slots)
      BY Sizes, RoundsExist
    <2>2. Rounds(after, s, Slots)
      BY <2>1, Zenon
    <2> HIDE DEF after
    <2> QED BY <2>2 DEF Rounds
  <1>2. Replayed(s) = CHOOSE t \in after[Slots] : TRUE
    BY DEF Replayed, Rounds
  <1> HIDE DEF after
  <1>3. after[0] = {s}
    BY <1>1, Sizes
  <1>4. \A n \in 1..Slots : after[n] = {Round(t) : t \in after[n - 1]}
    <2> SUFFICES ASSUME NEW n \in 1..Slots
                 PROVE  after[n] = {Round(t) : t \in after[n - 1]}
      OBVIOUS
    <2>1. n \in 0..Slots /\ n # 0
      BY Sizes
    <2> QED BY <1>1, <2>1
  <1> QED BY <1>2, <1>3, <1>4

\* The loop stops only when no slot is left that the stream has caught up with.
LEMMA ReplayedStage ==
    ASSUME BytesInv, SlotsInv(pending, Acked, edge), NEW H, Room(H), Held \subseteq H,
           NEW s, NEW p \in Nat, Stage(s, p, H)
    PROVE  \E q \in Nat :
               /\ q >= p /\ Stage(Replayed(s), q, H) /\ Caught(Replayed(s)) = {}
               /\ Replayed(s).pending \subseteq pending
  <1>1. PICK f : /\ f[0] = {s}
                 /\ \A n \in 1..Slots : f[n] = {Round(t) : t \in f[n - 1]}
                 /\ Replayed(s) = CHOOSE t \in f[Slots] : TRUE
    BY ReplayedIs
  <1> DEFINE Good(t, q, n) ==
                 /\ q >= p /\ Stage(t, q, H)
                 /\ Caught(t) = {} \/ Cardinality(t.pending) <= Slots - n
             S == {n \in Nat : \E t, q : q \in Nat /\ f[n] = {t} /\ Good(t, q, n)}
  <1>2. /\ Slots \in Nat /\ IsFiniteSet(pending) /\ Cardinality(pending) \in Nat
        /\ Cardinality(pending) <= Slots
    BY Sizes, FS_CardinalityType DEF SlotsInv
  <1>3. ASSUME NEW t, NEW q, Stage(t, q, H)
        PROVE  /\ t.pending \subseteq pending /\ IsFiniteSet(t.pending)
               /\ Cardinality(t.pending) \in Nat /\ Cardinality(t.pending) <= Slots
    <2>1. t.pending \subseteq pending
      BY <1>3, StageFacts
    <2>2. IsFiniteSet(t.pending) /\ Cardinality(t.pending) <= Cardinality(pending)
      BY <1>2, <2>1, FS_Subset
    <2>3. Cardinality(t.pending) \in Nat
      BY <2>2, FS_CardinalityType
    <2> DEFINE c == Cardinality(t.pending)
               d == Cardinality(pending)
    <2>4. c <= Slots
      <3>1. c \in Nat /\ d \in Nat /\ c <= d /\ d <= Slots
        BY <1>2, <2>2, <2>3
      <3> HIDE DEF c, d
      <3> QED BY <1>2, <3>1
    <2> QED BY <2>1, <2>2, <2>3, <2>4
  <1>4. 0 \in S
    <2>1. Cardinality(s.pending) <= Slots - 0 /\ p >= p
      BY <1>2, <1>3
    <2> QED BY <1>1, <2>1
  <1>5. \A n \in 0..Slots - 1 : n \in S => n + 1 \in S
    <2> SUFFICES ASSUME NEW n \in 0..Slots - 1, n \in S PROVE n + 1 \in S
      OBVIOUS
    <2>1. n \in Nat /\ n + 1 \in 1..Slots /\ (n + 1) - 1 = n
      BY <1>2
    <2>2. PICK t, q : q \in Nat /\ f[n] = {t} /\ Good(t, q, n)
      OBVIOUS
    <2>3. f[n + 1] = {Round(t)}
      <3>1. f[n + 1] = {Round(u) : u \in f[n]}
        BY <1>1, <2>1
      <3> QED BY <2>2, <3>1
    <2>4. CASE Caught(t) = {}
      <3>1. Round(t) = t
        BY <2>4 DEF Round
      <3>2. Good(Round(t), q, n + 1)
        BY <2>2, <2>4, <3>1
      <3> HIDE DEF Good
      <3> QED BY <2>1, <2>2, <2>3, <3>2
    <2>5. CASE Caught(t) # {}
      <3>1. PICK r \in Nat, e \in t.pending :
                r >= q /\ Stage(Round(t), r, H) /\ Round(t).pending = t.pending \ {e}
        BY <2>2, <2>5, RoundStage
      <3>2. Cardinality(t.pending) \in Nat /\ Cardinality(t.pending) <= Slots - n
            /\ IsFiniteSet(t.pending)
        BY <1>3, <2>2, <2>5
      <3>3. Cardinality(Round(t).pending) = Cardinality(t.pending) - 1
        BY <3>1, <3>2, FS_RemoveElement
      <3>4. Cardinality(t.pending) - 1 <= Slots - (n + 1)
        BY <1>2, <2>1, <3>2
      <3>5. r >= p
        BY <2>2, <3>1
      <3>6. Good(Round(t), r, n + 1)
        BY <3>1, <3>3, <3>4, <3>5
      <3> HIDE DEF Good
      <3> QED BY <2>1, <2>3, <3>1, <3>6
    <2> QED BY <2>4, <2>5
  <1>6. Slots \in S
    <2> HIDE DEF S
    <2> QED BY <1>2, <1>4, <1>5, Upto
  <1>7. PICK t, q : q \in Nat /\ f[Slots] = {t} /\ Good(t, q, Slots)
    BY <1>6
  <1>8. Replayed(s) = t
    BY <1>1, <1>7
  <1>9. Caught(t) = {}
    <2>1. CASE Cardinality(t.pending) <= Slots - Slots
      <3>1. Cardinality(t.pending) = 0 /\ IsFiniteSet(t.pending)
        BY <1>2, <1>3, <1>7, <2>1
      <3> QED BY <3>1, FS_EmptySet DEF Caught
    <2> QED BY <1>7, <2>1
  <1> QED BY <1>3, <1>7, <1>8, <1>9

-----------------------------------------------------------------------------
(* What push_rx_payload_seq makes of a segment *)

\* Bytes that have just been accepted and bytes still held are different ones.
LEMMA DisjointSize ==
    ASSUME NEW a \in Nat, NEW q \in Nat, a <= q, NEW H, IsFiniteSet(H),
           Within(a, q, H), NEW C, C \subseteq H, \A x \in C : x \in Nat /\ x >= q
    PROVE  /\ Cardinality(C) \in Nat /\ Cardinality(H) \in Nat
           /\ (q - a) + Cardinality(C) <= Cardinality(H)
  <1> DEFINE I == a..q - 1
  <1>1. IsFiniteSet(I) /\ Cardinality(I) = q - a
    BY IntervalSize
  <1>2. IsFiniteSet(C) /\ I \subseteq H
    BY FS_Subset DEF Within
  <1>3. I \cap C = {}
    <2> SUFFICES ASSUME NEW x \in I, x \in C PROVE FALSE
      OBVIOUS
    <2>1. x < q /\ x >= q /\ x \in Nat
      OBVIOUS
    <2> QED BY <2>1
  <1> HIDE DEF I
  <1>4. /\ Cardinality(I \cup C) = Cardinality(I) + Cardinality(C) - Cardinality(I \cap C)
        /\ Cardinality(I \cap C) = 0
    BY <1>1, <1>2, <1>3, FS_Union, FS_EmptySet
  <1>5. I \cup C \in SUBSET H
    BY <1>2
  <1>6. Cardinality(I \cup C) <= Cardinality(H)
    BY <1>5, FS_Subset
  <1>7. Cardinality(C) \in Nat /\ Cardinality(H) \in Nat
    BY <1>2, FS_CardinalityType
  <1> QED BY <1>1, <1>4, <1>6, <1>7

\* The bytes there are once n of them have come from byte p.
With(p, n) == Held \cup p..(p + n) - 1

LEMMA WithSize ==
    ASSUME NEW p \in Nat, NEW n \in Nat
    PROVE  /\ IsFiniteSet(With(p, n)) /\ Held \subseteq With(p, n)
           /\ Cardinality(With(p, n)) \in Nat /\ Cardinality(Held) \in Nat
           /\ Cardinality(With(p, n)) <= Cardinality(Held) + n
  <1> DEFINE I == p..(p + n) - 1
  <1>1. p + n \in Nat /\ p <= p + n /\ (p + n) - p = n
    OBVIOUS
  <1>2. IsFiniteSet(I) /\ Cardinality(I) = n
    BY <1>1, IntervalSize
  <1>3. IsFiniteSet(Held) /\ Cardinality(Held) \in Nat
    BY CoverFinite DEF Held
  <1> HIDE DEF I
  <1>4. /\ IsFiniteSet(Held \cup I) /\ IsFiniteSet(Held \cap I)
        /\ Cardinality(Held \cup I) =
              Cardinality(Held) + Cardinality(I) - Cardinality(Held \cap I)
    BY <1>2, <1>3, FS_Union, FS_Subset
  <1>5. Cardinality(Held \cap I) \in Nat /\ Cardinality(Held \cup I) \in Nat
    BY <1>4, FS_CardinalityType
  <1>6. With(p, n) = Held \cup I
    BY DEF With, I
  <1>7. Cardinality(Held \cup I) <= Cardinality(Held) + n
    BY <1>2, <1>3, <1>4, <1>5
  <1> QED BY <1>3, <1>4, <1>5, <1>6, <1>7

\* The stream s after n bytes from byte p, if it goes up to byte q.
Outcome(s, p, n, q) ==
    /\ q \in Acked..edge
    /\ s.rx = Bytes(Len(read), q - Len(read))
    /\ s.ack = Wire(q) \/ (q = StreamLen /\ s.ack = Wire(StreamLen + 1) /\ s.ack = ack)
    /\ SlotsInv(s.pending, q, edge)
    /\ (q - Acked) + Cardinality(Cover(s.pending)) <= Cardinality(Held) + MaxSeg
    /\ q >= p + n \/ (q = Acked /\ p > Acked)

LEMMA StreamIs ==
    ASSUME BytesInv
    PROVE  /\ Stream.rx = rx /\ Stream.ack = ack /\ Stream.pending = pending
           /\ Stream.rx = Bytes(Len(read), Acked - Len(read))
           /\ rx \in Seq(Nat)
  <1>1. rx = Bytes(Len(read), Len(rx)) /\ Len(rx) = Acked - Len(read)
    BY Positions DEF BytesInv
  <1>2. rx \in Seq(Nat)
    BY <1>1, Positions, BytesSeq
  <1> QED BY <1>1, <1>2 DEF Stream

\* Nothing of the segment is new.
LEMMA UnchangedOutcome ==
    ASSUME BytesInv, AckInv, SlotsInv(pending, Acked, edge), NEW p \in Nat, NEW n \in Nat,
           p + n <= Acked \/ p > Acked
    PROVE  Outcome(Stream, p, n, Acked)
  <1>1. Acked \in Nat /\ Acked \in Acked..edge
    BY Positions
  <1>2. Cardinality(Held) \in Nat
    BY CoverFinite DEF Held
  <1>3. (Acked - Acked) + Cardinality(Held) <= Cardinality(Held) + MaxSeg
    BY <1>1, <1>2, Sizes
  <1> QED BY <1>1, <1>3, StreamIs DEF Outcome, AckInv, Held

\* The segment brings the next byte.
LEMMA NextOutcome ==
    ASSUME BytesInv, SlotsInv(pending, Acked, edge),
           Len(rx) + Cardinality(Held) < YieldAt + Window, ack = Wire(Acked),
           NEW p \in Nat, NEW n \in 1..MaxSeg, p + n <= edge, p <= Acked, Acked - p < n
    PROVE  \E q \in Nat : Outcome(Replayed(Accept(Stream, Drop(Bytes(p, n), Acked - p))), p, n, q)
  <1> DEFINE H == With(p, n)
             m == p + n - Acked
             u == Accept(Stream, Bytes(Acked, m))
             s == Replayed(u)
  <1>1. n \in Nat /\ n <= MaxSeg /\ Acked \in Nat /\ Len(rx) \in Nat /\ edge \in Nat
    BY Positions, Sizes
  <1>2. /\ m \in Nat /\ Acked + m = p + n /\ Acked + m >= Acked
        /\ Acked..(Acked + m) - 1 \subseteq p..p + n - 1
        /\ Drop(Bytes(p, n), Acked - p) = Bytes(Acked, m)
    BY <1>1, Overlap
  <1>3. /\ IsFiniteSet(H) /\ Held \subseteq H /\ Cardinality(H) \in Nat
        /\ Cardinality(Held) \in Nat /\ Cardinality(H) <= Cardinality(Held) + n
    BY <1>1, WithSize
  <1>4. Room(H)
    <2>1. Len(rx) + Cardinality(H) <= BufLen
      <3> HIDE DEF H
      <3> QED BY <1>1, <1>3, Sizes
    <2> QED BY <1>3, <2>1 DEF Room
  <1>5. Within(Acked, Acked + m, H)
    <2>1. p..p + n - 1 \subseteq H
      BY <1>1 DEF With
    <2> HIDE DEF m, H
    <2> QED BY <1>2, <2>1, Zenon DEF Within
  <1>6. Stage(Stream, Acked, H)
    <2>1. Acked \in Acked..edge /\ Within(Acked, Acked, H)
      BY Positions DEF Within
    <2>2. Stream \in [rx : Seq(Nat), ack : Int, pending : SUBSET pending]
      <3>1. Wire(Acked) \in Int
        <4>1. Acked \in 0..StreamLen + 1
          BY Positions, Sizes
        <4>2. Wire(Acked) \in 0..SeqSpan - 1
          BY <4>1, WireIs
        <4> QED BY <4>2, Sizes
      <3> QED BY <3>1, StreamIs DEF Stream
    <2> HIDE DEF H
    <2> QED BY <2>1, <2>2, StreamIs DEF Stage
  <1> HIDE DEF H
  <1>7. Stage(u, p + n, H) /\ u.pending = pending
    <2>1. Acked + m <= edge
      BY <1>2
    <2> HIDE DEF m
    <2>2. LET v == Accept(Stream, Bytes(Acked, m))
          IN Stage(v, Acked + m, H) /\ v.pending = Stream.pending
      BY <1>1, <1>2, <1>4, <1>5, <1>6, <2>1, AcceptStage
    <2> QED BY <1>2, <2>2, StreamIs
  <1> HIDE DEF u
  <1>8. PICK q \in Nat : /\ q >= p + n /\ Stage(s, q, H) /\ Caught(s) = {}
                         /\ s.pending \subseteq pending
    <2>1. p + n \in Nat
      BY <1>1
    <2> QED BY <1>3, <1>4, <1>7, <2>1, ReplayedStage
  <1> HIDE DEF s
  <1>9. /\ q \in Acked..edge /\ s.rx = Bytes(Len(read), q - Len(read)) /\ s.ack = Wire(q)
        /\ Within(Acked, q, H)
    BY <1>8 DEF Stage
  <1>10. \A e \in s.pending : Entry(e) /\ First(e) > q /\ First(e) + Size(e) <= edge
    <2> SUFFICES ASSUME NEW e \in s.pending
                 PROVE  Entry(e) /\ First(e) > q /\ First(e) + Size(e) <= edge
      OBVIOUS
    <2>1. Entry(e) /\ First(e) + Size(e) <= edge /\ ~(First(e) <= q)
      BY <1>8, CaughtIs
    <2>2. First(e) \in Nat
      BY <2>1, EntryFacts
    <2> QED BY <2>1, <2>2
  <1>11. SlotsInv(s.pending, q, edge)
    <2>1. IsFiniteSet(pending) /\ Cardinality(pending) <= Slots
      BY DEF SlotsInv
    <2>2. IsFiniteSet(s.pending) /\ Cardinality(s.pending) <= Cardinality(pending)
      BY <1>8, <2>1, FS_Subset
    <2>3. Cardinality(s.pending) \in Nat /\ Cardinality(pending) \in Nat
      BY <2>1, <2>2, FS_CardinalityType
    <2>4. Cardinality(s.pending) <= Slots
      <3> DEFINE c == Cardinality(s.pending)
                 d == Cardinality(pending)
      <3>1. c \in Nat /\ d \in Nat /\ c <= d /\ d <= Slots
        BY <2>1, <2>2, <2>3
      <3> HIDE DEF c, d
      <3>2. c <= Slots
        BY <3>1, Sizes
      <3> QED BY <3>2 DEF c
    <2>5. \A e, o \in s.pending : e.seq = o.seq => e = o
      BY <1>8 DEF SlotsInv
    <2> QED BY <1>10, <2>2, <2>4, <2>5 DEF SlotsInv
  <1>12. (q - Acked) + Cardinality(Cover(s.pending)) <= Cardinality(Held) + MaxSeg
    <2> DEFINE C == Cover(s.pending)
    <2>1. C \subseteq H
      BY <1>3, <1>8, CoverMonotone DEF Held
    <2>2. \A x \in C : x \in Nat /\ x >= q
      <3> SUFFICES ASSUME NEW x \in C PROVE x \in Nat /\ x >= q
        OBVIOUS
      <3>1. x \in 0..StreamLen - 1 /\ \E e \in s.pending : First(e) <= x
        BY DEF Cover
      <3>2. PICK e \in s.pending : First(e) <= x
        BY <3>1
      <3>3. First(e) > q /\ First(e) \in Nat
        BY <1>10, EntryFacts
      <3>4. x \in Nat
        BY <3>1, Sizes
      <3> QED BY <3>2, <3>3, <3>4
    <2> HIDE DEF C
    <2>3. Acked <= q
      BY <1>1, <1>9
    <2>4. Cardinality(C) \in Nat /\ (q - Acked) + Cardinality(C) <= Cardinality(H)
      BY <1>1, <1>3, <1>9, <2>1, <2>2, <2>3, DisjointSize
    <2>5. (q - Acked) + Cardinality(C) <= Cardinality(Held) + MaxSeg
      BY <1>1, <1>3, <2>4, Sizes
    <2> QED BY <2>5 DEF C
  <1>13. Outcome(s, p, n, q)
    BY <1>8, <1>9, <1>11, <1>12 DEF Outcome
  <1> QED BY <1>2, <1>13, Zenon DEF s, u

\* A slot more holds its bytes more.
LEMMA CoverAdd ==
    ASSUME NEW T, NEW e, Entry(e)
    PROVE  Cover(T \cup {e}) \subseteq Cover(T) \cup First(e)..(First(e) + Size(e)) - 1
  <1> SUFFICES ASSUME NEW x \in Cover(T \cup {e})
               PROVE  x \in Cover(T) \cup First(e)..(First(e) + Size(e)) - 1
    OBVIOUS
  <1>1. x \in 0..StreamLen - 1
        /\ \E o \in T \cup {e} : First(o) <= x /\ x < First(o) + Size(o)
    BY DEF Cover
  <1>2. PICK o \in T \cup {e} : First(o) <= x /\ x < First(o) + Size(o)
    BY <1>1
  <1>3. CASE o \in T
    BY <1>1, <1>2, <1>3, Zenon DEF Cover
  <1>4. CASE o = e
    <2>1. First(e) <= x /\ x < First(e) + Size(e) /\ x \in Int
          /\ First(e) \in Nat /\ Size(e) \in Nat
      BY <1>1, <1>2, <1>4, EntryFacts, Sizes
    <2> QED BY <2>1
  <1> QED BY <1>2, <1>3, <1>4

\* A segment that came early, as a slot.
LEMMA EarlyEntry ==
    ASSUME NEW p \in Nat, NEW n \in 1..SlotLen, p + n <= StreamLen,
           NEW e, e = [seq |-> Wire(p), data |-> Bytes(p, n)]
    PROVE  Entry(e) /\ First(e) = p /\ Size(e) = n
  <1>1. n \in Nat /\ 1 \in 1..n
    BY Sizes
  <1>2. Len(e.data) = n /\ e.data[1] = p + 1 - 1
    BY <1>1, BytesSeq
  <1>3. First(e) = p /\ Size(e) = n
    BY <1>2 DEF First, Size
  <1>4. p \in 0..StreamLen - 1
    BY <1>1, Sizes
  <1> QED BY <1>3, <1>4 DEF Entry

\* The slots with one more of them, in place of those with its number.
LEMMA SlotsWith ==
    ASSUME NEW from \in Nat, NEW to \in Nat, NEW slots, SlotsInv(slots, from, to),
           NEW e, Entry(e), First(e) > from, First(e) + Size(e) <= to,
           NEW T, T = {o \in slots : o.seq # e.seq},
           T # slots \/ Cardinality(slots) < Slots
    PROVE  SlotsInv(T \cup {e}, from, to)
  <1>1. /\ IsFiniteSet(slots) /\ Cardinality(slots) <= Slots
        /\ \A o \in slots : Entry(o) /\ First(o) > from /\ First(o) + Size(o) <= to
        /\ \A o, u \in slots : o.seq = u.seq => o = u
    BY DEF SlotsInv
  <1>2. IsFiniteSet(T) /\ T \subseteq slots /\ e \notin T
        /\ Cardinality(T) <= Cardinality(slots)
        /\ (Cardinality(slots) = Cardinality(T) => slots = T)
    BY <1>1, FS_Subset
  <1>3. Cardinality(T) \in Nat /\ Cardinality(slots) \in Nat /\ Slots \in Nat
    BY <1>1, <1>2, FS_CardinalityType, Sizes
  <1>4. IsFiniteSet(T \cup {e}) /\ Cardinality(T \cup {e}) = Cardinality(T) + 1
    BY <1>2, FS_AddElement
  <1>5. Cardinality(T) < Slots
    <2> DEFINE c == Cardinality(T)
               d == Cardinality(slots)
    <2>1. c \in Nat /\ d \in Nat /\ c <= d /\ d <= Slots /\ (d < Slots \/ c # d)
      BY <1>1, <1>2, <1>3
    <2> HIDE DEF c, d
    <2>2. c < Slots
      BY <1>3, <2>1
    <2> QED BY <2>2 DEF c
  <1>6. Cardinality(T \cup {e}) <= Slots
    BY <1>3, <1>4, <1>5
  <1>7. \A o \in T \cup {e} : Entry(o) /\ First(o) > from /\ First(o) + Size(o) <= to
    BY <1>1
  <1>8. \A o, u \in T \cup {e} : o.seq = u.seq => o = u
    BY <1>1
  <1> QED BY <1>4, <1>6, <1>7, <1>8 DEF SlotsInv

\* The segment is ahead of its turn.
LEMMA EarlyOutcome ==
    ASSUME BytesInv, AckInv, SlotsInv(pending, Acked, edge),
           NEW p \in Nat, NEW n \in 1..MaxSeg, p + n <= edge, p > Acked
    PROVE  Outcome(Kept(Stream, Wire(p), Bytes(p, n)), p, n, Acked)
  <1> DEFINE seq == Wire(p)
             data == Bytes(p, n)
             e == [seq |-> seq, data |-> data]
             same == {o \in pending : o.seq = seq}
             T == {o \in pending : o.seq # e.seq}
             s == Kept(Stream, seq, data)
  <1>1. /\ n \in Nat /\ n >= 1 /\ n <= MaxSeg /\ Acked \in Nat /\ edge \in Nat
        /\ edge <= StreamLen /\ Acked \in Acked..edge
    BY Positions, Sizes
  <1>2. data \in Seq(Nat) /\ Len(data) = n
    BY <1>1, BytesSeq
  <1>3. Outcome(Stream, p, n, Acked)
    BY <1>1, UnchangedOutcome
  <1>4. CASE s = Stream
    BY <1>3, <1>4
  <1>5. CASE s # Stream
    <2>1. /\ Len(data) <= SlotLen /\ s = [Stream EXCEPT !.pending = T \cup {e}]
          /\ same # {} \/ Cardinality(pending) < Slots
      <3>1. T = pending \ same /\ (same = {} => T = pending)
        OBVIOUS
      <3>2. ~(Len(data) > SlotLen)
        BY <1>5 DEF Kept
      <3>3. Len(data) <= SlotLen
        BY <1>1, <1>2, <3>2, Sizes
      <3>4. CASE same # {}
        <4>1. s = [Stream EXCEPT !.pending = (@ \ same) \cup {e}]
          BY <1>5, <3>2, <3>4, StreamIs DEF Kept
        <4> QED BY <3>1, <3>3, <3>4, <4>1, StreamIs
      <3>5. CASE same = {}
        <4>1. /\ Cardinality(pending) < Slots
              /\ s = [Stream EXCEPT !.pending = @ \cup {e}]
          BY <1>5, <3>2, <3>5, StreamIs DEF Kept
        <4> QED BY <3>1, <3>3, <3>5, <4>1, StreamIs
      <3> QED BY <3>4, <3>5
    <2>2. s.rx = Stream.rx /\ s.ack = Stream.ack /\ s.pending = T \cup {e}
      BY <2>1 DEF Stream
    <2>3. Entry(e) /\ First(e) = p /\ Size(e) = n
      <3>1. n <= SlotLen
        <4> HIDE DEF data
        <4> QED BY <1>2, <2>1
      <3>2. n \in 1..SlotLen /\ p + n <= StreamLen
        BY <1>1, <3>1, Sizes
      <3> QED BY <3>2, EarlyEntry
    <2>4. T # pending \/ Cardinality(pending) < Slots
      BY <2>1
    <2> HIDE DEF e, data, seq, s, same
    <2>5. SlotsInv(s.pending, Acked, edge)
      <3>1. First(e) > Acked /\ First(e) + Size(e) <= edge
        BY <2>3
      <3>2. SlotsInv(T \cup {e}, Acked, edge)
        BY <1>1, <2>3, <2>4, <3>1, SlotsWith
      <3> QED BY <2>2, <3>2
    <2>6. Cardinality(Cover(s.pending)) <= Cardinality(Held) + n
      <3>1. Cover(T \cup {e}) \subseteq Cover(T) \cup p..(p + n) - 1
        BY <1>1, <2>3, CoverAdd
      <3>2. Cover(T) \subseteq Held
        BY CoverMonotone DEF Held
      <3>3. Cover(s.pending) \subseteq With(p, n)
        BY <2>2, <3>1, <3>2 DEF With
      <3>4. IsFiniteSet(With(p, n)) /\ Cardinality(With(p, n)) \in Nat
            /\ Cardinality(Held) \in Nat
            /\ Cardinality(With(p, n)) <= Cardinality(Held) + n
        BY <1>1, WithSize
      <3>5. Cardinality(Cover(s.pending)) <= Cardinality(With(p, n))
        BY <3>3, <3>4, FS_Subset
      <3>6. Cardinality(Cover(s.pending)) \in Nat
        BY CoverFinite
      <3> QED BY <1>1, <3>4, <3>5, <3>6
    <2>7. (Acked - Acked) + Cardinality(Cover(s.pending)) <= Cardinality(Held) + MaxSeg
      <3>1. Cardinality(Cover(s.pending)) \in Nat /\ Cardinality(Held) \in Nat
        BY CoverFinite DEF Held
      <3> QED BY <1>1, <2>6, <3>1, Sizes
    <2>8. /\ s.rx = Bytes(Len(read), Acked - Len(read))
          /\ \/ s.ack = Wire(Acked)
             \/ Acked = StreamLen /\ s.ack = Wire(StreamLen + 1) /\ s.ack = ack
      BY <1>3, <2>2 DEF Outcome
    <2>9. Outcome(s, p, n, Acked)
      BY <1>1, <2>5, <2>7, <2>8, Zenon DEF Outcome
    <2> QED BY <2>9 DEF s, seq, data
  <1> QED BY <1>4, <1>5

\* push_rx_payload_seq, and a segment that is only a FIN.
LEMMA SegmentOutcome ==
    ASSUME BytesInv, AckInv, SlotsInv(pending, Acked, edge),
           Len(rx) + Cardinality(Held) < YieldAt + Window,
           NEW p \in Nat, NEW n \in 0..MaxSeg, p + n <= edge,
           NEW s, s = IF n > 0 THEN PushSeq(Stream, Wire(p), Bytes(p, n)) ELSE Stream
    PROVE  \E q \in Nat : Outcome(s, p, n, q)
  <1> DEFINE behind == -tcp_seq_cmp(Wire(p), Stream.ack)
  <1>1. /\ n \in Nat /\ n <= MaxSeg /\ Acked \in Nat /\ edge \in Nat /\ Acked <= StreamLen
        /\ edge <= StreamLen /\ StreamLen \in Nat
    BY Positions, Sizes
  <1>2. p \in 0..StreamLen + 1 /\ StreamLen + 1 \in 0..StreamLen + 1
        /\ Acked \in 0..StreamLen + 1
    BY <1>1
  <1>3. Len(Bytes(p, n)) = n
    BY <1>1, BytesSeq
  <1>4. CASE n = 0
    <2>1. p + n <= Acked \/ p > Acked
      BY <1>1, <1>4
    <2>2. s = Stream
      BY <1>4
    <2> QED BY <1>1, <2>1, <2>2, UnchangedOutcome
  <1>5. CASE n > 0 /\ ack # Wire(Acked)
    <2>1. Acked = StreamLen /\ ack = Wire(StreamLen + 1)
      BY <1>5 DEF AckInv
    <2>2. behind = -(p - (StreamLen + 1))
      BY <1>2, <2>1, Distance, StreamIs
    <2>3. p + n <= Acked /\ behind > 0 /\ behind >= n
      BY <1>1, <2>1, <2>2
    <2>4. s = Stream
      BY <1>3, <1>5, <2>3 DEF PushSeq
    <2> QED BY <1>1, <2>3, <2>4, UnchangedOutcome
  <1>6. CASE n > 0 /\ ack = Wire(Acked)
    <2>1. behind = -(p - Acked)
      BY <1>2, <1>6, Distance, StreamIs
    <2>2. behind = Acked - p
      BY <1>1, <2>1
    <2>3. s = IF behind > 0 /\ behind >= n THEN Stream
              ELSE IF behind >= 0
                   THEN Replayed(Accept(Stream, Drop(Bytes(p, n), behind)))
                   ELSE Kept(Stream, Wire(p), Bytes(p, n))
      BY <1>3, <1>6 DEF PushSeq
    <2> HIDE DEF behind
    <2>4. CASE p > Acked
      <3>1. ~(behind >= 0) /\ ~(behind > 0) /\ n \in 1..MaxSeg
        BY <1>1, <1>6, <2>2, <2>4
      <3>2. s = Kept(Stream, Wire(p), Bytes(p, n))
        BY <2>3, <3>1
      <3> QED BY <1>1, <2>4, <3>1, <3>2, EarlyOutcome
    <2>5. CASE p <= Acked /\ Acked - p < n
      <3>1. behind >= 0 /\ ~(behind >= n) /\ n \in 1..MaxSeg
        BY <1>1, <1>6, <2>2, <2>5
      <3>2. s = Replayed(Accept(Stream, Drop(Bytes(p, n), Acked - p)))
        BY <2>2, <2>3, <3>1
      <3> QED BY <1>6, <2>5, <3>1, <3>2, NextOutcome
    <2>6. CASE p <= Acked /\ ~(Acked - p < n)
      <3>1. behind > 0 /\ behind >= n /\ p + n <= Acked
        BY <1>1, <1>6, <2>2, <2>6
      <3>2. s = Stream
        BY <2>3, <3>1
      <3> QED BY <1>1, <3>1, <3>2, UnchangedOutcome
    <2> QED BY <1>1, <2>4, <2>5, <2>6
  <1> QED BY <1>1, <1>4, <1>5, <1>6

-----------------------------------------------------------------------------
(* The steps *)

LEMMA StartInv == Init => IInv
  <1> SUFFICES ASSUME Init PROVE IInv
    OBVIOUS
  <1>1. /\ turn = "rx" /\ ack = Start /\ rx = <<>> /\ pending = {} /\ read = <<>>
        /\ edge = IF Window > StreamLen THEN StreamLen ELSE Window
    BY DEF Init
  <1>2. Len(read) = 0 /\ Len(rx) = 0 /\ Acked = 0
    BY <1>1 DEF Acked
  <1>3. edge = Reach(Acked)
    BY <1>1, <1>2, Sizes DEF Reach
  <1>4. BytesInv
    BY <1>1, <1>2, <1>3, BytesEmpty, Sizes DEF BytesInv
  <1>5. ack = Wire(Acked)
    <2>1. 0 \in 0..StreamLen + 1
      BY Sizes
    <2>2. Wire(0) = Start
      BY <2>1, WireIs, Sizes
    <2> QED BY <1>1, <1>2, <2>2
  <1>6. IsFiniteSet(pending) /\ Cardinality(pending) = 0
    BY <1>1, FS_EmptySet
  <1>7. SlotsInv(pending, Acked, edge)
    BY <1>1, <1>6, Sizes DEF SlotsInv
  <1>8. Cardinality(Held) = 0
    <2>1. Held = {}
      BY <1>1 DEF Held, Cover
    <2> QED BY <2>1, FS_EmptySet
  <1>9. RoomInv
    BY <1>1, <1>2, <1>8, Sizes DEF RoomInv
  <1> QED BY <1>1, <1>4, <1>5, <1>7, <1>9 DEF IInv, AckInv

\* Slots hold no more than a window.
LEMMA HeldSize ==
    ASSUME NEW slots, NEW q \in Nat, q <= StreamLen, SlotsInv(slots, q, Reach(q))
    PROVE  Cardinality(Cover(slots)) \in Nat /\ Cardinality(Cover(slots)) <= Window
  <1> DEFINE C == Cover(slots)
             I == q..(q + Window) - 1
  <1>1. C \subseteq I
    <2> SUFFICES ASSUME NEW x \in C PROVE x \in I
      OBVIOUS
    <2>1. x \in 0..StreamLen - 1 /\ \E e \in slots : First(e) <= x /\ x < First(e) + Size(e)
      BY DEF Cover
    <2>2. PICK e \in slots : First(e) <= x /\ x < First(e) + Size(e)
      BY <2>1
    <2>3. Entry(e) /\ First(e) > q /\ First(e) + Size(e) <= Reach(q)
      BY DEF SlotsInv
    <2>4. Reach(q) <= q + Window /\ Reach(q) \in Nat
      BY Sizes DEF Reach
    <2>5. First(e) \in Nat /\ Size(e) \in Nat
      BY <2>3, EntryFacts
    <2>6. x \in Nat
      BY <2>1, Sizes
    <2> QED BY <2>2, <2>3, <2>4, <2>5, <2>6, Sizes
  <1>2. IsFiniteSet(I) /\ Cardinality(I) = Window
    <2>1. q + Window \in Nat /\ q <= q + Window /\ (q + Window) - q = Window
      BY Sizes
    <2> QED BY <2>1, IntervalSize
  <1>3. Cardinality(C) \in Nat
    BY CoverFinite
  <1> HIDE DEF C, I
  <1>4. Cardinality(C) <= Window
    BY <1>1, <1>2, FS_Subset
  <1> QED BY <1>3, <1>4 DEF C

\* What the acknowledgement of byte q allows, when it allowed less before.
LEMMA AllowedIs ==
    ASSUME BytesInv, NEW q \in Acked..edge, NEW a,
           a = Wire(q) \/ (q = StreamLen /\ a = Wire(StreamLen + 1))
    PROVE  Allowed(a) = Reach(q) /\ edge <= Reach(q) /\ Reach(q) \in Nat
  <1>1. /\ q \in Nat /\ q <= StreamLen /\ Acked <= q /\ Acked \in Nat /\ edge \in Nat
        /\ edge = Reach(Acked) /\ StreamLen \in Nat /\ Window \in Nat
    <2>1. Acked \in Nat /\ edge \in Nat /\ edge <= StreamLen
      BY Positions, Sizes
    <2> QED BY <2>1, Sizes DEF BytesInv
  <1>2. edge <= Reach(q) /\ Reach(q) \in Nat
    BY <1>1 DEF Reach
  <1> DEFINE done == (a - Start) % SeqSpan
  <1>3. done = q \/ (q = StreamLen /\ done = StreamLen + 1)
    <2>1. q \in 0..StreamLen + 1 /\ StreamLen + 1 \in 0..StreamLen + 1
      BY <1>1
    <2> QED BY <2>1, WireDone
  <1>4. Allowed(a) = Max2(edge, IF done + Window > StreamLen THEN StreamLen
                                                             ELSE done + Window)
    BY DEF Allowed
  <1> HIDE DEF done
  <1>5. (IF done + Window > StreamLen THEN StreamLen ELSE done + Window) = Reach(q)
    BY <1>1, <1>3, Sizes DEF Reach
  <1>6. Max2(edge, Reach(q)) = Reach(q)
    BY <1>1, <1>2 DEF Max2
  <1> QED BY <1>2, <1>4, <1>5, <1>6

\* A FIN is acknowledged when everything before it is, and only then.
LEMMA FinIs ==
    ASSUME BytesInv, AckInv, NEW p \in Nat, NEW n \in Nat, p + n = StreamLen,
           NEW s, NEW q \in Nat, Outcome(s, p, n, q), n = 0 => s = Stream
    PROVE  LET a == FinAck(ack, s, Wire(p), n)
           IN a = Wire(q) \/ (q = StreamLen /\ a = Wire(StreamLen + 1))
  <1>1. /\ Acked \in Nat /\ StreamLen \in Nat /\ q <= StreamLen /\ Acked <= q
        /\ s.ack = Wire(q) \/ (q = StreamLen /\ s.ack = Wire(StreamLen + 1) /\ s.ack = ack)
        /\ q >= p + n \/ (q = Acked /\ p > Acked)
    <2>1. q \in Acked..edge /\ Acked \in Nat /\ edge \in Nat /\ edge <= StreamLen
      BY Positions, Sizes DEF Outcome
    <2>2. q <= StreamLen /\ Acked <= q
      BY <2>1, Sizes
    <2> QED BY <2>1, <2>2, Sizes DEF Outcome
  <1>2. /\ p \in 0..StreamLen + 1 /\ q \in 0..StreamLen + 1 /\ Acked \in 0..StreamLen + 1
        /\ StreamLen \in 0..StreamLen + 1 /\ StreamLen + 1 \in 0..StreamLen + 1
        /\ p <= StreamLen
    BY <1>1
  <1>3. CASE Wire(p) = s.ack
    <2>1. s.ack = Wire(q) /\ p = q
      BY <1>1, <1>2, <1>3, WireInjective
    <2>2. q = StreamLen
      BY <1>1, <2>1
    <2>3. (Wire(StreamLen) + 1) % SeqSpan = Wire(StreamLen + 1)
      BY <1>2, WireAdd
    <2>4. FinAck(ack, s, Wire(p), n) = (s.ack + 1) % SeqSpan
      BY <1>3 DEF FinAck
    <2> QED BY <2>1, <2>2, <2>3, <2>4
  <1>4. CASE Wire(p) # s.ack /\ n > 0 /\ Wire(p) = ack
    <2>1. ack = Wire(Acked) /\ p = Acked
      BY <1>1, <1>2, <1>4, WireInjective DEF AckInv
    <2>2. q = StreamLen
      BY <1>1, <2>1
    <2>3. FinAck(ack, s, Wire(p), n) = (s.ack + 1) % SeqSpan
      BY <1>4 DEF FinAck
    <2>4. s.ack = Wire(StreamLen)
      BY <1>1, <1>4, <2>2
    <2>5. (Wire(StreamLen) + 1) % SeqSpan = Wire(StreamLen + 1)
      BY <1>2, WireAdd
    <2> QED BY <2>2, <2>3, <2>4, <2>5
  <1>5. CASE Wire(p) # s.ack /\ ~(n > 0 /\ Wire(p) = ack)
    <2>1. FinAck(ack, s, Wire(p), n) = s.ack
      BY <1>5 DEF FinAck
    <2> QED BY <1>1, <2>1
  <1> QED BY <1>3, <1>4, <1>5

LEMMA SegmentStep ==
    ASSUME IInv, NEW p \in 0..StreamLen, NEW n \in 0..MaxSeg, NEW fin \in BOOLEAN,
           Segment(p, n, fin)
    PROVE  IInv' /\ Acked <= Acked' /\ edge <= edge' /\ (p <= Acked => Acked' >= p + n)
  <1>1. turn = "rx" /\ BytesInv /\ AckInv /\ SlotsInv(pending, Acked, edge)
        /\ Len(rx) + Cardinality(Held) < YieldAt + Window
    BY DEF IInv, RoomInv, Segment
  <1>2. /\ Len(read) \in Nat /\ Len(rx) \in Nat /\ Acked \in Nat
        /\ Acked = Len(read) + Len(rx) /\ edge \in Nat /\ edge <= StreamLen
        /\ StreamLen \in Nat /\ p \in Nat /\ n \in Nat
    BY <1>1, Positions, Sizes
  <1>3. PICK s : /\ s = IF n > 0 THEN PushSeq(Stream, Wire(p), Bytes(p, n)) ELSE Stream
                 /\ rx' = s.rx /\ pending' = s.pending
                 /\ ack' = IF fin THEN FinAck(ack, s, Wire(p), n) ELSE s.ack
    BY DEF Segment
  <1>4. /\ p + n <= edge /\ (fin => p + n = StreamLen)
        /\ edge' = Allowed(ack') /\ read' = read
        /\ turn' = IF Yields(rx') THEN "tick" ELSE "rx"
    BY DEF Segment
  <1>5. PICK q \in Nat : Outcome(s, p, n, q)
    BY <1>1, <1>2, <1>3, <1>4, SegmentOutcome
  <1>6. /\ q \in Acked..edge /\ s.rx = Bytes(Len(read), q - Len(read))
        /\ s.ack = Wire(q) \/ (q = StreamLen /\ s.ack = Wire(StreamLen + 1))
        /\ SlotsInv(s.pending, q, edge)
        /\ (q - Acked) + Cardinality(Cover(s.pending)) <= Cardinality(Held) + MaxSeg
    BY <1>5 DEF Outcome
  <1>7. Acked <= q /\ q <= StreamLen /\ q - Len(read) \in Nat
    BY <1>2, <1>6
  <1>8. ack' = Wire(q) \/ (q = StreamLen /\ ack' = Wire(StreamLen + 1))
    <2>1. CASE fin
      <3>1. n = 0 => s = Stream
        BY <1>3
      <3>2. LET a == FinAck(ack, s, Wire(p), n)
            IN a = Wire(q) \/ (q = StreamLen /\ a = Wire(StreamLen + 1))
        BY <1>1, <1>2, <1>4, <1>5, <2>1, <3>1, FinIs
      <3> QED BY <1>3, <2>1, <3>2
    <2>2. CASE ~fin
      BY <1>3, <1>6, <2>2
    <2> QED BY <2>1, <2>2
  <1>9. edge' = Reach(q) /\ edge <= Reach(q) /\ Reach(q) \in Nat
    BY <1>1, <1>4, <1>6, <1>8, AllowedIs
  <1>10. Len(rx') = q - Len(read) /\ rx' = Bytes(Len(read), q - Len(read))
    <2>1. Len(Bytes(Len(read), q - Len(read))) = q - Len(read)
      BY <1>2, <1>7, BytesSeq
    <2> QED BY <1>3, <1>6, <2>1, Zenon
  <1>11. Acked' = q
    <2>1. Acked' = Len(read) + Len(rx')
      BY <1>4 DEF Acked
    <2> QED BY <1>2, <1>10, <2>1
  <1>12. BytesInv'
    <2>1. read' = Bytes(0, Len(read'))
      BY <1>1, <1>4 DEF BytesInv
    <2>2. rx' = Bytes(Len(read'), Len(rx')) /\ Len(rx') \in Nat /\ Len(read') \in Nat
      BY <1>2, <1>4, <1>7, <1>10
    <2> QED BY <1>7, <1>9, <1>11, <2>1, <2>2 DEF BytesInv
  <1>13. AckInv'
    BY <1>8, <1>11 DEF AckInv
  <1>14. SlotsInv(pending', q, Reach(q))
    <2>1. \A e \in s.pending : First(e) + Size(e) <= Reach(q)
      <3> SUFFICES ASSUME NEW e \in s.pending PROVE First(e) + Size(e) <= Reach(q)
        OBVIOUS
      <3>1. Entry(e) /\ First(e) + Size(e) <= edge
        BY <1>6 DEF SlotsInv
      <3>2. First(e) \in Nat /\ Size(e) \in Nat
        BY <3>1, EntryFacts
      <3> QED BY <1>2, <1>9, <3>1, <3>2
    <2>2. SlotsInv(s.pending, q, Reach(q))
      BY <1>6, <2>1 DEF SlotsInv
    <2> QED BY <1>3, <2>2
  <1>15. SlotsInv(pending', Acked', edge')
    BY <1>9, <1>11, <1>14
  <1>16. RoomInv'
    <2> DEFINE h == Cardinality(Held)
               k == Cardinality(Cover(pending'))
    <2>1. h \in Nat
      BY CoverFinite DEF Held
    <2>2. k \in Nat /\ k <= Window
      BY <1>7, <1>14, HeldSize
    <2>3. (q - Acked) + k <= h + MaxSeg
      BY <1>3, <1>6
    <2>4. Cardinality(Held') = k
      BY DEF Held
    <2>5. Len(rx) + h < YieldAt + Window
      BY <1>1
    <2> HIDE DEF h, k
    <2>6. Len(rx') + k < YieldAt + Window + MaxSeg
      BY <1>2, <1>7, <1>10, <2>1, <2>2, <2>3, <2>5, Sizes
    <2>7. ASSUME turn' # "tick" PROVE Len(rx') + k < YieldAt + Window
      <3>1. ~(Len(rx') >= YieldAt)
        BY <1>4, <2>7 DEF Yields
      <3> QED BY <1>2, <1>7, <1>10, <2>2, <3>1, Sizes
    <2>8. RoomInv' = (Len(rx') + Cardinality(Held') <
                         IF turn' = "tick" THEN YieldAt + Window + MaxSeg
                                           ELSE YieldAt + Window)
      BY DEF RoomInv
    <2> QED BY <2>4, <2>6, <2>7, <2>8
  <1>17. turn' \in {"rx", "tick"}
    BY <1>4
  <1>18. p <= Acked => q >= p + n
    <2>1. q >= p + n \/ (q = Acked /\ p > Acked)
      BY <1>5 DEF Outcome
    <2> QED BY <1>2, <2>1
  <1>19. Acked <= Acked' /\ edge <= edge' /\ (p <= Acked => Acked' >= p + n)
    BY <1>7, <1>9, <1>11, <1>18, Zenon
  <1> QED BY <1>12, <1>13, <1>15, <1>16, <1>17, <1>19 DEF IInv

LEMMA NoMoreFramesStep ==
    ASSUME IInv, NoMoreFrames
    PROVE  IInv'
  <1>1. /\ turn = "rx" /\ turn' = "tick" /\ ack' = ack /\ rx' = rx
        /\ pending' = pending /\ read' = read /\ edge' = edge
    BY DEF NoMoreFrames
  <1>2. Acked' = Acked /\ Held' = Held
    BY <1>1 DEF Acked, Held
  <1>3. Len(rx) + Cardinality(Held) < YieldAt + Window
    BY <1>1 DEF IInv, RoomInv
  <1>4. Len(rx) \in Nat /\ Cardinality(Held) \in Nat
    BY Positions, CoverFinite DEF IInv, Held
  <1>5. Len(rx) + Cardinality(Held) < YieldAt + Window + MaxSeg
    BY <1>3, <1>4, Sizes
  <1>6. RoomInv'
    BY <1>1, <1>2, <1>5 DEF RoomInv
  <1>7. BytesInv' /\ AckInv' /\ SlotsInv(pending', Acked', edge')
    BY <1>1, <1>2 DEF IInv, BytesInv, AckInv
  <1> QED BY <1>1, <1>6, <1>7 DEF IInv

LEMMA TickStep ==
    ASSUME IInv, Tick
    PROVE  IInv' /\ Acked' = Acked
  <1>1. /\ turn' = "rx" /\ ack' = ack /\ pending' = pending /\ edge' = edge
        /\ turn = "tick"
    BY DEF Tick
  <1>2. PICK n \in 0..Len(rx) : /\ n = Len(rx) \/ n >= Burst
                                /\ read' = read \o SubSeq(rx, 1, n)
                                /\ rx' = Drop(rx, n)
    BY DEF Tick
  <1>3. BytesInv /\ AckInv /\ SlotsInv(pending, Acked, edge)
        /\ Len(rx) + Cardinality(Held) < YieldAt + Window + MaxSeg
    BY <1>1 DEF IInv, RoomInv
  <1> DEFINE k == Len(read)
             m == Len(rx)
  <1>4. /\ k \in Nat /\ m \in Nat /\ Acked \in Nat /\ Acked = k + m /\ n \in Nat /\ n <= m
        /\ read = Bytes(0, k) /\ rx = Bytes(k, m)
    BY <1>3, Positions DEF BytesInv
  <1> HIDE DEF k, m
  <1>5. n \in 0..m /\ m - n \in Nat /\ k + n \in Nat /\ 0 + k = k
    BY <1>4
  <1>6. rx' = Bytes(k + n, m - n)
    BY <1>2, <1>4, <1>5, BytesDrop
  <1>7. read' = Bytes(0, k + n)
    <2>1. SubSeq(rx, 1, n) = Bytes(k, n)
      BY <1>4, <1>5, BytesTake
    <2>2. Bytes(0, k) \o Bytes(0 + k, n) = Bytes(0, k + n)
      BY <1>4, BytesConcat
    <2> QED BY <1>2, <1>4, <1>5, <2>1, <2>2, Zenon
  <1>8. Len(rx') = m - n /\ Len(read') = k + n
    BY <1>5, <1>6, <1>7, BytesSeq
  <1>9. Acked' = Acked
    <2>1. Acked' = Len(read') + Len(rx')
      BY DEF Acked
    <2> QED BY <1>4, <1>8, <2>1
  <1>10. BytesInv'
    <2>1. Acked <= StreamLen /\ edge = Reach(Acked)
      BY <1>3 DEF BytesInv
    <2>2. Reach(Acked)' = Reach(Acked')
      BY DEF Reach
    <2>3. /\ read' = Bytes(0, Len(read')) /\ Len(read') \in Nat
          /\ rx' = Bytes(Len(read'), Len(rx')) /\ Len(rx') \in Nat
      BY <1>5, <1>6, <1>7, <1>8
    <2> QED BY <1>1, <1>9, <2>1, <2>2, <2>3 DEF BytesInv
  <1>11. AckInv' /\ SlotsInv(pending', Acked', edge')
    BY <1>1, <1>3, <1>9 DEF AckInv
  <1>12. RoomInv'
    <2> DEFINE h == Cardinality(Held)
    <2>1. h \in Nat /\ h <= Window
      <3>1. Acked <= StreamLen /\ SlotsInv(pending, Acked, Reach(Acked))
        BY <1>3 DEF BytesInv
      <3> QED BY <1>4, <3>1, HeldSize DEF Held
    <2>2. Held' = Held
      BY <1>1 DEF Held
    <2>3. m + h < YieldAt + Window + MaxSeg /\ (n = m \/ n >= Burst)
      BY <1>2, <1>3 DEF m
    <2> HIDE DEF h
    <2>4. (m - n) + h < YieldAt + Window
      BY <1>4, <2>1, <2>3, Sizes
    <2>5. Len(rx') + Cardinality(Held') < YieldAt + Window
      BY <1>8, <2>2, <2>4 DEF h
    <2> QED BY <1>1, <2>5 DEF RoomInv
  <1> QED BY <1>1, <1>9, <1>10, <1>11, <1>12 DEF IInv

LEMMA StutterStep ==
    ASSUME IInv, UNCHANGED vars
    PROVE  IInv'
  BY DEF vars, IInv, BytesInv, AckInv, RoomInv, Held, Acked

LEMMA StepInv == IInv /\ [Next]_vars => IInv'
  <1> SUFFICES ASSUME IInv, [Next]_vars PROVE IInv'
    OBVIOUS
  <1>1. CASE AnySegment
    <2>1. PICK p \in 0..StreamLen, n \in 0..MaxSeg, fin \in BOOLEAN : Segment(p, n, fin)
      BY <1>1 DEF AnySegment
    <2> QED BY <2>1, SegmentStep
  <1>2. CASE NoMoreFrames
    BY <1>2, NoMoreFramesStep
  <1>3. CASE Tick
    BY <1>3, TickStep
  <1>4. CASE UNCHANGED vars
    BY <1>4, StutterStep
  <1> QED BY <1>1, <1>2, <1>3, <1>4 DEF Next

\* Nothing is taken back, and a segment that is not ahead of its turn leaves nothing
\* of it to be sent again.
Advances ==
    /\ Acked <= Acked' /\ edge <= edge'
    /\ \A p \in 0..StreamLen, n \in 0..MaxSeg, fin \in BOOLEAN :
           Segment(p, n, fin) /\ p <= Acked => Acked' >= p + n

LEMMA StepAdvances == IInv /\ [Next]_vars => [Advances]_vars
  <1> SUFFICES ASSUME IInv, Next PROVE Advances
    OBVIOUS
  <1>1. \A p \in 0..StreamLen, n \in 0..MaxSeg, fin \in BOOLEAN :
           Segment(p, n, fin) /\ p <= Acked => Acked' >= p + n
    BY SegmentStep
  <1>2. Acked <= Acked' /\ edge <= edge'
    <2>1. CASE AnySegment
      <3>1. PICK p \in 0..StreamLen, n \in 0..MaxSeg, fin \in BOOLEAN : Segment(p, n, fin)
        BY <2>1 DEF AnySegment
      <3> QED BY <3>1, SegmentStep
    <2>2. CASE NoMoreFrames \/ Tick
      <3>1. IInv' /\ edge' = edge
        BY <2>2, NoMoreFramesStep, TickStep DEF NoMoreFrames, Tick
      <3>2. Acked' = Acked
        BY <2>2, TickStep DEF NoMoreFrames, Acked
      <3>3. Acked \in Nat /\ edge \in Nat
        BY Positions, Sizes DEF IInv
      <3> QED BY <3>1, <3>2, <3>3
    <2> QED BY <2>1, <2>2 DEF Next
  <1> QED BY <1>1, <1>2 DEF Advances

LEMMA InvTypes == IInv => TypeOK
  <1> SUFFICES ASSUME IInv PROVE TypeOK
    OBVIOUS
  <1>1. BytesInv /\ AckInv /\ SlotsInv(pending, Acked, edge) /\ turn \in {"rx", "tick"}
    BY DEF IInv
  <1>2. /\ Len(read) \in Nat /\ Len(rx) \in Nat /\ Acked \in Nat
        /\ Acked = Len(read) + Len(rx) /\ Acked <= StreamLen
        /\ edge \in 0..StreamLen /\ StreamLen \in Nat
    BY <1>1, Positions, Sizes
  <1>3. ack \in 0..SeqSpan - 1
    <2>1. Acked \in 0..StreamLen + 1 /\ StreamLen + 1 \in 0..StreamLen + 1
      BY <1>2
    <2> QED BY <1>1, <2>1, WireIs DEF AckInv
  <1>4. ASSUME NEW k \in Nat, NEW n \in Nat, k + n <= StreamLen
        PROVE  Bytes(k, n) \in Seq(0..StreamLen - 1)
    <2>1. \A i \in 1..n : k + i - 1 \in 0..StreamLen - 1
      BY <1>2, <1>4
    <2> QED BY <2>1 DEF Bytes
  <1>5. rx \in Seq(0..StreamLen - 1) /\ read \in Seq(0..StreamLen - 1)
    <2>1. read = Bytes(0, Len(read)) /\ rx = Bytes(Len(read), Len(rx))
      BY <1>1 DEF BytesInv
    <2>2. 0 + Len(read) <= StreamLen /\ Len(read) + Len(rx) <= StreamLen /\ 0 \in Nat
      BY <1>2
    <2>3. Bytes(0, Len(read)) \in Seq(0..StreamLen - 1)
      BY <1>2, <1>4, <2>2
    <2>4. Bytes(Len(read), Len(rx)) \in Seq(0..StreamLen - 1)
      BY <1>2, <1>4, <2>2
    <2> QED BY <2>1, <2>3, <2>4, Zenon
  <1>6. Len(rx) <= BufLen
    <2>1. Cardinality(Held) \in Nat
      BY CoverFinite DEF Held
    <2>2. Len(rx) + Cardinality(Held) < YieldAt + Window + MaxSeg
      <3>1. CASE turn = "tick"
        BY <3>1 DEF IInv, RoomInv
      <3>2. CASE turn # "tick"
        <4>1. Len(rx) + Cardinality(Held) < YieldAt + Window
          BY <3>2 DEF IInv, RoomInv
        <4> QED BY <1>2, <2>1, <4>1, Sizes
      <3> QED BY <3>1, <3>2
    <2> QED BY <1>2, <2>1, <2>2, Sizes
  <1>7. Cardinality(pending) <= Slots
    BY <1>1 DEF SlotsInv
  <1>8. \A e \in pending : e.seq \in 0..SeqSpan - 1 /\ Len(e.data) \in 1..SlotLen
    <2> SUFFICES ASSUME NEW e \in pending
                 PROVE  e.seq \in 0..SeqSpan - 1 /\ Len(e.data) \in 1..SlotLen
      OBVIOUS
    <2>1. Entry(e)
      BY <1>1 DEF SlotsInv
    <2>2. e.seq \in 0..SeqSpan - 1
      BY <2>1, EntryFacts, WireIs
    <2>3. Len(e.data) \in 1..SlotLen
      BY <2>1 DEF Entry, Size
    <2> QED BY <2>2, <2>3
  <1> QED BY <1>1, <1>2, <1>3, <1>5, <1>6, <1>7, <1>8 DEF TypeOK

LEMMA InvIntact == IInv => StreamIntact
  <1> SUFFICES ASSUME IInv PROVE StreamIntact
    OBVIOUS
  <1>1. BytesInv /\ AckInv /\ SlotsInv(pending, Acked, edge)
    BY DEF IInv
  <1>2. Len(read) \in Nat /\ Len(rx) \in Nat /\ 0 + Len(read) = Len(read)
        /\ read = Bytes(0, Len(read)) /\ rx = Bytes(Len(read), Len(rx))
    BY <1>1 DEF BytesInv
  <1>3. Bytes(0, Len(read)) \o Bytes(0 + Len(read), Len(rx)) = Bytes(0, Len(read) + Len(rx))
    BY <1>2, BytesConcat
  <1>4. read \o rx = Bytes(0, Len(read) + Len(rx))
    BY <1>2, <1>3, Zenon
  <1>5. SlotsAhead
    BY <1>1 DEF SlotsInv, SlotsAhead, First
  <1>6. ack = Wire(Acked) \/ (Acked = StreamLen /\ ack = Wire(StreamLen + 1))
    BY <1>1 DEF AckInv
  <1> QED BY <1>4, <1>5, <1>6, Zenon DEF StreamIntact

-----------------------------------------------------------------------------
(* The theorems *)

\* The invariant holds in every state of the specification, however segments are
\* cut, lost, repeated and reordered (push_rx_payload_seq, tls_recv, 'rx in kmain).
THEOREM InvariantHolds == Spec => []IInv
  BY StartInv, StepInv, PTL DEF Spec

\* Types, and three bounds of tls.rs that are easily got wrong: the buffer never
\* takes more than TLS_RX_BUF holds, there are never more slots in use than
\* TLS_PENDING_SLOTS, and none holds more than TLS_PENDING_MAX bytes.
THEOREM TypeCorrect == Spec => []TypeOK
  BY InvariantHolds, InvTypes, PTL

\* mbedTLS gets the peer's bytes in order, none missing, none twice, for every
\* stream shorter than half the number space, every first number, window, buffer
\* and number of slots: push_rx_payload_seq never drops what it has acknowledged.
THEOREM StreamAlwaysIntact == Spec => []StreamIntact
  BY InvariantHolds, InvIntact, PTL

\* An acknowledgement is never withdrawn, nor the window it opened; and whatever
\* waits in slots, a retransmission from the first missing byte is taken whole:
\* what StreamRead rests on beside the fairness of the peer.
THEOREM StreamAlwaysAdvances == Spec => [][Advances]_vars
  BY InvariantHolds, StepAdvances, PTL DEF Spec
=============================================================================

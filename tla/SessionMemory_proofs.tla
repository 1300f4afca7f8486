------------------------ MODULE SessionMemory_proofs ------------------------
(***************************************************************************)
(* Proofs about SessionMemory.  The slots of the session state, the        *)
(* working memory and the history are written by the same handlers but     *)
(* never read one another, so each has an invariant of its own; one lemma  *)
(* for each says what the building blocks do to it.                        *)
(***************************************************************************)
EXTENDS SessionMemory, SequenceTheorems, FiniteSetTheorems, TLAPS

-----------------------------------------------------------------------------
(* The slots of the session state. *)

StoreTypes ==
    /\ keys \in [1..Slots -> (Keys \ LongKeys) \cup {NoKey}]
    /\ values \in [1..Slots -> Seq(Bytes)]
    /\ \A i \in 1..Slots : Len(values[i]) <= ValueMax
    /\ last \in [Keys -> Seq(Bytes)]
    /\ order \in Seq(Keys \ LongKeys)

\* Slots are filled from the first on and no key has two; what a slot holds
\* is what was last written under its key; the slots after the first keep the
\* key that filled them, and so does the first while no key came too many.
StoreInv ==
    /\ StoreTypes
    /\ \A i, j \in 1..Slots : keys[i] = keys[j] /\ keys[i] # NoKey => i = j
    /\ \A i \in 1..Slots : keys[i] = NoKey <=> i > Len(order)
    /\ \A i \in 1..Slots : keys[i] # NoKey =>
         /\ values[i] = last[keys[i]]
         /\ \E j \in 1..Len(order) : order[j] = keys[i]
    /\ \A i \in 1..Slots : i <= Len(order) /\ (i > 1 \/ Len(order) <= Slots)
                              => keys[i] = order[i]

\* Where a key goes: where it is, into the first free slot, into the first.
LEMMA SlotHeld ==
    ASSUME StoreInv, NEW k \in Keys, SizeAssumption, KeyAssumption,
           NEW i \in 1..Slots, keys[i] = k
    PROVE  SlotOf(k) = i
<1>1. {j \in 1..Slots : keys[j] = k} = {i}
  BY DEF StoreInv, KeyAssumption
<1> QED BY <1>1 DEF SlotOf, SizeAssumption

LEMMA SlotFree ==
    ASSUME StoreInv, NEW k \in Keys, SizeAssumption,
           ~\E i \in 1..Slots : keys[i] = k, Len(order) < Slots
    PROVE  SlotOf(k) = Len(order) + 1
<1> DEFINE free == {i \in 1..Slots : keys[i] = NoKey}
           n == Len(order) + 1
<1>1. Len(order) \in Nat /\ Slots \in Nat
  BY LenProperties DEF StoreInv, StoreTypes, SizeAssumption
<1>2. n \in free /\ \A j \in free : n <= j
  BY <1>1 DEF StoreInv
<1>3. {i \in 1..Slots : keys[i] = k} = {} /\ free # {}
  BY <1>2
<1>4. SlotOf(k) = CHOOSE i \in free : \A j \in free : i <= j
  BY <1>3 DEF SlotOf
<1>5. \A i \in free : (\A j \in free : i <= j) => i = n
  BY <1>1, <1>2
<1> HIDE DEF free, n
<1>6. SlotOf(k) = n
  BY <1>2, <1>4, <1>5
<1> QED BY <1>6 DEF n

LEMMA SlotFull ==
    ASSUME StoreInv, NEW k \in Keys, SizeAssumption,
           ~\E i \in 1..Slots : keys[i] = k, Len(order) >= Slots
    PROVE  SlotOf(k) = 1
<1>1. Len(order) \in Nat /\ Slots \in Nat
  BY LenProperties DEF StoreInv, StoreTypes, SizeAssumption
<1>2. {i \in 1..Slots : keys[i] = k} = {} /\ {i \in 1..Slots : keys[i] = NoKey} = {}
  BY <1>1 DEF StoreInv
<1> QED BY <1>2 DEF SlotOf, SizeAssumption
-----------------------------------------------------------------------------
(* Bytes: a cut text is a text, no longer than it was cut to. *)

LEMMA SmallestIn ==
    ASSUME NEW S \in SUBSET Nat, S # {}
    PROVE  \E m \in S : \A k \in S : m <= k
<1>1. PICK m \in S : \A k \in S : <<k, m>> \notin OpToRel(<, Nat)
  BY WFMin, NatLessThanWellFounded, Zenon
<1>2. \A k \in S : ~(k < m)
  BY <1>1, Zenon DEF OpToRel
<1> QED BY <1>2

LEMMA LargestIn ==
    ASSUME NEW n \in Nat, NEW S \in SUBSET (0..n), S # {}
    PROVE  \E m \in S : \A k \in S : k <= m
<1> DEFINE T == {n - k : k \in S}
<1>1. T \in SUBSET Nat /\ T # {}
  <2>1. \A t \in T : t \in Nat
    OBVIOUS
  <2>2. PICK k \in S : TRUE
    OBVIOUS
  <2>3. n - k \in T
    BY <2>2
  <2> QED BY <2>1, <2>3
<1>2. PICK t \in T : \A u \in T : t <= u
  BY <1>1, SmallestIn
<1>3. n - t \in S /\ \A k \in S : k <= n - t
  BY <1>2
<1> QED BY <1>3

LEMMA PrefixFacts ==
    ASSUME NEW s \in Seq(Bytes), NEW max \in Nat
    PROVE  LET p == Utf8Prefix(s, max)
           IN /\ p \in Seq(Bytes) /\ Len(p) <= max /\ Len(p) <= Len(s)
              /\ p = SubSeq(s, 1, Len(p))
<1> DEFINE b == Least(max, Len(s))
           fits == {n \in 0..b : Valid(SubSeq(s, 1, n))}
           n == CHOOSE m \in fits : \A k \in fits : k <= m
<1>1. Len(s) \in Nat /\ b \in Nat /\ b <= max /\ b <= Len(s)
  BY LenProperties DEF Least
<1>2. 0 \in fits
  BY <1>1, SubSeqEmpty DEF Valid
<1>3. \E m \in fits : \A k \in fits : k <= m
  <2>1. fits \in SUBSET (0..b) /\ fits # {}
    BY <1>2
  <2> HIDE DEF fits, b
  <2> QED BY <1>1, <2>1, LargestIn
<1>4. n \in 0..b
  <2>1. n \in fits
    BY <1>3
  <2> QED BY <2>1
<1>5. Utf8Prefix(s, max) = SubSeq(s, 1, n)
  BY DEF Utf8Prefix
<1> HIDE DEF n, b
<1>6. \A i \in 1..n : s[i] \in Bytes
  BY <1>1, <1>4, ElementOfSeq
<1>7. SubSeq(s, 1, n) \in Seq(Bytes) /\ Len(SubSeq(s, 1, n)) = n
  BY <1>1, <1>4, <1>6, SubSeqProperties
<1> QED BY <1>1, <1>4, <1>5, <1>7

LEMMA SummaryFacts ==
    ASSUME NEW s \in Seq(Bytes), NEW max \in Nat
    PROVE  Summary(s, max) \in Seq(Bytes) /\ Len(Summary(s, max)) <= max
<1> DEFINE p == Utf8Prefix(s, max)
           ends == {n \in 0..Len(p) : \A i \in n + 1..Len(p) : p[i] = "nl"}
           n == CHOOSE m \in ends : \A k \in ends : m <= k
<1>1. p \in Seq(Bytes) /\ Len(p) <= max /\ Len(p) \in Nat
  BY PrefixFacts, LenProperties
<1>2. Summary(s, max) = SubSeq(p, 1, n)
  BY DEF Summary
<1> HIDE DEF p
<1>3. Len(p) \in ends
  BY <1>1
<1>4. n \in 0..Len(p)
  <2>1. ends \in SUBSET Nat /\ ends # {}
    BY <1>1, <1>3
  <2>2. n \in ends
    <3> HIDE DEF ends
    <3> QED BY <2>1, SmallestIn
  <2> QED BY <2>2
<1> HIDE DEF n
<1>5. \A i \in 1..n : p[i] \in Bytes
  BY <1>1, <1>4, ElementOfSeq
<1>6. SubSeq(p, 1, n) \in Seq(Bytes) /\ Len(SubSeq(p, 1, n)) = n
  BY <1>1, <1>4, <1>5, SubSeqProperties
<1> QED BY <1>1, <1>2, <1>4, <1>6
-----------------------------------------------------------------------------
(* Characters: no limit leaves half of one. *)

LEMMA ConcatAt ==
    ASSUME NEW h \in Seq(Bytes), NEW p \in Seq(Bytes)
    PROVE  /\ h \o p \in Seq(Bytes) /\ Len(h) \in Nat /\ Len(p) \in Nat
           /\ Len(h \o p) = Len(h) + Len(p)
           /\ \A i \in 1..Len(h) : (h \o p)[i] = h[i]
           /\ \A i \in 1..Len(p) : (h \o p)[Len(h) + i] = p[i]
<1>1. Len(h) \in Nat /\ Len(p) \in Nat
  BY LenProperties
<1>2. /\ h \o p \in Seq(Bytes) /\ Len(h \o p) = Len(h) + Len(p)
      /\ \A i \in 1..Len(h) + Len(p) :
             (h \o p)[i] = IF i <= Len(h) THEN h[i] ELSE p[i - Len(h)]
  BY ConcatProperties
<1>3. ASSUME NEW i \in 1..Len(p) PROVE (h \o p)[Len(h) + i] = p[i]
  <2>1. Len(h) + i \in 1..Len(h) + Len(p) /\ ~(Len(h) + i <= Len(h))
        /\ Len(h) + i - Len(h) = i
    BY <1>1
  <2> QED BY <1>2, <2>1
<1> QED BY <1>1, <1>2, <1>3

LEMMA ValidConcat ==
    ASSUME NEW h \in Seq(Bytes), NEW p \in Seq(Bytes), Valid(h), Valid(p)
    PROVE  Valid(h \o p)
<1> DEFINE c == h \o p
<1>1. /\ Len(h) \in Nat /\ Len(p) \in Nat /\ Len(c) = Len(h) + Len(p)
      /\ \A i \in 1..Len(h) : c[i] = h[i]
      /\ \A i \in 1..Len(p) : c[Len(h) + i] = p[i]
  BY ConcatAt
<1> HIDE DEF c
<1> SUFFICES ASSUME NEW i \in 1..Len(c)
             PROVE  /\ c[i] = "x1" => i + 2 <= Len(c) /\ c[i + 1] = "x2" /\ c[i + 2] = "x3"
                    /\ c[i] = "x2" => i > 1 /\ c[i - 1] = "x1"
                    /\ c[i] = "x3" => i > 2 /\ c[i - 1] = "x2"
  BY DEF Valid, c
<1>2. CASE i <= Len(h)
  <2>1. /\ h[i] = "x1" => i + 2 <= Len(h) /\ h[i + 1] = "x2" /\ h[i + 2] = "x3"
        /\ h[i] = "x2" => i > 1 /\ h[i - 1] = "x1"
        /\ h[i] = "x3" => i > 2 /\ h[i - 1] = "x2"
    BY <1>1, <1>2 DEF Valid
  <2>2. c[i] = h[i] /\ Len(h) <= Len(c)
    BY <1>1, <1>2
  <2>3. h[i] = "x1" => c[i + 1] = h[i + 1] /\ c[i + 2] = h[i + 2] /\ i + 2 <= Len(c)
    <3>1. h[i] = "x1" => i + 1 \in 1..Len(h) /\ i + 2 \in 1..Len(h)
      BY <1>1, <2>1
    <3> QED BY <1>1, <2>2, <3>1
  <2>4. i > 1 => c[i - 1] = h[i - 1]
    <3>1. i > 1 => i - 1 \in 1..Len(h)
      BY <1>1, <1>2
    <3> QED BY <1>1, <3>1
  <2>5. h[i] \in {"x2", "x3"} => i > 1
    BY <2>1
  <2> QED BY <2>1, <2>2, <2>3, <2>4, <2>5
<1>3. CASE i > Len(h)
  <2> DEFINE j == i - Len(h)
  <2>1. j \in 1..Len(p) /\ i = Len(h) + j
    BY <1>1, <1>3
  <2>2. /\ p[j] = "x1" => j + 2 <= Len(p) /\ p[j + 1] = "x2" /\ p[j + 2] = "x3"
        /\ p[j] = "x2" => j > 1 /\ p[j - 1] = "x1"
        /\ p[j] = "x3" => j > 2 /\ p[j - 1] = "x2"
    BY <2>1 DEF Valid
  <2> HIDE DEF j
  <2>3. c[i] = p[j]
    BY <1>1, <2>1
  <2>4. c[i] = "x1" => i + 2 <= Len(c) /\ c[i + 1] = "x2" /\ c[i + 2] = "x3"
    <3> SUFFICES ASSUME c[i] = "x1"
                 PROVE  i + 2 <= Len(c) /\ c[i + 1] = "x2" /\ c[i + 2] = "x3"
      OBVIOUS
    <3>1. j + 1 \in 1..Len(p) /\ j + 2 \in 1..Len(p) /\ p[j + 1] = "x2" /\ p[j + 2] = "x3"
      BY <1>1, <2>1, <2>2, <2>3
    <3>2. c[Len(h) + (j + 1)] = "x2" /\ c[Len(h) + (j + 2)] = "x3"
      BY <1>1, <3>1
    <3>3. Len(h) + (j + 1) = i + 1 /\ Len(h) + (j + 2) = i + 2 /\ i + 2 <= Len(c)
      BY <1>1, <2>1, <3>1
    <3> QED BY <3>2, <3>3
  <2>5. ASSUME c[i] \in {"x2", "x3"} PROVE i > 1 /\ c[i - 1] = p[j - 1]
    <3>1. j - 1 \in 1..Len(p)
      BY <1>1, <2>1, <2>2, <2>3, <2>5
    <3>2. c[Len(h) + (j - 1)] = p[j - 1]
      BY <1>1, <3>1
    <3>3. Len(h) + (j - 1) = i - 1
      BY <1>1, <2>1
    <3> QED BY <1>1, <2>1, <3>1, <3>2, <3>3
  <2>6. c[i] = "x2" => i > 1 /\ c[i - 1] = "x1"
    BY <2>2, <2>3, <2>5
  <2>7. c[i] = "x3" => i > 2 /\ c[i - 1] = "x2"
    BY <1>1, <2>1, <2>2, <2>3, <2>5
  <2> QED BY <2>4, <2>6, <2>7
<1> QED BY <1>1, <1>2, <1>3

\* Before a byte that begins a character a valid text may be cut.
LEMMA ValidCut ==
    ASSUME NEW s \in Seq(Bytes), Valid(s), NEW n \in 0..Len(s),
           n < Len(s) => s[n + 1] \notin {"x2", "x3"}
    PROVE  Valid(SubSeq(s, 1, n))
<1> DEFINE t == SubSeq(s, 1, n)
<1>1. Len(s) \in Nat /\ \A i \in 1..n : s[i] \in Bytes
  BY LenProperties, ElementOfSeq
<1>2. Len(t) = n /\ \A i \in 1..n : t[i] = s[i]
  <2>1. Len(t) = (IF 1 <= n THEN n - 1 + 1 ELSE 0) /\ \A i \in 1..n - 1 + 1 : t[i] = s[1 + i - 1]
    BY <1>1, SubSeqProperties
  <2> HIDE DEF t
  <2> QED BY <1>1, <2>1
<1> HIDE DEF t
<1>3. ASSUME NEW i \in 1..n
      PROVE  /\ t[i] = "x1" => i + 2 <= n /\ t[i + 1] = "x2" /\ t[i + 2] = "x3"
             /\ t[i] = "x2" => i > 1 /\ t[i - 1] = "x1"
             /\ t[i] = "x3" => i > 2 /\ t[i - 1] = "x2"
  <2>1. /\ s[i] = "x1" => i + 2 <= Len(s) /\ s[i + 1] = "x2" /\ s[i + 2] = "x3"
        /\ s[i] = "x2" => i > 1 /\ s[i - 1] = "x1"
        /\ s[i] = "x3" => i > 2 /\ s[i - 1] = "x2"
    BY <1>1 DEF Valid
  <2>2. s[i] = "x1" => i # n /\ i + 1 # n
    BY <1>1, <2>1
  <2> QED BY <1>1, <1>2, <2>1, <2>2
<1> QED BY <1>2, <1>3 DEF Valid, t

\* What is left behind a cut that begins with a character is valid.
LEMMA ValidRest ==
    ASSUME NEW s \in Seq(Bytes), Valid(s), NEW n \in 1..Len(s) + 1,
           n <= Len(s) => s[n] \notin {"x2", "x3"}
    PROVE  Valid(SubSeq(s, n, Len(s)))
<1> DEFINE t == SubSeq(s, n, Len(s))
           l == Len(s) + 1 - n
<1>1. Len(s) \in Nat /\ l \in Nat /\ \A i \in n..Len(s) : s[i] \in Bytes
  BY LenProperties, ElementOfSeq
<1>2. Len(t) = l /\ \A i \in 1..l : t[i] = s[n + i - 1]
  <2>1. /\ Len(t) = IF n <= Len(s) THEN Len(s) - n + 1 ELSE 0
        /\ \A i \in 1..Len(s) - n + 1 : t[i] = s[n + i - 1]
    BY <1>1, SubSeqProperties
  <2> HIDE DEF t
  <2> QED BY <1>1, <2>1
<1> HIDE DEF t
<1>3. ASSUME NEW i \in 1..l
      PROVE  /\ t[i] = "x1" => i + 2 <= l /\ t[i + 1] = "x2" /\ t[i + 2] = "x3"
             /\ t[i] = "x2" => i > 1 /\ t[i - 1] = "x1"
             /\ t[i] = "x3" => i > 2 /\ t[i - 1] = "x2"
  <2> DEFINE j == n + i - 1
  <2>1. j \in 1..Len(s) /\ j >= n
    BY <1>1
  <2>2. /\ s[j] = "x1" => j + 2 <= Len(s) /\ s[j + 1] = "x2" /\ s[j + 2] = "x3"
        /\ s[j] = "x2" => j > 1 /\ s[j - 1] = "x1"
        /\ s[j] = "x3" => j > 2 /\ s[j - 1] = "x2"
    BY <2>1 DEF Valid
  <2>3. t[i] = s[j]
    BY <1>2
  <2>4. ASSUME t[i] = "x1" PROVE i + 2 <= l /\ t[i + 1] = "x2" /\ t[i + 2] = "x3"
    <3>1. i + 1 \in 1..l /\ i + 2 \in 1..l
      BY <1>1, <2>2, <2>3, <2>4
    <3>2. n + (i + 1) - 1 = j + 1 /\ n + (i + 2) - 1 = j + 2
      BY <1>1
    <3> QED BY <1>2, <2>2, <2>3, <2>4, <3>1, <3>2
  <2>5. ASSUME t[i] \in {"x2", "x3"} PROVE i > 1 /\ t[i - 1] = s[j - 1]
    <3>1. i # 1
      BY <1>1, <2>1, <2>3, <2>5
    <3>2. i - 1 \in 1..l /\ n + (i - 1) - 1 = j - 1
      BY <1>1, <3>1
    <3> QED BY <1>2, <3>1, <3>2
  <2>6. ASSUME t[i] = "x3" PROVE i > 2 /\ t[i - 1] = "x2"
    <3>1. t[i - 1] = "x2" /\ i > 1
      BY <2>2, <2>3, <2>5, <2>6
    <3>2. i # 2
      <4> SUFFICES ASSUME i = 2 PROVE FALSE
        OBVIOUS
      <4>1. t[1] = s[n] /\ n <= Len(s)
        BY <1>1, <1>2
      <4> QED BY <3>1, <4>1
    <3> QED BY <1>1, <3>1, <3>2
  <2> QED BY <2>2, <2>3, <2>4, <2>5, <2>6
<1> QED BY <1>2, <1>3 DEF Valid, t

\* A text after one byte that belongs to no other is valid if both are.
LEMMA ValidTail ==
    ASSUME NEW tag \in Bytes, tag \notin {"x1", "x2", "x3"}, NEW p \in Seq(Bytes),
           Valid(<<tag>> \o p)
    PROVE  Valid(p)
<1> DEFINE c == <<tag>> \o p
<1>1. <<tag>> \in Seq(Bytes) /\ Len(<<tag>>) = 1 /\ <<tag>>[1] = tag
  OBVIOUS
<1>2. /\ Len(p) \in Nat /\ Len(c) = 1 + Len(p) /\ c[1] = tag
      /\ \A i \in 1..Len(p) : c[1 + i] = p[i]
  BY <1>1, ConcatAt
<1>3. \A i \in 1..Len(c) :
        /\ c[i] = "x1" => i + 2 <= Len(c) /\ c[i + 1] = "x2" /\ c[i + 2] = "x3"
        /\ c[i] = "x2" => i > 1 /\ c[i - 1] = "x1"
        /\ c[i] = "x3" => i > 2 /\ c[i - 1] = "x2"
  BY DEF Valid
<1> HIDE DEF c
<1>4. ASSUME NEW i \in 1..Len(p)
      PROVE  /\ p[i] = "x1" => i + 2 <= Len(p) /\ p[i + 1] = "x2" /\ p[i + 2] = "x3"
             /\ p[i] = "x2" => i > 1 /\ p[i - 1] = "x1"
             /\ p[i] = "x3" => i > 2 /\ p[i - 1] = "x2"
  <2>1. 1 + i \in 1..Len(c) /\ c[1 + i] = p[i]
    BY <1>2
  <2>2. /\ c[1 + i] = "x1" => 1 + i + 2 <= Len(c) /\ c[1 + i + 1] = "x2" /\ c[1 + i + 2] = "x3"
        /\ c[1 + i] = "x2" => c[1 + i - 1] = "x1"
        /\ c[1 + i] = "x3" => 1 + i > 2 /\ c[1 + i - 1] = "x2"
    BY <1>3, <2>1
  <2>3. p[i] = "x1" => i + 2 <= Len(p) /\ p[i + 1] = "x2" /\ p[i + 2] = "x3"
    <3> SUFFICES ASSUME p[i] = "x1"
                 PROVE  i + 2 <= Len(p) /\ p[i + 1] = "x2" /\ p[i + 2] = "x3"
      OBVIOUS
    <3>1. i + 1 \in 1..Len(p) /\ i + 2 \in 1..Len(p)
          /\ 1 + i + 1 = 1 + (i + 1) /\ 1 + i + 2 = 1 + (i + 2)
      BY <1>2, <2>1, <2>2
    <3> QED BY <1>2, <2>1, <2>2, <3>1
  <2>4. 1 + i - 1 = i
    OBVIOUS
  <2>5. i > 1 => i - 1 \in 1..Len(p) /\ 1 + (i - 1) = i
    BY <1>2
  <2>6. i > 1 => c[i] = p[i - 1]
    BY <1>2, <2>5
  <2>7. p[i] = "x2" => i > 1 /\ p[i - 1] = "x1"
    BY <1>2, <2>1, <2>2, <2>4, <2>6
  <2>8. p[i] = "x3" => i > 1 /\ p[i - 1] = "x2"
    BY <1>2, <2>1, <2>2, <2>4, <2>6
  <2>9. ~(p[i] = "x3" /\ i = 2)
    <3> SUFFICES ASSUME p[i] = "x3", i = 2 PROVE FALSE
      OBVIOUS
    <3>1. p[1] = "x2" /\ 1 \in 1..Len(p)
      BY <1>2, <2>8
    <3>2. c[1 + 1] = "x2" /\ 1 + 1 \in 1..Len(c)
      BY <1>2, <3>1
    <3>3. c[1] = "x1"
      BY <1>3, <3>2
    <3> QED BY <1>2, <3>3
  <2> QED BY <2>3, <2>7, <2>8, <2>9
<1> QED BY <1>4 DEF Valid

LEMMA PrefixValid ==
    ASSUME NEW s \in Seq(Bytes), NEW max \in Nat
    PROVE  /\ Valid(Utf8Prefix(s, max))
           /\ Valid(s) /\ Len(s) <= max => Utf8Prefix(s, max) = s
           /\ Valid(s) /\ max < Len(s) => max - Len(Utf8Prefix(s, max)) < 3
<1> DEFINE b == Least(max, Len(s))
           fits == {n \in 0..b : Valid(SubSeq(s, 1, n))}
           n == CHOOSE m \in fits : \A k \in fits : k <= m
<1>1. Len(s) \in Nat /\ b \in Nat /\ b <= max /\ b <= Len(s)
      /\ (Len(s) <= max => b = Len(s)) /\ (max < Len(s) => b = max)
  BY LenProperties DEF Least
<1>2. 0 \in fits
  BY <1>1, SubSeqEmpty DEF Valid
<1>3. \E m \in fits : \A k \in fits : k <= m
  <2>1. fits \in SUBSET (0..b) /\ fits # {}
    BY <1>2
  <2> HIDE DEF fits, b
  <2> QED BY <1>1, <2>1, LargestIn
<1>4. n \in fits /\ \A k \in fits : k <= n
  <2> HIDE DEF fits
  <2> QED BY <1>3
<1>5. n \in 0..b /\ Valid(SubSeq(s, 1, n))
  <2> HIDE DEF n
  <2> QED BY <1>4
<1>6. Utf8Prefix(s, max) = SubSeq(s, 1, n)
  BY DEF Utf8Prefix
<1>7. \A k \in 0..b : Valid(SubSeq(s, 1, k)) => k <= n
  <2> HIDE DEF n
  <2> QED BY <1>4
<1> HIDE DEF n, b, fits
<1>8. \A i \in 1..n : s[i] \in Bytes
  BY <1>1, <1>5, ElementOfSeq
<1>9. Len(SubSeq(s, 1, n)) = n
  BY <1>1, <1>5, <1>8, SubSeqProperties
<1>10. ASSUME Valid(s), Len(s) <= max PROVE Utf8Prefix(s, max) = s
  <2>1. SubSeq(s, 1, Len(s)) = s
    BY SubSeqFull
  <2>2. Valid(SubSeq(s, 1, Len(s)))
    BY <1>10, <2>1
  <2>3. Len(s) \in 0..b
    BY <1>1, <1>10
  <2>4. Len(s) <= n
    BY <1>7, <2>2, <2>3
  <2>5. n = Len(s)
    BY <1>1, <1>5, <2>4
  <2> QED BY <1>6, <2>1, <2>5
<1>11. ASSUME Valid(s), max < Len(s) PROVE max - n < 3
  <2>1. b = max
    BY <1>1, <1>11
  <2>2. max + 1 \in 1..Len(s)
    BY <1>1, <1>11
  <2>3. \A i \in 1..Len(s) : /\ s[i] = "x2" => i > 1 /\ s[i - 1] = "x1"
                             /\ s[i] = "x3" => i > 2 /\ s[i - 1] = "x2"
    BY <1>11 DEF Valid
  <2>4. ASSUME NEW k \in 0..max, s[k + 1] \notin {"x2", "x3"} PROVE k <= n
    <3>1. k \in 0..Len(s) /\ k \in 0..b
      BY <1>1, <1>11, <2>1
    <3>2. Valid(SubSeq(s, 1, k))
      BY <1>11, <2>4, <3>1, ValidCut
    <3> QED BY <1>7, <3>1, <3>2
  <2>5. CASE s[max + 1] \notin {"x2", "x3"}
    BY <1>5, <2>1, <2>4, <2>5
  <2>6. CASE s[max + 1] = "x2"
    <3>1. max > 0 /\ s[max] = "x1"
      BY <2>2, <2>3, <2>6
    <3>2. max - 1 \in 0..max /\ s[(max - 1) + 1] \notin {"x2", "x3"}
      BY <3>1
    <3>3. max - 1 <= n
      BY <2>4, <3>2
    <3> QED BY <1>5, <2>1, <3>3
  <2>7. CASE s[max + 1] = "x3"
    <3>1. max > 1 /\ s[max] = "x2" /\ max \in 1..Len(s)
      BY <1>1, <1>11, <2>2, <2>3, <2>7
    <3>2. s[max - 1] = "x1"
      BY <2>3, <3>1
    <3>3. max - 2 \in 0..max /\ s[(max - 2) + 1] \notin {"x2", "x3"}
      BY <3>1, <3>2
    <3>4. max - 2 <= n
      BY <2>4, <3>3
    <3> QED BY <1>5, <2>1, <3>4
  <2> QED BY <2>5, <2>6, <2>7
<1> QED BY <1>5, <1>6, <1>9, <1>10, <1>11

\* A question is one line: its summary is its beginning, and all of it but
\* where no further character fits.
LEMMA QuestionShown ==
    ASSUME NEW g \in Seq(Bytes), \A i \in 1..Len(g) : g[i] # "nl", NEW max \in Nat
    PROVE  LET w == Summary(g, max)
           IN /\ Len(w) <= Len(g) /\ w = SubSeq(g, 1, Len(w))
              /\ Valid(g) => w = g \/ max - Len(w) < 3
<1> DEFINE p == Utf8Prefix(g, max)
           ends == {n \in 0..Len(p) : \A i \in n + 1..Len(p) : p[i] = "nl"}
<1>1. /\ p \in Seq(Bytes) /\ Len(p) \in Nat /\ Len(p) <= max
      /\ Len(g) \in Nat /\ Len(p) <= Len(g) /\ p = SubSeq(g, 1, Len(p))
  BY PrefixFacts, LenProperties
<1>2. /\ Valid(g) /\ Len(g) <= max => p = g
      /\ Valid(g) /\ max < Len(g) => max - Len(p) < 3
  BY PrefixValid
<1>3. Summary(g, max) = SubSeq(p, 1, CHOOSE n \in ends : \A m \in ends : n <= m)
  BY DEF Summary
<1> HIDE DEF p
<1>4. ASSUME NEW i \in 1..Len(p) PROVE p[i] # "nl"
  <2>1. \A j \in 1..Len(p) : g[j] \in Bytes
    BY <1>1, ElementOfSeq
  <2>2. SubSeq(g, 1, Len(p))[i] = g[i]
    BY <1>1, <2>1, SubSeqProperties
  <2> QED BY <1>1, <2>2
<1>5. ends = {Len(p)}
  BY <1>1, <1>4
<1> HIDE DEF ends
<1>6. Summary(g, max) = SubSeq(p, 1, Len(p))
  BY <1>1, <1>3, <1>5
<1>7. Summary(g, max) = p
  BY <1>1, <1>6, SubSeqFull
<1> QED BY <1>1, <1>2, <1>7

-----------------------------------------------------------------------------
(* What a write does to the slots. *)

LEMMA WriteKeeps ==
    ASSUME SizeAssumption, KeyAssumption, StoreInv, NEW k \in Keys,
           NEW v \in Seq(Bytes), Write(k, v)
    PROVE  StoreInv'
<1>1. CASE ~Writable(k, v)
  BY <1>1 DEF Write, store, StoreInv, StoreTypes
<1>2. CASE Writable(k, v)
  <2> DEFINE s == SlotOf(k)
             w == Utf8Prefix(v, ValueMax)
             was == \E i \in 1..Len(order) : order[i] = k
             held == \E i \in 1..Slots : keys[i] = k
  <2>1. /\ keys' = [keys EXCEPT ![s] = k] /\ values' = [values EXCEPT ![s] = w]
        /\ last' = [last EXCEPT ![k] = w]
        /\ order' = IF was THEN order ELSE Append(order, k)
    BY <1>2 DEF Write
  <2>2. k \in Keys \ LongKeys /\ k # NoKey
    BY <1>2 DEF Writable, KeyAssumption
  <2>3. w \in Seq(Bytes) /\ Len(w) <= ValueMax
    BY PrefixFacts DEF SizeAssumption
  <2>4. /\ order \in Seq(Keys \ LongKeys) /\ Len(order) \in Nat
        /\ Slots \in Nat \ {0}
        /\ \A i \in 1..Len(order) : order[i] \in Keys \ LongKeys
    BY LenProperties, ElementOfSeq DEF StoreInv, StoreTypes, SizeAssumption
  <2>5. /\ held => s \in 1..Slots /\ keys[s] = k /\ was
        /\ ~held /\ ~was /\ Len(order) < Slots => s = Len(order) + 1
        /\ ~held /\ Len(order) >= Slots => s = 1
        /\ ~held /\ was => Len(order) > Slots
    <3>1. held => s \in 1..Slots /\ keys[s] = k /\ was
      BY <2>2, SlotHeld DEF StoreInv
    <3>2. ~held /\ Len(order) < Slots => s = Len(order) + 1
      BY SlotFree
    <3>3. ~held /\ Len(order) >= Slots => s = 1
      BY SlotFull
    <3>4. ASSUME ~held, was, ~(Len(order) > Slots) PROVE FALSE
      <4>1. PICK i \in 1..Len(order) : order[i] = k
        BY <3>4
      <4>2. i \in 1..Slots /\ keys[i] = order[i]
        BY <2>4, <3>4 DEF StoreInv
      <4> QED BY <3>4, <4>1, <4>2
    <3> QED BY <3>1, <3>2, <3>3, <3>4
  <2>6. s \in 1..Slots
    BY <2>4, <2>5
  <2>7. /\ order' \in Seq(Keys \ LongKeys)
        /\ Len(order') = IF was THEN Len(order) ELSE Len(order) + 1
        /\ \A i \in 1..Len(order) : order'[i] = order[i]
        /\ ~was => order'[Len(order) + 1] = k
    BY <2>1, <2>2, <2>4, AppendProperties
  <2> HIDE DEF s, w, held
  <2>8. StoreTypes'
    BY <2>1, <2>2, <2>3, <2>6, <2>7 DEF StoreInv, StoreTypes
  <2>9. \A i \in 1..Slots : keys'[i] = IF i = s THEN k ELSE keys[i]
    BY <2>1, <2>6 DEF StoreInv, StoreTypes
  <2>10. \A i \in 1..Slots : i # s => keys[i] # k
    BY <2>2, <2>5 DEF StoreInv, held
  <2>11. \A i, j \in 1..Slots : keys'[i] = keys'[j] /\ keys'[i] # NoKey => i = j
    BY <2>9, <2>10 DEF StoreInv
  <2>12. \A i \in 1..Slots : keys'[i] = NoKey <=> i > Len(order')
    <3>1. ~held /\ ~was => s = IF Len(order) < Slots THEN Len(order) + 1 ELSE 1
      BY <2>4, <2>5
    <3>2. held => s <= Len(order)
      BY <2>2, <2>5, <2>6 DEF StoreInv
    <3>3. was /\ ~held => s = 1 /\ Len(order) > Slots
      BY <2>4, <2>5
    <3>4. \A i \in 1..Slots : keys[i] = NoKey <=> i > Len(order)
      BY DEF StoreInv
    <3> HIDE DEF was
    <3> QED BY <2>2, <2>4, <2>5, <2>6, <2>7, <2>9, <3>1, <3>2, <3>3, <3>4
  <2>13. ASSUME NEW i \in 1..Slots, keys'[i] # NoKey
         PROVE  values'[i] = last'[keys'[i]]
    <3>1. CASE i = s
      BY <2>1, <2>2, <2>9, <3>1 DEF StoreInv, StoreTypes
    <3>2. CASE i # s
      <4>1. keys'[i] = keys[i] /\ keys[i] # k /\ keys[i] \in Keys
        BY <2>9, <2>10, <2>13, <3>2 DEF StoreInv, StoreTypes
      <4>2. values'[i] = values[i] /\ last'[keys[i]] = last[keys[i]]
        BY <2>1, <3>2, <4>1 DEF StoreInv, StoreTypes
      <4> QED BY <2>13, <4>1, <4>2 DEF StoreInv
    <3> QED BY <3>1, <3>2
  <2>14. ASSUME NEW i \in 1..Slots, keys'[i] # NoKey
         PROVE  \E j \in 1..Len(order') : order'[j] = keys'[i]
    <3>1. CASE i = s
      <4>1. keys'[i] = k
        BY <2>9, <3>1
      <4>2. CASE was
        BY <2>4, <2>7, <4>1, <4>2
      <4>3. CASE ~was
        BY <2>4, <2>7, <4>1, <4>3
      <4> QED BY <4>2, <4>3
    <3>2. CASE i # s
      <4>1. keys'[i] = keys[i]
        BY <2>9, <3>2
      <4>2. PICK j \in 1..Len(order) : order[j] = keys[i]
        BY <2>14, <4>1 DEF StoreInv
      <4>3. j \in 1..Len(order') /\ order'[j] = order[j]
        BY <2>4, <2>7, <4>2
      <4> QED BY <4>1, <4>2, <4>3
    <3> QED BY <3>1, <3>2
  <2>15. ASSUME NEW i \in 1..Slots, i <= Len(order'), i > 1 \/ Len(order') <= Slots
         PROVE  keys'[i] = order'[i]
    <3>1. CASE held
      <4>1. was /\ keys[s] = k
        BY <2>5, <3>1
      <4> HIDE DEF was
      <4>2. Len(order') = Len(order) /\ i <= Len(order) /\ order'[i] = order[i]
        BY <2>4, <2>7, <2>15, <4>1
      <4>3. keys'[i] = keys[i]
        BY <2>9, <4>1
      <4> QED BY <2>15, <4>2, <4>3 DEF StoreInv
    <3>2. CASE ~held /\ was
      <4>1. was /\ s = 1 /\ Len(order) > Slots
        BY <2>4, <2>5, <3>2
      <4> HIDE DEF was
      <4>2. i > 1 /\ i <= Len(order) /\ order'[i] = order[i]
        BY <2>4, <2>7, <2>15, <4>1
      <4>3. keys'[i] = keys[i]
        BY <2>9, <4>1, <4>2
      <4> QED BY <4>2, <4>3 DEF StoreInv
    <3>3. CASE ~held /\ ~was /\ Len(order) < Slots
      <4>1. s = Len(order) + 1 /\ Len(order') = Len(order) + 1 /\ order'[s] = k
        BY <2>4, <2>5, <2>7, <3>3
      <4>2. CASE i = s
        BY <2>9, <4>1, <4>2
      <4>3. CASE i # s
        <5>1. i <= Len(order) /\ order'[i] = order[i] /\ keys'[i] = keys[i]
          BY <2>4, <2>7, <2>9, <2>15, <4>1, <4>3
        <5> QED BY <2>4, <3>3, <5>1 DEF StoreInv
      <4> QED BY <4>2, <4>3
    <3>4. CASE ~held /\ ~was /\ Len(order) >= Slots
      <4>1. s = 1 /\ i > 1 /\ i <= Len(order) /\ order'[i] = order[i] /\ keys'[i] = keys[i]
        BY <2>4, <2>5, <2>7, <2>9, <2>15, <3>4
      <4> QED BY <4>1 DEF StoreInv
    <3> QED BY <2>4, <3>1, <3>2, <3>3, <3>4
  <2> QED BY <2>8, <2>11, <2>12, <2>13, <2>14, <2>15 DEF StoreInv
<1> QED BY <1>1, <1>2

\* What is read is what was written last, and which keys are kept.
LEMMA StoreShows ==
    ASSUME SizeAssumption, KeyAssumption, StoreInv
    PROVE  ReadsLast /\ KeysKept
<1>1. ASSUME NEW k \in Keys, NEW i \in 1..Slots, keys[i] = k
      PROVE  Read(k) = last[k]
  <2>1. k # NoKey
    BY DEF KeyAssumption
  <2>2. \A j \in 1..Slots : keys[j] = k => j = i
    BY <1>1, <2>1 DEF StoreInv
  <2>3. \A j \in 1..i - 1 : keys[j] # k
    BY <2>2
  <2>4. (CHOOSE j \in 1..Slots : keys[j] = k /\ \A l \in 1..j - 1 : keys[l] # k) = i
    BY <1>1, <2>2, <2>3
  <2>5. Read(k) = values[i]
    BY <1>1, <2>4 DEF Read, Holds
  <2> QED BY <1>1, <2>1, <2>5 DEF StoreInv
<1>2. ReadsLast
  <2> SUFFICES ASSUME NEW k \in Keys PROVE Read(k) \in {last[k], <<>>}
    BY DEF ReadsLast
  <2>1. CASE Holds(k)
    BY <1>1, <2>1 DEF Holds
  <2>2. CASE ~Holds(k)
    BY <2>2 DEF Read
  <2> QED BY <2>1, <2>2
<1>3. KeysKept
  <2> SUFFICES ASSUME NEW i \in 1..Len(order), i \in 2..Slots \/ Len(order) <= Slots
               PROVE  Holds(order[i])
    BY DEF KeysKept
  <2>1. Len(order) \in Nat /\ Slots \in Nat
    BY LenProperties DEF StoreInv, StoreTypes, SizeAssumption
  <2>2. i \in 1..Slots /\ keys[i] = order[i]
    BY <2>1 DEF StoreInv
  <2> QED BY <2>2 DEF Holds
<1> QED BY <1>2, <1>3
-----------------------------------------------------------------------------
(* The working memory. *)

Turns == 0..TurnMod - 1
Cut(max) == {s \in Seq(Bytes) : Len(s) <= max}
Entry == [state : States, summary : Cut(SummaryMax), detail : Cut(DetailMax),
          whole : BOOLEAN, created : Turns, updated : Turns]

\* Each entry is as it was or was written now.
Noted(m, now) ==
    /\ m \in [MemorySlots -> Entry]
    /\ \A s \in MemorySlots :
         \/ m[s] = memory[s]
         \/ /\ m[s].updated = now
            /\ m[s].created = now \/ m[s].created = memory[s].created
            /\ m[s].state = "RAW" => m[s].whole

LEMMA SetSlotFacts ==
    ASSUME NEW m \in [MemorySlots -> Entry], NEW s \in MemorySlots,
           NEW st \in States, NEW sum \in Cut(SummaryMax), NEW det \in Cut(DetailMax),
           NEW wh \in BOOLEAN, NEW now \in Turns
    PROVE  LET n == SetSlot(m, s, st, sum, det, wh, now) IN
           /\ n \in [MemorySlots -> Entry]
           /\ \A o \in MemorySlots \ {s} : n[o] = m[o]
           /\ n[s].state = st /\ n[s].summary = sum /\ n[s].detail = det
           /\ n[s].whole = wh /\ n[s].updated = now
           /\ n[s].created = now \/ n[s].created = m[s].created
<1> DEFINE c == IF m[s].state = "NONE" THEN now ELSE m[s].created
           e == [state |-> st, summary |-> sum, detail |-> det, whole |-> wh,
                 updated |-> now, created |-> c]
<1>1. m[s] \in Entry
  OBVIOUS
<1>2. c \in Turns /\ (c = now \/ c = m[s].created)
  BY <1>1 DEF Entry
<1>3. SetSlot(m, s, st, sum, det, wh, now) = [m EXCEPT ![s] = e]
  BY DEF SetSlot
<1> HIDE DEF c
<1>4. /\ e \in Entry /\ e.state = st /\ e.summary = sum /\ e.detail = det
      /\ e.whole = wh /\ e.updated = now /\ e.created = c
  BY <1>2 DEF Entry
<1> HIDE DEF e
<1>5. /\ [m EXCEPT ![s] = e] \in [MemorySlots -> Entry]
      /\ [m EXCEPT ![s] = e][s] = e
      /\ \A o \in MemorySlots \ {s} : [m EXCEPT ![s] = e][o] = m[o]
  BY <1>4
<1> QED BY <1>2, <1>3, <1>4, <1>5

\* The entry of the task is written now, and no other.
TaskNoted(m, st, sum, det, now) ==
    /\ m \in [MemorySlots -> Entry]
    /\ \A s \in MemorySlots \ {"task"} : m[s] = memory[s]
    /\ m["task"].state = st /\ m["task"].summary = sum
    /\ m["task"].detail = det /\ m["task"].updated = now
    /\ m["task"].created = now \/ m["task"].created = memory["task"].created

LEMMA SetSlotTask ==
    ASSUME memory \in [MemorySlots -> Entry], "task" \in MemorySlots,
           NEW st \in States, NEW sum \in Cut(SummaryMax), NEW det \in Cut(DetailMax),
           NEW wh \in BOOLEAN, NEW now \in Turns
    PROVE  TaskNoted(SetSlot(memory, "task", st, sum, det, wh, now), st, sum, det, now)
BY SetSlotFacts DEF TaskNoted

LEMMA SetSlotNoted ==
    ASSUME memory \in [MemorySlots -> Entry], turn \in Turns,
           NEW s \in MemorySlots \ {"task"},
           NEW st \in States, NEW sum \in Cut(SummaryMax), NEW det \in Cut(DetailMax),
           NEW wh \in BOOLEAN, st = "RAW" => wh
    PROVE  LET n == SetSlot(memory, s, st, sum, det, wh, turn)
           IN Noted(n, turn) /\ n["task"] = memory["task"]
<1> DEFINE n == SetSlot(memory, s, st, sum, det, wh, turn)
<1>1. /\ n \in [MemorySlots -> Entry]
      /\ \A o \in MemorySlots \ {s} : n[o] = memory[o]
      /\ n[s].state = st /\ n[s].whole = wh /\ n[s].updated = turn
      /\ n[s].created = turn \/ n[s].created = memory[s].created
  BY SetSlotFacts
<1> HIDE DEF n
<1>2. "task" \in MemorySlots \ {s}
  BY DEF MemorySlots
<1>3. n[s].state = "RAW" => n[s].whole
  BY <1>1, Zenon
<1>4. ASSUME NEW o \in MemorySlots
      PROVE  \/ n[o] = memory[o]
             \/ /\ n[o].updated = turn
                /\ n[o].created = turn \/ n[o].created = memory[o].created
                /\ n[o].state = "RAW" => n[o].whole
  BY <1>1, <1>3, Zenon
<1>5. Noted(n, turn)
  BY <1>1, <1>4, Zenon DEF Noted
<1>6. n["task"] = memory["task"]
  BY <1>1, <1>2
<1> QED BY <1>5, <1>6, Zenon DEF n

\* A text whose length was looked at is whole in its entry.
LEMMA WholeFacts ==
    ASSUME NEW text \in Seq(Bytes), NEW max \in Nat, Len(text) <= max
    PROVE  Summary(text, max) = Summary(text, Len(text))
<1>1. Len(text) \in Nat
  BY LenProperties
<1>2. Least(max, Len(text)) = Least(Len(text), Len(text))
  BY <1>1 DEF Least
<1>3. Utf8Prefix(text, max) = Utf8Prefix(text, Len(text))
  BY <1>2 DEF Utf8Prefix
<1> QED BY <1>3 DEF Summary

LEMMA NoteToolKeeps ==
    ASSUME SizeAssumption, memory \in [MemorySlots -> Entry], turn \in Turns,
           NEW tool \in Tools \cup {"none"}, NEW text \in Seq(Bytes),
           tool = "run_process" => Len(text) <= SourceTrigger
    PROVE  Noted(NoteTool(tool, text), turn)
           /\ NoteTool(tool, text)["task"] = memory["task"]
<1> DEFINE s == SlotOfTool(tool)
           d == Summary(text, DetailMax)
           st == IF tool = "search_web" THEN "DERIVED" ELSE "RAW"
           w == d = Summary(text, Len(text))
           m1 == SetSlot(memory, s, "COMPACTED", CompactedText, CompactedText, FALSE, turn)
           m2 == SetSlot(memory, s, st, CompactedText, d, w, turn)
<1>1. s \in {"source", "workspace", "execution", "none"}
  BY DEF SlotOfTool
<1>2. {"source", "workspace", "execution"} \subseteq MemorySlots
  BY DEF MemorySlots
<1>3. d \in Cut(DetailMax) /\ CompactedText \in Cut(SummaryMax) \cap Cut(DetailMax)
  BY SummaryFacts DEF Cut, CompactedText, Bytes, SizeAssumption
<1>4. NoteTool(tool, text) = IF s = "none" THEN memory
                             ELSE IF Compacts(tool, text) THEN m1 ELSE m2
  BY DEF NoteTool
<1>5. ~Compacts(tool, text) => w
  <2> SUFFICES ASSUME ~Compacts(tool, text) PROVE w
    OBVIOUS
  <2>1. Len(text) \in Nat /\ SourceTrigger \in Nat /\ Trigger \in Nat /\ DetailMax \in Nat
        /\ SourceTrigger <= Trigger /\ Trigger <= DetailMax
    BY LenProperties DEF SizeAssumption
  <2>2. Len(text) <= DetailMax
    BY <2>1 DEF Compacts
  <2> QED BY <2>1, <2>2, WholeFacts
<1>6. {"COMPACTED", "DERIVED", "RAW"} \subseteq States
  BY DEF States
<1>7. CASE s = "none"
  BY <1>4, <1>7 DEF Noted
<1>8. CASE s # "none" /\ Compacts(tool, text)
  <2>1. s \in MemorySlots \ {"task"} /\ NoteTool(tool, text) = m1
    BY <1>1, <1>2, <1>4, <1>8
  <2>2. /\ "COMPACTED" \in States /\ FALSE \in BOOLEAN
        /\ CompactedText \in Cut(SummaryMax) /\ CompactedText \in Cut(DetailMax)
        /\ "COMPACTED" # "RAW"
    BY <1>3, <1>6
  <2> HIDE DEF s
  <2>3. Noted(m1, turn) /\ m1["task"] = memory["task"]
    BY <2>1, <2>2, SetSlotNoted, Zenon
  <2> QED BY <2>1, <2>3
<1>9. CASE s # "none" /\ ~Compacts(tool, text)
  <2>1. s \in MemorySlots \ {"task"} /\ NoteTool(tool, text) = m2
    BY <1>1, <1>2, <1>4, <1>9
  <2>3. st \in States
    BY <1>6
  <2>4. w \in BOOLEAN /\ (st = "RAW" => w)
    BY <1>5, <1>9
  <2>5. d \in Cut(DetailMax) /\ CompactedText \in Cut(SummaryMax)
    BY <1>3
  <2> HIDE DEF s, d, st, w
  <2>6. Noted(m2, turn) /\ m2["task"] = memory["task"]
    BY <2>1, <2>3, <2>4, <2>5, SetSlotNoted, Zenon
  <2> QED BY <2>1, <2>6
<1> QED BY <1>7, <1>8, <1>9

LEMMA NoteAssistantKeeps ==
    ASSUME SizeAssumption, memory \in [MemorySlots -> Entry], turn \in Turns,
           NEW text \in Seq(Bytes)
    PROVE  Noted(NoteAssistant(memory, text), turn)
           /\ NoteAssistant(memory, text)["task"] = memory["task"]
<1> DEFINE m1 == SetSlot(memory, "conversation", "COMPACTED", CompactedText,
                         CompactedText, FALSE, turn)
           m2 == SetSlot(memory, "conversation", "DERIVED", Summary(text, SummaryMax),
                         <<>>, FALSE, turn)
<1>1. /\ {"COMPACTED", "DERIVED"} \subseteq States
      /\ "conversation" \in MemorySlots \ {"task"}
  BY DEF States, MemorySlots
<1>2. /\ Summary(text, SummaryMax) \in Cut(SummaryMax) /\ <<>> \in Cut(DetailMax)
      /\ CompactedText \in Cut(SummaryMax) \cap Cut(DetailMax)
  BY SummaryFacts DEF Cut, CompactedText, Bytes, SizeAssumption
<1>3. NoteAssistant(memory, text) = m1 \/ NoteAssistant(memory, text) = m2
  BY DEF NoteAssistant
<1>4. Noted(m1, turn) /\ m1["task"] = memory["task"]
  BY <1>1, <1>2, SetSlotNoted
<1>5. Noted(m2, turn) /\ m2["task"] = memory["task"]
  BY <1>1, <1>2, SetSlotNoted
<1> QED BY <1>3, <1>4, <1>5
-----------------------------------------------------------------------------
(* The history, and the questions in it. *)

AsksIn(s) == {i \in 1..Len(s) : s[i] = "U"}
Asks == Cardinality(AsksIn(said))

LEMMA AppendedFacts ==
    ASSUME SizeAssumption, NEW h \in Cut(HistoryMax), NEW s \in Seq(Bytes)
    PROVE  Appended(h, s) \in Cut(HistoryMax)
<1> DEFINE p == Utf8Prefix(s, HistoryMax - Len(h))
<1>1. h \in Seq(Bytes) /\ Len(h) \in Nat /\ HistoryMax \in Nat /\ Len(h) <= HistoryMax
  BY LenProperties DEF Cut, SizeAssumption
<1>2. HistoryMax - Len(h) \in Nat
  BY <1>1
<1>3. p \in Seq(Bytes) /\ Len(p) <= HistoryMax - Len(h)
  BY <1>2, PrefixFacts
<1> HIDE DEF p
<1>4. h \o p \in Seq(Bytes) /\ Len(h \o p) = Len(h) + Len(p) /\ Len(p) \in Nat
  BY <1>1, <1>3, ConcatProperties, LenProperties
<1>5. Appended(h, s) = h \o p
  BY DEF Appended, p
<1> QED BY <1>1, <1>3, <1>4, <1>5 DEF Cut

LEMMA PieceFacts ==
    ASSUME NEW tag \in Bytes, NEW text \in Seq(Bytes)
    PROVE  /\ Piece(tag, text) \in Seq(Bytes) /\ Len(Piece(tag, text)) = Len(text) + 2
           /\ Piece(tag, text)[1] = tag
           /\ <<tag>> \in Seq(Bytes) /\ <<"nl">> \in Seq(Bytes)
<1>1. /\ <<tag>> \in Seq(Bytes) /\ Len(<<tag>>) = 1 /\ <<tag>>[1] = tag
      /\ <<"nl">> \in Seq(Bytes) /\ Len(<<"nl">>) = 1
  BY DEF Bytes
<1>2. Len(text) \in Nat
  BY LenProperties
<1> DEFINE a == <<tag>> \o text
<1>3. a \in Seq(Bytes) /\ Len(a) = Len(text) + 1 /\ a[1] = tag
  BY <1>1, <1>2, ConcatProperties
<1>4. Piece(tag, text) = a \o <<"nl">>
  BY DEF Piece
<1> HIDE DEF a
<1>5. /\ a \o <<"nl">> \in Seq(Bytes) /\ Len(a \o <<"nl">>) = Len(text) + 2
      /\ (a \o <<"nl">>)[1] = tag
  BY <1>1, <1>2, <1>3, ConcatProperties
<1> QED BY <1>1, <1>4, <1>5

LEMMA AsksGrow ==
    ASSUME said \in Seq(Bytes), NEW tag \in Bytes, NEW text \in Seq(Bytes),
           said' = said \o Piece(tag, text)
    PROVE  /\ said' \in Seq(Bytes) /\ Asks \in Nat /\ Asks' \in Nat
           /\ Asks <= Asks' /\ (tag = "U" => Asks + 1 <= Asks')
<1> DEFINE p == Piece(tag, text)
           n == Len(said)
           a == AsksIn(said)
           b == AsksIn(said')
<1>1. p \in Seq(Bytes) /\ Len(p) \in Nat \ {0} /\ p[1] = tag /\ n \in Nat
  <2>1. Len(text) \in Nat /\ n \in Nat
    BY LenProperties
  <2> QED BY <2>1, PieceFacts
<1> HIDE DEF p
<1>2. /\ said' \in Seq(Bytes) /\ Len(said') = n + Len(p)
      /\ \A i \in 1..n : said'[i] = said[i]
      /\ said'[n + 1] = tag
  <2>1. /\ said \o p \in Seq(Bytes) /\ Len(said \o p) = n + Len(p)
        /\ \A i \in 1..n + Len(p) : (said \o p)[i] = IF i <= n THEN said[i] ELSE p[i - n]
    BY <1>1, ConcatProperties
  <2> QED BY <1>1, <2>1 DEF p
<1>3. /\ a \subseteq 1..n /\ b \subseteq 1..Len(said') /\ a \subseteq b
      /\ tag = "U" => a \cup {n + 1} \subseteq b
      /\ n + 1 \notin a
  BY <1>1, <1>2 DEF AsksIn
<1>4. IsFiniteSet(1..n) /\ IsFiniteSet(1..Len(said'))
  BY <1>1, <1>2, FS_Interval
<1> HIDE DEF a, b, n
<1>5. IsFiniteSet(a) /\ IsFiniteSet(b)
  BY <1>3, <1>4, FS_Subset
<1>6. Cardinality(a) \in Nat /\ Cardinality(b) \in Nat /\ Cardinality(a) <= Cardinality(b)
  BY <1>3, <1>5, FS_CardinalityType, FS_Subset
<1>7. tag = "U" => Cardinality(a) + 1 <= Cardinality(b)
  <2>1. Cardinality(a \cup {n + 1}) = Cardinality(a) + 1
    BY <1>3, <1>5, FS_AddElement
  <2>2. tag = "U" => Cardinality(a \cup {n + 1}) <= Cardinality(b)
    BY <1>3, <1>5, FS_Subset
  <2> QED BY <2>1, <2>2
<1> QED BY <1>2, <1>6, <1>7 DEF Asks, a, b

LEMMA SayKeeps ==
    ASSUME SizeAssumption, history \in Cut(HistoryMax), said \in Seq(Bytes),
           NEW tag \in Bytes, NEW text \in Seq(Bytes), Say(tag, text)
    PROVE  /\ history' \in Cut(HistoryMax) /\ said' \in Seq(Bytes)
           /\ Asks \in Nat /\ Asks' \in Nat
           /\ Asks <= Asks' /\ (tag = "U" => Asks + 1 <= Asks')
<1>1. said' = said \o Piece(tag, text) /\ history' = Record(history, tag, text)
  BY DEF Say
<1>2. Record(history, tag, text) \in Cut(HistoryMax)
  BY AppendedFacts, PieceFacts DEF Record
<1> QED BY <1>1, <1>2, AsksGrow
-----------------------------------------------------------------------------
(* The invariant of memory, turns and history. *)

\* The turn is at most the number of questions, until it wraps.
MemInv ==
    /\ goal \in Texts \cup {NoGoal} /\ asked \in BOOLEAN
    /\ history \in Cut(HistoryMax) /\ said \in Seq(Bytes)
    /\ memory \in [MemorySlots -> Entry] /\ turn \in Turns
    /\ Asks < TurnMod => turn <= Asks
    /\ CurrentTask /\ RawIsWhole /\ TurnsInOrder

\* What is noted in a turn leaves its task and the order of turns alone.
LEMMA NotedKeeps ==
    ASSUME SizeAssumption, MemInv, Noted(memory', turn),
           memory'["task"] = memory["task"], turn' = turn,
           history' \in Cut(HistoryMax), said' \in Seq(Bytes),
           Asks \in Nat, Asks' \in Nat, Asks <= Asks',
           \/ goal' = goal /\ asked' = asked
           \/ goal' = NoGoal /\ asked' = FALSE
    PROVE  MemInv'
<1>1. /\ goal' \in Texts \cup {NoGoal} /\ asked' \in BOOLEAN
      /\ memory' \in [MemorySlots -> Entry] /\ turn' \in Turns
  BY DEF MemInv, Noted
<1>2. turn \in Nat /\ TurnMod \in Nat
  BY DEF MemInv, Turns, SizeAssumption
<1>3. (Asks < TurnMod => turn <= Asks)'
  BY <1>2 DEF MemInv
<1>4. Line("task")' = Line("task") /\ Shown("task")' = Shown("task")
  BY DEF Line, Shown, Before
<1>5. CurrentTask'
  BY <1>4 DEF MemInv, CurrentTask
<1>6. RawIsWhole'
  BY Zenon DEF MemInv, RawIsWhole, Noted
<1>7. TurnsInOrder'
  <2> SUFFICES ASSUME Asks' < TurnMod, NEW s \in MemorySlots
               PROVE  memory'[s].created <= memory'[s].updated /\ memory'[s].updated <= turn'
    BY DEF TurnsInOrder, Asks, AsksIn
  <2>1. memory[s].created <= memory[s].updated /\ memory[s].updated <= turn
    BY <1>2 DEF MemInv, TurnsInOrder, Asks, AsksIn
  <2>2. memory[s].created \in Nat /\ memory[s].updated \in Nat
    BY DEF MemInv, Entry, Turns
  <2>3. CASE memory'[s] = memory[s]
    BY <2>1, <2>3
  <2>4. CASE memory'[s].updated = turn /\ (memory'[s].created = turn \/ memory'[s].created = memory[s].created)
    BY <1>2, <2>1, <2>2, <2>4
  <2> QED BY <2>3, <2>4 DEF Noted
<1> QED BY <1>1, <1>3, <1>5, <1>6, <1>7 DEF MemInv

LEMMA TellKeeps ==
    ASSUME SizeAssumption, MemInv, NEW tool \in Tools \cup {"none"},
           NEW text \in Seq(Bytes), tool = "run_process" => Len(text) <= SourceTrigger,
           Tell(tool, text)
    PROVE  MemInv'
<1>1. /\ memory' = NoteTool(tool, text) /\ Say("T", text)
      /\ goal' = goal /\ turn' = turn /\ asked' = asked
  BY DEF Tell
<1>2. Noted(memory', turn) /\ memory'["task"] = memory["task"]
  BY <1>1, NoteToolKeeps DEF MemInv
<1>3. "T" \in Bytes
  BY DEF Bytes
<1>4. /\ history' \in Cut(HistoryMax) /\ said' \in Seq(Bytes)
      /\ Asks \in Nat /\ Asks' \in Nat /\ Asks <= Asks'
  BY <1>1, <1>3, SayKeeps DEF MemInv
<1> QED BY <1>1, <1>2, <1>4, NotedKeeps

LEMMA AnswerKeeps ==
    ASSUME SizeAssumption, MemInv, NEW text \in Seq(Bytes), Answer(text)
    PROVE  MemInv'
<1>1. /\ memory' = NoteAssistant(memory, text) /\ Say("A", text)
      /\ goal' = NoGoal /\ asked' = FALSE /\ turn' = turn
  BY DEF Answer
<1>2. Noted(memory', turn) /\ memory'["task"] = memory["task"]
  BY <1>1, NoteAssistantKeeps DEF MemInv
<1>3. "A" \in Bytes
  BY DEF Bytes
<1>4. /\ history' \in Cut(HistoryMax) /\ said' \in Seq(Bytes)
      /\ Asks \in Nat /\ Asks' \in Nat /\ Asks <= Asks'
  BY <1>1, <1>3, SayKeeps DEF MemInv
<1> QED BY <1>1, <1>2, <1>4, NotedKeeps

LEMMA ResetKeeps ==
    ASSUME SizeAssumption, MemInv, SessionReset
    PROVE  MemInv'
<1>1. /\ history' = <<>> /\ said' = <<>> /\ turn' = 0 /\ memory' = Cleared
      /\ asked' = FALSE /\ goal' = goal
  BY DEF SessionReset
<1>2. 0 \in Turns /\ HistoryMax \in Nat /\ TurnMod \in Nat \ {0}
  BY DEF Turns, SizeAssumption
<1>3. /\ <<>> \in Seq(Bytes) /\ Len(<<>>) = 0
      /\ <<>> \in Cut(HistoryMax) /\ <<>> \in Cut(SummaryMax) /\ <<>> \in Cut(DetailMax)
  BY <1>2 DEF Cut, SizeAssumption
<1>4. NoEntry \in Entry /\ NoEntry.state = "NONE" /\ NoEntry.created = 0 /\ NoEntry.updated = 0
  BY <1>2, <1>3 DEF NoEntry, Entry, States
<1>5. memory' \in [MemorySlots -> Entry] /\ \A s \in MemorySlots : memory'[s] = NoEntry
  BY <1>1, <1>4 DEF Cleared
<1>6. "task" \in MemorySlots
  BY DEF MemorySlots
<1>7. AsksIn(said') = {}
  BY <1>1, <1>3 DEF AsksIn
<1>8. Asks' = 0
  BY <1>7, FS_EmptySet DEF Asks
<1>9. CurrentTask' /\ RawIsWhole' /\ TurnsInOrder'
  BY <1>1, <1>4, <1>5, <1>6 DEF CurrentTask, RawIsWhole, TurnsInOrder
<1>10. goal' \in Texts \cup {NoGoal}
  BY <1>1 DEF MemInv
<1>11. asked' \in BOOLEAN
  BY <1>1, Zenon
<1>12. history' \in Cut(HistoryMax) /\ said' \in Seq(Bytes) /\ turn' \in Turns
  BY <1>1, <1>2, <1>3, Zenon
<1>13. turn' <= Asks'
  BY <1>1, <1>8
<1> QED BY <1>5, <1>9, <1>10, <1>11, <1>12, <1>13, Zenon DEF MemInv

LEMMA QuestionKeeps ==
    ASSUME TextAssumption, SizeAssumption, MemInv, NEW g \in Texts, GoalLine(g)
    PROVE  MemInv'
<1> DEFINE w == Summary(g, SummaryMax)
<1>1. /\ goal' = g /\ asked' = TRUE /\ turn' = (turn + 1) % TurnMod
      /\ memory' = SetSlot(memory, "task", "DERIVED", w, <<>>, FALSE, turn')
      /\ Say("U", g)
  BY DEF GoalLine, NoteUser
<1>2. g \in Seq(Bytes) /\ goal' \in Texts \cup {NoGoal} /\ g # NoGoal
  BY <1>1 DEF TextAssumption
<1>3. "U" \in Bytes
  BY DEF Bytes
<1>4. /\ history' \in Cut(HistoryMax) /\ said' \in Seq(Bytes)
      /\ Asks \in Nat /\ Asks' \in Nat /\ Asks + 1 <= Asks'
  BY <1>1, <1>2, <1>3, SayKeeps DEF MemInv
<1>5. TurnMod \in Nat \ {0} /\ turn \in Nat /\ turn < TurnMod
  BY DEF SizeAssumption, MemInv, Turns
<1>6. turn' \in Turns /\ (turn + 1 < TurnMod => turn' = turn + 1)
  <2> DEFINE n == turn + 1
  <2>1. n \in Nat
    BY <1>5
  <2> HIDE DEF n
  <2>2. n % TurnMod \in 0..TurnMod - 1 /\ (n < TurnMod => n % TurnMod = n)
    BY <1>5, <2>1
  <2> QED BY <1>1, <2>2 DEF Turns, n
<1>7. w \in Cut(SummaryMax) /\ <<>> \in Cut(DetailMax) /\ Len(<<>>) = 0
  BY <1>2, SummaryFacts DEF Cut, SizeAssumption
<1>8. /\ "task" \in MemorySlots /\ "DERIVED" \in States
      /\ memory \in [MemorySlots -> Entry]
  BY DEF MemorySlots, States, MemInv
<1>9. /\ memory' \in [MemorySlots -> Entry]
      /\ \A s \in MemorySlots \ {"task"} : memory'[s] = memory[s]
      /\ memory'["task"].state = "DERIVED" /\ memory'["task"].summary = w
      /\ memory'["task"].detail = <<>> /\ memory'["task"].updated = turn'
      /\ \/ memory'["task"].created = turn'
         \/ memory'["task"].created = memory["task"].created
  <2> DEFINE n == SetSlot(memory, "task", "DERIVED", w, <<>>, FALSE, turn')
  <2> HIDE DEF w
  <2>1. FALSE \in BOOLEAN /\ turn' \in Turns
    BY <1>6, Zenon
  <2>2. ASSUME NEW t \in Turns
        PROVE  TaskNoted(SetSlot(memory, "task", "DERIVED", w, <<>>, FALSE, t),
                         "DERIVED", w, <<>>, t)
    BY <1>7, <1>8, <2>1, SetSlotTask
  <2>3. TaskNoted(n, "DERIVED", w, <<>>, turn')
    BY <2>1, <2>2, Zenon
  <2>4. memory' = n
    BY <1>1
  <2> HIDE DEF n
  <2>5. TaskNoted(memory', "DERIVED", w, <<>>, turn')
    BY <2>3, <2>4, Zenon
  <2> QED BY <2>5, Zenon DEF TaskNoted
<1>10. CurrentTask'
  <2>1. /\ WorkingLimit \in Nat /\ Overhead \in Nat /\ SummaryMax \in Nat \ {0}
        /\ Overhead + SummaryMax <= WorkingLimit
    BY DEF SizeAssumption
  <2>2. Len(w) \in Nat /\ Len(w) <= SummaryMax
    BY <1>7, LenProperties DEF Cut
  <2> DEFINE l == IF w = <<>> THEN 0 ELSE Overhead + Len(w) + Len(<<>>)
  <2>3. Line("task")' = l
    BY <1>9 DEF Line
  <2>4. l \in Nat /\ l <= WorkingLimit /\ WorkingLimit > 0
    BY <1>7, <2>1, <2>2
  <2>5. Before("task")' = 0
    BY DEF Before
  <2> HIDE DEF l
  <2>6. Shown("task")' = l
    BY <2>1, <2>3, <2>4, <2>5 DEF Shown, Least
  <2>7. /\ Len(w) <= Len(g) /\ w = SubSeq(g, 1, Len(w))
        /\ Valid(g) => w = g \/ SummaryMax - Len(w) < 3
    <3>1. \A i \in 1..Len(g) : g[i] # "nl"
      BY DEF GoalLine
    <3>2. SummaryMax \in Nat
      BY <2>1
    <3> QED BY <1>2, <3>1, <3>2, QuestionShown
  <2> HIDE DEF w
  <2> QED BY <1>1, <1>9, <2>3, <2>6, <2>7 DEF CurrentTask
<1>11. RawIsWhole'
  <2>1. \A s \in MemorySlots : memory'[s].state = "RAW" => memory'[s] = memory[s]
    BY <1>9
  <2> QED BY <2>1, Zenon DEF MemInv, RawIsWhole
<1>12. Asks' < TurnMod => Asks < TurnMod /\ turn <= Asks /\ turn' = turn + 1
  BY <1>4, <1>5, <1>6 DEF MemInv
<1>13. TurnsInOrder'
  <2> SUFFICES ASSUME Asks' < TurnMod, NEW s \in MemorySlots
               PROVE  memory'[s].created <= memory'[s].updated /\ memory'[s].updated <= turn'
    BY DEF TurnsInOrder, Asks, AsksIn
  <2>1. memory[s].created <= memory[s].updated /\ memory[s].updated <= turn
    BY <1>12 DEF MemInv, TurnsInOrder, Asks, AsksIn
  <2>2. memory[s].created \in Nat /\ memory[s].updated \in Nat
    BY DEF MemInv, Entry, Turns
  <2>3. CASE s # "task"
    BY <1>5, <1>9, <1>12, <2>1, <2>2, <2>3
  <2>4. CASE s = "task"
    BY <1>5, <1>9, <1>12, <2>1, <2>2, <2>4
  <2> QED BY <2>3, <2>4
<1>14. Asks' < TurnMod => turn' <= Asks'
  BY <1>4, <1>5, <1>12
<1>15. asked' \in BOOLEAN
  BY <1>1
<1> QED BY <1>2, <1>4, <1>6, <1>9, <1>10, <1>11, <1>13, <1>14, <1>15 DEF MemInv
LEMMA UnansweredKeeps ==
    ASSUME SizeAssumption, MemInv, Unanswered
    PROVE  MemInv'
<1>1. /\ goal' = NoGoal /\ asked' = FALSE /\ turn' = turn /\ memory' = memory
      /\ history' = history /\ said' = said
  BY DEF Unanswered
<1>2. said \in Seq(Bytes) /\ Len(said) \in Nat /\ AsksIn(said) \subseteq 1..Len(said)
  BY LenProperties DEF MemInv, AsksIn
<1>3. Asks \in Nat
  <2> DEFINE a == AsksIn(said)
             n == Len(said)
  <2>1. IsFiniteSet(1..n)
    BY <1>2, FS_Interval
  <2> HIDE DEF a, n
  <2>2. IsFiniteSet(a)
    BY <1>2, <2>1, FS_Subset DEF a, n
  <2> QED BY <2>2, FS_CardinalityType DEF Asks, a
<1>4. Asks' = Asks
  BY <1>1 DEF Asks, AsksIn
<1>5. Noted(memory', turn) /\ memory'["task"] = memory["task"]
  BY <1>1 DEF Noted, MemInv
<1>6. history' \in Cut(HistoryMax) /\ said' \in Seq(Bytes) /\ Asks <= Asks' /\ Asks' \in Nat
  BY <1>1, <1>3, <1>4 DEF MemInv
<1> QED BY <1>1, <1>3, <1>5, <1>6, NotedKeeps
-----------------------------------------------------------------------------
(* The specification keeps both. *)

SpecInv == StoreInv /\ MemInv

\* No key is held: at boot and after a reset.
LEMMA EmptyStore ==
    ASSUME SizeAssumption,
           keys' = [i \in 1..Slots |-> NoKey], values' = [i \in 1..Slots |-> <<>>],
           last' = [k \in Keys |-> <<>>], order' = <<>>
    PROVE  StoreInv'
<1>1. Slots \in Nat \ {0} /\ ValueMax \in Nat
  BY DEF SizeAssumption
<1>2. <<>> \in Seq(Bytes) /\ Len(<<>>) = 0 /\ <<>> \in Seq(Keys \ LongKeys)
  OBVIOUS
<1>3. StoreTypes'
  BY <1>1, <1>2 DEF StoreTypes
<1>4. \A i \in 1..Slots : keys'[i] = NoKey /\ i > Len(order')
  BY <1>1, <1>2
<1> QED BY <1>1, <1>2, <1>3, <1>4 DEF StoreInv

LEMMA InitStore ==
    ASSUME SizeAssumption, Init
    PROVE  StoreInv
<1>1. /\ keys = [i \in 1..Slots |-> NoKey] /\ values = [i \in 1..Slots |-> <<>>]
      /\ last = [k \in Keys |-> <<>>] /\ order = <<>>
  BY DEF Init
<1>2. Slots \in Nat \ {0} /\ ValueMax \in Nat
  BY DEF SizeAssumption
<1>3. <<>> \in Seq(Bytes) /\ Len(<<>>) = 0 /\ <<>> \in Seq(Keys \ LongKeys)
  OBVIOUS
<1>4. StoreTypes
  BY <1>1, <1>2, <1>3 DEF StoreTypes
<1>5. \A i \in 1..Slots : keys[i] = NoKey /\ i > Len(order)
  BY <1>1, <1>2, <1>3
<1> QED BY <1>1, <1>2, <1>3, <1>4, <1>5 DEF StoreInv

LEMMA InitMem ==
    ASSUME SizeAssumption, Init
    PROVE  MemInv
<1>1. /\ goal = NoGoal /\ asked = FALSE /\ history = <<>> /\ said = <<>> /\ turn = 0
      /\ memory = [s \in MemorySlots |-> NoEntry]
  BY DEF Init
<1>2. 0 \in Turns /\ HistoryMax \in Nat /\ TurnMod \in Nat \ {0}
  BY DEF Turns, SizeAssumption
<1>3. /\ <<>> \in Seq(Bytes) /\ Len(<<>>) = 0
      /\ <<>> \in Cut(HistoryMax) /\ <<>> \in Cut(SummaryMax) /\ <<>> \in Cut(DetailMax)
  BY <1>2 DEF Cut, SizeAssumption
<1>4. NoEntry \in Entry /\ NoEntry.state = "NONE" /\ NoEntry.created = 0 /\ NoEntry.updated = 0
  BY <1>2, <1>3 DEF NoEntry, Entry, States
<1>5. memory \in [MemorySlots -> Entry] /\ \A s \in MemorySlots : memory[s] = NoEntry
  BY <1>1, <1>4
<1>6. AsksIn(said) = {}
  BY <1>1, <1>3 DEF AsksIn
<1>7. Asks = 0
  BY <1>6, FS_EmptySet DEF Asks
<1>8. CurrentTask /\ RawIsWhole /\ TurnsInOrder
  BY <1>1, <1>4, <1>5 DEF CurrentTask, RawIsWhole, TurnsInOrder
<1>9. goal \in Texts \cup {NoGoal} /\ history \in Cut(HistoryMax) /\ said \in Seq(Bytes)
      /\ turn \in Turns /\ turn <= Asks
  BY <1>1, <1>2, <1>3, <1>7
<1>10. asked \in BOOLEAN
  BY <1>1, Zenon
<1> QED BY <1>5, <1>8, <1>9, <1>10, Zenon DEF MemInv

\* What a tool tells the model is text: what it found, or a stored value.
LEMMA StepKeeps ==
    ASSUME TextAssumption, KeyAssumption, SizeAssumption, SpecInv, Next
    PROVE  SpecInv'
<1>1. ASSUME NEW g \in Texts, GoalLine(g) PROVE SpecInv'
  <2>1. StoreInv'
    BY <1>1 DEF SpecInv, GoalLine, store, StoreInv, StoreTypes
  <2> QED BY <1>1, <2>1, QuestionKeeps DEF SpecInv
<1>2. ASSUME NEW tool \in Tools, NEW text \in Texts, NEW u \in Urls, Tool(tool, text, u)
      PROVE  SpecInv'
  <2>1. /\ text \in Seq(Bytes) /\ u \in Seq(Bytes)
        /\ "last_fetch_url" \in Keys /\ "last_posts" \in Keys
    BY DEF TextAssumption, KeyAssumption, AutoKeys
  <2>2. MemInv'
    BY <1>2, <2>1, TellKeeps DEF SpecInv, Tool
  <2>3. Write("last_fetch_url", u) \/ Write("last_posts", text) \/ UNCHANGED store
    BY <1>2 DEF Tool
  <2>4. StoreInv'
    <3>1. CASE Write("last_fetch_url", u)
      BY <2>1, <3>1, WriteKeeps DEF SpecInv
    <3>2. CASE Write("last_posts", text)
      BY <2>1, <3>2, WriteKeeps DEF SpecInv
    <3>3. CASE UNCHANGED store
      BY <3>3 DEF SpecInv, store, StoreInv, StoreTypes
    <3> QED BY <2>3, <3>1, <3>2, <3>3
  <2> QED BY <2>2, <2>4 DEF SpecInv
<1>3. ASSUME NEW k \in Keys, ReadState(k) PROVE SpecInv'
  <2>1. last[k] \in Seq(Bytes) /\ <<>> \in Seq(Bytes)
    BY DEF SpecInv, StoreInv, StoreTypes
  <2>2. Read(k) \in Seq(Bytes)
    BY <2>1, StoreShows DEF SpecInv, ReadsLast
  <2>3. CompactedText \in Seq(Bytes)
    BY DEF CompactedText, Bytes
  <2> DEFINE t == IF Read(k) = <<>> THEN CompactedText ELSE Read(k)
  <2>4. Tell("none", t) /\ UNCHANGED store
    BY <1>3 DEF ReadState
  <2>5. t \in Seq(Bytes)
    BY <2>2, <2>3
  <2> HIDE DEF t
  <2>6. MemInv'
    BY <2>4, <2>5, TellKeeps DEF SpecInv
  <2>7. StoreInv'
    BY <2>4 DEF SpecInv, store, StoreInv, StoreTypes
  <2> QED BY <2>6, <2>7 DEF SpecInv
<1>4. ASSUME NEW k \in Keys, NEW v \in Texts, WriteState(k, v) PROVE SpecInv'
  <2>1. v \in Seq(Bytes) /\ CompactedText \in Seq(Bytes)
    BY DEF TextAssumption, CompactedText, Bytes
  <2>2. MemInv'
    BY <1>4, <2>1, TellKeeps DEF SpecInv, WriteState
  <2>3. StoreInv'
    BY <1>4, <2>1, WriteKeeps DEF SpecInv, WriteState
  <2> QED BY <2>2, <2>3 DEF SpecInv
<1>5. ASSUME NEW text \in Texts, Answer(text) PROVE SpecInv'
  <2>1. text \in Seq(Bytes)
    BY DEF TextAssumption
  <2>2. StoreInv'
    BY <1>5 DEF SpecInv, Answer, store, StoreInv, StoreTypes
  <2> QED BY <1>5, <2>1, <2>2, AnswerKeeps DEF SpecInv
<1>6. CASE Unanswered
  <2>1. StoreInv'
    BY <1>6 DEF SpecInv, Unanswered, store, StoreInv, StoreTypes
  <2> QED BY <1>6, <2>1, UnansweredKeeps DEF SpecInv
<1>7. CASE SessionReset
  <2>1. StoreInv'
    BY <1>7, EmptyStore DEF SessionReset
  <2> QED BY <1>7, <2>1, ResetKeeps DEF SpecInv
<1> QED BY <1>1, <1>2, <1>3, <1>4, <1>5, <1>6, <1>7 DEF Next

\* SpecInv is invariant under the assumptions on the constants.
THEOREM InvariantHolds == Spec => []SpecInv
<1> USE TextAssumption, KeyAssumption, SizeAssumption
<1>1. Init => SpecInv
  BY InitStore, InitMem DEF SpecInv
<1>2. SpecInv /\ [Next]_vars => SpecInv'
  <2>1. SpecInv /\ Next => SpecInv'
    BY StepKeeps
  <2>2. SpecInv /\ UNCHANGED vars => SpecInv'
    <3> SUFFICES ASSUME SpecInv, UNCHANGED vars PROVE SpecInv'
      OBVIOUS
    <3>1. UNCHANGED <<goal, keys, values, history, memory, turn, said, last, order, asked>>
      BY DEF vars
    <3>2. StoreInv'
      BY <3>1 DEF SpecInv, StoreInv, StoreTypes
    <3>3. (CurrentTask /\ RawIsWhole /\ TurnsInOrder)'
      BY <3>1 DEF SpecInv, MemInv, CurrentTask, RawIsWhole, TurnsInOrder, Line, Shown, Before
    <3>4. Asks' = Asks
      BY <3>1 DEF Asks, AsksIn
    <3>5. MemInv'
      BY <3>1, <3>3, <3>4, Zenon DEF SpecInv, MemInv
    <3> QED BY <3>2, <3>5 DEF SpecInv
  <2> QED BY <2>1, <2>2
<1> QED BY <1>1, <1>2, PTL DEF Spec
-----------------------------------------------------------------------------
(* What follows for the specification. *)

\* The statics stay within their arrays, whatever is asked, found and stored.
THEOREM TypeCorrect == Spec => []TypeOK
<1>1. SpecInv => TypeOK
  BY DEF SpecInv, StoreInv, StoreTypes, MemInv, TypeOK, Entry, Cut, Turns
<1> QED BY <1>1, InvariantHolds, PTL

\* read_session_state answers with what write_session_state or the loop
\* stored last under the key, or with nothing.
THEOREM ReadsAlwaysLast == Spec => []ReadsLast
<1>1. SpecInv => ReadsLast
  BY SizeAssumption, KeyAssumption, StoreShows DEF SpecInv
<1> QED BY <1>1, InvariantHolds, PTL

\* alloc_slot gives the first slot away and no other one.
THEOREM KeysAlwaysKept == Spec => []KeysKept
<1>1. SpecInv => KeysKept
  BY SizeAssumption, KeyAssumption, StoreShows DEF SpecInv
<1> QED BY <1>1, InvariantHolds, PTL

\* append_slots_to shows what summary_from_text left of the running turn's
\* question, its beginning up to SummaryMax, however long the other entries
\* are; after a reset in the turn it shows no task.
THEOREM TaskAlwaysCurrent == Spec => []CurrentTask
<1>1. SpecInv => CurrentTask
  BY DEF SpecInv, MemInv
<1> QED BY <1>1, InvariantHolds, PTL

\* The turns set_slot stamps are in order while M7_MEMORY_TURN has not wrapped.
THEOREM TurnsAlwaysInOrder == Spec => []TurnsInOrder
<1>1. SpecInv => TurnsInOrder
  BY DEF SpecInv, MemInv
<1> QED BY <1>1, InvariantHolds, PTL

\* note_tool_result marks an entry RAW only when it kept the whole result.
THEOREM RawAlwaysWhole == Spec => []RawIsWhole
<1>1. SpecInv => RawIsWhole
  BY DEF SpecInv, MemInv
<1> QED BY <1>1, InvariantHolds, PTL
-----------------------------------------------------------------------------
(* Characters: the history and what a prompt shows of it. *)

LEMMA SplitConcat ==
    ASSUME NEW h \in Seq(Bytes), NEW p \in Seq(Bytes), p # <<>>
    PROVE  /\ Ends(h \o p, p) /\ Len(h \o p) - Len(p) = Len(h)
           /\ SubSeq(h \o p, 1, Len(h)) = h
<1>1. /\ Len(h) \in Nat /\ Len(p) \in Nat \ {0}
      /\ Len(h \o p) = Len(h) + Len(p)
  BY LenProperties, EmptySeq, ConcatProperties
<1>2. SubSeq(h \o p, Len(h) + 1, Len(h) + Len(p)) = SubSeq(p, 1, Len(p))
  <2>1. /\ Len(h) + 1 \in Len(h) + 1 .. Len(h) + Len(p)
        /\ Len(h) + Len(p) \in Len(h) + 1 .. Len(h) + Len(p)
        /\ Len(h) + 1 - Len(h) = 1 /\ Len(h) + Len(p) - Len(h) = Len(p)
    BY <1>1
  <2>2. SubSeq(h \o p, Len(h) + 1, Len(h) + Len(p))
          = SubSeq(p, Len(h) + 1 - Len(h), Len(h) + Len(p) - Len(h))
    BY <2>1, SubSeqOfConcat2
  <2> QED BY <2>1, <2>2
<1>3. SubSeq(p, 1, Len(p)) = p
  BY SubSeqFull
<1>4. Len(h) + Len(p) - Len(p) + 1 = Len(h) + 1 /\ Len(p) <= Len(h) + Len(p)
      /\ Len(h) + Len(p) - Len(p) = Len(h)
  BY <1>1
<1>5. Ends(h \o p, p)
  BY <1>1, <1>2, <1>3, <1>4 DEF Ends
<1>6. CASE h = <<>>
  <2>1. Len(h) = 0
    BY <1>6
  <2>2. SubSeq(h \o p, 1, Len(h)) = <<>>
    BY <2>1, SubSeqEmpty
  <2> QED BY <1>1, <1>4, <1>5, <1>6, <2>2
<1>7. CASE h # <<>>
  <2>1. 1 \in 1..Len(h) /\ Len(h) \in 1..Len(h)
    BY <1>1, <1>7, EmptySeq
  <2>2. SubSeq(h \o p, 1, Len(h)) = SubSeq(h, 1, Len(h))
    BY <2>1, SubSeqOfConcat1
  <2>3. SubSeq(h, 1, Len(h)) = h
    BY SubSeqFull
  <2> QED BY <1>1, <1>4, <1>5, <2>2, <2>3
<1> QED BY <1>6, <1>7

LEMMA SuffixValid ==
    ASSUME NEW s \in Seq(Bytes), Valid(s), NEW max \in Nat
    PROVE  Valid(Suffix(s, max))
<1> DEFINE cut == IF Len(s) <= max THEN 1 ELSE Len(s) - max + 1
           starts == {n \in cut..Len(s) + 1 : n <= Len(s) => s[n] \notin {"x2", "x3"}}
           n == CHOOSE k \in starts : \A m \in starts : k <= m
<1>1. Len(s) \in Nat /\ cut \in 1..Len(s) + 1
  BY LenProperties
<1> HIDE DEF cut
<1>2. Len(s) + 1 \in starts
  BY <1>1
<1>3. n \in starts
  <2>1. starts \in SUBSET Nat /\ starts # {}
    BY <1>1, <1>2
  <2> HIDE DEF starts
  <2> QED BY <2>1, SmallestIn
<1>4. Suffix(s, max) = SubSeq(s, n, Len(s))
  BY DEF Suffix, cut
<1> HIDE DEF n
<1>5. n \in 1..Len(s) + 1 /\ (n <= Len(s) => s[n] \notin {"x2", "x3"})
  BY <1>1, <1>3
<1> QED BY <1>4, <1>5, ValidRest


\* Nothing that is valid is missing from the history, or it is full.
WholeOrFull(a, h, s) ==
    /\ Len(a) \in Nat /\ Len(h) <= Len(a)
    /\ Valid(s) => a = h \o s \/ HistoryMax - Len(a) < 3

LEMMA AppendedWhole ==
    ASSUME SizeAssumption, NEW h \in Cut(HistoryMax), NEW s \in Seq(Bytes)
    PROVE  /\ Valid(h) => Valid(Appended(h, s))
           /\ WholeOrFull(Appended(h, s), h, s)
<1> DEFINE room == HistoryMax - Len(h)
           p == Utf8Prefix(s, room)
           a == h \o p
<1>1. h \in Seq(Bytes) /\ Len(h) \in Nat /\ HistoryMax \in Nat /\ room \in Nat
      /\ Len(s) \in Nat /\ room + Len(h) = HistoryMax
  BY LenProperties DEF Cut, SizeAssumption
<1>2. Appended(h, s) = a
  BY DEF Appended
<1> HIDE DEF room
<1>3. /\ p \in Seq(Bytes) /\ Valid(p)
      /\ Valid(s) /\ Len(s) <= room => p = s
      /\ Valid(s) /\ room < Len(s) => room - Len(p) < 3
  BY <1>1, PrefixFacts, PrefixValid
<1> HIDE DEF p
<1>4. Len(a) = Len(h) + Len(p) /\ Len(p) \in Nat
  BY <1>1, <1>3, ConcatAt
<1>5. Valid(h) => Valid(a)
  BY <1>1, <1>3, ValidConcat
<1>6. Valid(s) => a = h \o s \/ HistoryMax - Len(a) < 3
  BY <1>1, <1>3, <1>4
<1> HIDE DEF a
<1>7. WholeOrFull(a, h, s)
  BY <1>1, <1>4, <1>6 DEF WholeOrFull
<1> QED BY <1>2, <1>5, <1>7

\* The three appends of a record leave out no more than one of them does.
LEMMA RecordWhole ==
    ASSUME SizeAssumption, NEW h \in Cut(HistoryMax),
           NEW tag \in Bytes \ {"x1", "x2", "x3"}, NEW text \in Seq(Bytes)
    PROVE  /\ Valid(h) => Valid(Record(h, tag, text))
           /\ WholeOrFull(Record(h, tag, text), h, Piece(tag, text)) \/ ~Valid(text)
           /\ Len(Record(h, tag, text)) \in Nat /\ Len(h) <= Len(Record(h, tag, text))
<1> DEFINE a == Appended(h, <<tag>>)
           b == Appended(a, text)
           c == Appended(b, <<"nl">>)
<1>1. /\ <<tag>> \in Seq(Bytes) /\ <<"nl">> \in Seq(Bytes)
      /\ Valid(<<tag>>) /\ Valid(<<"nl">>)
  BY DEF Bytes, Valid
<1>2. a \in Cut(HistoryMax) /\ (Valid(h) => Valid(a)) /\ WholeOrFull(a, h, <<tag>>)
  BY <1>1, AppendedFacts, AppendedWhole
<1> HIDE DEF a
<1>3. b \in Cut(HistoryMax) /\ (Valid(a) => Valid(b)) /\ WholeOrFull(b, a, text)
  BY <1>2, AppendedFacts, AppendedWhole
<1> HIDE DEF b
<1>4. c \in Cut(HistoryMax) /\ (Valid(b) => Valid(c)) /\ WholeOrFull(c, b, <<"nl">>)
  BY <1>1, <1>3, AppendedFacts, AppendedWhole
<1>5. Record(h, tag, text) = c
  BY DEF Record, a, b
<1> HIDE DEF c
<1>6. /\ Len(a) \in Nat /\ Len(b) \in Nat /\ Len(c) \in Nat /\ Len(h) \in Nat
      /\ Len(h) <= Len(a) /\ Len(a) <= Len(b) /\ Len(b) <= Len(c) /\ HistoryMax \in Nat
  BY <1>2, <1>3, <1>4, LenProperties DEF WholeOrFull, Cut, SizeAssumption
<1>7. ASSUME Valid(text) PROVE WholeOrFull(c, h, Piece(tag, text))
  <2>1. CASE HistoryMax - Len(a) < 3 \/ HistoryMax - Len(b) < 3 \/ HistoryMax - Len(c) < 3
    <3>1. HistoryMax - Len(c) < 3
      BY <1>6, <2>1
    <3> QED BY <1>6, <3>1 DEF WholeOrFull
  <2>2. CASE a = h \o <<tag>> /\ b = a \o text /\ c = b \o <<"nl">>
    <3>1. h \in Seq(Bytes)
      BY DEF Cut
    <3>2. (h \o <<tag>>) \o text = h \o (<<tag>> \o text)
      BY <1>1, <3>1, ConcatAssociative
    <3>3. <<tag>> \o text \in Seq(Bytes)
      BY <1>1, ConcatAt
    <3>4. (h \o (<<tag>> \o text)) \o <<"nl">> = h \o ((<<tag>> \o text) \o <<"nl">>)
      BY <1>1, <3>1, <3>3, ConcatAssociative
    <3>5. c = h \o Piece(tag, text)
      BY <2>2, <3>2, <3>4 DEF Piece
    <3> QED BY <1>6, <3>5 DEF WholeOrFull
  <2> QED BY <1>1, <1>2, <1>3, <1>4, <1>7, <2>1, <2>2 DEF WholeOrFull
<1> QED BY <1>2, <1>3, <1>4, <1>5, <1>6, <1>7

\* A valid text is valid on both sides of a byte that begins a character.
LEMMA ValidSplit ==
    ASSUME NEW h \in Seq(Bytes), NEW p \in Seq(Bytes), p # <<>>,
           p[1] \notin {"x2", "x3"}, Valid(h \o p)
    PROVE  Valid(h) /\ Valid(p)
<1> DEFINE c == h \o p
           n == Len(h)
<1>1. /\ c \in Seq(Bytes) /\ n \in Nat /\ Len(p) \in Nat /\ Len(c) = n + Len(p)
      /\ \A i \in 1..Len(p) : c[n + i] = p[i]
  BY ConcatAt
<1>2. Len(p) > 0
  BY <1>1, EmptySeq
<1>3. c[n + 1] = p[1]
  BY <1>1, <1>2
<1>4. SubSeq(c, 1, n) = h
  BY SplitConcat
<1>5. Ends(c, p)
  BY SplitConcat
<1>6. Valid(c)
  OBVIOUS
<1> HIDE DEF c, n
<1>7. Len(c) - Len(p) + 1 = n + 1 /\ n \in 0..Len(c) /\ n + 1 \in 1..Len(c) + 1
  BY <1>1
<1>8. SubSeq(c, n + 1, Len(c)) = p
  BY <1>5, <1>7 DEF Ends
<1>9. Valid(SubSeq(c, 1, n))
  BY <1>1, <1>3, <1>6, <1>7, ValidCut
<1>10. Valid(SubSeq(c, n + 1, Len(c)))
  BY <1>1, <1>3, <1>6, <1>7, ValidRest
<1> QED BY <1>4, <1>8, <1>9, <1>10

LEMMA PieceNotEmpty ==
    ASSUME NEW tag \in Bytes, NEW text \in Seq(Bytes)
    PROVE  Piece(tag, text) # <<>>
<1> DEFINE p == Piece(tag, text)
<1>1. Len(text) \in Nat
  BY LenProperties
<1>2. Len(p) = Len(text) + 2 /\ Len(p) # 0
  BY <1>1, PieceFacts
<1> HIDE DEF p
<1>3. p # <<>>
  BY <1>2
<1> QED BY <1>3 DEF p

\* A valid conversation is one of valid texts.
LEMMA SaidSplit ==
    ASSUME NEW h \in Seq(Bytes), NEW tag \in Bytes \ {"x1", "x2", "x3"},
           NEW text \in Seq(Bytes), Valid(h \o Piece(tag, text))
    PROVE  Valid(h) /\ Valid(text)
<1> DEFINE p == Piece(tag, text)
           a == <<tag>> \o text
<1>1. p \in Seq(Bytes) /\ p # <<>> /\ p[1] = tag /\ <<tag>> \in Seq(Bytes) /\ <<"nl">> \in Seq(Bytes)
  BY PieceFacts, PieceNotEmpty
<1>2. Valid(h) /\ Valid(p)
  <2> HIDE DEF p
  <2>1. Valid(h \o p)
    BY DEF p
  <2> QED BY <1>1, <2>1, ValidSplit
<1>3. p = a \o <<"nl">>
  BY DEF Piece
<1>4. a \in Seq(Bytes)
  BY <1>1, ConcatAt
<1> HIDE DEF p
<1>5. Valid(a)
  <2> HIDE DEF a
  <2>1. <<"nl">> # <<>> /\ <<"nl">>[1] \notin {"x2", "x3"}
    OBVIOUS
  <2> QED BY <1>1, <1>2, <1>3, <1>4, <2>1, ValidSplit
<1> QED BY <1>2, <1>5, ValidTail

HistoryInv ==
    /\ Valid(history)
    /\ Valid(said) => history = said \/ HistoryMax - Len(history) < 3

LEMMA SayWhole ==
    ASSUME SizeAssumption, history \in Cut(HistoryMax), said \in Seq(Bytes), HistoryInv,
           NEW tag \in {"U", "A", "T"}, NEW text \in Seq(Bytes), Say(tag, text)
    PROVE  HistoryInv'
<1>1. /\ said' = said \o Piece(tag, text) /\ history' = Record(history, tag, text)
      /\ tag \in Bytes \ {"x1", "x2", "x3"}
  BY DEF Say, Bytes
<1>2. /\ Valid(history) => Valid(history')
      /\ Valid(text) => WholeOrFull(history', history, Piece(tag, text))
      /\ Len(history') \in Nat /\ Len(history) <= Len(history')
  BY <1>1, RecordWhole
<1>3. Valid(said') => Valid(said) /\ Valid(text)
  BY <1>1, SaidSplit
<1>4. Len(history) \in Nat /\ HistoryMax \in Nat
  BY LenProperties DEF Cut, SizeAssumption
<1>5. ASSUME Valid(said') PROVE history' = said' \/ HistoryMax - Len(history') < 3
  <2>1. CASE HistoryMax - Len(history) < 3
    BY <1>2, <1>4, <2>1
  <2>2. CASE history = said
    <3>1. Valid(Piece(tag, text))
      <4>1. text \in Seq(Bytes) /\ tag \in Bytes /\ Piece(tag, text) \in Seq(Bytes)
        BY <1>1, PieceFacts
      <4>2. Piece(tag, text) # <<>> /\ Piece(tag, text)[1] \notin {"x2", "x3"}
        BY <1>1, <4>1, PieceFacts, PieceNotEmpty
      <4> QED BY <1>1, <1>5, <4>1, <4>2, ValidSplit
    <3>2. WholeOrFull(history', history, Piece(tag, text))
      BY <1>2, <1>3, <1>5
    <3>3. history' = history \o Piece(tag, text) \/ HistoryMax - Len(history') < 3
      BY <3>1, <3>2 DEF WholeOrFull
    <3> QED BY <1>1, <2>2, <3>3
  <2> QED BY <1>3, <1>5, <2>1, <2>2 DEF HistoryInv
<1>6. Valid(history') /\ (Valid(said') => history' = said' \/ HistoryMax - Len(history') < 3)
  BY <1>2, <1>5 DEF HistoryInv
<1> QED BY <1>6 DEF HistoryInv, Valid

\* The history and what a prompt shows of it never hold half a character, and
\* a conversation that is valid is kept whole as long as one more fits.
THEOREM HistoryAlwaysWhole == Spec => []HistoryWhole
<1> USE TextAssumption, SizeAssumption
<1>1. Init => HistoryInv
  BY DEF Init, HistoryInv, Valid
<1>2. SpecInv /\ HistoryInv /\ [Next]_vars => HistoryInv'
  <2> SUFFICES ASSUME SpecInv, HistoryInv, [Next]_vars PROVE HistoryInv'
    OBVIOUS
  <2>1. history \in Cut(HistoryMax) /\ said \in Seq(Bytes)
    BY DEF SpecInv, MemInv
  <2>2. ASSUME NEW g \in Texts, GoalLine(g) PROVE HistoryInv'
    BY <2>1, <2>2, SayWhole DEF GoalLine, TextAssumption
  <2>3. ASSUME NEW tool \in Tools \cup {"none"}, NEW text \in Seq(Bytes), Tell(tool, text)
        PROVE  HistoryInv'
    BY <2>1, <2>3, SayWhole DEF Tell
  <2>4. ASSUME NEW tool \in Tools, NEW text \in Texts, NEW u \in Urls, Tool(tool, text, u)
        PROVE  HistoryInv'
    BY <2>3, <2>4 DEF Tool, TextAssumption
  <2>5. CompactedText \in Seq(Bytes)
    BY DEF CompactedText, Bytes
  <2>6. ASSUME NEW k \in Keys, ReadState(k) PROVE HistoryInv'
    <3>1. last[k] \in Seq(Bytes) /\ <<>> \in Seq(Bytes)
      BY DEF SpecInv, StoreInv, StoreTypes
    <3>2. Read(k) \in Seq(Bytes)
      BY KeyAssumption, <3>1, StoreShows DEF SpecInv, ReadsLast
    <3> QED BY <2>3, <2>5, <2>6, <3>2 DEF ReadState
  <2>7. ASSUME NEW k \in Keys, NEW v \in Texts, WriteState(k, v) PROVE HistoryInv'
    BY <2>3, <2>5, <2>7 DEF WriteState
  <2>8. ASSUME NEW text \in Texts, Answer(text) PROVE HistoryInv'
    BY <2>1, <2>8, SayWhole DEF Answer, TextAssumption
  <2>9. CASE Unanswered \/ UNCHANGED vars
    BY <2>9 DEF Unanswered, vars, HistoryInv, Valid
  <2>10. CASE SessionReset
    BY <2>10 DEF SessionReset, HistoryInv, Valid
  <2> QED BY <2>2, <2>4, <2>6, <2>7, <2>8, <2>9, <2>10 DEF Next
<1>3. SpecInv /\ HistoryInv => HistoryWhole
  <2> SUFFICES ASSUME SpecInv, HistoryInv PROVE HistoryWhole
    OBVIOUS
  <2>1. history \in Seq(Bytes) /\ RecentLimit \in Nat
    BY DEF SpecInv, MemInv, Cut, SizeAssumption
  <2>2. Valid(Suffix(history, RecentLimit))
    BY <2>1, SuffixValid DEF HistoryInv
  <2> QED BY <2>2 DEF HistoryInv, HistoryWhole
<1> QED BY <1>1, <1>2, <1>3, InvariantHolds, PTL DEF Spec
=============================================================================

------------------------- MODULE VirtioNet_rx_proofs -------------------------
(***************************************************************************)
(* The receive half of VirtioNet for every number of buffers, slots and    *)
(* frames: no buffer has two owners, and the handler reads the frame whose *)
(* turn it is.  Ring indices wrap, so the section on % comes first.        *)
(***************************************************************************)
EXTENDS VirtioNet_proofs, Integers, FiniteSetTheorems, SequenceTheorems

-----------------------------------------------------------------------------
(* Indices that wrap *)

\* Division with remainder, and that there is only one.
LEMMA DivMod ==
    ASSUME NEW a \in Nat, NEW n \in Nat \ {0}
    PROVE  a = n * (a \div n) + (a % n) /\ a % n \in 0..n - 1 /\ a \div n \in Nat
  OBVIOUS

LEMMA DivUnique ==
    ASSUME NEW n \in Nat \ {0}, NEW q \in Nat, NEW p \in Nat,
           NEW r \in 0..n - 1, NEW s \in 0..n - 1, n * q + r = n * p + s
    PROVE  q = p /\ r = s
  OBVIOUS

LEMMA ModUnique ==
    ASSUME NEW n \in Nat \ {0}, NEW q \in Nat, NEW r \in 0..n - 1
    PROVE  (n * q + r) % n = r
<1>1. n * q + r \in Nat
  <2>1. n * q \in Nat
    OBVIOUS
  <2> QED BY <2>1
<1> DEFINE a == n * q + r
<1> HIDE DEF a
<1>2. a \in Nat /\ a = n * q + r
  BY <1>1 DEF a
<1>3. a = n * (a \div n) + (a % n) /\ a % n \in 0..n - 1 /\ a \div n \in Nat
  BY <1>2, DivMod
<1>4. n * q + r = n * (a \div n) + (a % n)
  BY <1>2, <1>3
<1>5. a % n = r
  BY <1>3, <1>4, DivUnique
<1> QED BY <1>5 DEF a

\* The next index.
LEMMA ModNext ==
    ASSUME NEW n \in Nat \ {0}, NEW a \in Nat
    PROVE  (a + 1) % n = ((a % n) + 1) % n
<1>1. a = n * (a \div n) + (a % n) /\ a % n \in 0..n - 1 /\ a \div n \in Nat
  BY DivMod
<1> DEFINE q == a \div n
           r == a % n
<1> HIDE DEF q, r
<1>2. CASE r + 1 < n
  <2>1. a + 1 = n * q + (r + 1) /\ r + 1 \in 0..n - 1 /\ r + 1 = n * 0 + (r + 1)
    BY <1>1, <1>2 DEF q, r
  <2>2. (n * q + (r + 1)) % n = r + 1 /\ (n * 0 + (r + 1)) % n = r + 1
    BY <1>1, <2>1, ModUnique DEF q
  <2> QED BY <2>1, <2>2 DEF r
<1>3. CASE r + 1 = n
  <2>1. a + 1 = n * (q + 1) + 0 /\ 0 \in 0..n - 1 /\ r + 1 = n * 1 + 0 /\ q + 1 \in Nat
    BY <1>1, <1>3 DEF q, r
  <2> QED BY <1>1, <2>1, ModUnique DEF q, r
<1> QED BY <1>1, <1>2, <1>3 DEF q, r

\* The distance between two indices less than a lap apart.
LEMMA ModBack ==
    ASSUME NEW n \in Nat \ {0}, NEW t \in Nat, NEW d \in 0..n - 1
    PROVE  (((t + d) % n) + n - (t % n)) % n = d
<1>1. t = n * (t \div n) + (t % n) /\ t % n \in 0..n - 1 /\ t \div n \in Nat
  BY DivMod
<1> DEFINE q == t \div n
           r == t % n
<1> HIDE DEF q, r
<1>2. CASE r + d < n
  <2>1. t + d = n * q + (r + d) /\ r + d \in 0..n - 1 /\ (r + d) + n - r = n * 1 + d
    BY <1>1, <1>2 DEF q, r
  <2>2. (t + d) % n = r + d
    BY <1>1, <2>1, ModUnique DEF q
  <2> QED BY <2>1, <2>2, ModUnique DEF r
<1>3. CASE r + d >= n
  <2>1. t + d = n * (q + 1) + (r + d - n) /\ r + d - n \in 0..n - 1 /\ (r + d - n) + n - r = n * 0 + d /\ q + 1 \in Nat
    BY <1>1, <1>3 DEF q, r
  <2>2. (t + d) % n = r + d - n
    BY <1>1, <2>1, ModUnique DEF q
  <2> QED BY <2>1, <2>2, ModUnique DEF r
<1> QED BY <1>1, <1>2, <1>3 DEF q, r

\* Within a lap no index comes twice.
LEMMA ModInjective ==
    ASSUME NEW n \in Nat \ {0}, NEW i \in Nat, NEW j \in Nat, i < j, j < i + n
    PROVE  i % n # j % n
<1>1. i = n * (i \div n) + (i % n) /\ i % n \in 0..n - 1 /\ i \div n \in Nat
  BY DivMod
<1>2. j = n * (j \div n) + (j % n) /\ j % n \in 0..n - 1 /\ j \div n \in Nat
  BY DivMod
<1> DEFINE q == i \div n
           p == j \div n
<1> HIDE DEF q, p
<1> SUFFICES ASSUME i % n = j % n PROVE FALSE
  OBVIOUS
<1>3. j - i = n * (p - q) /\ p - q \in Int
  BY <1>1, <1>2 DEF p, q
<1>4. CASE p - q >= 1
  <2> DEFINE d == p - q
  <2>1. d \in Nat /\ d >= 1 /\ j - i = n * d
    BY <1>3, <1>4
  <2> HIDE DEF d
  <2>2. n * d >= n
    BY <2>1
  <2> QED BY <2>1, <2>2
<1>5. CASE p - q <= 0
  BY <1>3, <1>5
<1> QED BY <1>3, <1>4, <1>5

\* The slot of a wrapped index.
LEMMA ModMod ==
    ASSUME NEW m \in Nat \ {0}, NEW n \in Nat \ {0}, n % m = 0, NEW a \in Nat
    PROVE  (a % n) % m = a % m
<1>1. a = n * (a \div n) + (a % n) /\ a % n \in 0..n - 1 /\ a \div n \in Nat
  BY DivMod
<1>2. n = m * (n \div m) /\ n \div m \in Nat
  BY DivMod
<1> DEFINE b == a % n
           q == a \div n
           k == n \div m
           p == b \div m
           r == b % m
<1> HIDE DEF b
<1>3. b = m * p + r /\ r \in 0..m - 1 /\ p \in Nat
  <2>1. b \in Nat
    BY <1>1 DEF b
  <2> QED BY <2>1, DivMod
<1> HIDE DEF q, k, p, r
<1>4. a = n * q + (m * p + r) /\ n = m * k /\ q \in Nat /\ k \in Nat /\ p \in Nat /\ r \in 0..m - 1
  BY <1>1, <1>2, <1>3 DEF q, k, b
<1>5. n * q = m * (k * q) /\ k * q \in Nat
  BY <1>4
<1>6. m * (k * q) + m * p = m * (k * q + p) /\ k * q + p \in Nat
  BY <1>4, <1>5
<1>7. a = m * (k * q + p) + r
  BY <1>4, <1>5, <1>6
<1>8. a % m = r
  BY <1>4, <1>6, <1>7, ModUnique
<1> QED BY <1>8 DEF r, b

-----------------------------------------------------------------------------
(* The ring *)

\* The frames between an index the driver has and the device's.
LEMMA TakenBy ==
    ASSUME VirtioAssumption, NEW f \in Nat, NEW t \in Nat, t <= f, f - t < IndexSpan
    PROVE  f - (((f % IndexSpan) + IndexSpan - (t % IndexSpan)) % IndexSpan) = t
<1> DEFINE d == f - t
<1>1. d \in 0..IndexSpan - 1 /\ t + d = f /\ IndexSpan \in Nat \ {0}
  BY DEF VirtioAssumption
<1> HIDE DEF d
<1>2. (((t + d) % IndexSpan) + IndexSpan - (t % IndexSpan)) % IndexSpan = d
  BY <1>1, ModBack
<1> QED BY <1>1, <1>2

\* rx_used_elem_fields finds the slot of the frame before the index.
LEMMA SlotOfFrame ==
    ASSUME VirtioAssumption, NEW n \in Nat \ {0}, n % IndexSpan # 0
    PROVE  SlotOf(n % IndexSpan) = (n - 1) % QueueSize
<1> DEFINE k == n - 1
           r == k % IndexSpan
           s == n % IndexSpan
<1>1. k \in Nat /\ n = k + 1 /\ IndexSpan \in Nat \ {0} /\ QueueSize \in Nat \ {0}
      /\ IndexSpan % QueueSize = 0
  BY DEF VirtioAssumption
<1> HIDE DEF k
<1>2. s = (r + 1) % IndexSpan /\ r \in 0..IndexSpan - 1
  BY <1>1, ModNext, DivMod
<1> HIDE DEF r, s
<1>3. r + 1 # IndexSpan
  <2> SUFFICES ASSUME r + 1 = IndexSpan PROVE FALSE
    OBVIOUS
  <2>1. (IndexSpan * 1 + 0) % IndexSpan = 0
    BY <1>1, ModUnique
  <2>2. s = 0
    BY <1>1, <1>2, <2>1
  <2> QED BY <2>2 DEF s
<1>4. s = r + 1
  <2>1. r + 1 \in 0..IndexSpan - 1 /\ IndexSpan * 0 + (r + 1) = r + 1
    BY <1>1, <1>2, <1>3
  <2>2. (IndexSpan * 0 + (r + 1)) % IndexSpan = r + 1
    BY <1>1, <2>1, ModUnique
  <2> QED BY <1>2, <2>1, <2>2
<1>5. (s + IndexSpan - 1) % IndexSpan = r
  <2>1. s + IndexSpan - 1 = IndexSpan * 1 + r
    BY <1>1, <1>2, <1>4
  <2> QED BY <1>1, <1>2, <2>1, ModUnique
<1>6. r % QueueSize = k % QueueSize
  BY <1>1, ModMod DEF r
<1> QED BY <1>5, <1>6 DEF SlotOf, s, k

-----------------------------------------------------------------------------
(* The invariant *)

RxType ==
    /\ avail \in Seq(Buffers)
    /\ ring \in [0..QueueSize - 1 -> Buffers]
    /\ frames \in 0..MaxFrames
    /\ content \in [Buffers -> 0..MaxFrames]
    /\ lastRx \in 0..IndexSpan - 1
    /\ cur \in Buffers
    /\ needsRearm \in BOOLEAN

Free(b) == \A i \in 1..Len(avail) : avail[i] # b

\* The device has no buffer twice, nor the one rx_rearm is to give back.
Apart ==
    /\ \A i, j \in 1..Len(avail) : avail[i] = avail[j] => i = j
    /\ needsRearm => Free(cur)

Loose == pc \in {"booted", "listen"}
Looping == pc \in {"rx", "frame", "synack", "tick", "ticking", "posted", "after"}
Pending == Taken + 1 .. frames

\* The driver's index counts the frames it has taken; the frames behind it
\* wait in buffers of their own.
Ordered ==
    /\ Taken \in Nat /\ Taken <= frames /\ lastRx = Taken % IndexSpan
    /\ frames - Taken <= BufCount
    /\ \A n \in Pending :
         /\ Free(BufferOf(n))
         /\ content[BufferOf(n)] = n
         /\ needsRearm => BufferOf(n) # cur
    /\ \A m, n \in Pending : BufferOf(m) = BufferOf(n) => m = n

Handled == lastRx # 0 => needsRearm /\ content[cur] = Taken

\* While booting the driver looks at the newest frame only, so between its
\* rearm and the start of the loop the frames it skipped are in no order.
RxInv ==
    /\ RxType /\ Apart
    /\ Loose \/ Looping \/ pc \in {"boot", "bootArp", "bootPing"}
    /\ pc \in {"boot", "bootArp", "bootPing", "listen"} => ~needsRearm
    /\ ~Loose => Ordered
    /\ pc \in {"frame", "synack"} => Handled

-----------------------------------------------------------------------------
(* The steps *)

\* Steps that leave the receive queue alone.
LEMMA StillKeeps ==
    ASSUME RxInv, UNCHANGED rxVars,
           \/ pc' = pc
           \/ pc \in {"bootArp", "bootPing"} /\ pc' = "booted"
           \/ Looping /\ Looping' /\ (pc' \in {"frame", "synack"} => pc \in {"frame", "synack"})
    PROVE  RxInv'
<1>1. /\ avail' = avail /\ ring' = ring /\ frames' = frames /\ content' = content
      /\ lastRx' = lastRx /\ cur' = cur /\ needsRearm' = needsRearm
  BY DEF rxVars
<1>2. RxType'
  BY <1>1, Zenon DEF RxInv, RxType
<1>3. Apart'
  BY <1>1 DEF RxInv, Apart, Free
<1>4. Ordered => Ordered'
  BY <1>1 DEF Ordered, Pending, Taken, rx_used_idx, BufferOf, Free
<1>5. Handled => Handled'
  BY <1>1 DEF Handled, Taken, rx_used_idx
<1> QED BY <1>1, <1>2, <1>3, <1>4, <1>5 DEF RxInv, Loose, Looping

\* rx_rearm.
LEMMA RearmKeeps ==
    ASSUME RxInv, Rearm, UNCHANGED <<ring, frames, content, lastRx, cur>>,
           \/ pc = "booted" /\ pc' = "listen"
           \/ Looping /\ pc' \in {"rx", "after"}
    PROVE  RxInv'
<1>1. RxType /\ Apart
  BY DEF RxInv
<1>2. /\ Len(avail) \in Nat
      /\ Append(avail, cur) \in Seq(Buffers) /\ Len(Append(avail, cur)) = Len(avail) + 1
      /\ \A i \in 1..Len(avail) : Append(avail, cur)[i] = avail[i]
      /\ Append(avail, cur)[Len(avail) + 1] = cur
  BY <1>1, AppendProperties, LenProperties DEF RxType
<1>3. /\ ring' = ring /\ frames' = frames /\ content' = content
      /\ lastRx' = lastRx /\ cur' = cur /\ needsRearm' = FALSE
      /\ (avail' = Append(avail, cur) /\ Free(cur)) \/ avail' = avail
  BY <1>1, Zenon DEF Rearm, Apart
<1>4. RxType'
  BY <1>1, <1>2, <1>3 DEF RxType
<1>5. Apart'
  BY <1>1, <1>2, <1>3 DEF Apart, Free
<1>6. ASSUME Ordered PROVE Ordered'
  <2>1. Taken' = Taken /\ Pending' = Pending /\ \A n : BufferOf(n)' = BufferOf(n)
    BY <1>3 DEF Taken, rx_used_idx, Pending, BufferOf
  <2>2. ASSUME NEW n \in Pending PROVE Free(BufferOf(n))'
    <3>1. CASE avail' = avail
      BY <1>6, <2>1, <3>1 DEF Ordered, Free
    <3>2. CASE avail' # avail
      <4>1. BufferOf(n) # cur /\ Free(BufferOf(n)) /\ avail' = Append(avail, cur)
        BY <1>3, <1>6, <3>2 DEF Ordered, Rearm
      <4> QED BY <1>2, <2>1, <4>1 DEF Free
    <3> QED BY <3>1, <3>2
  <2> QED BY <1>3, <1>6, <2>1, <2>2 DEF Ordered
<1> QED BY <1>3, <1>4, <1>5, <1>6 DEF RxInv, Loose, Looping

\* A frame the driver has not taken is in the slot its index leads to.
LEMMA NewestWaits ==
    ASSUME VirtioAssumption, RxInv, ~Loose, rx_used_idx # lastRx
    PROVE  /\ frames \in Pending
           /\ rx_used_idx # 0 => ring[SlotOf(rx_used_idx)] = BufferOf(frames)
<1>1. /\ Taken \in Nat /\ Taken <= frames /\ lastRx = Taken % IndexSpan
      /\ frames \in Nat
  BY DEF RxInv, Ordered, RxType
<1>2. Taken # frames
  BY <1>1 DEF rx_used_idx
<1>3. frames \in Pending /\ frames \in Nat \ {0}
  BY <1>1, <1>2 DEF Pending
<1>4. rx_used_idx # 0 => ring[SlotOf(rx_used_idx)] = BufferOf(frames)
  BY <1>3, SlotOfFrame DEF rx_used_idx, BufferOf
<1> QED BY <1>3, <1>4

\* Reading rx_used_idx into last_rx leaves no frame to be taken.
LEMMA CaughtUp ==
    ASSUME VirtioAssumption, RxType, frames' = frames, lastRx' = rx_used_idx
    PROVE  Ordered' /\ lastRx' \in 0..IndexSpan - 1
<1>1. frames \in Nat /\ IndexSpan \in Nat \ {0} /\ BufCount \in Nat
  BY DEF RxType, VirtioAssumption
<1>2. frames - (((frames % IndexSpan) + IndexSpan - (frames % IndexSpan)) % IndexSpan) = frames
  BY <1>1, TakenBy
<1>3. Taken' = frames
  BY <1>2 DEF Taken, rx_used_idx
<1>4. Pending' = {}
  BY <1>1, <1>3 DEF Pending
<1>5. lastRx' \in 0..IndexSpan - 1
  BY <1>1, DivMod DEF rx_used_idx
<1> QED BY <1>1, <1>3, <1>4, <1>5 DEF Ordered, rx_used_idx

\* The boot's look at the newest frame makes its buffer the current one.
LEMMA LookKeeps ==
    ASSUME VirtioAssumption, RxInv, pc \in {"bootArp", "bootPing"}, rx_used_idx # lastRx,
           SetCurrent(rx_used_idx), pc' = "booted",
           UNCHANGED <<avail, ring, frames, content, lastRx>>
    PROVE  RxInv'
<1>1. RxType /\ Apart /\ Ordered /\ ~needsRearm /\ ~Loose
  BY DEF RxInv, Loose
<1>2. /\ frames \in Pending
      /\ rx_used_idx # 0 => ring[SlotOf(rx_used_idx)] = BufferOf(frames)
  BY <1>1, NewestWaits
<1>3. frames \in Nat \ {0} /\ QueueSize \in Nat \ {0}
  BY <1>1, <1>2 DEF Pending, Ordered, RxType, VirtioAssumption
<1>4. BufferOf(frames) \in Buffers
  <2>1. (frames - 1) % QueueSize \in 0..QueueSize - 1
    BY <1>3, DivMod
  <2> QED BY <1>1, <2>1 DEF BufferOf, RxType
<1>5. /\ avail' = avail /\ ring' = ring /\ frames' = frames /\ content' = content
      /\ lastRx' = lastRx
      /\ \/ cur' = cur /\ needsRearm' = needsRearm
         \/ cur' = BufferOf(frames) /\ needsRearm' = TRUE
  BY <1>2 DEF SetCurrent
<1>6. cur' \in Buffers /\ needsRearm' \in BOOLEAN
  BY <1>1, <1>4, <1>5 DEF RxType
<1>7. RxType'
  BY <1>1, <1>5, <1>6, Zenon DEF RxType
<1>8. Free(BufferOf(frames))
  BY <1>1, <1>2 DEF Ordered
<1>9. Apart'
  BY <1>1, <1>5, <1>8 DEF Apart, Free
<1> QED BY <1>7, <1>9 DEF RxInv, Loose, Looping

\* An ARP answer gives its buffer back at once.
LEMMA PingKeeps ==
    ASSUME VirtioAssumption, RxInv, pc = "bootArp", rx_used_idx # lastRx, rx_used_idx # 0,
           cur' = ring[SlotOf(rx_used_idx)], needsRearm' = FALSE,
           avail' = Append(avail, cur'), lastRx' = rx_used_idx, pc' = "bootPing",
           UNCHANGED <<ring, frames, content>>
    PROVE  RxInv'
<1>1. RxType /\ Apart /\ Ordered /\ ~Loose
  BY DEF RxInv, Loose
<1>2. frames \in Pending /\ cur' = BufferOf(frames)
  BY <1>1, NewestWaits
<1>3. frames \in Nat \ {0} /\ QueueSize \in Nat \ {0}
  BY <1>1, <1>2 DEF Pending, Ordered, RxType, VirtioAssumption
<1>4. cur' \in Buffers /\ Free(cur')
  <2>1. (frames - 1) % QueueSize \in 0..QueueSize - 1
    BY <1>3, DivMod
  <2>2. BufferOf(frames) \in Buffers
    BY <1>1, <2>1 DEF BufferOf, RxType
  <2>3. Free(BufferOf(frames))
    BY <1>1, <1>2 DEF Ordered
  <2> QED BY <1>2, <2>2, <2>3
<1> DEFINE c == cur'
<1> HIDE DEF c
<1>5. /\ Len(avail) \in Nat
      /\ Append(avail, c) \in Seq(Buffers) /\ Len(Append(avail, c)) = Len(avail) + 1
      /\ \A i \in 1..Len(avail) : Append(avail, c)[i] = avail[i]
      /\ Append(avail, c)[Len(avail) + 1] = c
  BY <1>1, <1>4, AppendProperties, LenProperties DEF RxType, c
<1>6. Ordered' /\ lastRx' \in 0..IndexSpan - 1
  BY <1>1, CaughtUp
<1>7. RxType'
  BY <1>1, <1>4, <1>5, <1>6 DEF RxType, c
<1>8. Apart'
  BY <1>1, <1>4, <1>5 DEF Apart, Free, c
<1> QED BY <1>6, <1>7, <1>8 DEF RxInv, Loose, Looping

\* The loop takes the next frame, or index 0, which has none.
LEMMA NextKeeps ==
    ASSUME VirtioAssumption, RxInv, RxNext
    PROVE  /\ RxInv' /\ Taken' = Taken + 1
           /\ lastRx' # 0 => cur' = BufferOf(Taken + 1) /\ needsRearm'
<1>1. /\ pc = "rx" /\ rx_used_idx # lastRx /\ lastRx' = (lastRx + 1) % IndexSpan
      /\ SetCurrent(lastRx') /\ pc' = "frame"
      /\ avail' = avail /\ ring' = ring /\ frames' = frames /\ content' = content
  BY DEF RxNext
<1>2. RxType /\ Apart /\ Ordered /\ ~Loose
  BY <1>1 DEF RxInv, Loose
<1> DEFINE n == Taken + 1
<1>3. /\ frames \in Pending /\ frames \in Nat /\ Taken \in Nat /\ lastRx = Taken % IndexSpan
      /\ IndexSpan \in Nat \ {0} /\ QueueSize \in Nat \ {0} /\ BufCount < IndexSpan /\ BufCount \in Nat
      /\ frames - Taken <= BufCount
  BY <1>1, <1>2, NewestWaits DEF RxType, Ordered, VirtioAssumption
<1>4. n \in Pending /\ n \in Nat \ {0} /\ n - 1 = Taken /\ n <= frames /\ frames - n < BufCount
  BY <1>3 DEF Pending
<1>5. lastRx' = n % IndexSpan
  BY <1>1, <1>3, ModNext
<1>6. Taken' = n
  <2> HIDE DEF n
  <2>1. frames - (((frames % IndexSpan) + IndexSpan - (n % IndexSpan)) % IndexSpan) = n
    BY <1>3, <1>4, TakenBy
  <2> QED BY <1>1, <1>5, <2>1 DEF Taken, rx_used_idx
<1>7. lastRx' \in 0..IndexSpan - 1
  BY <1>3, <1>4, <1>5, DivMod
<1>8. lastRx' # 0 => cur' = BufferOf(n) /\ needsRearm' = TRUE
  <2> HIDE DEF n
  <2>1. lastRx' # 0 => SlotOf(lastRx') = (n - 1) % QueueSize
    BY <1>4, <1>5, SlotOfFrame
  <2> QED BY <1>1, <2>1 DEF SetCurrent, BufferOf
<1>9. lastRx' = 0 => cur' = cur /\ needsRearm' = needsRearm
  BY <1>1 DEF SetCurrent
<1>10. BufferOf(n) \in Buffers /\ Free(BufferOf(n)) /\ content[BufferOf(n)] = n
  <2>1. (n - 1) % QueueSize \in 0..QueueSize - 1
    BY <1>3, <1>4, DivMod
  <2> QED BY <1>2, <1>4, <2>1 DEF BufferOf, RxType, Ordered
<1>11. Pending' \subseteq Pending \ {n} /\ \A m : BufferOf(m)' = BufferOf(m)
  BY <1>1, <1>3, <1>6 DEF Pending, BufferOf
<1> HIDE DEF n
<1>12. cur' \in Buffers /\ needsRearm' \in BOOLEAN
  BY <1>2, <1>8, <1>9, <1>10 DEF RxType
<1>13. RxType'
  BY <1>1, <1>2, <1>7, <1>12, Zenon DEF RxType
<1>14. Apart'
  BY <1>1, <1>2, <1>8, <1>9, <1>10 DEF Apart, Free
<1>15. ASSUME NEW m \in Pending'
       PROVE  /\ Free(BufferOf(m))' /\ content'[BufferOf(m)'] = m
              /\ needsRearm' => BufferOf(m)' # cur'
  <2>1. m \in Pending /\ m # n
    BY <1>11
  <2>2. Free(BufferOf(m)) /\ content[BufferOf(m)] = m /\ BufferOf(m) # BufferOf(n)
        /\ (needsRearm => BufferOf(m) # cur)
    BY <1>2, <1>4, <2>1 DEF Ordered
  <2>3. BufferOf(m)' = BufferOf(m)
    BY <1>11
  <2> QED BY <1>1, <1>8, <1>9, <2>2, <2>3 DEF Free
<1>16. \A m, k \in Pending' : BufferOf(m)' = BufferOf(k)' => m = k
  BY <1>2, <1>11 DEF Ordered
<1>17. Ordered'
  BY <1>1, <1>3, <1>4, <1>5, <1>6, <1>15, <1>16 DEF Ordered
<1>18. Handled'
  BY <1>1, <1>6, <1>8, <1>10 DEF Handled
<1>19. RxInv'
  BY <1>1, <1>13, <1>14, <1>17, <1>18 DEF RxInv, Loose, Looping
<1> QED BY <1>6, <1>8, <1>19 DEF n

\* While the device has a buffer, fewer frames wait than there are buffers.
LEMMA RoomForOne ==
    ASSUME VirtioAssumption, RxType, Apart, Ordered, avail # <<>>
    PROVE  frames - Taken < BufCount
<1>1. /\ BufCount \in Nat \ {0} /\ QueueSize \in Nat \ {0}
      /\ Taken \in Nat /\ frames \in Nat /\ Taken <= frames /\ frames - Taken <= BufCount
  BY DEF VirtioAssumption, RxType, Ordered
<1>2. 1 \in 1..Len(avail) /\ avail[1] \in Buffers
  BY EmptySeq, LenProperties, ElementOfSeq DEF RxType
<1> DEFINE f == [n \in Pending |-> BufferOf(n)]
           S == {BufferOf(n) : n \in Pending}
           T == Buffers \ {avail[1]}
<1>3. \A n \in Pending : BufferOf(n) \in T
  <2> SUFFICES ASSUME NEW n \in Pending PROVE BufferOf(n) \in T
    OBVIOUS
  <2>1. n - 1 \in Nat
    BY <1>1 DEF Pending
  <2>2. (n - 1) % QueueSize \in 0..QueueSize - 1
    BY <1>1, <2>1, DivMod
  <2>3. BufferOf(n) \in Buffers
    BY <2>2 DEF BufferOf, RxType
  <2>4. BufferOf(n) # avail[1]
    BY <1>2 DEF Ordered, Free
  <2> QED BY <2>3, <2>4
<1>4. f \in Bijection(Pending, S)
  <2>1. \A m, n \in Pending : f[m] = f[n] => m = n
    BY DEF Ordered
  <2> QED BY <2>1 DEF Bijection, Injection, Surjection, IsInjective
<1>5. IsFiniteSet(Pending) /\ Cardinality(Pending) = frames - Taken
  <2> DEFINE t == Taken
  <2> HIDE DEF t
  <2>1. t + 1 \in Int /\ frames \in Int /\ frames - (t + 1) + 1 = frames - t
        /\ (~(t + 1 <= frames) => frames - t = 0)
    BY <1>1 DEF t
  <2>2. IsFiniteSet(t + 1 .. frames) /\ Cardinality(t + 1 .. frames) = frames - t
    BY <2>1, FS_Interval
  <2> QED BY <2>2 DEF Pending, t
<1>6. Cardinality(S) = frames - Taken /\ IsFiniteSet(S)
  <2> HIDE DEF f, S
  <2>1. ExistsBijection(Pending, S)
    BY <1>4 DEF ExistsBijection
  <2> QED BY <1>5, <2>1, FS_Bijection
<1>7. IsFiniteSet(Buffers) /\ Cardinality(Buffers) = BufCount
  BY <1>1, FS_Interval DEF Buffers
<1>8. IsFiniteSet(T) /\ Cardinality(T) = BufCount - 1
  BY <1>1, <1>2, <1>7, FS_RemoveElement
<1>9. Cardinality(S) <= Cardinality(T)
  <2>1. S \subseteq T
    BY <1>3
  <2> HIDE DEF S, T
  <2> QED BY <1>8, <2>1, FS_Subset
<1> QED BY <1>1, <1>6, <1>8, <1>9

\* The device writes a frame into the first buffer it has.
LEMMA DeliveryKeeps ==
    ASSUME VirtioAssumption, RxInv, DeviceReceive
    PROVE  /\ RxInv'
           /\ ~Loose => /\ Taken' = Taken
                        /\ \A n \in Pending : BufferOf(n)' = BufferOf(n)
                        /\ \A n : n = frames + 1 => BufferOf(n)' = Head(avail)
<1> DEFINE h == Head(avail)
           z == frames % QueueSize
<1>1. /\ avail # <<>> /\ frames < MaxFrames /\ avail' = Tail(avail)
      /\ ring' = [ring EXCEPT ![z] = h] /\ content' = [content EXCEPT ![h] = frames + 1]
      /\ frames' = frames + 1 /\ pc' = pc /\ lastRx' = lastRx
      /\ cur' = cur /\ needsRearm' = needsRearm
  BY DEF DeviceReceive
<1>2. RxType /\ Apart
  BY DEF RxInv
<1>3. /\ frames \in Nat /\ MaxFrames \in Nat /\ BufCount \in Nat \ {0}
      /\ QueueSize \in Nat \ {0} /\ IndexSpan \in Nat \ {0} /\ BufCount <= QueueSize
      /\ BufCount < IndexSpan
  BY <1>2 DEF RxType, VirtioAssumption
<1>4. /\ Len(avail) \in Nat /\ Len(avail) > 0 /\ h = avail[1] /\ h \in Buffers
      /\ Tail(avail) \in Seq(Buffers) /\ Len(Tail(avail)) = Len(avail) - 1
      /\ \A i \in 1..Len(avail) - 1 : Tail(avail)[i] = avail[i + 1]
  BY <1>1, <1>2, EmptySeq, LenProperties, HeadTailProperties, ElementOfSeq DEF RxType
<1>5. z \in 0..QueueSize - 1
  BY <1>3, DivMod
<1> HIDE DEF h, z
<1>6. RxType'
  <2>1. /\ avail' \in Seq(Buffers)
        /\ ring' \in [0..QueueSize - 1 -> Buffers]
        /\ frames' \in 0..MaxFrames
        /\ lastRx' \in 0..IndexSpan - 1 /\ cur' \in Buffers
    BY <1>1, <1>2, <1>3, <1>4, <1>5 DEF RxType
  <2>2. content' \in [Buffers -> 0..MaxFrames]
    <3>1. frames + 1 \in 0..MaxFrames
      BY <1>1, <1>3
    <3> QED BY <1>1, <1>2, <1>4, <3>1 DEF RxType
  <2>3. needsRearm' \in BOOLEAN
    BY <1>1, <1>2, Zenon DEF RxType
  <2> QED BY <2>1, <2>2, <2>3, Zenon DEF RxType
<1>7. \A b : Free(b) => Free(b)'
  BY <1>1, <1>4 DEF Free
<1>8. \A b : b = h => Free(b)'
  <2> SUFFICES ASSUME NEW i \in 1..Len(avail) - 1 PROVE Tail(avail)[i] # h
    BY <1>1, <1>4 DEF Free
  <2>1. i + 1 \in 1..Len(avail) /\ 1 \in 1..Len(avail) /\ i + 1 # 1
    BY <1>4
  <2> QED BY <1>2, <1>4, <2>1 DEF Apart
<1>9. Apart'
  <2>1. ASSUME NEW i \in 1..Len(avail) - 1, NEW j \in 1..Len(avail) - 1,
               Tail(avail)[i] = Tail(avail)[j]
        PROVE  i = j
    <3>1. i + 1 \in 1..Len(avail) /\ j + 1 \in 1..Len(avail)
      BY <1>4
    <3>2. i + 1 = j + 1
      BY <1>2, <1>4, <2>1, <3>1 DEF Apart
    <3> QED BY <3>2
  <2> QED BY <1>1, <1>2, <1>4, <1>7, <2>1 DEF Apart
<1>10. needsRearm => cur # h
  BY <1>2, <1>4 DEF Apart, Free
<1>11. ASSUME ~Loose
       PROVE  /\ Ordered' /\ Taken' = Taken
              /\ \A n \in Pending : BufferOf(n)' = BufferOf(n)
              /\ \A n : n = frames + 1 => BufferOf(n)' = h
  <2>1. Ordered
    BY <1>11 DEF RxInv
  <2>2. frames - Taken < BufCount
    BY <1>1, <1>2, <2>1, RoomForOne
  <2>3. Taken \in Nat /\ Taken <= frames /\ lastRx = Taken % IndexSpan
    BY <2>1 DEF Ordered
  <2> DEFINE t == Taken
             f == frames + 1
  <2>4. f \in Nat /\ t \in Nat /\ t <= f /\ f - t < IndexSpan /\ f - t <= BufCount
    BY <1>3, <2>2, <2>3
  <2>5. f - (((f % IndexSpan) + IndexSpan - (t % IndexSpan)) % IndexSpan) = t
    <3> HIDE DEF t, f
    <3> QED BY <2>4, TakenBy
  <2>6. Taken' = Taken
    <3> HIDE DEF t
    <3>1. lastRx' = t % IndexSpan
      BY <1>1, <2>3 DEF t
    <3>2. Taken' = t
      BY <1>1, <2>5, <3>1 DEF Taken, rx_used_idx
    <3> QED BY <3>2 DEF t
  <2>7. f - 1 = frames /\ \A n : n = f => BufferOf(n)' = h
    <3>1. f - 1 = frames
      BY <1>3
    <3> HIDE DEF f
    <3> QED BY <1>1, <1>2, <1>5, <3>1 DEF BufferOf, RxType, z
  <2>8. ASSUME NEW n \in Pending
        PROVE  BufferOf(n)' = BufferOf(n) /\ BufferOf(n) # h /\ BufferOf(n) \in Buffers
    <3>1. n - 1 \in Nat /\ n - 1 < frames /\ frames < (n - 1) + QueueSize
      BY <1>3, <2>2, <2>3 DEF Pending
    <3> DEFINE y == (n - 1) % QueueSize
    <3>2. y # z
      BY <1>3, <3>1, ModInjective DEF z
    <3>3. y \in 0..QueueSize - 1
      BY <1>3, <3>1, DivMod
    <3>4. ring[y] # h
      BY <1>4, <2>1 DEF Ordered, Free, BufferOf
    <3> HIDE DEF y
    <3>5. ring'[y] = ring[y] /\ ring[y] \in Buffers
      BY <1>1, <1>2, <3>2, <3>3 DEF RxType
    <3> QED BY <3>4, <3>5 DEF BufferOf, y
  <2> HIDE DEF f
  <2>9. Pending' = Pending \cup {f}
    BY <1>1, <1>3, <2>3, <2>6, <2>7 DEF Pending, f
  <2>10. ASSUME NEW n \in Pending'
         PROVE  /\ Free(BufferOf(n))' /\ content'[BufferOf(n)'] = n
                /\ needsRearm' => BufferOf(n)' # cur'
    <3>1. CASE n = f
      <4>1. content'[h] = f
        BY <1>1, <1>2, <1>4 DEF RxType, f
      <4>2. BufferOf(n)' = h
        BY <2>7, <3>1
      <4>3. Free(BufferOf(n))'
        BY <1>8, <4>2 DEF Free
      <4> QED BY <1>1, <1>10, <3>1, <4>1, <4>2, <4>3
    <3>2. CASE n \in Pending
      <4>1. BufferOf(n)' = BufferOf(n) /\ BufferOf(n) # h /\ BufferOf(n) \in Buffers
        BY <2>8, <3>2
      <4>2. Free(BufferOf(n)) /\ content[BufferOf(n)] = n /\ (needsRearm => BufferOf(n) # cur)
        BY <2>1, <3>2 DEF Ordered
      <4>3. content'[BufferOf(n)] = n
        BY <1>1, <1>2, <4>1, <4>2 DEF RxType
      <4>4. Free(BufferOf(n))'
        BY <1>1, <1>4, <4>1, <4>2 DEF Free
      <4> QED BY <1>1, <4>1, <4>2, <4>3, <4>4
    <3> QED BY <2>9, <3>1, <3>2
  <2>11. ASSUME NEW m \in Pending', NEW n \in Pending', BufferOf(m)' = BufferOf(n)'
         PROVE  m = n
    <3>1. CASE m \in Pending /\ n \in Pending
      BY <2>1, <2>8, <2>11, <3>1 DEF Ordered
    <3>2. CASE m = f /\ n \in Pending
      BY <2>7, <2>8, <2>11, <3>2
    <3>3. CASE m \in Pending /\ n = f
      BY <2>7, <2>8, <2>11, <3>3
    <3> QED BY <2>9, <3>1, <3>2, <3>3
  <2>12. Taken' \in Nat /\ Taken' <= frames' /\ lastRx' = Taken' % IndexSpan
         /\ frames' - Taken' <= BufCount
    BY <1>1, <2>3, <2>4, <2>6 DEF f
  <2>13. Ordered'
    BY <2>10, <2>11, <2>12 DEF Ordered
  <2> QED BY <2>6, <2>7, <2>8, <2>13 DEF f
<1>12. ASSUME pc \in {"frame", "synack"} PROVE Handled'
  <2>1. Handled /\ ~Loose
    BY <1>12 DEF RxInv, Loose
  <2>2. lastRx # 0 => needsRearm /\ content[cur] = Taken /\ cur # h /\ cur \in Buffers
    BY <1>2, <1>10, <2>1 DEF Handled, RxType
  <2>3. lastRx # 0 => content'[cur] = Taken
    BY <1>1, <1>2, <2>2 DEF RxType
  <2> QED BY <1>1, <1>11, <2>1, <2>2, <2>3 DEF Handled
<1>13. RxInv'
  BY <1>1, <1>6, <1>9, <1>11, <1>12 DEF RxInv, Loose, Looping
<1> QED BY <1>11, <1>13 DEF h

\* At boot every buffer is with the device.
LEMMA RxInvInit ==
    ASSUME VirtioAssumption, Init
    PROVE  RxInv
<1>1. /\ pc = "boot" /\ frames = 0 /\ lastRx = 0 /\ cur = 0 /\ needsRearm = FALSE
      /\ avail = [i \in 1..BufCount |-> i - 1]
      /\ ring = [s \in 0..QueueSize - 1 |-> 0] /\ content = [b \in Buffers |-> 0]
  BY DEF Init
<1>2. /\ BufCount \in Nat \ {0} /\ QueueSize \in Nat \ {0} /\ IndexSpan \in Nat \ {0}
      /\ MaxFrames \in Nat /\ 0 \in Buffers /\ 0 \in 0..MaxFrames
  BY DEF VirtioAssumption, Buffers
<1>3. avail \in Seq(Buffers) /\ Len(avail) = BufCount
  <2>1. \A i \in 1..BufCount : i - 1 \in Buffers
    BY <1>2 DEF Buffers
  <2> QED BY <1>1, <1>2, <2>1
<1>4. RxType
  <2>1. needsRearm \in BOOLEAN
    BY <1>1
  <2>2. lastRx \in 0..IndexSpan - 1
    BY <1>1, <1>2
  <2>3. ring \in [0..QueueSize - 1 -> Buffers] /\ content \in [Buffers -> 0..MaxFrames]
    BY <1>1, <1>2
  <2> QED BY <1>1, <1>2, <1>3, <2>1, <2>2, <2>3 DEF RxType
<1>5. Apart
  BY <1>1, <1>2, <1>3 DEF Apart
<1>6. 0 % IndexSpan = 0
  <2>1. IndexSpan * 0 + 0 = 0 /\ 0 \in 0..IndexSpan - 1
    BY <1>2
  <2> QED BY <1>2, <2>1, ModUnique
<1>7. Taken = 0
  <2>1. 0 - (((0 % IndexSpan) + IndexSpan - (0 % IndexSpan)) % IndexSpan) = 0
    BY <1>2, TakenBy
  <2> QED BY <1>1, <1>6, <2>1 DEF Taken, rx_used_idx
<1>8. Ordered
  BY <1>1, <1>2, <1>6, <1>7 DEF Ordered, Pending
<1> QED BY <1>1, <1>4, <1>5, <1>8 DEF RxInv, Loose, Looping

\* The loop starts with the frame after the newest one.
LEMMA CatchUpKeeps ==
    ASSUME VirtioAssumption, RxInv, lastRx' = rx_used_idx, ~needsRearm,
           pc' \in {"bootArp", "rx"}, UNCHANGED <<avail, ring, frames, content, cur, needsRearm>>
    PROVE  RxInv'
<1>1. RxType /\ Apart
  BY DEF RxInv
<1>2. Ordered' /\ lastRx' \in 0..IndexSpan - 1
  BY <1>1, CaughtUp
<1>3. /\ avail' = avail /\ ring' = ring /\ frames' = frames /\ content' = content
      /\ cur' = cur /\ needsRearm' = needsRearm
  OBVIOUS
<1>4. RxType'
  BY <1>1, <1>2, <1>3, Zenon DEF RxType
<1>5. Apart'
  BY <1>1, <1>3 DEF Apart, Free
<1> QED BY <1>2, <1>3, <1>4, <1>5 DEF RxInv, Loose, Looping

LEMMA RxInvNext ==
    ASSUME VirtioAssumption, RxInv, [Next]_vars
    PROVE  RxInv'
<1>1. CASE Device
  <2>1. CASE DeviceReceive
    BY <2>1, DeliveryKeeps
  <2>2. CASE DeviceTransmit
    BY <2>2, StillKeeps DEF DeviceTransmit
  <2> QED BY <1>1, <2>1, <2>2 DEF Device
<1>2. CASE Boot
  <2>1. CASE BootSend
    BY <2>1, CatchUpKeeps DEF BootSend, RxInv
  <2>2. CASE BootLook
    <3>1. \/ /\ SetCurrent(rx_used_idx) /\ pc' = "booted"
             /\ UNCHANGED <<avail, ring, frames, content, lastRx>>
          \/ /\ rx_used_idx # 0 /\ cur' = ring[SlotOf(rx_used_idx)]
             /\ needsRearm' = FALSE /\ avail' = Append(avail, cur')
             /\ lastRx' = rx_used_idx /\ pc' = "bootPing"
             /\ UNCHANGED <<ring, frames, content>>
      BY <2>2 DEF BootLook
    <3>2. pc = "bootArp" /\ rx_used_idx # lastRx
      BY <2>2 DEF BootLook
    <3> QED BY <3>1, <3>2, LookKeeps, PingKeeps
  <2>3. CASE BootPing
    BY <2>3, LookKeeps DEF BootPing
  <2>4. CASE BootTimeout
    BY <2>4, StillKeeps DEF BootTimeout
  <2>5. CASE BootRearm
    BY <2>5, RearmKeeps DEF BootRearm
  <2>6. CASE BootListen
    BY <2>6, CatchUpKeeps DEF BootListen, RxInv
  <2> QED BY <1>2, <2>1, <2>2, <2>3, <2>4, <2>5, <2>6 DEF Boot
<1>3. CASE Receive
  <2>1. CASE RxNext
    BY <2>1, NextKeeps
  <2>2. CASE RxEmpty \/ FrameSend \/ SynAckRead \/ SynAckSend \/ FrameYield
    BY <2>2, StillKeeps DEF RxEmpty, FrameSend, SynAckRead, SynAckSend, FrameYield, Looping
  <2>3. CASE FrameDone
    BY <2>3, RearmKeeps DEF FrameDone, Looping
  <2> QED BY <1>3, <2>1, <2>2, <2>3 DEF Receive
<1>4. CASE Tick
  <2>1. CASE TickSend
    <3>1. /\ pc = "ticking" /\ pc' = "after"
          /\ Rearm \/ UNCHANGED <<avail, needsRearm>>
          /\ UNCHANGED <<ring, frames, content, lastRx, cur>>
      BY <2>1 DEF TickSend
    <3>2. CASE Rearm
      BY <3>1, <3>2, RearmKeeps DEF Looping
    <3>3. CASE UNCHANGED <<avail, needsRearm>>
      <4>1. UNCHANGED rxVars
        BY <3>1, <3>3 DEF rxVars
      <4> QED BY <3>1, <4>1, StillKeeps DEF Looping
    <3> QED BY <3>1, <3>2, <3>3
  <2>2. CASE FlagReset
    BY <2>2, StillKeeps DEF FlagReset
  <2>3. CASE TickRead
    <3>1. UNCHANGED rxVars /\ pc = "tick" /\ pc' \in {"after", "ticking"}
      BY <2>3 DEF TickRead
    <3> QED BY <3>1, StillKeeps DEF Looping
  <2>4. CASE TickNothing \/ TickPost \/ TickMark \/ PlainSend \/ NextRound
    BY <2>4, StillKeeps DEF TickNothing, TickPost, TickMark, PlainSend, NextRound, Looping
  <2> QED BY <1>4, <2>1, <2>2, <2>3, <2>4 DEF Tick
<1>5. CASE UNCHANGED vars
  BY <1>5, StillKeeps DEF vars
<1> QED BY <1>1, <1>2, <1>3, <1>4, <1>5 DEF Next

\* RxInv is invariant under the assumptions on the constants.
THEOREM RxInvariant == Spec => []RxInv
<1> USE VirtioAssumption
<1> QED BY RxInvInit, RxInvNext, PTL DEF Spec

-----------------------------------------------------------------------------
(* What follows *)

\* As many buffers are with the device as its queue has entries.
LEMMA AvailCounted ==
    ASSUME VirtioAssumption, RxInv
    PROVE  Cardinality(WithDevice) = Len(avail) /\ Len(avail) <= BufCount
<1>1. RxType /\ Apart /\ BufCount \in Nat
  BY DEF RxInv, VirtioAssumption
<1>2. Len(avail) \in Nat /\ avail \in [1..Len(avail) -> Buffers]
  BY <1>1, LenProperties DEF RxType
<1>3. WithDevice = {avail[i] : i \in 1..Len(avail)} /\ WithDevice \subseteq Buffers
  BY <1>2 DEF WithDevice, Range
<1>4. avail \in Bijection(1..Len(avail), WithDevice)
  <2>1. avail \in [1..Len(avail) -> WithDevice]
    BY <1>2, <1>3
  <2>2. \A i, j \in 1..Len(avail) : avail[i] = avail[j] => i = j
    BY <1>1 DEF Apart
  <2> QED BY <1>3, <2>1, <2>2 DEF Bijection, Injection, Surjection, IsInjective
<1>5. IsFiniteSet(1..Len(avail)) /\ Cardinality(1..Len(avail)) = Len(avail)
  BY <1>2, FS_Interval
<1>6. Cardinality(WithDevice) = Len(avail)
  <2>1. ExistsBijection(1..Len(avail), WithDevice)
    BY <1>4 DEF ExistsBijection
  <2> QED BY <1>5, <2>1, FS_Bijection
<1>7. IsFiniteSet(Buffers) /\ Cardinality(Buffers) = BufCount
  BY <1>1, FS_Interval DEF Buffers
<1>8. Cardinality(WithDevice) <= BufCount
  BY <1>3, <1>7, FS_Subset
<1> QED BY <1>6, <1>8

\* A receive buffer is with the device once, or holds one waiting frame, or is
\* the handler's, however many there are and however often the index wraps.
THEOREM AlwaysOneOwner == Spec => []OneOwner
<1>1. RxInv => OneOwner
  <2> SUFFICES ASSUME RxInv PROVE OneOwner
    OBVIOUS
  <2>1. Cardinality(WithDevice) = Len(avail)
    BY VirtioAssumption, AvailCounted
  <2>2. RxType /\ Apart
    BY DEF RxInv
  <2>3. \A b : b \in WithDevice <=> ~Free(b)
    BY <2>2, LenProperties DEF WithDevice, Range, Free, RxType
  <2>4. Unseen = {} \/ (Ordered /\ Unseen = Pending)
    BY DEF RxInv, Unseen, Booting, Loose, Pending
  <2>5. Cardinality(Waiting) = Cardinality(Unseen)
    <3>1. CASE Unseen = {}
      BY <3>1 DEF Waiting
    <3>2. CASE Ordered /\ Unseen = Pending
      <4> DEFINE f == [n \in Unseen |-> BufferOf(n)]
      <4>1. f \in Bijection(Unseen, Waiting)
        <5>1. \A m, n \in Unseen : f[m] = f[n] => m = n
          BY <3>2 DEF Ordered
        <5> QED BY <5>1 DEF Waiting, Bijection, Injection, Surjection, IsInjective
      <4> HIDE DEF f
      <4>2. ExistsBijection(Unseen, Waiting)
        BY <4>1 DEF ExistsBijection
      <4>3. IsFiniteSet(Unseen)
        <5>1. Taken + 1 \in Int /\ frames \in Int
          BY <2>2, <3>2 DEF Ordered, RxType
        <5> QED BY <3>2, <5>1, FS_Interval DEF Pending
      <4> QED BY <4>2, <4>3, FS_Bijection
    <3> QED BY <2>4, <3>1, <3>2
  <2>6. WithDevice \cap Waiting = {}
    BY <2>3, <2>4 DEF Waiting, Ordered
  <2>7. (WithDevice \cup Waiting) \cap WithDriver = {}
    BY <2>2, <2>3, <2>4 DEF Waiting, WithDriver, Ordered, Apart
  <2> QED BY <2>1, <2>5, <2>6, <2>7 DEF OneOwner
<1> QED BY <1>1, RxInvariant, PTL

\* The handler reads the frame whose turn it is from a buffer the device does
\* not have.
THEOREM AlwaysOwnFrame == Spec => []OwnFrame
<1>1. RxInv => OwnFrame
  <2> SUFFICES ASSUME RxInv, pc \in {"frame", "synack"}, lastRx # 0
               PROVE  content[cur] = Taken /\ cur \notin WithDevice
    BY DEF OwnFrame
  <2>1. RxType /\ Apart /\ Handled
    BY DEF RxInv
  <2> QED BY <2>1, LenProperties DEF Handled, Apart, Free, WithDevice, Range, RxType
<1> QED BY <1>1, RxInvariant, PTL

SendBound == posted <= MaxSends

\* The indices, the rings and the flags stay within their ranges.
THEOREM TypeCorrect == Spec => []TypeOK
<1>1. Init => SendBound
  BY VirtioAssumption DEF Init, SendBound, VirtioAssumption
<1>2. TxInv /\ SendBound /\ [Next]_vars => SendBound'
  <2> SUFFICES ASSUME TxInv, SendBound, [Next]_vars PROVE SendBound'
    OBVIOUS
  <2>1. posted \in Nat /\ MaxSends \in Nat
    BY VirtioAssumption DEF TxInv, TxType, VirtioAssumption
  <2>2. CASE Send
    BY <2>1, <2>2 DEF Send, SendBound
  <2>3. CASE posted' = posted
    BY <2>3 DEF SendBound
  <2> QED BY <2>2, <2>3, StepKinds DEF Quiet, DeviceTransmit, sendVars
<1>3. RxInv /\ TxInv /\ SendBound => TypeOK
  <2> SUFFICES ASSUME RxInv, TxInv, SendBound PROVE TypeOK
    OBVIOUS
  <2>1. Len(avail) <= BufCount
    BY VirtioAssumption, AvailCounted
  <2>2. /\ posted \in 0..MaxSends /\ consumed \in 0..posted /\ lastSent \in 0..posted
        /\ mark \in 0..MaxSends /\ txUsed \in 0..MaxSends
    BY VirtioAssumption DEF TxInv, TxType, TxOrder, SendBound, VirtioAssumption
  <2>3. inflight \in BOOLEAN /\ needsRearm \in BOOLEAN
    BY Zenon DEF TxInv, TxType, RxInv, RxType
  <2>4. pc \in {"boot", "bootArp", "bootPing", "booted", "listen", "rx", "frame",
                "synack", "tick", "ticking", "posted", "after"}
    BY DEF RxInv, Loose, Looping
  <2>5. /\ avail \in Seq(Buffers) /\ ring \in [0..QueueSize - 1 -> Buffers]
        /\ frames \in 0..MaxFrames /\ content \in [Buffers -> 0..MaxFrames]
        /\ lastRx \in 0..IndexSpan - 1 /\ cur \in Buffers
    BY DEF RxInv, RxType
  <2> QED BY <2>1, <2>2, <2>3, <2>4, <2>5, Zenon DEF TypeOK
<1> QED BY <1>1, <1>2, <1>3, RxInvariant, TxOrdered, PTL DEF Spec

\* Nobody has the buffer.
Astray(b) == /\ b \in Buffers /\ Free(b) /\ (needsRearm => b # cur)
             /\ \A n \in Unseen : BufferOf(n) # b

LostAreAstray == \A b : b \in Lost <=> Astray(b)

LEMMA LostIsAstray == ASSUME RxInv PROVE LostAreAstray
<1> SUFFICES ASSUME RxType PROVE LostAreAstray
  BY DEF RxInv
<1>1. \A b : b \in WithDevice <=> ~Free(b)
  BY LenProperties DEF WithDevice, Range, Free, RxType
<1>2. \A b : b \in WithDriver <=> needsRearm /\ b = cur
  BY DEF WithDriver
<1>3. \A b : b \in Waiting <=> \E n \in Unseen : b = BufferOf(n)
  BY DEF Waiting
<1> QED BY <1>1, <1>2, <1>3 DEF Lost, Astray, LostAreAstray

\* Every receive buffer that somebody has in the loop somebody keeps, unless
\* the loop moves on behind break 'rx or to ring index 0 (kmain).
THEOREM LossesAlwaysKnown == Spec => LossesKnown
<1>1. RxInv /\ RxInv' /\ LostAreAstray /\ LostAreAstray' /\ [Next]_vars
        => [Lost' \subseteq Lost \/ Booting \/ (RxNext /\ (lastRx' = 0 \/ needsRearm))]_vars
  <2> SUFFICES ASSUME RxInv, RxInv', LostAreAstray, LostAreAstray', Next, ~Booting,
                      ~(RxNext /\ (lastRx' = 0 \/ needsRearm))
               PROVE  Lost' \subseteq Lost
    BY DEF vars
  <2>1. RxType /\ Apart /\ Ordered /\ ~Loose /\ RxType'
    BY DEF RxInv, Loose, Booting
  <2>2. Unseen = Pending /\ Looping
    BY DEF Unseen, Pending, RxInv, Loose, Booting
  <2>3. \A b : Astray(b)' => Astray(b)
    <3> SUFFICES ASSUME NEW b, Astray(b)' PROVE Astray(b)
      OBVIOUS
    <3>1. CASE DeviceReceive
      <4>1. /\ Taken' = Taken /\ \A n \in Pending : BufferOf(n)' = BufferOf(n)
            /\ \A n : n = frames + 1 => BufferOf(n)' = Head(avail)
        BY <2>1, <3>1, VirtioAssumption, DeliveryKeeps
      <4>2. /\ avail # <<>> /\ avail' = Tail(avail) /\ frames' = frames + 1 /\ pc' = pc
            /\ cur' = cur /\ needsRearm' = needsRearm
        BY <3>1 DEF DeviceReceive
      <4>3. /\ Len(avail) \in Nat /\ Head(avail) = avail[1] /\ Len(Tail(avail)) = Len(avail) - 1
            /\ \A i \in 1..Len(avail) - 1 : Tail(avail)[i] = avail[i + 1]
        BY <2>1, <4>2, LenProperties, HeadTailProperties DEF RxType
      <4>4. Taken \in Nat /\ frames \in Nat /\ Taken <= frames
        BY <2>1 DEF Ordered, RxType
      <4>5. Unseen' = Taken + 1 .. frames + 1
        BY <2>2, <4>1, <4>2 DEF Unseen, Pending, Booting, Looping
      <4>6. \A n \in Unseen : BufferOf(n) # b
        BY <2>2, <4>1, <4>4, <4>5 DEF Astray, Pending
      <4>7. b # avail[1]
        <5>1. \A n : n = frames + 1 => n \in Unseen'
          BY <4>4, <4>5
        <5> QED BY <4>1, <4>3, <5>1 DEF Astray
      <4>8. Free(b)
        <5> SUFFICES ASSUME NEW i \in 1..Len(avail), avail[i] = b PROVE FALSE
          BY DEF Free
        <5>1. i # 1 /\ i - 1 \in 1..Len(avail) - 1 /\ i - 1 + 1 = i
          BY <4>3, <4>7
        <5>2. Tail(avail)[i - 1] = b
          BY <4>3, <5>1
        <5> QED BY <4>2, <4>3, <5>1, <5>2 DEF Astray, Free
      <4> QED BY <4>2, <4>6, <4>8 DEF Astray
    <3>2. CASE RxNext
      <4>1. /\ Taken' = Taken + 1 /\ cur' = BufferOf(Taken + 1) /\ needsRearm'
            /\ ~needsRearm
        BY <3>2, VirtioAssumption, NextKeeps
      <4>2. /\ avail' = avail /\ ring' = ring /\ frames' = frames /\ pc' = "frame"
        BY <3>2 DEF RxNext
      <4>3. Taken \in Nat /\ frames \in Nat /\ Taken <= frames
        BY <2>1 DEF Ordered, RxType
      <4>4. Unseen' = Taken + 2 .. frames
        BY <4>1, <4>2, <4>3 DEF Unseen, Booting
      <4>5. ASSUME NEW n \in Unseen PROVE BufferOf(n) # b
        <5>1. CASE n = Taken + 1
          BY <4>1, <5>1 DEF Astray
        <5>2. CASE n # Taken + 1
          <6>1. n \in Unseen'
            BY <2>2, <4>3, <4>4, <5>2 DEF Pending
          <6> QED BY <4>2, <6>1 DEF Astray, BufferOf
        <5> QED BY <5>1, <5>2
      <4> QED BY <4>1, <4>2, <4>5 DEF Astray, Free
    <3>3. CASE UNCHANGED rxVars /\ ~Booting'
      <4>1. Unseen' = Unseen /\ \A n : BufferOf(n)' = BufferOf(n)
        BY <3>3 DEF rxVars, Unseen, Taken, rx_used_idx, BufferOf
      <4> QED BY <3>3, <4>1 DEF rxVars, Astray, Free
    <3>4. CASE Rearm /\ UNCHANGED <<ring, frames, content, lastRx, cur>> /\ ~Booting'
      <4>1. Unseen' = Unseen /\ \A n : BufferOf(n)' = BufferOf(n)
        BY <3>4 DEF Unseen, Taken, rx_used_idx, BufferOf
      <4>2. /\ Len(avail) \in Nat /\ Len(Append(avail, cur)) = Len(avail) + 1
            /\ \A i \in 1..Len(avail) : Append(avail, cur)[i] = avail[i]
            /\ Append(avail, cur)[Len(avail) + 1] = cur
        BY <2>1, AppendProperties, LenProperties DEF RxType
      <4>3. Free(b)
        BY <3>4, <4>2 DEF Astray, Free, Rearm
      <4>4. needsRearm => b # cur
        BY <3>4, <4>2 DEF Astray, Free, Rearm
      <4> QED BY <4>1, <4>3, <4>4 DEF Astray
    <3>5. CASE DeviceTransmit
      BY <3>3, <3>5 DEF DeviceTransmit, Booting
    <3>6. CASE Receive /\ ~RxNext
      <4>1. CASE FrameDone
        BY <3>4, <4>1 DEF FrameDone, Booting
      <4>2. CASE RxEmpty \/ FrameSend \/ SynAckRead \/ SynAckSend \/ FrameYield
        BY <3>3, <4>2 DEF RxEmpty, FrameSend, SynAckRead, SynAckSend, FrameYield, Booting
      <4> QED BY <3>6, <4>1, <4>2 DEF Receive
    <3>7. CASE Tick
      <4>1. CASE TickSend
        <5>1. /\ Rearm \/ UNCHANGED <<avail, needsRearm>>
              /\ UNCHANGED <<ring, frames, content, lastRx, cur>>
          BY <4>1 DEF TickSend, Booting
        <5>2. ~Booting'
          BY <4>1 DEF TickSend, Booting
        <5> QED BY <3>3, <3>4, <5>1, <5>2 DEF rxVars
      <4>2. CASE TickRead
        BY <3>3, <4>2 DEF TickRead, Booting
      <4>3. CASE FlagReset \/ TickNothing \/ TickPost \/ TickMark \/ PlainSend \/ NextRound
        BY <3>3, <4>3 DEF FlagReset, TickNothing, TickPost, TickMark, PlainSend, NextRound, Booting
      <4> QED BY <3>7, <4>1, <4>2, <4>3 DEF Tick
    <3>8. ~Boot
      BY DEF Boot, BootSend, BootLook, BootPing, BootTimeout, BootRearm, BootListen, Booting
    <3> QED BY <3>1, <3>2, <3>5, <3>6, <3>7, <3>8 DEF Next, Device
  <2> QED BY <2>3 DEF LostAreAstray
<1>2. RxInv => LostAreAstray
  BY LostIsAstray
<1> QED BY <1>1, <1>2, RxInvariant, PTL DEF Spec, LossesKnown
=============================================================================

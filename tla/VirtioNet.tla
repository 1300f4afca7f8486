------------------------------ MODULE VirtioNet ------------------------------
(***************************************************************************)
(* The two queues of the network device (runtime/src/net.rs) and the way   *)
(* kmain (runtime/src/main.rs) uses them: the pool of receive buffers that *)
(* travel between driver and device, the single transmit buffer, and the   *)
(* flag FETCH_TX_INFLIGHT by which the fetch engine paces itself.  The     *)
(* device works on its own at any point between two steps of the driver.   *)
(*                                                                         *)
(* Frames are numbered in the order the device delivers them; the used     *)
(* index of the receive queue is the number of frames modulo IndexSpan,    *)
(* which is 2^16 in the code.  Transmit indices are not wrapped: the flag  *)
(* compares them only across one step of the loop.                         *)
(***************************************************************************)
EXTENDS Naturals, Sequences, FiniteSets, Functions

CONSTANTS
    BufCount,      \* RX_BUF_COUNT, the receive buffers (8)
    QueueSize,     \* RXQ.qsize, the slots of the used ring
    IndexSpan,     \* the values of a ring index (2^16)
    MaxFrames,     \* bound: frames the device delivers
    MaxSends       \* bound: frames the driver posts

Buffers == 0..BufCount - 1

\* init_queues posts at most one buffer per slot, and a ring index wraps at a
\* multiple of the queue size, both being powers of two.
ASSUME VirtioAssumption ==
    /\ BufCount \in Nat \ {0} /\ QueueSize \in Nat \ {0}
    /\ IndexSpan \in Nat \ {0} /\ MaxFrames \in Nat /\ MaxSends \in Nat
    /\ BufCount <= QueueSize
    /\ QueueSize < IndexSpan /\ IndexSpan % QueueSize = 0

VARIABLES
    pc,            \* where kmain is
    avail,         \* receive buffers the device owns, in order
    ring,          \* RXQ.used: slot |-> buffer of the frame written there
    frames,        \* frames delivered
    content,       \* buffer |-> number of the frame last written into it
    lastRx,        \* last_rx, and rx_last while booting
    cur,           \* RX_CUR_ID
    needsRearm,    \* RX_NEEDS_REARM
    posted,        \* avail index of TXQ
    consumed,      \* used index of TXQ
    lastSent,      \* TX_LAST_SENT
    inflight,      \* FETCH_TX_INFLIGHT
    mark,          \* FETCH_TX_USED
    txUsed         \* the local tx_used of fetch_tick and of the SYN-ACK handler

rxVars == <<avail, ring, frames, content, lastRx, cur, needsRearm>>
sendVars == <<posted, consumed, lastSent>>
flagVars == <<inflight, mark, txUsed>>
vars == <<pc, rxVars, sendVars, flagVars>>

-----------------------------------------------------------------------------
(* Helpers *)

rx_used_idx == frames % IndexSpan

\* rx_used_elem_fields reads the slot before idx, and refuses index 0.
SlotOf(idx) == ((idx + IndexSpan - 1) % IndexSpan) % QueueSize

SetCurrent_FlagForgotten(idx) ==
    IF idx = 0 THEN UNCHANGED <<cur, needsRearm>>
               ELSE cur' = ring[SlotOf(idx)] /\ UNCHANGED needsRearm

\* rx_set_current
SetCurrent(idx) ==
    IF idx = 0 THEN UNCHANGED <<cur, needsRearm>>
               ELSE cur' = ring[SlotOf(idx)] /\ needsRearm' = TRUE

Rearm_Unguarded == avail' = Append(avail, cur) /\ needsRearm' = FALSE
Rearm_FlagKept == /\ avail' = IF needsRearm THEN Append(avail, cur) ELSE avail
                  /\ UNCHANGED needsRearm

\* rx_rearm: the current buffer goes back to the device, once.
Rearm == /\ avail' = IF needsRearm THEN Append(avail, cur) ELSE avail
         /\ needsRearm' = FALSE

\* tx_wait_ready and the senders: a frame is posted once the device has
\* consumed the previous one; a sender that spins too long gives up.
Ready == consumed = lastSent
Send_OffByOne == /\ UNCHANGED consumed
                 /\ IF Ready
                    THEN /\ posted < MaxSends
                         /\ posted' = posted + 1
                         /\ lastSent' = posted
                    ELSE UNCHANGED <<posted, lastSent>>
Send_Refused == \/ UNCHANGED sendVars
                \/ /\ Ready /\ posted < MaxSends
                   /\ posted' = posted + 1
                   /\ lastSent' = posted + 1
                   /\ UNCHANGED consumed
Send == /\ UNCHANGED consumed
        /\ IF Ready
           THEN /\ posted < MaxSends
                /\ posted' = posted + 1
                /\ lastSent' = posted + 1
           ELSE UNCHANGED <<posted, lastSent>>

\* fetch_tick and the SYN-ACK handler find the engine's frame outstanding.
Outstanding(used) == inflight /\ used = mark

-----------------------------------------------------------------------------
(* The device *)

DeviceReceive ==
    /\ avail # <<>> /\ frames < MaxFrames
    /\ avail' = Tail(avail)
    /\ ring' = [ring EXCEPT ![frames % QueueSize] = Head(avail)]
    /\ content' = [content EXCEPT ![Head(avail)] = frames + 1]
    /\ frames' = frames + 1
    /\ UNCHANGED <<pc, lastRx, cur, needsRearm, sendVars, flagVars>>

DeviceTransmit ==
    /\ consumed < posted
    /\ consumed' = consumed + 1
    /\ UNCHANGED <<pc, rxVars, posted, lastSent, flagVars>>

-----------------------------------------------------------------------------
(* Boot: an ARP request to the gateway, and a ping if it answers *)

BootSend ==
    /\ pc = "boot"
    /\ pc' = "bootArp"
    /\ lastRx' = rx_used_idx
    /\ Send
    /\ UNCHANGED <<avail, ring, frames, content, cur, needsRearm, flagVars>>

\* Only the newest frame is looked at.  An ARP answer gives its buffer back
\* and is followed by a ping.
BootLook ==
    /\ pc = "bootArp" /\ rx_used_idx # lastRx
    /\ \/ /\ SetCurrent(rx_used_idx)
          /\ pc' = "booted"
          /\ UNCHANGED <<avail, lastRx, sendVars>>
       \/ /\ rx_used_idx # 0
          /\ cur' = ring[SlotOf(rx_used_idx)]
          /\ needsRearm' = FALSE
          /\ avail' = Append(avail, cur')
          /\ lastRx' = rx_used_idx
          /\ pc' = "bootPing"
          /\ Send
    /\ UNCHANGED <<ring, frames, content, flagVars>>

BootPing ==
    /\ pc = "bootPing" /\ rx_used_idx # lastRx
    /\ SetCurrent(rx_used_idx)
    /\ pc' = "booted"
    /\ UNCHANGED <<avail, ring, frames, content, lastRx, sendVars, flagVars>>

BootTimeout ==
    /\ pc \in {"bootArp", "bootPing"}
    /\ pc' = "booted"
    /\ UNCHANGED <<rxVars, sendVars, flagVars>>

BootRearm ==
    /\ pc = "booted"
    /\ pc' = "listen"
    /\ Rearm
    /\ UNCHANGED <<ring, frames, content, lastRx, cur, sendVars, flagVars>>

\* Frames that came during the boot are skipped.
BootListen ==
    /\ pc = "listen"
    /\ lastRx' = rx_used_idx
    /\ pc' = "rx"
    /\ UNCHANGED <<avail, ring, frames, content, cur, needsRearm, sendVars,
                   flagVars>>

-----------------------------------------------------------------------------
(* The loop over received frames *)

RxNext_GivenBackFirst ==
    /\ pc = "rx" /\ rx_used_idx # lastRx
    /\ lastRx' = (lastRx + 1) % IndexSpan
    /\ cur' = ring[SlotOf(lastRx')]
    /\ avail' = Append(avail, cur')
    /\ needsRearm' = FALSE
    /\ pc' = "frame"
    /\ UNCHANGED <<ring, frames, content, sendVars, flagVars>>
RxNext ==
    /\ pc = "rx" /\ rx_used_idx # lastRx
    /\ lastRx' = (lastRx + 1) % IndexSpan
    /\ SetCurrent(lastRx')
    /\ pc' = "frame"
    /\ UNCHANGED <<avail, ring, frames, content, sendVars, flagVars>>

RxEmpty ==
    /\ pc = "rx" /\ rx_used_idx = lastRx
    /\ pc' = "tick"
    /\ UNCHANGED <<rxVars, sendVars, flagVars>>

\* The handler of a frame may post an answer or an acknowledgement.
FrameSend ==
    /\ pc = "frame"
    /\ Send
    /\ UNCHANGED <<pc, rxVars, flagVars>>

\* The SYN-ACK handler reads the index, sends if the flag allows it, and marks
\* the flag with what it read.
SynAckRead ==
    /\ pc = "frame" /\ posted < MaxSends
    /\ pc' = "synack"
    /\ txUsed' = consumed
    /\ UNCHANGED <<rxVars, sendVars, inflight, mark>>

SynAckSend ==
    /\ pc = "synack"
    /\ pc' = "frame"
    /\ IF Outstanding(txUsed)
       THEN UNCHANGED <<sendVars, flagVars>>
       ELSE Send /\ inflight' = TRUE /\ mark' = txUsed /\ UNCHANGED txUsed
    /\ UNCHANGED rxVars

FrameDone ==
    /\ pc = "frame"
    /\ pc' = "rx"
    /\ Rearm
    /\ UNCHANGED <<ring, frames, content, lastRx, cur, sendVars, flagVars>>

\* break 'rx when the TLS buffer is filling up: the frame's buffer is not
\* given back on this way out.
FrameYield ==
    /\ pc = "frame"
    /\ pc' = "tick"
    /\ UNCHANGED <<rxVars, sendVars, flagVars>>

-----------------------------------------------------------------------------
(* fetch_tick and the rest of the loop *)

\* A new fetch, and every restart of the transport, lowers the flag.
FlagReset ==
    /\ pc \in {"frame", "tick", "after"}
    /\ inflight' = FALSE
    /\ mark' = consumed
    /\ UNCHANGED <<pc, rxVars, sendVars, txUsed>>

TickRead ==
    /\ pc = "tick"
    /\ txUsed' = consumed
    /\ IF Outstanding(txUsed')
       THEN pc' = "after" /\ UNCHANGED <<inflight, mark>>
       ELSE /\ pc' = "ticking"
            /\ inflight' = FALSE
            /\ mark' = IF inflight THEN txUsed' ELSE mark
    /\ UNCHANGED <<rxVars, sendVars>>

\* Idle, or a wait.
TickNothing ==
    /\ pc \in {"tick", "ticking"}
    /\ pc' = "after"
    /\ UNCHANGED <<rxVars, sendVars, flagVars>>

\* ARP requests; DNS, SYN and SOCKS frames, which give the current receive
\* buffer back first.  The flag is marked with the index read before.
TickSend ==
    /\ pc = "ticking"
    /\ pc' = "after"
    /\ \/ Rearm
       \/ UNCHANGED <<avail, needsRearm>>
    /\ Send
    /\ inflight' = TRUE
    /\ mark' = txUsed
    /\ UNCHANGED <<ring, frames, content, lastRx, cur, txUsed>>

\* The ACK and the segments of a plain HTTP request: the index is read after
\* the frame has been posted.
TickPost ==
    /\ pc = "ticking"
    /\ pc' = "posted"
    /\ Send
    /\ UNCHANGED <<rxVars, flagVars>>

TickMark ==
    /\ pc = "posted"
    /\ pc' = "after"
    /\ inflight' = TRUE
    /\ mark' = consumed
    /\ UNCHANGED <<rxVars, sendVars, txUsed>>

\* tls_send, which does not touch the flag, and the reports of the loop.
PlainSend ==
    /\ pc \in {"ticking", "after"}
    /\ pc' = "after"
    /\ Send
    /\ UNCHANGED <<rxVars, flagVars>>

NextRound ==
    /\ pc = "after"
    /\ pc' = "rx"
    /\ UNCHANGED <<rxVars, sendVars, flagVars>>

-----------------------------------------------------------------------------
Init ==
    /\ pc = "boot"
    /\ avail = [i \in 1..BufCount |-> i - 1]
    /\ ring = [s \in 0..QueueSize - 1 |-> 0]
    /\ frames = 0
    /\ content = [b \in Buffers |-> 0]
    /\ lastRx = 0
    /\ cur = 0
    /\ needsRearm = FALSE
    /\ posted = 0 /\ consumed = 0 /\ lastSent = 0
    /\ inflight = FALSE /\ mark = 0 /\ txUsed = 0

Device == DeviceReceive \/ DeviceTransmit
Boot == \/ BootSend \/ BootLook \/ BootPing \/ BootTimeout \/ BootRearm
        \/ BootListen
Receive == \/ RxNext \/ RxEmpty \/ FrameSend \/ SynAckRead \/ SynAckSend
           \/ FrameDone \/ FrameYield
Tick == \/ FlagReset \/ TickRead \/ TickNothing \/ TickSend \/ TickPost
        \/ TickMark \/ PlainSend \/ NextRound
Next == Device \/ Boot \/ Receive \/ Tick

Spec == Init /\ [][Next]_vars

-----------------------------------------------------------------------------
(* Properties *)

TypeOK ==
    /\ pc \in {"boot", "bootArp", "bootPing", "booted", "listen", "rx", "frame",
               "synack", "tick", "ticking", "posted", "after"}
    /\ avail \in Seq(Buffers) /\ Len(avail) <= BufCount
    /\ ring \in [0..QueueSize - 1 -> Buffers]
    /\ frames \in 0..MaxFrames
    /\ content \in [Buffers -> 0..MaxFrames]
    /\ lastRx \in 0..IndexSpan - 1
    /\ cur \in Buffers
    /\ needsRearm \in BOOLEAN
    /\ posted \in 0..MaxSends /\ consumed \in 0..posted
    /\ lastSent \in 0..posted
    /\ inflight \in BOOLEAN
    /\ mark \in 0..MaxSends /\ txUsed \in 0..MaxSends

Booting == pc \in {"boot", "bootArp", "bootPing", "booted", "listen"}

\* The frames the loop has not taken yet, and the one it has.
Taken == frames - ((rx_used_idx + IndexSpan - lastRx) % IndexSpan)
Unseen == IF Booting THEN {} ELSE Taken + 1 .. frames

BufferOf(n) == ring[(n - 1) % QueueSize]
WithDevice == Range(avail)
Waiting == {BufferOf(n) : n \in Unseen}
WithDriver == {cur : x \in {y \in {0} : needsRearm}}
Lost == Buffers \ (WithDevice \cup Waiting \cup WithDriver)

\* A receive buffer has one owner: it is with the device once, or holds one
\* frame that waits in the used ring, or is the one the handler works on
\* (rx_rearm, rx_rearm_id, rx_set_current).  Two owners would let the device
\* write a frame over one that has not been read.
OneOwner ==
    /\ Cardinality(WithDevice) = Len(avail)
    /\ Cardinality(Waiting) = Cardinality(Unseen)
    /\ WithDevice \cap Waiting = {}
    /\ (WithDevice \cup Waiting) \cap WithDriver = {}

\* The handler parses the frame whose turn it is, and the device cannot write
\* over it: in the order of delivery, nothing skipped, nothing seen twice.  The
\* one exception is ring index 0, for which rx_used_elem_fields has no element.
OwnFrame ==
    pc \in {"frame", "synack"} /\ lastRx # 0 =>
        /\ content[cur] = Taken
        /\ cur \notin WithDevice

\* A receive buffer is lost for good in three places only: at boot, where just
\* the newest frame is looked at; at ring index 0; and when the loop goes on to
\* a frame after it left the previous one by break 'rx (kmain).
LossesKnown ==
    [][Lost' \subseteq Lost \/ Booting \/ (RxNext /\ (lastRx' = 0 \/ needsRearm))]_vars

\* The transmit buffer is filled only when the device has read everything that
\* was posted before (tx_wait_ready against TX_LAST_SENT).
TxBufferOwned == [][posted' # posted => consumed = posted]_vars

\* The flag as FetchEngine has it.
Flag == IF ~Outstanding(consumed) THEN "free"
        ELSE IF consumed < posted THEN "wait" ELSE "lost"

\* The flag can be stuck, up with no frame that will lower it, only after the
\* index was read behind a post that the device had already consumed (the ACK
\* and HTTP segments of fetch_tick); what FetchEngine assumes of every post.
StuckOnlyByLateRead == [][Flag # "lost" /\ Flag' = "lost" => TickMark]_vars
=============================================================================

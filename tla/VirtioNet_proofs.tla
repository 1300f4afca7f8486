--------------------------- MODULE VirtioNet_proofs ---------------------------
(* The transmit half of VirtioNet for every number of buffers, frames and    *)
(* sends: the buffer is not overwritten under the device, and the flag of    *)
(* the fetch engine gets stuck in one place only.                            *)
EXTENDS VirtioNet, TLAPS

\* What the transmit indices are.
TxType ==
    /\ posted \in Nat /\ consumed \in Nat /\ lastSent \in Nat
    /\ mark \in Nat /\ txUsed \in Nat
    /\ inflight \in BOOLEAN

\* TX_LAST_SENT is what has been posted, and nobody has read an index the
\* device has not reached.
TxOrder ==
    /\ lastSent = posted
    /\ consumed <= posted
    /\ mark <= consumed
    /\ txUsed <= consumed

TxInv == TxType /\ TxOrder

-----------------------------------------------------------------------------
(* The senders *)

\* A sender posts a frame to an idle device or finds a busy one and gives up:
\* either way the device has a frame in hand when the sender returns.
LEMMA SendLeavesWork ==
    ASSUME TxInv, Send
    PROVE  /\ posted' \in Nat /\ consumed' = consumed
           /\ lastSent' = posted'
           /\ posted <= posted'
           /\ consumed' < posted'
           /\ posted' # posted => consumed = posted
<1>1. CASE Ready
  BY <1>1 DEF TxInv, TxType, TxOrder, Send, Ready
<1>2. CASE ~Ready
  BY <1>2 DEF TxInv, TxType, TxOrder, Send, Ready
<1>3. QED
  BY <1>1, <1>2

\* The actions that touch neither the queue nor the flag.
Quiet == UNCHANGED <<sendVars, inflight, mark>> /\ txUsed' \in {txUsed, consumed}

\* Every step of the system is one of five kinds for the transmit queue.
LEMMA StepKinds ==
    ASSUME [Next]_vars
    PROVE  \/ Quiet
           \/ DeviceTransmit
           \/ Send /\ UNCHANGED flagVars
           \/ Send /\ inflight' = TRUE /\ mark' = txUsed /\ UNCHANGED txUsed
           \/ /\ UNCHANGED sendVars
              /\ mark' \in {mark, consumed} /\ txUsed' \in {txUsed, consumed}
              /\ inflight' = FALSE \/ (TickMark /\ inflight' = TRUE)
<1>1. CASE UNCHANGED vars
  BY <1>1 DEF vars, sendVars, flagVars, Quiet
<1>2. CASE Device
  BY <1>2 DEF Device, DeviceReceive, flagVars, sendVars, Quiet
<1>3. CASE Boot
  BY <1>3 DEF Boot, BootSend, BootLook, BootPing, BootTimeout, BootRearm,
              BootListen, flagVars, sendVars, Quiet
<1>4. CASE Receive
  <2>1. CASE SynAckRead
    BY <2>1 DEF SynAckRead, sendVars, Quiet
  <2>2. CASE SynAckSend
    BY <2>2 DEF SynAckSend, sendVars, flagVars, Quiet
  <2>3. CASE FrameSend
    BY <2>3 DEF FrameSend
  <2>4. CASE RxNext \/ RxEmpty \/ FrameDone \/ FrameYield
    BY <2>4 DEF RxNext, RxEmpty, FrameDone, FrameYield, sendVars, flagVars, Quiet
  <2>5. QED
    BY <1>4, <2>1, <2>2, <2>3, <2>4 DEF Receive
<1>5. CASE Tick
  <2>1. CASE FlagReset
    BY <2>1 DEF FlagReset, sendVars
  <2>2. CASE TickRead
    BY <2>2 DEF TickRead, sendVars, Quiet
  <2>3. CASE TickSend
    BY <2>3 DEF TickSend
  <2>4. CASE TickMark
    BY <2>4 DEF TickMark, sendVars
  <2>5. CASE TickPost \/ PlainSend
    BY <2>5 DEF TickPost, PlainSend
  <2>6. CASE TickNothing \/ NextRound
    BY <2>6 DEF TickNothing, NextRound, sendVars, flagVars, Quiet
  <2>7. QED
    BY <1>5, <2>1, <2>2, <2>3, <2>4, <2>5, <2>6 DEF Tick
<1>6. QED
  BY <1>1, <1>2, <1>3, <1>4, <1>5 DEF Next

-----------------------------------------------------------------------------
(* The invariant *)

\* It holds at boot.
LEMMA TxInvInit == Init => TxInv
<1> SUFFICES ASSUME Init PROVE TxInv
  OBVIOUS
<1>1. /\ posted = 0 /\ consumed = 0 /\ lastSent = 0
      /\ mark = 0 /\ txUsed = 0 /\ inflight = FALSE
  BY DEF Init
<1>2. inflight \in BOOLEAN
  BY <1>1
<1>3. QED
  BY <1>1, <1>2 DEF TxInv, TxType, TxOrder

\* Every step keeps it: the senders by SendLeavesWork, the rest read indices.
LEMMA TxInvNext == TxInv /\ [Next]_vars => TxInv'
<1> SUFFICES ASSUME TxInv, [Next]_vars PROVE TxInv'
  OBVIOUS
<1>1. CASE Quiet
  BY <1>1 DEF Quiet, sendVars, TxInv, TxType, TxOrder
<1>2. CASE DeviceTransmit
  BY <1>2 DEF DeviceTransmit, flagVars, TxInv, TxType, TxOrder
<1>3. CASE Send /\ UNCHANGED flagVars
  BY <1>3, SendLeavesWork DEF flagVars, TxInv, TxType, TxOrder
<1>4. CASE Send /\ inflight' = TRUE /\ mark' = txUsed /\ UNCHANGED txUsed
  BY <1>4, SendLeavesWork DEF TxInv, TxType, TxOrder
<1>5. CASE /\ UNCHANGED sendVars
           /\ mark' \in {mark, consumed} /\ txUsed' \in {txUsed, consumed}
           /\ inflight' = FALSE \/ (TickMark /\ inflight' = TRUE)
  <2>1. inflight' \in BOOLEAN
    BY <1>5
  <2>2. /\ posted' = posted /\ consumed' = consumed /\ lastSent' = lastSent
        /\ mark' \in {mark, consumed} /\ txUsed' \in {txUsed, consumed}
    BY <1>5 DEF sendVars
  <2>3. QED
    BY <2>1, <2>2 DEF TxInv, TxType, TxOrder
<1>6. QED
  BY <1>1, <1>2, <1>3, <1>4, <1>5, StepKinds

\* In every reachable state the transmit indices are in order: what the driver
\* remembers never runs ahead of the device (TX_LAST_SENT, FETCH_TX_USED).
THEOREM TxOrdered == Spec => []TxInv
BY TxInvInit, TxInvNext, PTL DEF Spec

-----------------------------------------------------------------------------
(* The action properties *)

\* The transmit buffer is never filled while the device may read it
\* (tx_wait_ready).
THEOREM TxBufferSafe == Spec => TxBufferOwned
<1>1. TxInv /\ [Next]_vars => [posted' # posted => consumed = posted]_vars
  <2> SUFFICES ASSUME TxInv, [Next]_vars, posted' # posted
               PROVE  consumed = posted
    OBVIOUS
  <2>1. CASE Send
    BY <2>1, SendLeavesWork
  <2>2. CASE Quiet \/ DeviceTransmit \/ UNCHANGED sendVars
    BY <2>2 DEF Quiet, DeviceTransmit, sendVars
  <2>3. QED
    BY <2>1, <2>2, StepKinds
<1>2. QED
  BY <1>1, TxOrdered, PTL DEF Spec, TxBufferOwned

\* The flag of the engine gets stuck only where the index is read behind the
\* post (fetch_tick in FETCH_HTTP).
THEOREM StuckOnlyThere == Spec => StuckOnlyByLateRead
<1>1. TxInv /\ [Next]_vars
         => [Flag # "lost" /\ Flag' = "lost" => TickMark]_vars
  <2> SUFFICES ASSUME TxInv, [Next]_vars, Flag # "lost", Flag' = "lost", ~TickMark
               PROVE  FALSE
    OBVIOUS
  <2>1. CASE Quiet
    BY <2>1 DEF Quiet, sendVars, Flag, Outstanding
  <2>2. CASE DeviceTransmit
    BY <2>2 DEF DeviceTransmit, flagVars, Flag, Outstanding, TxInv, TxType, TxOrder
  <2>3. CASE Send
    BY <2>3, SendLeavesWork DEF Flag, Outstanding
  <2>4. CASE UNCHANGED sendVars /\ inflight' = FALSE
    BY <2>4 DEF Flag, Outstanding
  <2>5. QED
    BY <2>1, <2>2, <2>3, <2>4, StepKinds
<1>2. QED
  BY <1>1, TxOrdered, PTL DEF Spec, StuckOnlyByLateRead
=============================================================================

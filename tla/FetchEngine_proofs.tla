------------------------- MODULE FetchEngine_proofs -------------------------
(***************************************************************************)
(* Proofs about FetchEngine: its types, how often a request is executed,   *)
(* what an ok rests on, what a redirect repeats, what is sent of what was  *)
(* asked, that it implements FetchService, and that every step brings a    *)
(* fetch nearer to its end, for all hosts, commands, retry, round and      *)
(* redirect limits and request sizes.                                      *)
(***************************************************************************)
EXTENDS FetchEngine, TLAPS

-----------------------------------------------------------------------------
(* Types: what a step leaves alone keeps its type. *)

LEMMA SameTarget == TargetType /\ UNCHANGED targetVars => TargetType'
  BY DEF TargetType, targetVars

LEMMA SameTimer == TimerType /\ UNCHANGED timerVars => TimerType'
  BY DEF TimerType, timerVars

LEMMA SameSend == SendType /\ UNCHANGED sendVars => SendType'
  BY DEF SendType, sendVars

LEMMA SameResp == RespType /\ UNCHANGED respVars => RespType'
  BY DEF RespType, respVars

LEMMA SameReply == ReplyType /\ UNCHANGED replyVars => ReplyType'
  BY DEF ReplyType, replyVars

LEMMA SameCache == CacheType /\ UNCHANGED cacheVars => CacheType'
  BY DEF CacheType, cacheVars

LEMMA SamePeer == PeerType /\ UNCHANGED peerVars => PeerType'
  BY DEF PeerType, peerVars

LEMMA SameCount == CountType /\ UNCHANGED countVars => CountType'
  BY DEF CountType, countVars

-----------------------------------------------------------------------------
(* Types: the building blocks. *)

LEMMA FetchStartType ==
    ASSUME TypeOK, NEW r \in Request, NEW hop \in BOOLEAN, FetchStart(r, hop)
    PROVE  /\ req' = r /\ haveGw' \in BOOLEAN /\ dst' \in Address
           /\ state' \in TransportStates /\ tx' = "free"
           /\ redirects' = IF hop THEN redirects ELSE 0
           /\ replyPending' = FALSE /\ replySent' = FALSE
           /\ TimerType' /\ SendType' /\ RespType' /\ PeerType' /\ CountType'
  <1>1. PICK hit \in {FALSE, gwLearned}, ip \in {None, dnsCache[r.host]},
             cooling \in BOOLEAN :
        /\ haveGw' = (hit \/ (UseProxy /\ r.https /\ haveGw))
        /\ wait' = cooling
        /\ dst' \in {Proxy, r.host, ip, dst}
        /\ state' \in {"ARP", "DNS", "SYN"}
    BY DEF FetchStart
  <1>2. dst' \in Address
    BY <1>1 DEF TypeOK, TargetType, CacheType, Address, Request
  <1>3. haveGw' \in BOOLEAN
    BY <1>1, InputAssumption DEF TypeOK, TargetType, CacheType, Request
  <1>4. TimerType'
    BY <1>1 DEF FetchStart, TimerType
  <1>5. SendType'
    <2>1. ackSent' \in BOOLEAN /\ httpSent' \in BOOLEAN
      BY DEF FetchStart
    <2>2. off' = 0 /\ seq' = 0 /\ httpSeq' = 0 /\ built' = None
      BY DEF FetchStart
    <2> QED BY <2>1, <2>2, BoundAssumption DEF SendType
  <1>6. RespType'
    <2>1. /\ gotResp' = FALSE /\ fresh' = FALSE /\ parser' = "headers"
          /\ redirect' = None /\ redirects' = IF hop THEN redirects ELSE 0
      BY DEF FetchStart
    <2>2. gotResp' \in BOOLEAN /\ fresh' \in BOOLEAN
      BY <2>1
    <2>3. redirects' \in 0..MaxRedirects
      BY <2>1, BoundAssumption DEF TypeOK, RespType
    <2> QED BY <2>1, <2>2, <2>3 DEF RespType, ParserStates
  <1>7. PeerType'
    <2>1. peer' = NoPeer /\ conns' = 0 /\ execs' = 0
      BY DEF FetchStart
    <2>2. NoPeer \in [phase : PeerPhases, rcv : Nat, got : Nat]
      BY DEF NoPeer, PeerPhases
    <2> QED BY <2>1, <2>2 DEF PeerType
  <1>8. CountType'
    BY BoundAssumption DEF FetchStart, CountType
  <1> QED BY <1>1, <1>2, <1>3, <1>4, <1>5, <1>6, <1>7, <1>8
          DEF FetchStart, TransportStates

LEMMA TransmitType ==
    ASSUME PeerType, NEW item, NEW pos, Transmit(item, pos),
           UNCHANGED conns
    PROVE  PeerType'
  <1>1. CASE UNCHANGED <<peer, execs>>
    BY <1>1 DEF PeerType
  <1>2. ASSUME NEW got \in {peer.got, peer.got + 1},
               peer' = [phase |-> PeerAfter(item), rcv |-> peer.rcv + 1, got |-> got],
               execs' \in {execs, execs + 1}
        PROVE  PeerType'
    <2>1. PeerAfter(item) \in PeerPhases
      BY DEF PeerAfter, PeerPhases
    <2>2. peer.rcv \in Nat /\ peer.got \in Nat
      BY DEF PeerType
    <2> HIDE DEF PeerAfter
    <2> QED BY <1>2, <2>1, <2>2 DEF PeerType
  <1> QED BY <1>1, <1>2 DEF Transmit

LEMMA FeedType ==
    ASSUME RespType, NEW a \in FeedArgs, Feed(a.next, a.body, a.loc),
           gotResp' \in BOOLEAN
    PROVE  RespType'
  <1>1. /\ a.next \in ParserStates /\ a.body \in BOOLEAN
        /\ a.loc \in Locations \cup {None}
    BY DEF FeedArgs
  <1> QED BY <1>1, BoundAssumption DEF Feed, RespType, MayRedirect

LEMMA RestartRoundType ==
    ASSUME TypeOK, RestartRound, rounds < MaxRounds
    PROVE  /\ state' \in TransportStates /\ wait' = FALSE
           /\ TargetType' /\ SendType' /\ RespType' /\ CountType'
  <1>1. TargetType'
    BY DEF RestartRound, TypeOK, TargetType, Request, Address
  <1>2. SendType'
    <2>1. /\ ackSent' = FALSE /\ httpSent' = FALSE /\ off' = 0
          /\ UNCHANGED <<seq, httpSeq, built>>
      BY DEF RestartRound
    <2>2. ackSent' \in BOOLEAN /\ httpSent' \in BOOLEAN
      BY <2>1
    <2> QED BY <2>1, <2>2, BoundAssumption DEF TypeOK, SendType
  <1>3. RespType'
    BY DEF RestartRound, RestartResp, TypeOK, RespType
  <1>4. CountType'
    BY BoundAssumption DEF RestartRound, TypeOK, CountType
  <1> QED BY <1>1, <1>2, <1>3, <1>4 DEF RestartRound, TransportStates

LEMMA SideFrameType ==
    ASSUME tx \in TxStates, SideFrame
    PROVE  tx' \in TxStates
  BY DEF SideFrame, TxStates

-----------------------------------------------------------------------------
(* Types: the steps. *)

LEMMA CommandType ==
    ASSUME TypeOK, NEW c \in Commands, TakeCommand(c)
    PROVE  TypeOK'
  <1>1. c.req \in Request /\ issued' \in 0..MaxCommands /\ pc' = pc
    BY InputAssumption, BoundAssumption DEF TakeCommand, Command, TypeOK, ControlType
  <1>2. CASE RefuseCommand(c)
    <2>1. ControlType'
      BY <1>1, <1>2, SideFrameType DEF RefuseCommand, TypeOK, ControlType
    <2>2. TargetType'
      BY <1>2 DEF RefuseCommand, TypeOK, TargetType
    <2> QED BY <1>2, <2>1, <2>2, SameTimer, SameSend, SameResp, SameReply,
               SameCache, SamePeer, SameCount DEF RefuseCommand, TypeOK
  <1>3. CASE AcceptCommand(c)
    <2>1. FetchStart(c.req, FALSE)
      BY <1>3 DEF AcceptCommand
    <2>2. ControlType'
      BY <1>1, <2>1, FetchStartType
         DEF TypeOK, ControlType, FetchStates, TxStates
    <2>3. TargetType'
      BY <1>1, <1>3, <2>1, FetchStartType DEF AcceptCommand, TypeOK, TargetType, Request
    <2>4. ReplyType'
      <3>1. replyPending' \in BOOLEAN /\ replySent' \in BOOLEAN
        BY <1>1, <2>1, FetchStartType
      <3>2. reports' = <<>>
        BY <1>3 DEF AcceptCommand
      <3> QED BY <3>1, <3>2 DEF ReplyType
    <2>5. TimerType' /\ SendType' /\ RespType' /\ PeerType' /\ CountType'
      BY <1>1, <2>1, FetchStartType
    <2>6. CacheType'
      BY <1>3, SameCache DEF AcceptCommand, TypeOK
    <2> QED BY <2>2, <2>3, <2>4, <2>5, <2>6 DEF TypeOK
  <1> QED BY <1>2, <1>3 DEF TakeCommand

LEMMA RxType ==
    ASSUME TypeOK, Rx
    PROVE  TypeOK'
  <1>1. CASE ArpReply
    <2>1. gwLearned' \in BOOLEAN /\ haveGw' \in BOOLEAN /\ wait' \in BOOLEAN
      BY <1>1 DEF ArpReply
    <2>2. ControlType'
      BY <1>1 DEF ArpReply, TypeOK, ControlType, ResumeState, FetchStates, TransportStates
    <2>3. TargetType' /\ TimerType' /\ CacheType'
      BY <1>1, <2>1 DEF ArpReply, TypeOK, TargetType, TimerType, CacheType
    <2>4. CountType'
      BY <1>1, BoundAssumption DEF ArpReply, TypeOK, CountType
    <2> QED BY <1>1, <2>2, <2>3, <2>4, SameSend, SameResp, SameReply, SamePeer
            DEF ArpReply, TypeOK
  <1>2. ASSUME NEW h \in Hosts, DnsReply(h) PROVE TypeOK'
    <2>1. wait' \in BOOLEAN
      BY <1>2 DEF DnsReply
    <2>2. ControlType'
      BY <1>2 DEF DnsReply, TypeOK, ControlType, FetchStates, TransportStates
    <2>3. TargetType' /\ TimerType' /\ CacheType'
      BY <1>2, <2>1
         DEF DnsReply, TypeOK, TargetType, TimerType, CacheType, Address
    <2>4. CountType'
      BY <1>2, BoundAssumption DEF DnsReply, TypeOK, CountType
    <2> QED BY <1>2, <2>2, <2>3, <2>4, SameSend, SameResp, SameReply, SamePeer
            DEF DnsReply, TypeOK
  <1>3. CASE SynAck
    <2>1. ackSent' \in BOOLEAN /\ httpSent' \in BOOLEAN /\ wait' \in BOOLEAN
          /\ gotResp' \in BOOLEAN
      BY <1>3 DEF SynAck
    <2>2. ControlType'
      BY <1>3 DEF SynAck, TypeOK, ControlType, FetchStates, SocksStates,
                  StreamStates, TxStates
    <2>3. SendType'
      BY <1>3, <2>1, BoundAssumption DEF SynAck, TypeOK, SendType
    <2>4. RespType' /\ TimerType'
      BY <1>3, <2>1 DEF SynAck, TypeOK, RespType, TimerType
    <2>5. PeerType'
      <3>1. NewPeer \in [phase : PeerPhases, rcv : Nat, got : Nat]
        BY DEF NewPeer, PeerPhases
      <3> QED BY <1>3, <3>1 DEF SynAck, TypeOK, PeerType
    <2>6. CountType'
      BY <1>3, BoundAssumption DEF SynAck, TypeOK, CountType
    <2> QED BY <1>3, <2>2, <2>3, <2>4, <2>5, <2>6, SameTarget, SameReply, SameCache
            DEF SynAck, TypeOK
  <1>4. ASSUME NEW granted \in BOOLEAN, SocksHelloReply(granted) PROVE TypeOK'
    <2>1. ControlType'
      BY <1>4, SideFrameType
         DEF SocksHelloReply, TypeOK, ControlType, FetchStates, SocksStates
    <2>2. wait' \in BOOLEAN /\ expired' \in BOOLEAN
      BY <1>4 DEF SocksHelloReply, TypeOK, TimerType
    <2>3. CountType'
      BY <1>4, BoundAssumption DEF SocksHelloReply, TypeOK, CountType
    <2> QED BY <1>4, <2>1, <2>2, <2>3, SameTarget, SameSend, SameResp, SameReply,
               SameCache, SamePeer DEF SocksHelloReply, TypeOK, TimerType
  <1>5. ASSUME NEW granted \in BOOLEAN, SocksConnectReply(granted) PROVE TypeOK'
    <2>1. ControlType'
      BY <1>5, SideFrameType
         DEF SocksConnectReply, TypeOK, ControlType, FetchStates, StreamStates
    <2> QED BY <1>5, <2>1, SameTarget, SameTimer, SameSend, SameResp, SameReply,
               SameCache, SamePeer, SameCount DEF SocksConnectReply, TypeOK
  <1>6. ASSUME NEW a \in FeedArgs, HttpData(a) PROVE TypeOK'
    <2>1. a.body \in BOOLEAN
      BY DEF FeedArgs
    <2>2. gotResp' \in BOOLEAN
      BY <1>6, <2>1 DEF HttpData, TypeOK, RespType
    <2>3. RespType'
      BY <1>6, <2>2, FeedType DEF HttpData, TypeOK
    <2>4. ControlType'
      BY <1>6, SideFrameType DEF HttpData, TypeOK, ControlType
    <2> QED BY <1>6, <2>3, <2>4, SameTarget, SameTimer, SameSend, SameReply,
               SameCache, SamePeer, SameCount DEF HttpData, TypeOK
  <1>7. ASSUME NEW a \in FeedArgs, HttpHeadersTooLarge(a) PROVE TypeOK'
    <2>1. ControlType'
      BY <1>7, SideFrameType DEF HttpHeadersTooLarge, TypeOK, ControlType, FetchStates
    <2>2. gotResp' \in BOOLEAN
      BY <1>7 DEF HttpHeadersTooLarge, FeedArgs
    <2>3. RespType'
      BY <1>7, <2>2, FeedType DEF HttpHeadersTooLarge, TypeOK
    <2> QED BY <1>7, <2>1, <2>3, SameTarget, SameTimer, SameSend, SameReply,
               SameCache, SamePeer, SameCount DEF HttpHeadersTooLarge, TypeOK
  <1>8. CASE HttpFin
    <2>1. ControlType'
      BY <1>8, SideFrameType DEF HttpFin, TypeOK, ControlType, FetchStates
    <2> QED BY <1>8, <2>1, SameTarget, SameTimer, SameSend, SameResp, SameReply,
               SameCache, SamePeer, SameCount DEF HttpFin, TypeOK
  <1>9. CASE TlsSegment
    <2>1. ControlType'
      BY <1>9, SideFrameType DEF TlsSegment, TypeOK, ControlType
    <2> QED BY <1>9, <2>1, SameTarget, SameTimer, SameSend, SameResp, SameReply,
               SameCache, SamePeer, SameCount DEF TlsSegment, TypeOK
  <1> QED BY <1>1, <1>2, <1>3, <1>4, <1>5, <1>6, <1>7, <1>8, <1>9 DEF Rx

\* A tick that tries again, moves on or gives up, and no more than that.
LEMMA TickMoveType ==
    ASSUME TypeOK, pc' \in {"rx", "reply", "done"},
           \/ TickNeedsGateway \/ TickNothing \/ TickSocksEnough
           \/ TickBuildFails \/ TickTlsFails \/ TickTlsEnd
    PROVE  TypeOK'
  <1>1. /\ UNCHANGED <<issued, targetVars, timerVars, sendVars, respVars,
                       replyVars, cacheVars, peerVars, countVars>>
        /\ state' \in {state, "ARP", "DONE"} /\ tx' \in {tx, "free"}
    BY DEF TickNeedsGateway, TickNothing, TickSocksEnough, TickBuildFails,
           TickTlsFails, TickTlsEnd
  <1>2. ControlType'
    BY <1>1 DEF TypeOK, ControlType, FetchStates, TransportStates, TxStates
  <1> QED BY <1>1, <1>2, SameTarget, SameTimer, SameSend, SameResp, SameReply,
             SameCache, SamePeer, SameCount DEF TypeOK

LEMMA TickRestartType ==
    ASSUME TypeOK, pc' \in {"rx", "reply", "done"}, TickExpired \/ TickAskedEnough
    PROVE  TypeOK'
  <1>1. /\ UNCHANGED <<issued, replyVars, cacheVars, peerVars>>
        /\ tx' \in {tx, "free"}
    BY DEF TickExpired, TickAskedEnough
  <1>2. expired' \in BOOLEAN
    BY DEF TickExpired, TickAskedEnough, TypeOK, TimerType, timerVars
  <1>3. CASE RestartRound /\ rounds < MaxRounds
    <2>1. /\ state' \in TransportStates /\ wait' = FALSE
          /\ TargetType' /\ SendType' /\ RespType' /\ CountType'
      BY <1>3, RestartRoundType
    <2>2. ControlType'
      BY <1>1, <2>1 DEF TypeOK, ControlType, FetchStates, TxStates
    <2>3. wait' \in BOOLEAN
      BY <2>1
    <2>4. TimerType'
      BY <1>2, <2>3 DEF TimerType
    <2> QED BY <1>1, <2>1, <2>2, <2>4, SameReply, SameCache, SamePeer DEF TypeOK
  <1>4. CASE /\ state' = "DONE"
             /\ UNCHANGED <<targetVars, wait, sendVars, respVars, countVars>>
    <2>1. ControlType'
      BY <1>1, <1>4 DEF TypeOK, ControlType, FetchStates, TxStates
    <2>2. TimerType'
      BY <1>2, <1>4 DEF TypeOK, TimerType
    <2> QED BY <1>1, <1>4, <2>1, <2>2, SameTarget, SameSend, SameResp, SameReply,
               SameCache, SamePeer, SameCount DEF TypeOK
  <1> QED BY <1>3, <1>4 DEF TickExpired, TickAskedEnough, timerVars

LEMMA BuildType ==
    ASSUME TypeOK, Build
    PROVE  built' \in Built \cup {None}
  <1>1. [post |-> methodPost, oauth |-> oauth] \in Built
    BY DEF TypeOK, TargetType, Built
  <1> QED BY <1>1 DEF Build, TypeOK, SendType

LEMMA TickAskType ==
    ASSUME TypeOK, pc' \in {"rx", "reply", "done"}, TickAsk
    PROVE  TypeOK'
  <1>1. UNCHANGED <<state, issued, targetVars, expired, sendVars, respVars,
                    replyVars, gwLearned, dnsCache, peerVars, rounds, httpRetry>>
    BY DEF TickAsk
  <1>2. wait' \in BOOLEAN /\ expired' \in BOOLEAN
    BY DEF TickAsk, TypeOK, TimerType
  <1>3. ControlType'
    BY DEF TickAsk, TypeOK, ControlType, TxStates
  <1>4. TimerType' /\ CacheType'
    BY <1>2 DEF TickAsk, TypeOK, TimerType, CacheType, TargetType, Request
  <1>5. CountType'
    BY BoundAssumption DEF TickAsk, TypeOK, CountType
  <1> QED BY <1>1, <1>3, <1>4, <1>5, SameTarget, SameSend, SameResp, SameReply,
             SamePeer DEF TypeOK

LEMMA TickSocksSendType ==
    ASSUME TypeOK, pc' \in {"rx", "reply", "done"}, TickSocksSend
    PROVE  TypeOK'
  <1>1. UNCHANGED <<state, issued, targetVars, expired, ackSent, httpSent, off,
                    httpSeq, built, respVars, replyVars, cacheVars, conns,
                    rounds, httpRetry>>
    BY DEF TickSocksSend
  <1>2. wait' \in BOOLEAN /\ expired' \in BOOLEAN
    BY DEF TickSocksSend, TypeOK, TimerType
  <1>3. ControlType'
    BY DEF TickSocksSend, TypeOK, ControlType, TxStates
  <1>4. SendType' /\ TimerType'
    BY <1>2 DEF TickSocksSend, TypeOK, SendType, TimerType
  <1>5. PeerType'
    BY <1>1, TransmitType DEF TickSocksSend, TypeOK
  <1>6. CountType'
    BY BoundAssumption DEF TickSocksSend, TypeOK, CountType
  <1> QED BY <1>1, <1>3, <1>4, <1>5, <1>6, SameTarget, SameResp, SameReply,
             SameCache DEF TypeOK

LEMMA TickHttpType ==
    ASSUME TypeOK, pc' \in {"rx", "reply", "done"},
           TickHttpAck \/ TickHttpResend \/ TickHttpEnough
    PROVE  TypeOK'
  <1>1. CASE TickHttpAck
    <2>1. wait' \in BOOLEAN /\ ackSent' \in BOOLEAN
      BY <1>1 DEF TickHttpAck
    <2>2. ControlType'
      BY <1>1 DEF TickHttpAck, PostRead, TypeOK, ControlType, TxStates
    <2>3. SendType' /\ TimerType'
      BY <1>1, <2>1 DEF TickHttpAck, TypeOK, SendType, TimerType
    <2> QED BY <1>1, <2>2, <2>3, SameTarget, SameResp, SameReply, SameCache,
               SamePeer, SameCount DEF TickHttpAck, TypeOK
  <1>2. CASE TickHttpResend
    <2>1. httpSent' \in BOOLEAN
      BY <1>2 DEF TickHttpResend
    <2>2. ControlType'
      BY <1>2 DEF TickHttpResend, TypeOK, ControlType, TxStates
    <2>3. SendType'
      BY <1>2, <2>1, BoundAssumption DEF TickHttpResend, ResendSeq, TypeOK, SendType
    <2> QED BY <1>2, <2>2, <2>3, SameTarget, SameTimer, SameResp, SameReply,
               SameCache, SamePeer, SameCount DEF TickHttpResend, TypeOK
  <1>3. CASE TickHttpEnough
    <2>1. built' \in Built \cup {None}
      BY <1>3, BuildType DEF TickHttpEnough, TypeOK, SendType
    <2>2. ControlType'
      BY <1>3 DEF TickHttpEnough, TypeOK, ControlType, FetchStates, TxStates
    <2>3. SendType'
      BY <1>3, <2>1 DEF TickHttpEnough, TypeOK, SendType
    <2> QED BY <1>3, <2>2, <2>3, SameTarget, SameTimer, SameResp, SameReply,
               SameCache, SamePeer, SameCount DEF TickHttpEnough, TypeOK
  <1> QED BY <1>1, <1>2, <1>3

\* httpSent keeps the offset below the size of the request (ExecInv).
LEMMA TickHttpSendType ==
    ASSUME TypeOK, pc' \in {"rx", "reply", "done"}, TickHttpSend, off < ReqChunks
    PROVE  TypeOK'
  <1>1. wait' \in BOOLEAN /\ gotResp' \in BOOLEAN /\ httpSent' \in BOOLEAN
    BY DEF TickHttpSend
  <1>2. built' \in Built \cup {None}
    BY BuildType DEF TickHttpSend
  <1>3. ControlType'
    BY DEF TickHttpSend, PostRead, TypeOK, ControlType, TxStates
  <1>4. off' \in 0..ReqChunks /\ seq' \in Nat /\ httpSeq' \in Nat
    BY BoundAssumption DEF TickHttpSend, TypeOK, SendType
  <1>5. SendType'
    BY <1>1, <1>2, <1>4 DEF TickHttpSend, TypeOK, SendType
  <1>6. RespType' /\ TimerType'
    BY <1>1 DEF TickHttpSend, TypeOK, RespType, TimerType
  <1>7. PeerType'
    BY TransmitType DEF TickHttpSend, TypeOK
  <1>8. CountType'
    BY BoundAssumption DEF TickHttpSend, TypeOK, CountType
  <1> QED BY <1>3, <1>5, <1>6, <1>7, <1>8, SameTarget, SameReply, SameCache
          DEF TickHttpSend, TypeOK

LEMMA TickTlsType ==
    ASSUME TypeOK, pc' \in {"rx", "reply", "done"},
           TickTlsHandshake \/ TickTlsWrite \/ TickTlsWritten
    PROVE  TypeOK'
  <1>1. CASE TickTlsHandshake
    <2>1. ControlType'
      BY <1>1 DEF TickTlsHandshake, TypeOK, ControlType, FetchStates, StreamStates,
                  TxStates
    <2>2. SendType'
      BY <1>1, BoundAssumption DEF TickTlsHandshake, TypeOK, SendType
    <2> QED BY <1>1, <2>1, <2>2, SameTarget, SameTimer, SameResp, SameReply,
               SameCache, SamePeer, SameCount DEF TickTlsHandshake, TypeOK
  <1>2. CASE TickTlsWrite
    <2>1. built' \in Built \cup {None}
      BY <1>2, BuildType DEF TickTlsWrite
    <2>2. ControlType'
      BY <1>2 DEF TickTlsWrite, TypeOK, ControlType, TxStates
    <2>3. off' \in 0..ReqChunks /\ seq' \in Nat
      BY <1>2, BoundAssumption DEF TickTlsWrite, TypeOK, SendType
    <2>4. SendType'
      BY <1>2, <2>1, <2>3 DEF TickTlsWrite, TypeOK, SendType
    <2>5. PeerType'
      BY <1>2, TransmitType DEF TickTlsWrite, TypeOK
    <2> QED BY <1>2, <2>2, <2>4, <2>5, SameTarget, SameTimer, SameResp, SameReply,
               SameCache, SameCount DEF TickTlsWrite, TypeOK
  <1>3. CASE TickTlsWritten
    <2>1. ControlType'
      BY <1>3 DEF TickTlsWritten, TypeOK, ControlType, FetchStates, StreamStates,
                  TxStates
    <2>2. wait' \in BOOLEAN
      BY <1>3 DEF TickTlsWritten
    <2>3. TimerType'
      BY <1>3, <2>2 DEF TickTlsWritten, TypeOK, TimerType
    <2> QED BY <1>3, <2>1, <2>3, SameTarget, SameSend, SameResp, SameReply,
               SameCache, SamePeer, SameCount DEF TickTlsWritten, TypeOK
  <1> QED BY <1>1, <1>2, <1>3

LEMMA TickTlsReadType ==
    ASSUME TypeOK, pc' \in {"rx", "reply", "done"},
           NEW a \in FeedArgs, TickTlsRead(a)
    PROVE  TypeOK'
  <1>1. wait' \in BOOLEAN /\ gotResp' \in BOOLEAN
    BY DEF TickTlsRead
  <1>2. replyPending' \in BOOLEAN
    BY DEF TickTlsRead, TypeOK, ReplyType
  <1>3. ControlType'
    BY DEF TickTlsRead, TypeOK, ControlType, FetchStates, StreamStates, TxStates
  <1>4. TimerType'
    BY <1>1 DEF TickTlsRead, TypeOK, TimerType
  <1>5. ReplyType'
    BY <1>2 DEF TickTlsRead, TypeOK, ReplyType
  <1>6. RespType'
    BY <1>1, FeedType DEF TickTlsRead, TypeOK
  <1> QED BY <1>3, <1>4, <1>5, <1>6, SameTarget, SameSend, SameCache, SamePeer,
             SameCount DEF TickTlsRead, TypeOK

LEMMA TickType ==
    ASSUME TypeOK, Tick, TickHttpSend => off < ReqChunks
    PROVE  TypeOK'
  <1>1. pc' \in {"rx", "reply", "done"}
    BY DEF Tick, AfterTick
  <1> QED BY <1>1, TickMoveType, TickRestartType, TickAskType, TickSocksSendType,
             TickHttpType, TickHttpSendType, TickTlsType, TickTlsReadType DEF Tick

LEMMA ReplyStepType ==
    ASSUME TypeOK, ReplyStep
    PROVE  TypeOK'
  <1>1. CASE ReplySent
    <2>1. replyPending' \in BOOLEAN /\ replySent' \in BOOLEAN
      BY <1>1 DEF ReplySent
    <2>2. ReplyType'
      BY <1>1, <2>1 DEF ReplySent, TypeOK, ReplyType
    <2>3. ControlType'
      BY <1>1, SideFrameType DEF ReplySent, ReplyStep, TypeOK, ControlType
    <2> QED BY <2>2, <2>3, SameTarget, SameTimer, SameSend, SameResp, SameCache,
               SamePeer, SameCount DEF ReplyStep, TypeOK
  <1>2. CASE UNCHANGED <<tx, replyVars>>
    <2>1. ControlType'
      BY <1>2 DEF ReplyStep, TypeOK, ControlType
    <2> QED BY <1>2, <2>1, SameTarget, SameTimer, SameSend, SameResp, SameReply,
               SameCache, SamePeer, SameCount DEF ReplyStep, TypeOK
  <1> QED BY <1>1, <1>2 DEF ReplyStep

LEMMA DoneStepType ==
    ASSUME TypeOK, DoneStep
    PROVE  TypeOK'
  <1>1. pc' = "rx"
    BY DEF DoneStep
  <1>2. CASE AgentFinishes
    <2>1. ControlType'
      BY <1>1, <1>2, SideFrameType DEF AgentFinishes, TypeOK, ControlType, FetchStates
    <2>2. taskActive' \in BOOLEAN /\ oauth' \in BOOLEAN
      BY <1>2 DEF AgentFinishes
    <2>3. TargetType'
      BY <1>2, <2>2 DEF AgentFinishes, TypeOK, TargetType
    <2> QED BY <1>2, <2>1, <2>3, SameTimer, SameSend, SameResp, SameReply,
               SameCache, SamePeer, SameCount DEF AgentFinishes, TypeOK
  <1>3. ASSUME NEW c \in Commands, AgentContinues(c) PROVE TypeOK'
    <2>1. c.req \in Request /\ FetchStart(c.req, FALSE)
      BY <1>3, InputAssumption DEF AgentContinues, Command
    <2>2. ControlType'
      <3>1. issued' \in 0..MaxCommands
        BY <1>3, BoundAssumption DEF AgentContinues, TypeOK, ControlType
      <3>2. state' \in TransportStates /\ tx' = "free"
        BY <2>1, FetchStartType
      <3> QED BY <1>1, <3>1, <3>2 DEF ControlType, FetchStates, TxStates
    <2>3. TargetType'
      BY <1>3, <2>1, FetchStartType DEF AgentContinues, TypeOK, TargetType, Request
    <2>4. ReplyType'
      <3>1. replyPending' \in BOOLEAN /\ replySent' \in BOOLEAN
        BY <2>1, FetchStartType
      <3> QED BY <1>3, <3>1 DEF AgentContinues, ReplyType
    <2>5. TimerType' /\ SendType' /\ RespType' /\ PeerType' /\ CountType'
      BY <2>1, FetchStartType
    <2>6. CacheType'
      BY <1>3, SameCache DEF AgentContinues, TypeOK
    <2> QED BY <2>2, <2>3, <2>4, <2>5, <2>6 DEF TypeOK
  <1>4. CASE FollowRedirect
    <2> DEFINE r == [src |-> req.src, host |-> redirect.host,
                     https |-> redirect.https, fixed |-> FALSE,
                     post |-> FALSE, oauth |-> oauth]
    <2>1. r \in Request
      <3>1. redirect \in Location
        BY <1>4, InputAssumption DEF FollowRedirect, TypeOK, RespType
      <3> QED BY <3>1 DEF TypeOK, TargetType, Request, Location
    <2>2. FetchStart(r, TRUE)
      BY <1>4 DEF FollowRedirect
    <2> HIDE DEF r
    <2>3. ControlType'
      BY <1>1, <1>4, <2>1, <2>2, FetchStartType
         DEF FollowRedirect, TypeOK, ControlType, FetchStates, TxStates
    <2>4. TargetType'
      <3>1. methodPost' \in BOOLEAN
        BY <1>4 DEF FollowRedirect, HopMethod
      <3> QED BY <1>4, <2>1, <2>2, <3>1, FetchStartType
              DEF FollowRedirect, TypeOK, TargetType
    <2>5. ReplyType'
      <3>1. replyPending' \in BOOLEAN /\ replySent' \in BOOLEAN
        BY <2>1, <2>2, FetchStartType
      <3> QED BY <1>4, <3>1 DEF FollowRedirect, TypeOK, ReplyType
    <2>6. TimerType' /\ SendType' /\ RespType' /\ PeerType' /\ CountType'
      BY <2>1, <2>2, FetchStartType
    <2>7. CacheType'
      BY <1>4, SameCache DEF FollowRedirect, TypeOK
    <2> QED BY <2>3, <2>4, <2>5, <2>6, <2>7 DEF TypeOK
  <1>5. ASSUME UNCHANGED <<req, haveGw, dst, methodPost, taskActive>>,
               oauth' \in {oauth, FALSE}
        PROVE  TargetType'
    BY <1>5 DEF TypeOK, TargetType
  <1>6. CASE TellConsole
    <2>1. ControlType'
      BY <1>1, <1>6, SideFrameType
         DEF TellConsole, Finish, TypeOK, ControlType, FetchStates
    <2>2. TargetType'
      BY <1>5, <1>6 DEF TellConsole, Finish
    <2>3. replyPending' \in BOOLEAN
      BY <1>6 DEF TellConsole
    <2>4. ReplyType'
      <3>1. Outcome \in {"ok", "fail"}
        BY DEF Outcome
      <3> HIDE DEF Outcome
      <3>2. reports' \in Seq({"ok", "fail"})
        BY <1>6, <3>1 DEF TellConsole, TypeOK, ReplyType
      <3> QED BY <1>6, <2>3, <3>2 DEF TellConsole, TypeOK, ReplyType
    <2> QED BY <1>6, <2>1, <2>2, <2>4, SameTimer, SameSend, SameResp, SameCache,
               SamePeer, SameCount DEF TellConsole, TypeOK
  <1>7. CASE TellUdp
    <2>1. state' \in {state, "IDLE"} /\ oauth' \in {oauth, FALSE}
          /\ UNCHANGED <<req, haveGw, dst, methodPost, taskActive>>
      BY <1>7 DEF TellUdp, Finish, targetVars
    <2>2. ControlType'
      BY <1>1, <1>7, <2>1, SideFrameType DEF TellUdp, TypeOK, ControlType, FetchStates
    <2>3. TargetType'
      BY <1>5, <2>1
    <2>4. replyPending' \in BOOLEAN
      BY <1>7 DEF TellUdp, TypeOK, ReplyType
    <2>5. reports' \in Seq({"ok", "fail"})
      BY <1>7 DEF TellUdp, Outcome, TypeOK, ReplyType
    <2>6. ReplyType'
      BY <1>7, <2>4, <2>5 DEF TellUdp, TypeOK, ReplyType
    <2> QED BY <1>7, <2>2, <2>3, <2>6, SameTimer, SameSend, SameResp, SameCache,
               SamePeer, SameCount DEF TellUdp, TypeOK
  <1> QED BY <1>2, <1>3, <1>4, <1>6, <1>7 DEF DoneStep

\* Steps of the loop, of time and of the device.
LEMMA LoopType ==
    ASSUME TypeOK, RxEnd \/ WaitOver \/ DeadlineOver \/ TxConsumed
    PROVE  TypeOK'
  <1>1. UNCHANGED <<issued, targetVars, sendVars, respVars, replyVars, cacheVars,
                    peerVars, countVars>>
    BY DEF RxEnd, WaitOver, DeadlineOver, TxConsumed
  <1>2. wait' \in BOOLEAN /\ expired' \in BOOLEAN
    BY DEF RxEnd, WaitOver, DeadlineOver, TxConsumed, TypeOK, TimerType, timerVars
  <1>3. ControlType'
    BY DEF RxEnd, WaitOver, DeadlineOver, TxConsumed, TypeOK, ControlType, TxStates
  <1> QED BY <1>1, <1>2, <1>3, SameTarget, SameSend, SameResp, SameReply,
             SameCache, SamePeer, SameCount DEF TypeOK, TimerType

-----------------------------------------------------------------------------
(* Connections and executions. *)

\* A round connects once: it has not while it looks for the way to the host,
\* which takes the gateway's address.
ConnInv ==
    /\ state \in TransportStates \/ ~haveGw => conns <= rounds
    /\ conns <= rounds + 1

\* A connection executes once: it has not while the target holds less than a
\* request, and it never holds more.
ExecInv ==
    /\ execs <= conns
    /\ state \in SocksStates \cup StreamStates /\ peer.got < ReqChunks
           => execs < conns
    /\ peer.got >= ReqChunks => execs > 0
    /\ state \in SocksStates \cup {"TLS_HANDSHAKE"} => peer.got = 0
    /\ state = "TLS_HTTP" => peer.got <= off
    /\ state = "HTTP" => /\ peer.got <= peer.rcv /\ peer.rcv <= ReqChunks
                         /\ IF off = 0 THEN seq = 0 ELSE httpSeq = 0
                         /\ httpSent <=> off = ReqChunks

\* An ok stands for a response of this round.
OkInv == OkIsEarned

Bounded == TypeOK /\ ConnInv /\ ExecInv

\* The request is complete when its last segment is there.
LEMMA RequestComplete ==
    ASSUME NEW n \in 1..ReqChunks
    PROVE  n % ReqChunks = 0 <=> n = ReqChunks
  BY BoundAssumption

\* What a segment does to a target that holds less than a request.
LEMMA TransmitExec ==
    ASSUME TypeOK, NEW item, NEW pos, Transmit(item, pos), ExecInv,
           state \in SocksStates \cup StreamStates,
           peer.got < ReqChunks \/ item # "data"
    PROVE  /\ execs' <= conns
           /\ peer'.got < ReqChunks => execs' < conns
           /\ peer'.got >= ReqChunks => execs' > 0
           /\ peer'.got \in {peer.got, peer.got + 1}
           /\ item # "data" => peer'.got = peer.got
           /\ execs' \in {execs, execs + 1}
           /\ peer' = peer \/ (pos = peer.rcv /\ peer'.rcv = peer.rcv + 1)
  <1>1. CASE UNCHANGED <<peer, execs>>
    BY <1>1 DEF ExecInv
  <1>2. ASSUME pos = peer.rcv, item = "data",
               peer' = [phase |-> PeerAfter(item), rcv |-> peer.rcv + 1,
                        got |-> peer.got + 1],
               execs' = IF (peer.got + 1) % ReqChunks = 0 THEN execs + 1 ELSE execs
        PROVE  /\ execs' <= conns
               /\ peer'.got < ReqChunks => execs' < conns
               /\ peer'.got >= ReqChunks => execs' > 0
               /\ peer'.got = peer.got + 1 /\ peer'.rcv = peer.rcv + 1
    <2>1. /\ peer.got \in Nat /\ execs \in Nat /\ conns \in Nat
          /\ peer.got + 1 \in 1..ReqChunks /\ execs < conns
      BY <1>2, BoundAssumption DEF TypeOK, PeerType, ExecInv
    <2>2. execs' = IF peer.got + 1 = ReqChunks THEN execs + 1 ELSE execs
      BY <1>2, <2>1, RequestComplete
    <2>3. peer'.got = peer.got + 1 /\ peer'.rcv = peer.rcv + 1
      BY <1>2
    <2> QED BY <2>1, <2>2, <2>3, BoundAssumption
  <1>3. ASSUME pos = peer.rcv,
               peer' = [phase |-> PeerAfter(item), rcv |-> peer.rcv + 1,
                        got |-> peer.got],
               execs' = execs
        PROVE  /\ execs' <= conns
               /\ peer'.got < ReqChunks => execs' < conns
               /\ peer'.got >= ReqChunks => execs' > 0
               /\ peer'.got = peer.got /\ peer'.rcv = peer.rcv + 1
    BY <1>3 DEF ExecInv
  <1> QED BY <1>1, <1>2, <1>3 DEF Transmit

\* A new request begins without a connection.
LEMMA StartBounded ==
    ASSUME TypeOK, NEW r \in Request, NEW hop \in BOOLEAN, FetchStart(r, hop)
    PROVE  ConnInv' /\ ExecInv' /\ OkInv'
  <1>1. /\ state' \in TransportStates /\ retry' = 0 /\ rounds' = 0
        /\ conns' = 0 /\ execs' = 0 /\ peer' = NoPeer /\ gotResp' = FALSE
    BY FetchStartType DEF FetchStart
  <1>2. NoPeer.got = 0
    BY DEF NoPeer
  <1> QED BY <1>1, <1>2, BoundAssumption
          DEF ConnInv, ExecInv, OkInv, OkIsEarned, TransportStates, SocksStates, StreamStates

\* A new round may connect once more.
LEMMA RestartBounded ==
    ASSUME Bounded, RestartRound, rounds < MaxRounds, UNCHANGED peerVars
    PROVE  ConnInv' /\ ExecInv' /\ OkInv'
  <1>1. /\ state' \in TransportStates /\ retry' = 0 /\ rounds' = rounds + 1
        /\ gotResp' = FALSE /\ UNCHANGED <<peer, conns, execs>>
    BY RestartRoundType DEF RestartRound, RestartResp, peerVars, Bounded
  <1>2. conns \in Nat /\ rounds \in Nat /\ conns <= rounds + 1
    BY BoundAssumption DEF Bounded, ConnInv, TypeOK, PeerType, CountType
  <1> QED BY <1>1, <1>2
          DEF Bounded, ConnInv, ExecInv, OkInv, OkIsEarned, TransportStates,
              SocksStates, StreamStates

\* Steps that keep the connection and send nothing.
LEMMA QuietBounded ==
    ASSUME Bounded,
           UNCHANGED <<rounds, haveGw, off, seq, httpSeq, httpSent, peer, conns, execs>>,
           retry' \in {retry, 0},
           state' \in {state, "DONE", "IDLE"} \/ (state' = "ARP" /\ ~haveGw)
               \/ (state = "TLS_HTTP" /\ state' = "TLS_READ")
               \/ (state = "SOCKS_HELLO" /\ state' = "SOCKS_CONNECT")
               \/ (state = "SOCKS_CONNECT" /\ state' = "TLS_HANDSHAKE")
               \/ (state = "DNS" /\ state' = "SYN" /\ retry' = 0)
    PROVE  ConnInv' /\ ExecInv'
  <1>1. ConnInv'
    BY DEF Bounded, ConnInv, TransportStates
  <1>2. ExecInv'
    BY DEF Bounded, ExecInv, SocksStates, StreamStates
  <1> QED BY <1>1, <1>2

LEMMA CommandBounded ==
    ASSUME Bounded, OkInv, NEW c \in Commands, TakeCommand(c)
    PROVE  ConnInv' /\ ExecInv' /\ OkInv'
  <1>1. CASE RefuseCommand(c)
    <2>1. UNCHANGED <<state, haveGw, sendVars, respVars, peerVars, countVars>>
      BY <1>1 DEF RefuseCommand
    <2> QED BY <2>1, QuietBounded
            DEF sendVars, respVars, peerVars, countVars, OkInv, OkIsEarned
  <1>2. CASE AcceptCommand(c)
    <2>1. c.req \in Request
      BY InputAssumption DEF Command
    <2> QED BY <1>2, <2>1, StartBounded DEF AcceptCommand, Bounded
  <1> QED BY <1>1, <1>2 DEF TakeCommand

LEMMA RxBounded ==
    ASSUME Bounded, OkInv, Rx
    PROVE  ConnInv' /\ ExecInv' /\ OkInv'
  <1> USE DEF sendVars, respVars, peerVars, countVars, targetVars
  <1>1. CASE ArpReply
    <2>1. /\ state = "ARP" /\ state' \in {"SYN", "DNS"} /\ retry' = 0 /\ haveGw' = TRUE
          /\ UNCHANGED <<rounds, peer, conns, execs, gotResp, fresh>>
      BY <1>1 DEF ArpReply, ResumeState
    <2> QED BY <2>1 DEF Bounded, ConnInv, ExecInv, OkInv, OkIsEarned, TransportStates,
                        SocksStates, StreamStates
  <1>2. ASSUME NEW h \in Hosts, DnsReply(h)
        PROVE  ConnInv' /\ ExecInv' /\ OkInv'
    <2>1. /\ state = "DNS" /\ state' = "SYN" /\ retry' = 0
          /\ UNCHANGED <<rounds, haveGw, sendVars, peerVars, gotResp, fresh>>
      BY <1>2 DEF DnsReply
    <2> QED BY <2>1, QuietBounded DEF OkInv, OkIsEarned
  <1>3. CASE SynAck
    <2>1. /\ state = "SYN" /\ haveGw /\ conns' = conns + 1 /\ peer' = NewPeer
          /\ state' \in {"SOCKS_HELLO", "TLS_HANDSHAKE", "HTTP", "DONE"}
          /\ off' = 0 /\ seq' = 0 /\ httpSent' = FALSE /\ gotResp' = FALSE
          /\ UNCHANGED <<rounds, haveGw, execs>>
      BY <1>3 DEF SynAck
    <2>2. NewPeer.got = 0 /\ NewPeer.rcv = 0
      BY DEF NewPeer
    <2>3. conns \in Nat /\ execs \in Nat /\ rounds \in Nat
      BY BoundAssumption DEF Bounded, TypeOK, PeerType, CountType
    <2>4. conns <= rounds /\ execs <= conns
      BY <2>1 DEF Bounded, ConnInv, ExecInv, TransportStates
    <2>5. ConnInv'
      BY <2>1, <2>3, <2>4 DEF ConnInv, TransportStates
    <2>6. ExecInv'
      BY <2>1, <2>2, <2>3, <2>4, BoundAssumption DEF ExecInv
    <2>7. OkInv'
      BY <2>1 DEF OkInv, OkIsEarned
    <2> QED BY <2>5, <2>6, <2>7
  <1>4. ASSUME NEW granted \in BOOLEAN, SocksHelloReply(granted)
        PROVE  ConnInv' /\ ExecInv' /\ OkInv'
    <2>1. /\ state = "SOCKS_HELLO" /\ state' \in {"SOCKS_CONNECT", "DONE"}
          /\ retry' \in {retry, 0}
          /\ UNCHANGED <<rounds, haveGw, sendVars, peerVars, gotResp, fresh>>
      BY <1>4 DEF SocksHelloReply
    <2> QED BY <2>1, QuietBounded DEF OkInv, OkIsEarned
  <1>5. ASSUME NEW granted \in BOOLEAN, SocksConnectReply(granted)
        PROVE  ConnInv' /\ ExecInv' /\ OkInv'
    <2>1. /\ state = "SOCKS_CONNECT" /\ state' \in {"TLS_HANDSHAKE", "DONE"}
          /\ UNCHANGED <<rounds, retry, haveGw, sendVars, peerVars, gotResp, fresh>>
      BY <1>5 DEF SocksConnectReply
    <2> QED BY <2>1, QuietBounded DEF OkInv, OkIsEarned
  <1>6. ASSUME NEW a \in FeedArgs, HttpData(a) \/ HttpHeadersTooLarge(a)
        PROVE  ConnInv' /\ ExecInv' /\ OkInv'
    <2>1. /\ state' \in {state, "DONE"} /\ peer.got >= ReqChunks /\ fresh' = TRUE
          /\ UNCHANGED <<rounds, retry, haveGw, sendVars, peerVars>>
      BY <1>6 DEF HttpData, HttpHeadersTooLarge, Responding, Feed
    <2>2. execs' > 0
      BY <2>1 DEF Bounded, ExecInv
    <2>3. OkInv'
      BY <2>1, <2>2, Zenon DEF OkInv, OkIsEarned
    <2>4. ConnInv' /\ ExecInv'
      BY <2>1, QuietBounded
    <2> QED BY <2>3, <2>4
  <1>7. CASE HttpFin \/ TlsSegment
    <2>1. /\ state' \in {state, "DONE"}
          /\ gotResp' => gotResp
          /\ UNCHANGED <<rounds, retry, haveGw, sendVars, peerVars, fresh>>
      BY <1>7 DEF HttpFin, TlsSegment
    <2>2. OkInv'
      BY <2>1 DEF OkInv, OkIsEarned
    <2>3. ConnInv' /\ ExecInv'
      BY <2>1, QuietBounded
    <2> QED BY <2>2, <2>3
  <1> QED BY <1>1, <1>2, <1>3, <1>4, <1>5, <1>6, <1>7 DEF Rx

LEMMA TickMoveBounded ==
    ASSUME Bounded, OkInv,
           \/ TickNeedsGateway \/ TickNothing \/ TickSocksEnough
           \/ TickBuildFails \/ TickTlsFails \/ TickTlsEnd
    PROVE  ConnInv' /\ ExecInv' /\ OkInv'
  <1>1. UNCHANGED <<targetVars, sendVars, respVars, peerVars, countVars>>
    BY DEF TickNeedsGateway, TickNothing, TickSocksEnough, TickBuildFails,
           TickTlsFails, TickTlsEnd
  <1>2. state' \in {state, "DONE"} \/ (state' = "ARP" /\ ~haveGw)
    BY DEF TickNeedsGateway, TickNothing, TickSocksEnough, TickBuildFails,
           TickTlsFails, TickTlsEnd
  <1> QED BY <1>1, <1>2, QuietBounded
          DEF targetVars, sendVars, respVars, peerVars, countVars, OkInv, OkIsEarned

LEMMA TickRestartBounded ==
    ASSUME Bounded, OkInv, TickExpired \/ TickAskedEnough
    PROVE  ConnInv' /\ ExecInv' /\ OkInv'
  <1>1. CASE RestartRound /\ rounds < MaxRounds /\ UNCHANGED peerVars
    BY <1>1, RestartBounded
  <1>2. CASE /\ state' = "DONE"
             /\ UNCHANGED <<targetVars, sendVars, respVars, peerVars, countVars>>
    BY <1>2, QuietBounded
       DEF targetVars, sendVars, respVars, peerVars, countVars, OkInv, OkIsEarned
  <1> QED BY <1>1, <1>2 DEF TickExpired, TickAskedEnough

LEMMA TickSendBounded ==
    ASSUME Bounded, OkInv, TickAsk \/ TickSocksSend
    PROVE  ConnInv' /\ ExecInv' /\ OkInv'
  <1> USE DEF targetVars, sendVars, respVars, peerVars, countVars
  <1>1. CASE TickAsk
    <2>1. /\ state' = state /\ state \in TransportStates
          /\ state # "ARP" => haveGw
          /\ UNCHANGED <<rounds, haveGw, peer, conns, execs, gotResp, fresh>>
      BY <1>1 DEF TickAsk, TickRuns, TickMayRun
    <2> QED BY <2>1 DEF Bounded, ConnInv, ExecInv, OkInv, OkIsEarned,
                        TransportStates, SocksStates, StreamStates
  <1>2. CASE TickSocksSend
    <2> DEFINE item == IF state = "SOCKS_HELLO" THEN "hello" ELSE "connect"
    <2>1. /\ state' = state /\ state \in SocksStates
          /\ UNCHANGED <<rounds, haveGw, conns, gotResp, fresh>>
          /\ Transmit(item, seq) /\ item # "data"
      BY <1>2 DEF TickSocksSend
    <2> HIDE DEF item
    <2>2. /\ execs' <= conns
          /\ peer'.got < ReqChunks => execs' < conns
          /\ peer'.got >= ReqChunks => execs' > 0
          /\ peer'.got = peer.got
      BY <2>1, TransmitExec DEF Bounded
    <2>3. ExecInv' /\ ConnInv'
      BY <2>1, <2>2 DEF Bounded, ConnInv, ExecInv, TransportStates, SocksStates,
                        StreamStates
    <2>4. execs > 0 => execs' > 0
      BY <2>1, TransmitExec DEF Bounded, TypeOK, PeerType
    <2> QED BY <2>1, <2>3, <2>4 DEF OkInv, OkIsEarned
  <1> QED BY <1>1, <1>2

LEMMA TickHttpBounded ==
    ASSUME Bounded, OkInv,
           TickHttpAck \/ TickHttpSend \/ TickHttpResend \/ TickHttpEnough
    PROVE  ConnInv' /\ ExecInv' /\ OkInv'
  <1> USE DEF targetVars, sendVars, respVars, peerVars, countVars
  <1>1. CASE TickHttpAck \/ TickHttpEnough
    <2>1. /\ state' \in {state, "DONE"}
          /\ UNCHANGED <<rounds, retry, haveGw, off, seq, httpSeq, httpSent, peerVars,
                         gotResp, fresh>>
      BY <1>1 DEF TickHttpAck, TickHttpEnough
    <2> QED BY <2>1, QuietBounded DEF OkInv, OkIsEarned
  <1>2. CASE TickHttpSend
    <2>1. /\ state = "HTTP" /\ state' = "HTTP" /\ ~httpSent
          /\ httpSeq' = IF off = 0 THEN seq ELSE httpSeq
          /\ gotResp' => gotResp
          /\ seq' = httpSeq' + off + 1 /\ off' = off + 1
          /\ httpSent' <=> (off + 1 >= ReqChunks)
          /\ UNCHANGED <<rounds, retry, haveGw, conns, fresh>>
          /\ Transmit("data", httpSeq' + off)
      BY <1>2 DEF TickHttpSend
    <2>2. /\ off \in 0..ReqChunks - 1 /\ httpSeq' = 0
          /\ peer.got <= peer.rcv /\ peer.rcv <= ReqChunks
      BY <2>1, BoundAssumption DEF Bounded, ExecInv, TypeOK, SendType
    <2>3. peer.got \in Nat /\ peer.rcv \in Nat /\ execs \in Nat
      BY DEF Bounded, TypeOK, PeerType
    <2>4. ConnInv' /\ (httpSent' <=> off' = ReqChunks)
      <3>1. httpSent' <=> off' = ReqChunks
        BY <2>1, <2>2, BoundAssumption
      <3>2. ConnInv'
        BY <2>1 DEF Bounded, ConnInv, TransportStates
      <3> QED BY <3>1, <3>2
    <2>5. CASE peer.got >= ReqChunks
      <3>1. peer.rcv = ReqChunks
        BY <2>2, <2>3, <2>5, BoundAssumption
      <3>2. UNCHANGED <<peer, execs>>
        BY <2>1, <2>2, <3>1, BoundAssumption DEF Transmit
      <3>3. ExecInv'
        BY <2>1, <2>2, <2>3, <2>5, <2>4, <3>2, BoundAssumption
           DEF Bounded, ExecInv, SocksStates, StreamStates
      <3> QED BY <2>1, <2>4, <3>2, <3>3 DEF OkInv, OkIsEarned
    <2>6. CASE peer.got < ReqChunks
      <3>1. /\ execs' <= conns
            /\ peer'.got < ReqChunks => execs' < conns
            /\ peer'.got >= ReqChunks => execs' > 0
            /\ peer'.got \in {peer.got, peer.got + 1}
            /\ execs > 0 => execs' > 0
            /\ peer' = peer \/ (httpSeq' + off = peer.rcv /\ peer'.rcv = peer.rcv + 1)
        BY <2>1, <2>3, <2>6, TransmitExec DEF Bounded, StreamStates
      <3>2. peer' = peer \/ peer'.rcv = off + 1
        BY <2>2, <3>1
      <3>3. peer'.got <= peer'.rcv /\ peer'.rcv <= ReqChunks
        <4>1. CASE peer' = peer
          BY <2>2, <4>1
        <4>2. CASE /\ peer'.got \in {peer.got, peer.got + 1}
                   /\ peer'.rcv = peer.rcv + 1 /\ peer'.rcv = off + 1
          BY <2>2, <2>3, <4>2, BoundAssumption
        <4> QED BY <2>2, <3>1, <3>2, <4>1, <4>2
      <3>4. ExecInv'
        BY <2>1, <2>2, <2>4, <3>1, <3>3, BoundAssumption
           DEF ExecInv, SocksStates, StreamStates
      <3> QED BY <2>1, <2>4, <3>1, <3>4 DEF OkInv, OkIsEarned
    <2> QED BY <2>3, <2>5, <2>6, BoundAssumption
  <1>3. CASE TickHttpResend
    <2>1. /\ state = "HTTP" /\ state' = "HTTP" /\ httpSent
          /\ httpSent' = FALSE /\ off' = 0 /\ seq' = httpSeq
          /\ UNCHANGED <<rounds, retry, haveGw, peer, conns, execs, gotResp, fresh>>
      BY <1>3 DEF TickHttpResend, ResendSeq
    <2>2. httpSeq = 0
      BY <2>1, BoundAssumption DEF Bounded, ExecInv
    <2> QED BY <2>1, <2>2, BoundAssumption
            DEF Bounded, ConnInv, ExecInv, OkInv, OkIsEarned, TransportStates
  <1> QED BY <1>1, <1>2, <1>3

LEMMA TickTlsBounded ==
    ASSUME Bounded, OkInv,
           TickTlsHandshake \/ TickTlsWrite \/ TickTlsWritten
               \/ \E a \in FeedArgs : TickTlsRead(a)
    PROVE  ConnInv' /\ ExecInv' /\ OkInv'
  <1> USE DEF targetVars, sendVars, respVars, peerVars, countVars
  <1>1. CASE TickTlsHandshake
    <2>1. /\ state = "TLS_HANDSHAKE" /\ state' = "TLS_HTTP" /\ off' = 0
          /\ UNCHANGED <<rounds, retry, haveGw, peer, conns, execs, gotResp, fresh>>
      BY <1>1 DEF TickTlsHandshake
    <2> QED BY <2>1 DEF Bounded, ConnInv, ExecInv, OkInv, OkIsEarned, TransportStates,
                        SocksStates, StreamStates
  <1>2. CASE TickTlsWrite
    <2>1. /\ state = "TLS_HTTP" /\ state' = "TLS_HTTP" /\ off < ReqChunks
          /\ off' = off + 1
          /\ UNCHANGED <<rounds, retry, haveGw, conns, gotResp, fresh>>
          /\ Transmit("data", seq)
      BY <1>2 DEF TickTlsWrite
    <2>2. /\ peer.got \in Nat /\ execs \in Nat /\ off \in Nat /\ peer.got <= off
      BY <2>1, BoundAssumption DEF Bounded, ExecInv, TypeOK, PeerType, SendType
    <2>3. peer.got < ReqChunks
      BY <2>1, <2>2, BoundAssumption
    <2>4. /\ execs' <= conns
          /\ peer'.got < ReqChunks => execs' < conns
          /\ peer'.got >= ReqChunks => execs' > 0
          /\ peer'.got \in {peer.got, peer.got + 1}
          /\ execs > 0 => execs' > 0
      BY <2>1, <2>2, <2>3, TransmitExec DEF Bounded, StreamStates
    <2>5. ConnInv' /\ ExecInv'
      BY <2>1, <2>2, <2>4 DEF Bounded, ConnInv, ExecInv, TransportStates, SocksStates,
                              StreamStates
    <2> QED BY <2>1, <2>4, <2>5 DEF OkInv, OkIsEarned
  <1>3. CASE TickTlsWritten
    <2>1. /\ state = "TLS_HTTP" /\ state' = "TLS_READ"
          /\ UNCHANGED <<rounds, retry, haveGw, sendVars, peerVars, gotResp, fresh>>
      BY <1>3 DEF TickTlsWritten
    <2> QED BY <2>1, QuietBounded DEF OkInv, OkIsEarned
  <1>4. ASSUME NEW a \in FeedArgs, TickTlsRead(a)
        PROVE  ConnInv' /\ ExecInv' /\ OkInv'
    <2>1. /\ state = "TLS_READ" /\ state' \in {"TLS_READ", "DONE"}
          /\ peer.got >= ReqChunks /\ fresh' = TRUE
          /\ UNCHANGED <<rounds, retry, haveGw, sendVars, peerVars>>
      BY <1>4 DEF TickTlsRead, Responding, Feed
    <2>2. execs' > 0
      BY <2>1 DEF Bounded, ExecInv
    <2>3. OkInv'
      BY <2>1, <2>2, Zenon DEF OkInv, OkIsEarned
    <2>4. ConnInv' /\ ExecInv'
      BY <2>1, QuietBounded
    <2> QED BY <2>3, <2>4
  <1> QED BY <1>1, <1>2, <1>3, <1>4

LEMMA LoopBounded ==
    ASSUME Bounded, OkInv,
           ReplyStep \/ RxEnd \/ WaitOver \/ DeadlineOver \/ TxConsumed
    PROVE  ConnInv' /\ ExecInv' /\ OkInv'
  <1>1. UNCHANGED <<state, targetVars, sendVars, respVars, peerVars, countVars>>
    BY DEF ReplyStep, RxEnd, WaitOver, DeadlineOver, TxConsumed
  <1> QED BY <1>1, QuietBounded
          DEF targetVars, sendVars, respVars, peerVars, countVars, OkInv, OkIsEarned

LEMMA DoneStepBounded ==
    ASSUME Bounded, OkInv, DoneStep
    PROVE  ConnInv' /\ ExecInv' /\ OkInv'
  <1>1. CASE AgentFinishes \/ TellConsole \/ TellUdp
    <2>1. /\ state' \in {state, "IDLE"}
          /\ UNCHANGED <<haveGw, sendVars, respVars, peerVars, countVars>>
      BY <1>1 DEF AgentFinishes, TellConsole, TellUdp, Finish, targetVars
    <2> QED BY <2>1, QuietBounded
            DEF sendVars, respVars, peerVars, countVars, OkInv, OkIsEarned
  <1>2. ASSUME NEW c \in Commands, AgentContinues(c)
        PROVE  ConnInv' /\ ExecInv' /\ OkInv'
    <2>1. c.req \in Request
      BY InputAssumption DEF Command
    <2> QED BY <1>2, <2>1, StartBounded DEF AgentContinues, Bounded
  <1>3. CASE FollowRedirect
    <2> DEFINE r == [src |-> req.src, host |-> redirect.host,
                     https |-> redirect.https, fixed |-> FALSE,
                     post |-> FALSE, oauth |-> oauth]
    <2>1. r \in Request
      <3>1. redirect \in Location
        BY <1>3, InputAssumption DEF FollowRedirect, Bounded, TypeOK, RespType
      <3> QED BY <3>1 DEF Bounded, TypeOK, TargetType, Request, Location
    <2>2. FetchStart(r, TRUE)
      BY <1>3 DEF FollowRedirect
    <2> HIDE DEF r
    <2> QED BY <2>1, <2>2, StartBounded DEF Bounded
  <1> QED BY <1>1, <1>2, <1>3 DEF DoneStep

\* The offset of a request that is not all sent is below its size.
LEMMA SendsInRequest ==
    ASSUME Bounded, TickHttpSend
    PROVE  off < ReqChunks
  <1>1. state = "HTTP" /\ ~httpSent
    BY DEF TickHttpSend
  <1> QED BY <1>1, BoundAssumption DEF Bounded, ExecInv, TypeOK, SendType

LEMMA TickBounded ==
    ASSUME Bounded, OkInv, Tick
    PROVE  ConnInv' /\ ExecInv' /\ OkInv'
  BY TickMoveBounded, TickRestartBounded, TickSendBounded, TickHttpBounded,
     TickTlsBounded DEF Tick

LEMMA StepInv ==
    ASSUME Bounded, OkInv, [Next]_vars
    PROVE  Bounded' /\ OkInv'
  <1>1. ASSUME NEW c \in Commands, TakeCommand(c) PROVE Bounded' /\ OkInv'
    BY <1>1, CommandType, CommandBounded DEF Bounded
  <1>2. CASE Rx
    BY <1>2, RxType, RxBounded DEF Bounded
  <1>3. CASE Tick
    BY <1>3, TickType, TickBounded, SendsInRequest DEF Bounded
  <1>4. CASE ReplyStep
    BY <1>4, ReplyStepType, LoopBounded DEF Bounded
  <1>5. CASE DoneStep
    BY <1>5, DoneStepType, DoneStepBounded DEF Bounded
  <1>6. CASE RxEnd \/ WaitOver \/ DeadlineOver \/ TxConsumed
    BY <1>6, LoopType, LoopBounded DEF Bounded
  <1>7. CASE UNCHANGED vars
    <2>1. TypeOK'
      <3>1. ControlType'
        BY <1>7 DEF vars, Bounded, TypeOK, ControlType
      <3> QED BY <1>7, <3>1, SameTarget, SameTimer, SameSend, SameResp, SameReply,
                 SameCache, SamePeer, SameCount DEF vars, Bounded, TypeOK
    <2> QED BY <1>7, <2>1, QuietBounded
            DEF vars, targetVars, sendVars, respVars, peerVars, countVars, Bounded,
                OkInv, OkIsEarned
  <1> QED BY <1>1, <1>2, <1>3, <1>4, <1>5, <1>6, <1>7 DEF Next

LEMMA InitInv == Init => Bounded /\ OkInv
  <1> SUFFICES ASSUME Init PROVE Bounded /\ OkInv
    OBVIOUS
  <1>1. NoRequest \in Request
    BY HostAssumption DEF NoRequest, Request
  <1>2. ControlType
    BY BoundAssumption DEF Init, ControlType, FetchStates, TxStates
  <1>3. TargetType
    <2>1. haveGw \in BOOLEAN /\ methodPost \in BOOLEAN /\ oauth \in BOOLEAN
          /\ taskActive \in BOOLEAN
      BY DEF Init
    <2> QED BY <1>1, <2>1 DEF Init, TargetType, Address
  <1>4. TimerType
    BY DEF Init, TimerType
  <1>5. SendType
    <2>1. ackSent \in BOOLEAN /\ httpSent \in BOOLEAN
      BY DEF Init
    <2> QED BY <2>1, BoundAssumption DEF Init, SendType
  <1>6. RespType
    <2>1. gotResp \in BOOLEAN /\ fresh \in BOOLEAN
      BY DEF Init
    <2> QED BY <2>1, BoundAssumption DEF Init, RespType, ParserStates
  <1>7. ReplyType
    <2>1. replyPending \in BOOLEAN /\ replySent \in BOOLEAN
      BY DEF Init
    <2> QED BY <2>1 DEF Init, ReplyType
  <1>8. CacheType
    <2>1. gwLearned \in BOOLEAN
      BY DEF Init
    <2> QED BY <2>1 DEF Init, CacheType, Address
  <1>9. NoPeer \in [phase : PeerPhases, rcv : Nat, got : Nat] /\ NoPeer.got = 0
    BY DEF NoPeer, PeerPhases
  <1>10. PeerType
    BY <1>9 DEF Init, PeerType
  <1>11. CountType
    BY BoundAssumption DEF Init, CountType
  <1>12. ConnInv /\ ExecInv
    BY <1>9, BoundAssumption
       DEF Init, ConnInv, ExecInv, TransportStates, SocksStates, StreamStates
  <1>13. OkInv
    BY DEF Init, OkInv, OkIsEarned
  <1> QED BY <1>2, <1>3, <1>4, <1>5, <1>6, <1>7, <1>8, <1>10, <1>11, <1>12, <1>13
          DEF Bounded, TypeOK

\* The inductive invariant: types, executions against connections and rounds,
\* and what an ok stands for, over every handler of the loop.
THEOREM Invariant == Spec => [](Bounded /\ OkInv)
  BY InitInv, StepInv, PTL DEF Spec

-----------------------------------------------------------------------------
(* What follows from it. *)

\* The static variables of the engine keep their types: no counter passes its
\* limit.
THEOREM TypeCorrect == Spec => []TypeOK
  <1>1. Bounded /\ OkInv => TypeOK
    BY DEF Bounded
  <1> QED BY <1>1, Invariant, PTL

\* Resends, losses and rounds: at most one execution per connection and one
\* connection per round.
THEOREM ExecutionsAreBounded == Spec => []ExecutionsBounded
  <1>1. Bounded /\ OkInv => ExecutionsBounded
    BY DEF Bounded, ConnInv, ExecInv, ExecutionsBounded
  <1> QED BY <1>1, Invariant, PTL

\* FETCH_GOT_RESP is only set by a response of the current round.
THEOREM OkIsAlwaysEarned == Spec => []OkIsEarned
  <1>1. Bounded /\ OkInv => OkIsEarned
    BY DEF OkInv
  <1> QED BY <1>1, Invariant, PTL

-----------------------------------------------------------------------------
(* Redirects.  An authorised request is not redirected, and after the first *)
(* redirect neither flag is set again until a command starts the next fetch. *)

BareHop == redirects > 0 /\ redirect = None =>
              /\ methodPost = FALSE
              /\ built # None => built.post = FALSE /\ built.oauth = FALSE

HopInv == (redirects > 0 => oauth = FALSE) /\ BareHop

LEMMA QuietHop ==
    ASSUME HopInv, UNCHANGED <<methodPost, redirect, redirects>>,
           oauth' \in {oauth, FALSE}, built' \in {built, None}
    PROVE  HopInv'
  BY DEF HopInv, BareHop

LEMMA StartHop ==
    ASSUME TypeOK, NEW r \in Request, FetchStart(r, FALSE)
    PROVE  HopInv'
  <1>1. redirects' = 0
    BY FetchStartType
  <1> QED BY <1>1 DEF HopInv, BareHop

LEMMA BuildHop ==
    ASSUME HopInv, Build, UNCHANGED <<methodPost, oauth, redirect, redirects>>
    PROVE  HopInv'
  <1>1. CASE built = None
    <2>1. built' = [post |-> methodPost, oauth |-> oauth]
      BY <1>1 DEF Build
    <2>2. built'.post = methodPost /\ built'.oauth = oauth
      BY <2>1
    <2> QED BY <2>2 DEF HopInv, BareHop
  <1>2. CASE built # None
    BY <1>2 DEF Build, HopInv, BareHop
  <1> QED BY <1>1, <1>2

LEMMA FeedHop ==
    ASSUME HopInv, NEW next, NEW body, NEW loc, Feed(next, body, loc),
           UNCHANGED <<methodPost, oauth, built>>
    PROVE  HopInv'
  <1>1. CASE loc # None /\ MayRedirect
    <2>1. redirect' # None /\ ~oauth
      BY <1>1 DEF Feed, MayRedirect
    <2>2. oauth' = oauth
      OBVIOUS
    <2> QED BY <2>1, <2>2 DEF HopInv, BareHop
  <1>2. CASE ~(loc # None /\ MayRedirect)
    <2>1. UNCHANGED <<redirect, redirects>>
      BY <1>2 DEF Feed
    <2> QED BY <2>1 DEF HopInv, BareHop
  <1> QED BY <1>1, <1>2

LEMMA CommandHop ==
    ASSUME TypeOK, HopInv, NEW c \in Commands, TakeCommand(c)
    PROVE  HopInv'
  <1>1. CASE AcceptCommand(c)
    <2>1. c.req \in Request
      BY InputAssumption DEF Command
    <2> QED BY <1>1, <2>1, StartHop DEF AcceptCommand
  <1>2. CASE RefuseCommand(c)
    <2>1. UNCHANGED <<built, redirect, redirects>>
      BY <1>2 DEF RefuseCommand, sendVars, respVars
    <2>2. \/ methodPost' = FALSE /\ oauth' = FALSE
          \/ UNCHANGED <<methodPost, oauth>>
      BY <1>2 DEF RefuseCommand
    <2> QED BY <2>1, <2>2 DEF HopInv, BareHop
  <1> QED BY <1>1, <1>2 DEF TakeCommand

LEMMA RxHop ==
    ASSUME HopInv, Rx
    PROVE  HopInv'
  <1>1. ASSUME NEW a \in FeedArgs, HttpData(a) \/ HttpHeadersTooLarge(a)
        PROVE  HopInv'
    BY <1>1, FeedHop DEF HttpData, HttpHeadersTooLarge, targetVars, sendVars
  <1>2. CASE \/ ArpReply \/ SynAck \/ HttpFin \/ TlsSegment
             \/ \E h \in Hosts : DnsReply(h)
             \/ \E granted \in BOOLEAN : SocksHelloReply(granted)
                                         \/ SocksConnectReply(granted)
    <2>1. UNCHANGED <<methodPost, oauth, built, redirect, redirects>>
      BY <1>2 DEF ArpReply, SynAck, HttpFin, TlsSegment, DnsReply,
                  SocksHelloReply, SocksConnectReply, targetVars, sendVars, respVars
    <2> QED BY <2>1, QuietHop
  <1> QED BY <1>1, <1>2 DEF Rx

LEMMA TickHop ==
    ASSUME HopInv, Tick
    PROVE  HopInv'
  <1>1. CASE TickExpired \/ TickAskedEnough
    <2>1. UNCHANGED <<methodPost, oauth, built, redirect, redirects>>
      BY <1>1 DEF TickExpired, TickAskedEnough, RestartRound, targetVars, sendVars,
                  respVars
    <2> QED BY <2>1, QuietHop
  <1>2. CASE \/ TickNeedsGateway \/ TickNothing \/ TickAsk \/ TickSocksSend
             \/ TickSocksEnough \/ TickHttpAck \/ TickHttpResend \/ TickBuildFails
             \/ TickTlsFails \/ TickTlsHandshake \/ TickTlsWritten \/ TickTlsEnd
    <2>1. /\ UNCHANGED <<methodPost, oauth, redirect, redirects>>
          /\ built' \in {built, None}
      BY <1>2 DEF TickNeedsGateway, TickNothing, TickAsk, TickSocksSend,
                  TickSocksEnough, TickHttpAck, TickHttpResend, TickBuildFails,
                  TickTlsFails, TickTlsHandshake, TickTlsWritten, TickTlsEnd,
                  targetVars, sendVars, respVars
    <2> QED BY <2>1, QuietHop
  <1>3. CASE TickHttpEnough
    <2>1. UNCHANGED <<methodPost, oauth, redirect, redirects>>
      BY <1>3 DEF TickHttpEnough, targetVars, respVars
    <2>2. CASE httpSent
      BY <1>3, <2>1, <2>2, QuietHop DEF TickHttpEnough
    <2>3. CASE ~httpSent
      BY <1>3, <2>1, <2>3, BuildHop DEF TickHttpEnough
    <2> QED BY <2>2, <2>3
  <1>4. CASE TickHttpSend
    <2>1. Build /\ UNCHANGED <<methodPost, oauth, redirect, redirects>>
      BY <1>4 DEF TickHttpSend, targetVars
    <2> QED BY <2>1, BuildHop
  <1>5. CASE TickTlsWrite
    <2>1. Build /\ UNCHANGED <<methodPost, oauth, redirect, redirects>>
      BY <1>5 DEF TickTlsWrite, targetVars, respVars
    <2> QED BY <2>1, BuildHop
  <1>6. ASSUME NEW a \in FeedArgs, TickTlsRead(a) PROVE HopInv'
    BY <1>6, FeedHop DEF TickTlsRead, targetVars, sendVars
  <1> QED BY <1>1, <1>2, <1>3, <1>4, <1>5, <1>6 DEF Tick

LEMMA DoneStepHop ==
    ASSUME TypeOK, HopInv, DoneStep
    PROVE  HopInv'
  <1>1. CASE AgentFinishes \/ TellConsole \/ TellUdp
    <2>1. /\ UNCHANGED <<methodPost, built, redirect, redirects>>
          /\ oauth' \in {oauth, FALSE}
      BY <1>1 DEF AgentFinishes, TellConsole, TellUdp, Finish, targetVars, sendVars,
                  respVars
    <2> QED BY <2>1, QuietHop
  <1>2. ASSUME NEW c \in Commands, AgentContinues(c) PROVE HopInv'
    <2>1. c.req \in Request
      BY InputAssumption DEF Command
    <2> QED BY <1>2, <2>1, StartHop DEF AgentContinues
  <1>3. CASE FollowRedirect
    <2>1. redirects' = redirects /\ built' = None
      BY <1>3 DEF FollowRedirect, FetchStart
    <2>2. methodPost' = FALSE /\ oauth' = oauth
      BY <1>3 DEF FollowRedirect, HopMethod
    <2> QED BY <2>1, <2>2 DEF HopInv, BareHop
  <1> QED BY <1>1, <1>2, <1>3 DEF DoneStep

LEMMA StepHop ==
    ASSUME TypeOK, HopInv, [Next]_vars
    PROVE  HopInv'
  <1>1. CASE ReplyStep \/ RxEnd \/ WaitOver \/ DeadlineOver \/ TxConsumed
             \/ UNCHANGED vars
    <2>1. UNCHANGED <<methodPost, oauth, built, redirect, redirects>>
      BY <1>1 DEF ReplyStep, RxEnd, WaitOver, DeadlineOver, TxConsumed, vars,
                  targetVars, sendVars, respVars
    <2> QED BY <2>1, QuietHop
  <1> QED BY <1>1, CommandHop, RxHop, TickHop, DoneStepHop DEF Next

\* A redirect hop is a GET without body and authorisation, whatever commands
\* arrive while it is pending: capture_redirect and kmain's redirect branch.
THEOREM HopsAreBareGets == Spec => []HopIsBareGet
  <1>1. Init => HopInv
    BY DEF Init, HopInv, BareHop
  <1>2. Bounded /\ HopInv /\ [Next]_vars => HopInv'
    BY StepHop DEF Bounded
  <1>3. Bounded /\ OkInv => Bounded
    OBVIOUS
  <1>4. HopInv => HopIsBareGet
    BY DEF HopInv, BareHop, HopIsBareGet
  <1> QED BY <1>1, <1>2, <1>3, <1>4, Invariant, PTL DEF Spec

-----------------------------------------------------------------------------
(* Method and authorisation.  A pending request keeps the ones it was asked *)
(* with unless a command that is refused writes the flags: a url command    *)
(* does, before it finds the engine busy.                                   *)

RefusalsLeaveFlags ==
    \A c \in Commands : TakeCommand(c) /\ Busy(c) => UNCHANGED <<methodPost, oauth>>

Asked == /\ methodPost = req.post /\ oauth = req.oauth
         /\ built # None => built.post = req.post /\ built.oauth = req.oauth

AskedInv == state # "IDLE" => Asked

\* The steps that serve the request: all but commands, reports and the ends.
Works ==
    /\ state' = "IDLE" <=> state = "IDLE"
    /\ UNCHANGED <<req, methodPost, oauth, taskActive, replySent, reports>>
    /\ built' \in {built, None} \/ Build
    /\ \/ UNCHANGED <<redirect, redirects>>
       \/ /\ redirect = None /\ redirect' # None
          /\ redirects < MaxRedirects /\ redirects' = redirects + 1
    /\ replyPending' => replyPending \/ (state # "IDLE" /\ req.src = "udp")

LEMMA FeedWorks ==
    ASSUME NEW next, NEW body, NEW loc, Feed(next, body, loc)
    PROVE  \/ UNCHANGED <<redirect, redirects>>
           \/ /\ redirect = None /\ redirect' # None
              /\ redirects < MaxRedirects /\ redirects' = redirects + 1
  BY DEF Feed, MayRedirect

LEMMA RxWorks ==
    ASSUME Rx
    PROVE  Works
  <1> USE DEF targetVars, timerVars, sendVars, respVars, replyVars
  <1>1. ASSUME NEW a \in FeedArgs, HttpData(a) \/ HttpHeadersTooLarge(a)
        PROVE  Works
    <2>1. /\ state = "HTTP" /\ state' \in {"HTTP", "DONE"}
          /\ UNCHANGED <<targetVars, sendVars, replyVars>>
          /\ Feed(a.next, a.body, a.loc)
      BY <1>1 DEF HttpData, HttpHeadersTooLarge
    <2> QED BY <2>1, FeedWorks DEF Works
  <1>2. CASE \/ ArpReply \/ SynAck \/ HttpFin \/ TlsSegment
             \/ \E h \in Hosts : DnsReply(h)
             \/ \E granted \in BOOLEAN : SocksHelloReply(granted)
                                         \/ SocksConnectReply(granted)
    <2>1. state # "IDLE" /\ state' # "IDLE"
      BY <1>2 DEF ArpReply, SynAck, HttpFin, TlsSegment, DnsReply,
                  SocksHelloReply, SocksConnectReply, ResumeState
    <2>2. UNCHANGED <<req, methodPost, oauth, taskActive, built, redirect, redirects,
                      replyVars>>
      BY <1>2 DEF ArpReply, SynAck, HttpFin, TlsSegment, DnsReply,
                  SocksHelloReply, SocksConnectReply
    <2> QED BY <2>1, <2>2 DEF Works
  <1> QED BY <1>1, <1>2 DEF Rx

LEMMA TickWorks ==
    ASSUME Tick
    PROVE  Works
  <1> USE DEF targetVars, timerVars, sendVars, respVars, replyVars
  <1>1. CASE TickExpired \/ TickAskedEnough
    <2>1. state # "IDLE" /\ state' # "IDLE"
      BY <1>1 DEF TickExpired, TickAskedEnough, DeadlineHit, TickRuns, TickMayRun,
                  RestartRound
    <2>2. UNCHANGED <<req, methodPost, oauth, taskActive, built, redirect, redirects,
                      replyVars>>
      BY <1>1 DEF TickExpired, TickAskedEnough, RestartRound
    <2> QED BY <2>1, <2>2 DEF Works
  <1>2. CASE \/ TickNeedsGateway \/ TickNothing \/ TickAsk \/ TickSocksSend
             \/ TickSocksEnough \/ TickHttpAck \/ TickHttpResend \/ TickBuildFails
             \/ TickTlsFails \/ TickTlsHandshake \/ TickTlsWritten \/ TickTlsEnd
    <2>1. state' = "IDLE" <=> state = "IDLE"
      BY <1>2 DEF TickNeedsGateway, TickNothing, TickAsk, TickSocksSend,
                  TickSocksEnough, TickHttpAck, TickHttpResend, TickBuildFails,
                  TickTlsFails, TickTlsHandshake, TickTlsWritten, TickTlsEnd,
                  TickRuns, TickMayRun
    <2>2. /\ UNCHANGED <<req, methodPost, oauth, taskActive, redirect, redirects,
                         replyVars>>
          /\ built' \in {built, None}
      BY <1>2 DEF TickNeedsGateway, TickNothing, TickAsk, TickSocksSend,
                  TickSocksEnough, TickHttpAck, TickHttpResend, TickBuildFails,
                  TickTlsFails, TickTlsHandshake, TickTlsWritten, TickTlsEnd
    <2> QED BY <2>1, <2>2 DEF Works
  <1>3. CASE TickHttpEnough \/ TickHttpSend \/ TickTlsWrite
    <2>1. state # "IDLE" /\ state' # "IDLE"
      BY <1>3 DEF TickHttpEnough, TickHttpSend, TickTlsWrite
    <2>2. UNCHANGED <<req, methodPost, oauth, taskActive, redirect, redirects,
                      replyVars>>
      BY <1>3 DEF TickHttpEnough, TickHttpSend, TickTlsWrite
    <2>3. built' = built \/ Build
      BY <1>3 DEF TickHttpEnough, TickHttpSend, TickTlsWrite
    <2> QED BY <2>1, <2>2, <2>3 DEF Works
  <1>4. ASSUME NEW a \in FeedArgs, TickTlsRead(a) PROVE Works
    <2>1. /\ state # "IDLE" /\ state' # "IDLE"
          /\ UNCHANGED <<targetVars, sendVars, replySent, reports>>
          /\ Feed(a.next, a.body, a.loc)
      BY <1>4 DEF TickTlsRead
    <2>2. replyPending' => replyPending \/ req.src = "udp"
      BY <1>4 DEF TickTlsRead
    <2> QED BY <2>1, <2>2, FeedWorks DEF Works
  <1> QED BY <1>1, <1>2, <1>3, <1>4 DEF Tick

LEMMA LoopWorks ==
    ASSUME RxEnd \/ WaitOver \/ DeadlineOver \/ TxConsumed \/ UNCHANGED vars
    PROVE  Works
  <1>1. UNCHANGED <<state, targetVars, sendVars, respVars, replyVars>>
    BY DEF RxEnd, WaitOver, DeadlineOver, TxConsumed, vars
  <1> QED BY <1>1 DEF Works, targetVars, sendVars, respVars, replyVars

LEMMA ReplyWorks ==
    ASSUME ReplyStep, ~ReplySent
    PROVE  Works
  <1>1. UNCHANGED <<state, targetVars, sendVars, respVars, replyVars>>
    BY DEF ReplyStep
  <1> QED BY <1>1 DEF Works, targetVars, sendVars, respVars, replyVars

LEMMA ReplySentKeeps ==
    ASSUME ReplyStep, ReplySent
    PROVE  /\ UNCHANGED <<state, targetVars, sendVars, respVars>>
           /\ replyPending /\ req.src = "udp"
           /\ replySent' = TRUE /\ replyPending' = FALSE
           /\ reports' = Append(reports, "ok")
  BY DEF ReplyStep, ReplySent

-----------------------------------------------------------------------------

LEMMA StartAsked ==
    ASSUME NEW r, NEW hop, FetchStart(r, hop), methodPost' = r.post, oauth' = r.oauth
    PROVE  AskedInv'
  <1>1. req' = r /\ built' = None
    BY DEF FetchStart
  <1> QED BY <1>1 DEF AskedInv, Asked

LEMMA WorksAsked ==
    ASSUME AskedInv, Works
    PROVE  AskedInv'
  <1>1. CASE built' \in {built, None}
    BY <1>1 DEF AskedInv, Asked, Works
  <1>2. CASE Build /\ built' # built
    <2>1. built' = [post |-> methodPost, oauth |-> oauth]
      BY <1>2 DEF Build
    <2>2. built'.post = methodPost /\ built'.oauth = oauth
      BY <2>1
    <2> QED BY <2>2 DEF AskedInv, Asked, Works
  <1> QED BY <1>1, <1>2 DEF Works

LEMMA StepAsked ==
    ASSUME AskedInv, [Next]_vars, RefusalsLeaveFlags \/ UNCHANGED vars
    PROVE  AskedInv'
  <1>1. ASSUME NEW c \in Commands, TakeCommand(c) PROVE AskedInv'
    <2>1. CASE AcceptCommand(c)
      BY <2>1, StartAsked DEF AcceptCommand
    <2>2. CASE RefuseCommand(c)
      <3>1. UNCHANGED <<state, req, built>>
        BY <2>2 DEF RefuseCommand, sendVars
      <3>2. UNCHANGED <<methodPost, oauth>>
        BY <1>1, <2>2 DEF RefuseCommand, RefusalsLeaveFlags, vars, targetVars
      <3> QED BY <3>1, <3>2 DEF AskedInv, Asked
    <2> QED BY <1>1, <2>1, <2>2 DEF TakeCommand
  <1>2. CASE ReplyStep /\ ReplySent
    <2>1. UNCHANGED <<state, req, methodPost, oauth, built>>
      BY <1>2, ReplySentKeeps DEF targetVars, sendVars
    <2> QED BY <2>1 DEF AskedInv, Asked
  <1>3. CASE DoneStep
    <2>1. CASE AgentFinishes \/ TellConsole \/ TellUdp
      <3>1. \/ state' = "IDLE"
            \/ UNCHANGED <<state, req, methodPost, oauth, built>>
        BY <2>1 DEF AgentFinishes, TellConsole, TellUdp, Finish, targetVars, sendVars
      <3> QED BY <3>1 DEF AskedInv, Asked
    <2>2. ASSUME NEW c \in Commands, AgentContinues(c) PROVE AskedInv'
      BY <2>2, StartAsked DEF AgentContinues
    <2>3. CASE FollowRedirect
      <3> DEFINE r == [src |-> req.src, host |-> redirect.host,
                       https |-> redirect.https, fixed |-> FALSE,
                       post |-> FALSE, oauth |-> oauth]
      <3>1. FetchStart(r, TRUE) /\ methodPost' = FALSE /\ oauth' = oauth
        BY <2>3 DEF FollowRedirect, HopMethod
      <3>2. r.post = FALSE /\ r.oauth = oauth
        OBVIOUS
      <3> HIDE DEF r
      <3> QED BY <3>1, <3>2, StartAsked
    <2> QED BY <1>3, <2>1, <2>2, <2>3 DEF DoneStep
  <1> QED BY <1>1, <1>2, <1>3, RxWorks, TickWorks, LoopWorks, ReplyWorks, WorksAsked
          DEF Next

\* The request in HTTP_BUF has the method and the authorisation it was asked
\* with, through rounds, resends, redirects, agent turns and commands that take
\* the engine, as long as no refused command writes the flags.
THEOREM SentAlwaysAsAsked ==
    Spec /\ [][RefusalsLeaveFlags]_vars => []SentAsAsked
  <1>1. Init => AskedInv
    BY DEF Init, AskedInv
  <1>2. AskedInv /\ [Next]_vars /\ [RefusalsLeaveFlags]_vars => AskedInv'
    BY StepAsked
  <1>3. AskedInv => SentAsAsked
    BY DEF AskedInv, Asked, SentAsAsked
  <1> QED BY <1>1, <1>2, <1>3, PTL DEF Spec

\* Of one command only, nothing is refused: what a single fetch sends is what
\* was asked for, whatever url commands there are.
THEOREM SingleSentAsAsked ==
    ASSUME MaxCommands <= 1
    PROVE  Spec => []SentAsAsked
  <1> DEFINE First == /\ issued \in Nat
                      /\ issued = 0 => state = "IDLE" /\ taskActive = FALSE
  <1>1. Init => First
    BY DEF Init
  <1>2. Bounded /\ First /\ [Next]_vars => First' /\ [RefusalsLeaveFlags]_vars
    <2> SUFFICES ASSUME Bounded, First, [Next]_vars
                 PROVE  First' /\ [RefusalsLeaveFlags]_vars
      OBVIOUS
    <2>1. RefusalsLeaveFlags
      <3> SUFFICES ASSUME NEW c \in Commands, TakeCommand(c), Busy(c) PROVE FALSE
        BY DEF RefusalsLeaveFlags
      <3>1. issued = 0
        BY BoundAssumption DEF TakeCommand
      <3> QED BY <3>1 DEF Busy
    <2>2. issued' \in {issued, issued + 1}
      BY DEF Next, TakeCommand, ReplyStep, DoneStep, RxEnd, WaitOver, DeadlineOver,
             TxConsumed, vars, AgentFinishes, AgentContinues, FollowRedirect, TellConsole,
             TellUdp, Rx, ArpReply, DnsReply, SynAck, SocksHelloReply, SocksConnectReply,
             HttpData, HttpHeadersTooLarge, HttpFin, TlsSegment, Tick, TickExpired,
             TickNeedsGateway, TickNothing, TickAsk, TickAskedEnough, TickSocksSend,
             TickSocksEnough, TickHttpAck, TickHttpSend, TickHttpResend, TickHttpEnough,
             TickBuildFails, TickTlsFails, TickTlsHandshake, TickTlsWrite, TickTlsWritten,
             TickTlsRead, TickTlsEnd
    <2>3. ASSUME issued' = 0 PROVE state' = "IDLE" /\ taskActive' = FALSE
      <3>1. issued = 0 /\ state = "IDLE" /\ taskActive = FALSE
        BY <2>2, <2>3
      <3>2. ~DoneStep
        BY <3>1 DEF DoneStep, AgentFinishes, AgentContinues, FollowRedirect, TellConsole,
                    TellUdp
      <3>3. \A c \in Commands : ~TakeCommand(c)
        BY <2>3, <3>1 DEF TakeCommand
      <3>4. CASE ReplyStep /\ ReplySent
        BY <3>1, <3>4, ReplySentKeeps DEF targetVars
      <3>5. CASE Works
        BY <3>1, <3>5 DEF Works
      <3> QED BY <3>2, <3>3, <3>4, <3>5, RxWorks, TickWorks, LoopWorks, ReplyWorks
              DEF Next
    <2>4. issued' \in Nat
      BY <2>2
    <2>5. First'
      BY <2>3, <2>4, Zenon
    <2> QED BY <2>1, <2>5
  <1>3. Bounded /\ OkInv => Bounded
    OBVIOUS
  <1> QED BY <1>1, <1>2, <1>3, Invariant, SentAlwaysAsAsked, PTL DEF Spec

-----------------------------------------------------------------------------
(* FetchService.  The engine implements it as long as a post command finds  *)
(* it idle and refused commands leave the flags of the pending request      *)
(* alone; find_busy_post shows what a post that does not wait does.         *)

PostsWait == \A c \in Commands : TakeCommand(c) /\ c.kind = "post" => state = "IDLE"

\* Lines for the agent are typed: every fetch of it has source port 0.
GoalsAreTyped == \A c \in Commands : c.kind = "goal" => c.req.src = "console"

\* Who hears of the request, and what was told already.
Listener ==
    /\ state = "IDLE" => taskActive = FALSE
    /\ state # "IDLE" /\ taskActive => req.src = "console"
    /\ replyPending => state # "IDLE" /\ req.src = "udp"
    /\ replySent => reports # <<>>
    /\ state # "IDLE" /\ req.src = "console" => reports = <<>>

ServiceInv == Listener /\ (redirect # None => redirects > 0)

LEMMA StartKeeps ==
    ASSUME TypeOK, NEW r \in Request, NEW hop \in BOOLEAN, FetchStart(r, hop)
    PROVE  /\ req' = r /\ state' # "IDLE"
           /\ redirect' = None /\ redirects' = IF hop THEN redirects ELSE 0
           /\ replyPending' = FALSE /\ replySent' = FALSE
  <1>1. redirect' = None
    BY DEF FetchStart
  <1> QED BY <1>1, FetchStartType DEF TransportStates

LEMMA CommandStarts ==
    ASSUME TypeOK, ServiceInv, NEW c \in Commands, TakeCommand(c), PostsWait,
           AcceptCommand(c)
    PROVE  /\ c.req \in Request /\ state = "IDLE" /\ state' # "IDLE" /\ req' = c.req
           /\ redirect' = None /\ redirects' = 0 /\ reports' = <<>>
           /\ replyPending' = FALSE /\ replySent' = FALSE
           /\ taskActive' = (c.kind = "goal")
  <1>1. c.req \in Request /\ c.kind \in {"url", "post", "checked", "goal"}
    BY InputAssumption DEF Command
  <1>2. state = "IDLE"
    BY DEF AcceptCommand, Busy, PostsWait
  <1>3. FetchStart(c.req, FALSE) /\ reports' = <<>>
    BY DEF AcceptCommand
  <1>4. taskActive' = (taskActive \/ c.kind = "goal") /\ taskActive = FALSE
    BY <1>2 DEF AcceptCommand, ServiceInv, Listener
  <1>5. taskActive' = (c.kind = "goal")
    BY <1>4
  <1> QED BY <1>1, <1>2, <1>3, <1>5, StartKeeps

LEMMA RefusedKeeps ==
    ASSUME NEW c, RefuseCommand(c)
    PROVE  UNCHANGED <<state, req, taskActive, redirect, redirects, replyVars>>
  BY DEF RefuseCommand, respVars

\* FollowRedirect gives the pending request a new target.
HopRequest == [src |-> req.src, host |-> redirect.host, https |-> redirect.https,
               fixed |-> FALSE, post |-> FALSE, oauth |-> oauth]

LEMMA RedirectKeeps ==
    ASSUME TypeOK, FollowRedirect
    PROVE  /\ redirect \in Location /\ req' = HopRequest /\ state' # "IDLE"
           /\ redirect' = None /\ redirects' = redirects
           /\ replyPending' = FALSE /\ replySent' = FALSE
           /\ UNCHANGED <<taskActive, reports>>
  <1>1. redirect \in Location
    BY InputAssumption DEF FollowRedirect, TypeOK, RespType
  <1>2. HopRequest \in Request
    BY <1>1 DEF HopRequest, TypeOK, TargetType, Request, Location
  <1>3. FetchStart(HopRequest, TRUE) /\ UNCHANGED <<taskActive, reports>>
    BY DEF FollowRedirect, HopRequest
  <1> HIDE DEF HopRequest
  <1> QED BY <1>1, <1>2, <1>3, StartKeeps

LEMMA ContinueKeeps ==
    ASSUME TypeOK, NEW c \in Commands, AgentContinues(c)
    PROVE  /\ c.req \in Request /\ c.kind = "goal" /\ req' = c.req /\ state' # "IDLE"
           /\ redirect' = None /\ redirects' = 0 /\ reports' = <<>>
           /\ replyPending' = FALSE /\ replySent' = FALSE
           /\ UNCHANGED taskActive
  <1>1. c.req \in Request
    BY InputAssumption DEF Command
  <1>2. /\ c.kind = "goal" /\ FetchStart(c.req, FALSE) /\ reports' = <<>>
        /\ UNCHANGED taskActive
    BY DEF AgentContinues
  <1> QED BY <1>1, <1>2, StartKeeps

LEMMA AppendNotEmpty ==
    ASSUME NEW S, NEW s \in Seq(S), NEW e \in S
    PROVE  Append(s, e) # <<>> /\ (s = <<>> => Append(s, e) = <<e>>)
  <1>1. Len(Append(s, e)) = Len(s) + 1 /\ Len(s) \in Nat
    OBVIOUS
  <1>2. Append(s, e) # <<>>
    BY <1>1
  <1>3. Append(<<>>, e) = <<e>>
    OBVIOUS
  <1> QED BY <1>2, <1>3

LEMMA StepService ==
    ASSUME TypeOK, ServiceInv, [Next]_vars, PostsWait \/ UNCHANGED vars, GoalsAreTyped
    PROVE  ServiceInv'
  <1> USE DEF ServiceInv, Listener
  <1>1. ASSUME Works PROVE ServiceInv'
    <2>1. Listener'
      BY <1>1 DEF Works
    <2>2. redirect' # None => redirects' > 0
      BY <1>1, BoundAssumption DEF Works, TypeOK, RespType
    <2> QED BY <2>1, <2>2
  <1>2. ASSUME NEW c \in Commands, TakeCommand(c) PROVE ServiceInv'
    <2>1. CASE RefuseCommand(c)
      BY <2>1, RefusedKeeps DEF replyVars
    <2>2. CASE AcceptCommand(c) /\ PostsWait
      BY <1>2, <2>2, CommandStarts DEF GoalsAreTyped
    <2>3. CASE UNCHANGED vars
      BY <2>3, <1>1, LoopWorks
    <2> QED BY <1>2, <2>1, <2>2, <2>3 DEF TakeCommand
  <1>3. CASE ReplyStep /\ ReplySent
    <2>1. "ok" \in {"ok", "fail"} /\ reports \in Seq({"ok", "fail"})
      BY DEF TypeOK, ReplyType
    <2>2. reports' # <<>>
      BY <1>3, <2>1, ReplySentKeeps, AppendNotEmpty
    <2> QED BY <1>3, <2>2, ReplySentKeeps DEF targetVars, respVars
  <1>4. CASE DoneStep
    <2>1. CASE AgentFinishes
      <3>1. /\ state' = "IDLE" /\ taskActive' = FALSE /\ state = "DONE" /\ taskActive
            /\ UNCHANGED <<redirect, redirects, replyVars>>
        BY <2>1 DEF AgentFinishes, respVars
      <3> QED BY <3>1 DEF replyVars
    <2>2. CASE TellConsole
      <3>1. /\ state' = "IDLE" /\ taskActive' = taskActive /\ ~taskActive
            /\ replyPending' = FALSE /\ replySent' = replySent
            /\ reports' = Append(reports, Outcome)
            /\ UNCHANGED <<redirect, redirects>>
        BY <2>2 DEF TellConsole, Finish, respVars
      <3>2. reports' # <<>>
        BY <3>1, AppendNotEmpty DEF Outcome, TypeOK, ReplyType
      <3>3. taskActive' = FALSE
        BY <3>1 DEF TypeOK, TargetType
      <3> QED BY <3>1, <3>2, <3>3
    <2>3. CASE TellUdp
      <3>1. /\ ~taskActive /\ taskActive' = taskActive /\ state = "DONE"
            /\ req.src = "udp" /\ req' = req
            /\ replySent' = replySent
            /\ UNCHANGED <<redirect, redirects>>
        BY <2>3 DEF TellUdp, Finish, respVars, targetVars
      <3>2. \/ reports' = reports
            \/ ~replySent /\ reports' = Append(reports, Outcome)
        BY <2>3 DEF TellUdp
      <3>3. \/ state' = "IDLE" /\ ~replyPending'
            \/ state' = state
        BY <2>3 DEF TellUdp, Finish
      <3>4. taskActive' = FALSE
        BY <3>1 DEF TypeOK, TargetType
      <3> QED BY <3>1, <3>2, <3>3, <3>4
    <2>4. ASSUME NEW c \in Commands, AgentContinues(c) PROVE ServiceInv'
      BY <2>4, ContinueKeeps DEF GoalsAreTyped
    <2>5. CASE FollowRedirect
      <3>1. state # "IDLE" /\ ~taskActive
        BY <2>5 DEF FollowRedirect
      <3>2. HopRequest.src = req.src
        BY DEF HopRequest
      <3> QED BY <2>5, <3>1, <3>2, RedirectKeeps
    <2> QED BY <1>4, <2>1, <2>2, <2>3, <2>4, <2>5 DEF DoneStep
  <1> QED BY <1>1, <1>2, <1>3, <1>4, RxWorks, TickWorks, LoopWorks, ReplyWorks DEF Next

-----------------------------------------------------------------------------
(* The simulation: each step is one of FetchService or leaves what it knows *)
(* unchanged.                                                               *)

Job == IF state = "IDLE" THEN None ELSE req
Hops == IF state = "IDLE" THEN 0
        ELSE IF redirect = None THEN redirects ELSE redirects - 1

LEMMA Stutters ==
    ASSUME UNCHANGED <<Job, taskActive, Hops, reports>>
    PROVE  UNCHANGED Service!vars
  BY DEF Job, Hops, Service!vars

LEMMA WorksStutters ==
    ASSUME TypeOK, Works
    PROVE  UNCHANGED Service!vars
  <1>1. UNCHANGED <<Job, taskActive, reports>>
    BY DEF Works, Job
  <1>2. Hops' = Hops
    <2>1. redirects \in Nat
      BY BoundAssumption DEF TypeOK, RespType
    <2> QED BY <2>1 DEF Works, Hops
  <1> QED BY <1>1, <1>2, Stutters

LEMMA CommandSimulates ==
    ASSUME TypeOK, ServiceInv, NEW c \in Commands, TakeCommand(c),
           PostsWait \/ UNCHANGED vars
    PROVE  Service!Next \/ UNCHANGED Service!vars
  <1>1. CASE RefuseCommand(c)
    <2>1. UNCHANGED <<Job, taskActive, Hops, reports>>
      BY <1>1, RefusedKeeps DEF Job, Hops, replyVars
    <2> QED BY <2>1, Stutters
  <1>2. CASE UNCHANGED vars
    BY <1>2, LoopWorks, WorksStutters
  <1>3. CASE AcceptCommand(c) /\ PostsWait
    <2>1. /\ c.req \in Request /\ state = "IDLE" /\ state' # "IDLE" /\ req' = c.req
          /\ redirect' = None /\ redirects' = 0 /\ reports' = <<>>
          /\ taskActive' = (c.kind = "goal")
      BY <1>3, CommandStarts
    <2>2. Job = None /\ Job' = c.req /\ Hops' = 0
      BY <2>1 DEF Job, Hops
    <2>3. taskActive' \in BOOLEAN
      BY <2>1
    <2>4. Service!Accept(c.req)
      BY <2>1, <2>2, <2>3 DEF Service!Accept, Job, Hops
    <2> QED BY <2>1, <2>4 DEF Service!Next
  <1> QED BY <1>1, <1>2, <1>3 DEF TakeCommand

LEMMA ReplySimulates ==
    ASSUME TypeOK, ServiceInv, ReplyStep, ReplySent
    PROVE  Service!Next
  <1>1. /\ UNCHANGED <<state, req, taskActive, redirect, redirects>>
        /\ replyPending /\ reports' = Append(reports, "ok")
    BY ReplySentKeeps DEF targetVars, respVars
  <1>2. state # "IDLE" /\ req.src = "udp" /\ ~taskActive
    BY <1>1 DEF ServiceInv, Listener
  <1>3. Job # None /\ Job = req /\ UNCHANGED <<Job, taskActive, Hops>>
    BY <1>1, <1>2, ServiceAssumption DEF Job, Hops, TypeOK, TargetType
  <1>4. Service!TellUdp("ok")
    BY <1>1, <1>2, <1>3 DEF Service!TellUdp, Job, Hops
  <1>5. "ok" \in Service!Outcomes
    BY DEF Service!Outcomes
  <1> QED BY <1>4, <1>5 DEF Service!Next

LEMMA EndSimulates ==
    ASSUME TypeOK, ServiceInv, AgentFinishes \/ TellConsole
    PROVE  Service!Next
  <1>1. /\ state = "DONE" /\ state' = "IDLE"
    BY DEF AgentFinishes, TellConsole, Finish
  <1>2. Service!Over
    BY <1>1, ServiceAssumption DEF Service!Over, TypeOK, TargetType
  <1>3. CASE AgentFinishes
    <2>1. taskActive /\ taskActive' = FALSE /\ reports' = reports
      BY <1>3 DEF AgentFinishes, replyVars
    <2>2. Service!FinishAgent
      BY <1>2, <2>1 DEF Service!FinishAgent
    <2> QED BY <2>2 DEF Service!Next
  <1>4. CASE TellConsole
    <2>1. /\ ~taskActive /\ UNCHANGED taskActive /\ req.src = "console"
          /\ reports' = Append(reports, Outcome)
      BY <1>4 DEF TellConsole, Finish
    <2>2. reports = <<>>
      BY <1>1, <2>1 DEF ServiceInv, Listener
    <2>3. Outcome \in Service!Outcomes /\ Outcome \in {"ok", "fail"}
      BY DEF Outcome, Service!Outcomes
    <2>4. reports' = <<Outcome>>
      BY <2>1, <2>2, <2>3, AppendNotEmpty DEF TypeOK, ReplyType
    <2>5. Service!FinishConsole(Outcome)
      BY <1>1, <1>2, <2>1, <2>2, <2>4 DEF Service!FinishConsole
    <2> QED BY <2>3, <2>5 DEF Service!Next
  <1> QED BY <1>3, <1>4

LEMMA TellUdpSimulates ==
    ASSUME TypeOK, ServiceInv, TellUdp
    PROVE  Service!Next \/ UNCHANGED Service!vars
  <1>1. /\ state = "DONE" /\ ~taskActive /\ req.src = "udp" /\ redirect = None
        /\ UNCHANGED <<req, taskActive, redirect, redirects>>
    BY DEF TellUdp, Finish, targetVars, respVars
  <1>2. Outcome \in Service!Outcomes /\ Outcome \in {"ok", "fail"}
    BY DEF Outcome, Service!Outcomes
  <1>3. reports' = reports \/ (~replySent /\ reports' = Append(reports, Outcome))
    BY DEF TellUdp
  <1>4. CASE state' = "DONE"
    <2>1. Job # None /\ Job = req /\ UNCHANGED <<Job, taskActive, Hops>>
      BY <1>1, <1>4, ServiceAssumption DEF Job, Hops, TypeOK, TargetType
    <2>2. CASE reports' = reports
      BY <2>1, <2>2, Stutters
    <2>3. CASE reports' = Append(reports, Outcome)
      <3>1. Service!TellUdp(Outcome)
        BY <1>1, <2>1, <2>3 DEF Service!TellUdp, Job, Hops
      <3> QED BY <1>2, <3>1 DEF Service!Next
    <2> QED BY <1>3, <2>2, <2>3
  <1>5. CASE state' = "IDLE"
    <2>1. reports' = IF replySent THEN reports ELSE Append(reports, Outcome)
      BY <1>1, <1>5 DEF TellUdp
    <2>2. reports' # <<>>
      BY <1>2, <2>1, AppendNotEmpty DEF ServiceInv, Listener, TypeOK, ReplyType
    <2>3. Service!Over
      BY <1>1, <1>5, ServiceAssumption DEF Service!Over, TypeOK, TargetType
    <2>4. Service!FinishUdp
      BY <1>1, <1>2, <1>3, <2>2, <2>3 DEF Service!FinishUdp
    <2> QED BY <2>4 DEF Service!Next
  <1>6. state' \in {state, "IDLE"}
    BY DEF TellUdp, Finish
  <1> QED BY <1>1, <1>4, <1>5, <1>6

LEMMA Retarget ==
    ASSUME NEW r \in Request, NEW host, NEW https
    PROVE  [r EXCEPT !.host = host, !.https = https, !.fixed = FALSE, !.post = FALSE]
             = [src |-> r.src, host |-> host, https |-> https, fixed |-> FALSE,
                post |-> FALSE, oauth |-> r.oauth]
  <1> DEFINE new == [r EXCEPT !.host = host, !.https = https, !.fixed = FALSE,
                              !.post = FALSE]
             hop == [src |-> r.src, host |-> host, https |-> https, fixed |-> FALSE,
                     post |-> FALSE, oauth |-> r.oauth]
  <1>1. /\ DOMAIN new = {"src", "host", "https", "fixed", "post", "oauth"}
        /\ new.src = r.src /\ new.host = host /\ new.https = https
        /\ new.fixed = FALSE /\ new.post = FALSE /\ new.oauth = r.oauth
    BY DEF Request
  <1>2. /\ DOMAIN hop = {"src", "host", "https", "fixed", "post", "oauth"}
        /\ hop.src = r.src /\ hop.host = host /\ hop.https = https
        /\ hop.fixed = FALSE /\ hop.post = FALSE /\ hop.oauth = r.oauth
    OBVIOUS
  <1>3. /\ new = [x \in DOMAIN new |-> new[x]]
        /\ hop = [x \in DOMAIN hop |-> hop[x]]
    OBVIOUS
  <1> HIDE DEF new, hop
  <1>4. new = hop
    BY <1>1, <1>2, <1>3
  <1> QED BY <1>4 DEF new, hop

LEMMA RedirectSimulates ==
    ASSUME TypeOK, ServiceInv, AskedInv, FollowRedirect
    PROVE  Service!Next
  <1>1. state = "DONE" /\ ~taskActive /\ redirect # None
    BY DEF FollowRedirect
  <1>2. /\ redirect \in Location /\ req' = HopRequest /\ state' # "IDLE"
        /\ redirect' = None /\ redirects' = redirects
        /\ UNCHANGED <<taskActive, reports>>
    BY RedirectKeeps
  <1>3. redirects \in 1..MaxRedirects
    BY <1>1, BoundAssumption DEF ServiceInv, TypeOK, RespType
  <1>4. Hops = redirects - 1 /\ Hops' = redirects
    BY <1>1, <1>2 DEF Hops
  <1>5. Job = req /\ Job # None /\ Job' = HopRequest
    BY <1>1, <1>2, ServiceAssumption DEF Job, TypeOK, TargetType
  <1>6. HopRequest = [req EXCEPT !.host = redirect.host, !.https = redirect.https,
                                 !.fixed = FALSE, !.post = FALSE]
    <2>1. oauth = req.oauth
      BY <1>1 DEF AskedInv, Asked
    <2>2. req \in Request
      BY DEF TypeOK, TargetType
    <2> QED BY <2>1, <2>2, Retarget DEF HopRequest
  <1>7. redirect.host \in Hosts /\ redirect.https \in BOOLEAN
    BY <1>2 DEF Location
  <1>8. Service!Redirect(redirect.host, redirect.https)
    BY <1>1, <1>2, <1>3, <1>4, <1>5, <1>6, BoundAssumption
       DEF Service!Redirect, Job, Hops
  <1> QED BY <1>7, <1>8 DEF Service!Next

LEMMA ContinueSimulates ==
    ASSUME TypeOK, NEW c \in Commands, AgentContinues(c)
    PROVE  Service!Next
  <1>1. state = "DONE" /\ taskActive
    BY DEF AgentContinues
  <1>2. /\ c.req \in Request /\ req' = c.req /\ state' # "IDLE"
        /\ redirect' = None /\ redirects' = 0 /\ reports' = <<>>
        /\ UNCHANGED taskActive
    BY ContinueKeeps
  <1>3. Job # None /\ Job' = c.req /\ Hops' = 0
    BY <1>1, <1>2, ServiceAssumption DEF Job, Hops, TypeOK, TargetType
  <1>4. Service!Continue(c.req)
    BY <1>1, <1>2, <1>3 DEF Service!Continue, Job, Hops
  <1> QED BY <1>2, <1>4 DEF Service!Next

LEMMA StepSimulates ==
    ASSUME TypeOK, ServiceInv, AskedInv, [Next]_vars, PostsWait \/ UNCHANGED vars
    PROVE  Service!Next \/ UNCHANGED Service!vars
  <1>1. CASE DoneStep
    BY <1>1, EndSimulates, TellUdpSimulates, RedirectSimulates, ContinueSimulates
       DEF DoneStep
  <1>2. ASSUME Works PROVE UNCHANGED Service!vars
    BY <1>2, WorksStutters
  <1>3. CASE ReplyStep
    BY <1>2, <1>3, ReplySimulates, ReplyWorks
  <1> QED BY <1>1, <1>2, <1>3, CommandSimulates, RxWorks, TickWorks, LoopWorks DEF Next

\* Every behaviour of the engine is one of FetchService: one request at a time,
\* redirected at most MaxRedirects times, and over only when its outcome was
\* told, once on the console and at least once over UDP; for all hosts, limits,
\* losses and orders of frames, commands and ticks.
THEOREM EngineImplementsService ==
    ASSUME GoalsAreTyped
    PROVE  Spec /\ [][PostsWait]_vars /\ [][RefusalsLeaveFlags]_vars => ImplementsService
  <1>1. Init => Service!Init /\ ServiceInv /\ AskedInv
    <2> SUFFICES ASSUME Init PROVE Service!Init /\ ServiceInv /\ AskedInv
      OBVIOUS
    <2>1. Service!Init
      BY DEF Init, Service!Init
    <2>2. ServiceInv /\ AskedInv
      BY DEF Init, ServiceInv, Listener, AskedInv
    <2> QED BY <2>1, <2>2
  <1>2. Bounded /\ OkInv => TypeOK
    BY DEF Bounded
  <1>3. TypeOK /\ ServiceInv /\ [Next]_vars /\ [PostsWait]_vars => ServiceInv'
    BY StepService
  <1>4. AskedInv /\ [Next]_vars /\ [RefusalsLeaveFlags]_vars => AskedInv'
    BY StepAsked
  <1>5. TypeOK /\ ServiceInv /\ AskedInv /\ [Next]_vars /\ [PostsWait]_vars
            => [Service!Next]_(Service!vars)
    BY StepSimulates
  <1> QED BY <1>1, <1>2, <1>3, <1>4, <1>5, Invariant, PTL
          DEF Spec, ImplementsService, Service!Spec

\* The commands that look at FETCH_STATE before they write anything (sync, tweet,
\* m5 and m6, lines for the agent) leave nothing to be assumed.
THEOREM CheckedImplementService ==
    ASSUME GoalsAreTyped, \A c \in Commands : c.kind \in {"checked", "goal"}
    PROVE  FairSpec => ImplementsService
  <1>1. [Next]_vars => [PostsWait]_vars /\ [RefusalsLeaveFlags]_vars
    <2>1. PostsWait
      BY DEF PostsWait
    <2>2. RefusalsLeaveFlags
      BY DEF RefusalsLeaveFlags, TakeCommand, RefuseCommand, AcceptCommand
    <2> QED BY <2>1, <2>2
  <1> QED BY <1>1, EngineImplementsService, PTL DEF FairSpec, Spec

\* README: "If a fetch is already pending, MiniOS replies `busy`".  It is the
\* post commands only that take the engine from a pending fetch.
THEOREM OnlyPostsReplace == Spec /\ [][PostsWait]_vars => PendingFetchKept
  <1>1. [Next]_vars /\ [PostsWait]_vars
            => [state \notin {"IDLE", "DONE"} => req' = req]_vars
    <2> SUFFICES ASSUME [Next]_vars, PostsWait \/ UNCHANGED vars,
                        state \notin {"IDLE", "DONE"}
                 PROVE  req' = req
      OBVIOUS
    <2>1. ASSUME NEW c \in Commands, TakeCommand(c) PROVE req' = req
      <3>1. CASE UNCHANGED vars
        BY <3>1 DEF vars, targetVars
      <3>2. CASE RefuseCommand(c)
        BY <3>2 DEF RefuseCommand
      <3>3. CASE AcceptCommand(c) /\ PostsWait
        BY <2>1, <3>3 DEF AcceptCommand, Busy, PostsWait
      <3> QED BY <2>1, <3>1, <3>2, <3>3 DEF TakeCommand
    <2>2. ~DoneStep
      BY DEF DoneStep, AgentFinishes, AgentContinues, FollowRedirect, TellConsole, TellUdp
    <2>3. ASSUME Works PROVE req' = req
      BY <2>3 DEF Works
    <2>4. CASE ReplyStep /\ ReplySent
      BY <2>4, ReplySentKeeps DEF targetVars
    <2> QED BY <2>1, <2>2, <2>3, <2>4, RxWorks, TickWorks, LoopWorks, ReplyWorks DEF Next
  <1> QED BY <1>1, PTL DEF Spec, PendingFetchKept

-----------------------------------------------------------------------------
(* What FetchEnds rests on beside the fairness of loop and device: commands,  *)
(* redirects followed and rounds, in this order, are never taken back, and a  *)
(* deadline that is over costs the fetch a round.                             *)

Followed == IF redirect = None THEN redirects ELSE redirects - 1

Further == \/ issued' > issued
           \/ issued' = issued /\ Followed' > Followed
           \/ issued' = issued /\ Followed' = Followed /\ rounds' > rounds

Advances ==
    /\ Further \/ (issued' = issued /\ Followed' = Followed /\ rounds' = rounds)
    /\ expired => expired' \/ Further
    /\ Tick /\ state # "IDLE" /\ expired => Further \/ state' = "DONE"
    /\ DoneStep => Further \/ state' = "IDLE" \/ (state' = "DONE" /\ replyPending')

\* Most steps leave the three counters and a deadline that is over as they are.
Keeps ==
    /\ UNCHANGED <<issued, rounds>> /\ Followed' = Followed
    /\ expired => expired'

LEMMA CommandFurther ==
    ASSUME TypeOK, issued' = issued + 1
    PROVE  Further
  BY BoundAssumption DEF TypeOK, ControlType, Further

\* A redirect that is captured is not followed yet.
LEMMA FeedFollowed ==
    ASSUME TypeOK, NEW next, NEW body, NEW loc, Feed(next, body, loc)
    PROVE  Followed' = Followed
  <1>1. CASE loc # None /\ MayRedirect
    <2>1. redirect = None /\ redirect' # None /\ redirects' = redirects + 1
      BY <1>1 DEF Feed, MayRedirect
    <2>2. redirects \in Nat
      BY BoundAssumption DEF TypeOK, RespType
    <2> QED BY <2>1, <2>2 DEF Followed
  <1>2. CASE ~(loc # None /\ MayRedirect)
    BY <1>2 DEF Feed, Followed
  <1> QED BY <1>1, <1>2

LEMMA RxKeepsCounters ==
    ASSUME TypeOK, Rx
    PROVE  Keeps
  <1>1. ASSUME NEW a \in FeedArgs, HttpData(a) \/ HttpHeadersTooLarge(a)
        PROVE  Keeps
    <2>1. Followed' = Followed
      BY <1>1, FeedFollowed DEF HttpData, HttpHeadersTooLarge
    <2> QED BY <1>1, <2>1 DEF HttpData, HttpHeadersTooLarge, Keeps, timerVars, countVars
  <1>2. CASE \/ ArpReply \/ SynAck \/ HttpFin \/ TlsSegment
             \/ \E h \in Hosts : DnsReply(h)
             \/ \E granted \in BOOLEAN : SocksHelloReply(granted)
                                         \/ SocksConnectReply(granted)
    BY <1>2 DEF ArpReply, SynAck, HttpFin, TlsSegment, DnsReply,
                SocksHelloReply, SocksConnectReply, Keeps, Followed, timerVars,
                countVars, respVars
  <1> QED BY <1>1, <1>2 DEF Rx

LEMMA RestartFurther ==
    ASSUME TypeOK, RestartRound, issued' = issued
    PROVE  Further
  <1>1. /\ rounds' = rounds + 1 /\ redirect' = redirect /\ redirects' = redirects
        /\ rounds \in Nat
    BY BoundAssumption DEF RestartRound, TypeOK, CountType
  <1> QED BY <1>1 DEF Further, Followed

\* A tick starts a round or leaves the counters; with the deadline over it
\* starts a round or ends the fetch.
LEMMA TickAdvances ==
    ASSUME TypeOK, Tick
    PROVE  /\ Further \/ Keeps
           /\ state # "IDLE" /\ expired => Further \/ state' = "DONE"
  <1>1. CASE TickExpired
    <2>1. CASE rounds < MaxRounds
      BY <1>1, <2>1, RestartFurther DEF TickExpired
    <2>2. CASE ~(rounds < MaxRounds)
      BY <1>1, <2>2 DEF TickExpired, Keeps, Followed, timerVars, countVars, respVars
    <2> QED BY <2>1, <2>2
  <1>2. ASSUME ~TickExpired
        PROVE  (Further \/ Keeps) /\ ~(state # "IDLE" /\ expired)
    <2>1. ASSUME state # "IDLE", expired PROVE FALSE
      BY <1>2, <2>1 DEF Tick, TickNeedsGateway, TickNothing, TickAsk, TickAskedEnough,
         TickSocksSend, TickSocksEnough, TickHttpAck, TickHttpSend, TickHttpResend,
         TickHttpEnough, TickBuildFails, TickTlsFails, TickTlsHandshake, TickTlsWrite,
         TickTlsWritten, TickTlsRead, TickTlsEnd, TickRuns, TickMayRun, DeadlineHit
    <2>2. ASSUME TickAskedEnough PROVE Further \/ Keeps
      <3>1. CASE rounds < MaxRounds
        BY <2>2, <3>1, RestartFurther DEF TickAskedEnough
      <3>2. CASE ~(rounds < MaxRounds)
        BY <2>2, <3>2 DEF TickAskedEnough, Keeps, Followed, countVars, respVars
      <3> QED BY <3>1, <3>2
    <2>3. ASSUME NEW a \in FeedArgs, TickTlsRead(a) PROVE Keeps
      <3>1. Followed' = Followed
        BY <2>3, FeedFollowed DEF TickTlsRead
      <3> QED BY <2>3, <3>1 DEF TickTlsRead, Keeps, countVars
    <2>4. ASSUME \/ TickNeedsGateway \/ TickNothing \/ TickAsk \/ TickSocksSend
                 \/ TickSocksEnough \/ TickHttpAck \/ TickHttpSend
                 \/ TickHttpResend \/ TickHttpEnough \/ TickBuildFails
                 \/ TickTlsFails \/ TickTlsHandshake \/ TickTlsWrite
                 \/ TickTlsWritten \/ TickTlsEnd
          PROVE  Keeps
      BY <2>4 DEF TickNeedsGateway, TickNothing, TickAsk, TickSocksSend,
         TickSocksEnough, TickHttpAck, TickHttpSend, TickHttpResend, TickHttpEnough,
         TickBuildFails, TickTlsFails, TickTlsHandshake, TickTlsWrite, TickTlsWritten,
         TickTlsEnd, Keeps, Followed, timerVars, countVars, respVars
    <2> QED BY <1>2, <2>1, <2>2, <2>3, <2>4 DEF Tick
  <1> QED BY <1>1, <1>2

\* The done block of kmain: the next request of the agent or the next hop of a
\* redirect is further on than the fetch before it.
LEMMA DoneAdvances ==
    ASSUME TypeOK, DoneStep
    PROVE  \/ Further
           \/ Keeps /\ (state' = "IDLE" \/ (state' = "DONE" /\ replyPending'))
  <1>1. CASE AgentFinishes \/ TellConsole \/ TellUdp
    <2>1. Keeps
      BY <1>1 DEF AgentFinishes, TellConsole, TellUdp, Keeps, Followed, timerVars,
                  countVars, respVars
    <2>2. state' = "IDLE" \/ (state' = "DONE" /\ replyPending')
      BY <1>1 DEF AgentFinishes, TellConsole, TellUdp, Finish
    <2> QED BY <2>1, <2>2
  <1>2. ASSUME NEW c \in Commands, AgentContinues(c) PROVE Further
    BY <1>2, CommandFurther DEF AgentContinues
  <1>3. CASE FollowRedirect
    <2>1. /\ redirect # None /\ redirect' = None /\ redirects' = redirects
          /\ issued' = issued
      BY <1>3 DEF FollowRedirect, FetchStart
    <2>2. redirects \in Nat
      BY BoundAssumption DEF TypeOK, RespType
    <2>3. Followed = redirects - 1 /\ Followed' = redirects
      BY <2>1 DEF Followed
    <2> QED BY <2>1, <2>2, <2>3 DEF Further
  <1> QED BY <1>1, <1>2, <1>3 DEF DoneStep

\* However answers, commands, losses and deadlines interleave: no step takes a
\* round, a redirect or a command back, a deadline that is over stays so until
\* the next of them, the tick that finds it over (fetch_tick) goes on to the next
\* round or ends the fetch, and the done block ends it, goes on to the next
\* request, or has a UDP reply still to send.  Each of the three is limited
\* (TypeCorrect): this is the induction of FetchEnds.
THEOREM FetchAlwaysAdvances == Spec => [][Advances]_vars
  <1>1. TypeOK /\ [Next]_vars => [Advances]_vars
    <2> SUFFICES ASSUME TypeOK, Next PROVE Advances
      OBVIOUS
    <2>1. ASSUME NEW c \in Commands, TakeCommand(c) PROVE Further
      BY <2>1, CommandFurther DEF TakeCommand
    <2>2. ASSUME RxEnd \/ ReplyStep \/ WaitOver \/ DeadlineOver \/ TxConsumed
          PROVE  Keeps
      BY <2>2 DEF RxEnd, ReplyStep, WaitOver, DeadlineOver, TxConsumed, Keeps,
                  Followed, timerVars, countVars, respVars
    <2>3. /\ Further \/ Keeps
          /\ Tick /\ state # "IDLE" /\ expired => Further \/ state' = "DONE"
          /\ DoneStep => Further \/ state' = "IDLE" \/ (state' = "DONE" /\ replyPending')
      BY <2>1, <2>2, RxKeepsCounters, TickAdvances, DoneAdvances DEF Next
    <2> QED BY <2>3 DEF Advances, Keeps
  <1> QED BY <1>1, TypeCorrect, PTL DEF Spec
=============================================================================

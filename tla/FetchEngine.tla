---------------------------- MODULE FetchEngine ----------------------------
(***************************************************************************)
(* The fetch engine of runtime/src/main.rs: one HTTP(S) request at a time, *)
(* kept in static variables and driven by the super-loop of kmain.  Every  *)
(* iteration of the loop handles the received frames ("rx"), the console   *)
(* bytes and then one fetch_tick ("uart"), the pending UDP reply ("reply") *)
(* and a finished fetch ("done"), in that order.                           *)
(*                                                                         *)
(* Time is two flags: wait is now < FETCH_NEXT_MS, expired is              *)
(* now > FETCH_DEADLINE_MS.  A frame is delivered or lost when it is sent. *)
(* The address of host h is h itself.  Targets are hosts other than the    *)
(* OpenAI endpoint, whose connection the runtime may reuse.                *)
(***************************************************************************)
EXTENDS Naturals, Sequences, FiniteSets

CONSTANTS
    Hosts,         \* the hosts a request may name
    Proxy,         \* PROXY_IP, the address of the SOCKS5 proxy
    None,          \* no address, no host, nothing built
    UseProxy,      \* PROXY_SOCKS5: tunnel https through the proxy
    Commands,      \* the commands the console and the UDP peer may issue
    Locations,     \* the redirect targets a response may name
    MaxRetry,      \* FETCH_MAX_RETRY
    MaxRounds,     \* FETCH_MAX_ROUNDS
    MaxRedirects,  \* FETCH_MAX_REDIRECTS
    ReqChunks,     \* segments an HTTP request takes
    MaxCommands,   \* bound: commands issued in a behaviour
    MaxReports     \* bound: replies a stuck device makes the peer hear

\* What a request asks for: who hears the outcome, the target, whether the
\* target's address is given (the host bridge) and how the request is built.
Request == [src : {"console", "udp"}, host : Hosts, https : BOOLEAN,
            fixed : BOOLEAN, post : BOOLEAN, oauth : BOOLEAN]

Command == [kind : {"url", "post", "checked", "goal"}, req : Request]

Location == [host : Hosts, https : BOOLEAN]

ASSUME HostAssumption == /\ Hosts # {}
                         /\ Proxy \notin Hosts
                         /\ None \notin Hosts \cup {Proxy}
ASSUME InputAssumption == /\ UseProxy \in BOOLEAN
                          /\ Commands \subseteq Command
                          /\ Locations \subseteq Location
                          /\ None \notin Location
ASSUME ServiceAssumption == None \notin Request
ASSUME BoundAssumption == /\ MaxRetry \in Nat \ {0}
                          /\ MaxRounds \in Nat
                          /\ MaxRedirects \in Nat
                          /\ ReqChunks \in Nat \ {0}
                          /\ MaxCommands \in Nat
                          /\ MaxReports \in Nat \ {0}

Address == Hosts \cup {Proxy, None}

\* The method and the authorisation of the request in HTTP_BUF.
Built == [post : BOOLEAN, oauth : BOOLEAN]

TransportStates == {"ARP", "DNS", "SYN"}
SocksStates == {"SOCKS_HELLO", "SOCKS_CONNECT"}
StreamStates == {"HTTP", "TLS_HANDSHAKE", "TLS_HTTP", "TLS_READ"}
FetchStates == {"IDLE", "DONE"} \cup TransportStates \cup SocksStates
                \cup StreamStates

VARIABLES
    pc,            \* where the super-loop is
    state,         \* FETCH_STATE
    req,           \* FETCH_DOMAIN, FETCH_SRC_PORT and HTTPS; what was asked
    rounds, retry, httpRetry,
    wait,          \* now < FETCH_NEXT_MS
    expired,       \* now > FETCH_DEADLINE_MS
    tx,            \* FETCH_TX_INFLIGHT against FETCH_TX_USED
    haveGw, dst, ackSent, httpSent,
    off, seq, httpSeq,     \* in segments, seq from the start of the connection
    methodPost, oauth,     \* FETCH_METHOD_POST, FETCH_OAUTH_ACTIVE
    built,                 \* the request in HTTP_BUF
    gotResp, parser,       \* FETCH_GOT_RESP, HTTP_PARSE_STATE
    redirect, redirects,
    replyPending, replySent,
    taskActive,            \* AGENT_TASK_ACTIVE
    gwLearned, dnsCache,   \* net's ARP entry of the gateway; DNS_CACHE
    dnsNet,                \* the queries whose answers may still arrive
    peer,                  \* the other end of the connection
    conns, execs,          \* history of the hop: connections, executions
    fresh,                 \* history: response bytes arrived in this round
    reports,               \* history: outcome lines told for the request
    issued                 \* number of commands issued

targetVars == <<req, haveGw, dst, methodPost, oauth, taskActive>>
timerVars == <<wait, expired>>
sendVars == <<ackSent, httpSent, off, seq, httpSeq, built>>
respVars == <<gotResp, parser, redirect, redirects, fresh>>
replyVars == <<replyPending, replySent, reports>>
cacheVars == <<gwLearned, dnsCache, dnsNet>>
peerVars == <<peer, conns, execs>>
countVars == <<rounds, retry, httpRetry>>

vars == <<pc, state, tx, issued, targetVars, timerVars, sendVars, respVars,
          replyVars, cacheVars, peerVars, countVars>>

-----------------------------------------------------------------------------
(* The other end of a connection takes segments in order of their position: *)
(* rcv is the position it expects.  A proxy takes a greeting and a CONNECT  *)
(* before it relays; anything but the next item of that dialogue is an      *)
(* error, and a CONNECT that arrives when it relays goes to the target as   *)
(* if it were data.                                                         *)
PeerPhases == {"hello", "connect", "relay", "polluted", "reject"}

PeerAfter(item) ==
    CASE peer.phase = "hello" /\ item = "hello"     -> "connect"
      [] peer.phase = "connect" /\ item = "connect" -> "relay"
      [] peer.phase = "relay" /\ item = "data"      -> "relay"
      [] peer.phase = "relay" /\ item = "connect"   -> "polluted"
      [] peer.phase = "polluted"                    -> "polluted"
      [] OTHER                                      -> "reject"

\* The target executes the request when it holds all of its segments; the
\* same segments sent again at later positions are a second request.
Transmit(item, pos) ==
    \/ UNCHANGED <<peer, execs>>        \* lost, or a position already taken
    \/ /\ pos = peer.rcv
       /\ LET data == item = "data" /\ peer.phase = "relay"
              got  == IF data THEN peer.got + 1 ELSE peer.got
          IN /\ peer' = [phase |-> PeerAfter(item), rcv |-> peer.rcv + 1,
                         got |-> got]
             /\ execs' = IF data /\ got % ReqChunks = 0 THEN execs + 1
                                                        ELSE execs

NoPeer == [phase |-> "hello", rcv |-> 0, got |-> 0]
NewPeer == [phase |-> IF UseProxy /\ req.https THEN "hello" ELSE "relay",
            rcv |-> 0, got |-> 0]

Responding == peer.phase = "relay" /\ peer.got >= ReqChunks

(* FETCH_TX_INFLIGHT against the used index of the transmit queue: "wait"   *)
(* while the flag is set and the device has not moved the index past        *)
(* FETCH_TX_USED, "free" otherwise, for every reader of the flag compares   *)
(* the index too; "lost" when the index was read after the device had       *)
(* consumed the frame, so that the flag is set and no completion is due.    *)
TxStates == {"free", "wait", "lost"}

\* A frame that does not touch FETCH_TX_USED: the send first waits until the
\* device has consumed the previous one, and gives up when it does not.
SideFrame == tx' \in CASE tx = "wait" -> {"wait", "free"}
                       [] tx = "lost" -> {"lost", "wait"}
                       [] OTHER       -> {tx}

Proxied == UseProxy /\ req.https

-----------------------------------------------------------------------------
(* fetch_start_ex: the gateway comes from the ARP cache, where its entry    *)
(* may have expired, or for a proxied request from the previous fetch; a    *)
(* cached address of the host may have expired too.  The transport cooldown *)
(* left by the previous fetch may put FETCH_NEXT_MS in the future.  When    *)
(* the address has to be resolved FETCH_DST_IP keeps its old value.         *)
FetchStart(r, hop) ==
    LET proxied == UseProxy /\ r.https IN
    \E hit \in {FALSE, gwLearned}, ip \in {None, dnsCache[r.host]},
       cooling \in BOOLEAN :
      LET gw     == hit \/ (proxied /\ haveGw)
          cached == IF proxied \/ r.fixed THEN None ELSE ip
      IN /\ req' = r
         /\ haveGw' = gw
         /\ dst' = CASE proxied        -> Proxy
                     [] r.fixed        -> r.host
                     [] cached # None  -> cached
                     [] OTHER          -> dst
         /\ state' = CASE proxied \/ r.fixed          -> "SYN"
                       [] cached # None /\ gw         -> "SYN"
                       [] cached = None /\ gw         -> "DNS"
                       [] OTHER                       -> "ARP"
         /\ wait' = cooling
         /\ expired' = FALSE
         /\ tx' = "free"
         /\ rounds' = 0 /\ retry' = 0 /\ httpRetry' = 0
         /\ ackSent' = FALSE /\ httpSent' = FALSE
         /\ off' = 0 /\ seq' = 0 /\ httpSeq' = 0 /\ built' = None
         /\ gotResp' = FALSE /\ parser' = "headers" /\ fresh' = FALSE
         /\ redirect' = None
         /\ redirects' = IF hop THEN redirects ELSE 0
         /\ replyPending' = FALSE /\ replySent' = FALSE
         /\ peer' = NoPeer /\ conns' = 0 /\ execs' = 0

\* What a new round makes of FETCH_GOT_RESP.
RestartResp_Kept == gotResp
RestartResp == FALSE

\* fetch_restart_transport_state, and what every caller resets with it.  The
\* parser, the built request and FETCH_TX_INFLIGHT keep their values.
RestartRound ==
    /\ rounds' = rounds + 1
    /\ retry' = 0 /\ httpRetry' = 0
    /\ wait' = FALSE
    /\ httpSent' = FALSE /\ off' = 0 /\ ackSent' = FALSE
    /\ gotResp' = RestartResp /\ fresh' = FALSE
    /\ IF Proxied \/ req.fixed
         THEN /\ dst' = IF Proxied THEN Proxy ELSE req.host
              /\ state' = "SYN"
         ELSE /\ dst' = None
              /\ state' = IF haveGw THEN "DNS" ELSE "ARP"
    /\ UNCHANGED <<req, haveGw, methodPost, oauth, taskActive, seq, httpSeq,
                   built, parser, redirect, redirects>>

ResumeState == IF Proxied \/ req.fixed \/ dst # None THEN "SYN" ELSE "DNS"

-----------------------------------------------------------------------------
(* Commands.  "post" starts its fetch at once; the others are answered      *)
(* "busy" while a fetch is pending, and a "url" has by then cleared the     *)
(* method and the OAuth flag.  "checked" stands for sync, tweet, tls-local, *)
(* m6-search and the m5 commands, "goal" for a line given to the agent.     *)
Busy_NotChecked(c) == c.kind = "url" /\ state # "IDLE"
Busy(c) == c.kind # "post" /\ (state # "IDLE" \/ (c.kind = "goal" /\ taskActive))

RefuseCommand(c) ==
    /\ Busy(c)
    /\ IF c.kind = "url" THEN methodPost' = FALSE /\ oauth' = FALSE
                         ELSE UNCHANGED <<methodPost, oauth>>
    /\ IF c.req.src = "udp" THEN SideFrame ELSE UNCHANGED tx
    /\ UNCHANGED <<state, req, haveGw, dst, taskActive, timerVars, sendVars,
                   respVars, replyVars, cacheVars, peerVars, countVars>>

AcceptCommand(c) ==
    /\ ~Busy(c)
    /\ methodPost' = c.req.post
    /\ oauth' = c.req.oauth
    /\ taskActive' = (taskActive \/ c.kind = "goal")
    /\ reports' = <<>>
    /\ FetchStart(c.req, FALSE)
    /\ UNCHANGED cacheVars

TakeCommand(c) ==
    /\ pc = IF c.req.src = "udp" THEN "rx" ELSE "uart"
    /\ issued < MaxCommands
    /\ issued' = issued + 1
    /\ RefuseCommand(c) \/ AcceptCommand(c)
    /\ UNCHANGED pc

-----------------------------------------------------------------------------
(* Received frames. *)
ArpReply ==
    /\ pc = "rx" /\ state = "ARP"
    /\ gwLearned' = TRUE
    /\ haveGw' = TRUE
    /\ state' = ResumeState
    /\ retry' = 0 /\ wait' = FALSE
    /\ UNCHANGED <<pc, tx, issued, req, dst, methodPost, oauth, taskActive,
                   expired, sendVars, respVars, replyVars, dnsCache, dnsNet,
                   peerVars, rounds, httpRetry>>

\* Every query has the same identifier and source port, and the name in the
\* answer is not looked at: the answer about any host will do.
DnsReply(h) ==
    /\ pc = "rx" /\ state = "DNS"
    /\ h \in dnsNet
    /\ dst' = h
    /\ dnsCache' = [dnsCache EXCEPT ![req.host] = h]
    /\ retry' = 0 /\ wait' = FALSE
    /\ state' = "SYN"
    /\ UNCHANGED <<pc, tx, issued, req, haveGw, methodPost, oauth, taskActive,
                   expired, sendVars, respVars, replyVars, gwLearned, dnsNet,
                   peerVars, rounds, httpRetry>>

\* Any SYN-ACK for the port of this fetch is taken.  The peer answers a SYN that
\* was sent to it, in this round or, late, in an earlier one: rounds share the
\* port.  A connection begins; its ACK goes out unless the device still holds a
\* frame.  tls::configure may fail.
SynAck ==
    /\ pc = "rx" /\ state = "SYN"
    /\ haveGw /\ (retry > 0 \/ rounds > 0)
    /\ IF tx = "free" THEN tx' = "wait" /\ ackSent' = TRUE
                  ELSE UNCHANGED tx /\ ackSent' = FALSE
    /\ httpSent' = FALSE /\ httpRetry' = 0 /\ off' = 0 /\ seq' = 0
    /\ gotResp' = FALSE
    /\ wait' = TRUE
    /\ \/ Proxied /\ state' = "SOCKS_HELLO" /\ retry' = 0
       \/ ~Proxied /\ req.https /\ state' \in {"TLS_HANDSHAKE", "DONE"}
          /\ UNCHANGED retry
       \/ ~req.https /\ state' = "HTTP" /\ UNCHANGED retry
    /\ peer' = NewPeer
    /\ conns' = conns + 1
    /\ UNCHANGED <<pc, issued, targetVars, expired, httpSeq, built, parser,
                   redirect, redirects, fresh, replyVars, cacheVars, execs,
                   rounds>>

\* The proxy's answer to the greeting.
SocksHelloReply(granted) ==
    /\ pc = "rx" /\ state = "SOCKS_HELLO"
    /\ peer.phase # "hello"
    /\ SideFrame
    /\ IF granted THEN state' = "SOCKS_CONNECT" /\ retry' = 0 /\ wait' = FALSE
                  ELSE state' = "DONE" /\ UNCHANGED <<retry, wait>>
    /\ UNCHANGED <<pc, issued, targetVars, expired, sendVars, respVars,
                   replyVars, cacheVars, peerVars, rounds, httpRetry>>

\* The proxy's answer to CONNECT; a grant leads to the TLS handshake.
SocksConnectReply(granted) ==
    /\ pc = "rx" /\ state = "SOCKS_CONNECT"
    /\ granted => peer.phase \in {"relay", "polluted"}
    /\ peer.phase # "hello"
    /\ SideFrame
    /\ \/ granted /\ state' = "TLS_HANDSHAKE"
       \/ state' = "DONE"               \* refused, or tls::configure failed
    /\ UNCHANGED <<pc, issued, targetVars, timerVars, sendVars, respVars,
                   replyVars, cacheVars, peerVars, countVars>>

(* http_feed of some bytes.  They end in the headers, in the body or at the *)
(* end of the response (next); body bytes may be among them; complete       *)
(* headers may name a redirect target (loc, capture_redirect).              *)
MayRedirect_Unbounded == ~oauth /\ redirect = None
MayRedirect_Authorised == redirects < MaxRedirects /\ redirect = None
MayRedirect == ~oauth /\ redirects < MaxRedirects /\ redirect = None

Feed(next, body, loc) ==
    /\ parser # "complete"
    /\ next = "headers" => parser = "headers" /\ ~body
    /\ loc # None => parser = "headers" /\ next # "headers"
    /\ parser' = next
    /\ fresh' = TRUE
    /\ IF loc # None /\ MayRedirect
         THEN redirect' = loc /\ redirects' = redirects + 1
         ELSE UNCHANGED <<redirect, redirects>>

ParserStates == {"headers", "body", "complete"}
FeedArgs == {a \in [next : ParserStates, body : BOOLEAN,
                    loc : Locations \cup {None}] :
                a.next = "headers" => ~a.body /\ a.loc = None}

\* New bytes of a plain HTTP response; only body bytes count as a response.
HttpData(a) ==
    /\ pc = "rx" /\ state = "HTTP"
    /\ Responding
    /\ Feed(a.next, a.body, a.loc)
    /\ gotResp' = (gotResp \/ a.body)
    /\ SideFrame
    /\ UNCHANGED <<pc, state, issued, targetVars, timerVars, sendVars,
                   replyVars, cacheVars, peerVars, countVars>>

\* A piece of the headers that does not fit HTTP_HEADER_BUF takes the response
\* back and ends the fetch, but the pieces of the segment that follow are fed
\* to the parser all the same, and their body counts again.
HttpHeadersTooLarge(a) ==
    /\ pc = "rx" /\ state = "HTTP"
    /\ Responding /\ parser = "headers"
    /\ Feed(a.next, a.body, a.loc)
    /\ gotResp' = a.body
    /\ state' = "DONE"
    /\ SideFrame
    /\ UNCHANGED <<pc, issued, targetVars, timerVars, sendVars, replyVars,
                   cacheVars, peerVars, countVars>>

\* A FIN ends a plain HTTP fetch, whatever arrived before it.
HttpFin ==
    /\ pc = "rx" /\ state = "HTTP"
    /\ state' = "DONE"
    /\ SideFrame
    /\ UNCHANGED <<pc, issued, targetVars, timerVars, sendVars, respVars,
                   replyVars, cacheVars, peerVars, countVars>>

\* A TLS segment is queued for mbedTLS and acknowledged.
TlsSegment ==
    /\ pc = "rx" /\ state \in {"TLS_HANDSHAKE", "TLS_HTTP", "TLS_READ"}
    /\ SideFrame
    /\ UNCHANGED <<pc, state, issued, targetVars, timerVars, sendVars,
                   respVars, replyVars, cacheVars, peerVars, countVars>>

Rx == \/ ArpReply
      \/ \E h \in Hosts : DnsReply(h)
      \/ SynAck
      \/ \E granted \in BOOLEAN : SocksHelloReply(granted)
                                  \/ SocksConnectReply(granted)
      \/ \E a \in FeedArgs : HttpData(a) \/ HttpHeadersTooLarge(a)
      \/ HttpFin
      \/ TlsSegment

-----------------------------------------------------------------------------
(* fetch_tick.  An expired deadline comes before everything else, whatever  *)
(* the state: another round with a new deadline, or the end.                *)
DeadlineHit_AfterTx == state # "IDLE" /\ expired /\ tx = "free"
DeadlineHit == state # "IDLE" /\ expired

TickExpired ==
    /\ DeadlineHit
    /\ IF rounds < MaxRounds
         THEN RestartRound /\ expired' = FALSE
         ELSE /\ state' = "DONE"
              /\ UNCHANGED <<targetVars, timerVars, sendVars, respVars,
                             countVars>>
    /\ UNCHANGED <<tx, issued, replyVars, cacheVars, peerVars>>

\* Without the gateway's MAC every state goes back to ARP.
TickNeedsGateway ==
    /\ state \notin {"IDLE", "ARP"} /\ ~DeadlineHit /\ ~haveGw
    /\ state' = "ARP"
    /\ UNCHANGED <<tx, issued, targetVars, timerVars, sendVars, respVars,
                   replyVars, cacheVars, peerVars, countVars>>

TickMayRun == /\ state # "IDLE" /\ ~DeadlineHit
              /\ state = "ARP" \/ haveGw

\* The guard of all that follows: the frame sent last has been consumed.
TickRuns == TickMayRun /\ tx = "free"

\* Nothing to do yet: a wait, or mbedTLS wants more.
Waits == \/ state \in TransportStates \cup SocksStates \cup {"HTTP"} /\ wait
         \/ state \in {"TLS_HANDSHAKE", "DONE"}
         \/ state = "TLS_HTTP" /\ off < ReqChunks
         \/ state = "TLS_READ" /\ parser # "complete" /\ (wait \/ ~gotResp)

TickNothing ==
    /\ \/ state = "IDLE" /\ UNCHANGED tx
       \/ TickMayRun /\ tx # "free" /\ UNCHANGED tx
       \/ TickRuns /\ Waits /\ tx' = "free"
    /\ UNCHANGED <<state, issued, targetVars, timerVars, sendVars, respVars,
                   replyVars, cacheVars, peerVars, countVars>>

\* An ARP request, a DNS query or a SYN.  Nothing sets haveGw in state "ARP"
\* without leaving it, so the tick never resumes a fetch by itself there.
TickAsk ==
    /\ TickRuns /\ state \in TransportStates /\ ~wait
    /\ retry < MaxRetry
    /\ retry' = retry + 1
    /\ wait' = TRUE
    /\ tx' = "wait"
    /\ dnsNet' = IF state = "DNS" THEN dnsNet \cup {req.host} ELSE dnsNet
    /\ UNCHANGED <<state, issued, targetVars, expired, sendVars, respVars,
                   replyVars, gwLearned, dnsCache, peerVars, rounds,
                   httpRetry>>

\* No answer: the next round, under the deadline of this one, or the end.
TickAskedEnough ==
    /\ TickRuns /\ state \in TransportStates /\ ~wait
    /\ retry >= MaxRetry
    /\ tx' = "free"
    /\ IF rounds < MaxRounds
         THEN RestartRound
         ELSE /\ state' = "DONE"
              /\ UNCHANGED <<targetVars, wait, sendVars, respVars, countVars>>
    /\ UNCHANGED <<expired, issued, replyVars, cacheVars, peerVars>>

\* A greeting or a CONNECT, each time at the next position of the stream.
TickSocksSend ==
    /\ TickRuns /\ state \in SocksStates /\ ~wait
    /\ retry < MaxRetry
    /\ Transmit(IF state = "SOCKS_HELLO" THEN "hello" ELSE "connect", seq)
    /\ seq' = seq + 1
    /\ retry' = retry + 1
    /\ wait' = TRUE
    /\ tx' = "wait"
    /\ UNCHANGED <<state, issued, targetVars, expired, ackSent, httpSent, off,
                   httpSeq, built, respVars, replyVars, cacheVars, conns,
                   rounds, httpRetry>>

TickSocksEnough ==
    /\ TickRuns /\ state \in SocksStates /\ ~wait
    /\ retry >= MaxRetry
    /\ state' = "DONE"
    /\ tx' = "free"
    /\ UNCHANGED <<issued, targetVars, timerVars, sendVars, respVars,
                   replyVars, cacheVars, peerVars, countVars>>

\* In HTTP the used index is read after the send: the device may be quicker.
PostRead == tx' \in {"wait", "lost"}

TickHttpAck ==
    /\ TickRuns /\ state = "HTTP" /\ ~wait
    /\ ~ackSent
    /\ ackSent' = TRUE
    /\ wait' = TRUE
    /\ PostRead
    /\ UNCHANGED <<state, issued, targetVars, expired, httpSent, off, seq,
                   httpSeq, built, respVars, replyVars, cacheVars, peerVars,
                   countVars>>

\* build_http_request reads the method when its first segment is due.
Build == built' = IF built = None THEN [post |-> methodPost, oauth |-> oauth]
                                  ELSE built

TickHttpSend ==
    /\ TickRuns /\ state = "HTTP" /\ ~wait
    /\ ackSent /\ ~httpSent
    /\ Build
    /\ off = 0 => httpRetry < MaxRetry
    /\ httpSeq' = IF off = 0 THEN seq ELSE httpSeq
    /\ httpRetry' = IF off = 0 THEN httpRetry + 1 ELSE httpRetry
    /\ gotResp' = (off # 0 /\ gotResp)
    /\ Transmit("data", httpSeq' + off)
    /\ seq' = httpSeq' + off + 1
    /\ off' = off + 1
    /\ httpSent' = (off + 1 >= ReqChunks)
    /\ wait' = TRUE
    /\ PostRead
    /\ UNCHANGED <<state, issued, targetVars, expired, ackSent, parser,
                   redirect, redirects, fresh, replyVars, cacheVars, conns,
                   rounds, retry>>

\* Five seconds after the last segment the whole request is sent again, at
\* the positions it had.
ResendSeq_Kept == seq
ResendSeq == httpSeq

TickHttpResend ==
    /\ TickRuns /\ state = "HTTP" /\ ~wait
    /\ ackSent /\ httpSent
    /\ httpRetry < MaxRetry
    /\ httpSent' = FALSE
    /\ off' = 0
    /\ seq' = ResendSeq
    /\ tx' = "free"
    /\ UNCHANGED <<state, issued, targetVars, timerVars, ackSent, httpSeq,
                   built, respVars, replyVars, cacheVars, peerVars, countVars>>

\* Out of sends, either waiting for the response or about to start again.
TickHttpEnough ==
    /\ TickRuns /\ state = "HTTP" /\ ~wait
    /\ ackSent
    /\ httpSent \/ off = 0
    /\ httpRetry >= MaxRetry
    /\ state' = "DONE"
    /\ tx' = "free"
    /\ IF httpSent THEN UNCHANGED built ELSE Build
    /\ UNCHANGED <<issued, targetVars, timerVars, ackSent, httpSent, off, seq,
                   httpSeq, respVars, replyVars, cacheVars, peerVars,
                   countVars>>

\* The DNS query or the request does not fit its buffer.
TickBuildFails ==
    /\ TickRuns
    /\ \/ state = "DNS" /\ ~wait /\ retry < MaxRetry
       \/ state = "HTTP" /\ ~wait /\ ackSent /\ ~httpSent /\ built = None
       \/ state = "TLS_HTTP" /\ built = None
    /\ state' = "DONE"
    /\ tx' = "free"
    /\ UNCHANGED <<issued, targetVars, timerVars, sendVars, respVars,
                   replyVars, cacheVars, peerVars, countVars>>

\* mbedTLS reports an error; or the handshake is over, which takes a peer
\* that holds everything sent so far and nothing else.
TickTlsFails ==
    /\ TickRuns /\ state \in {"TLS_HANDSHAKE", "TLS_HTTP"}
    /\ state' = "DONE"
    /\ tx' = "free"
    /\ UNCHANGED <<issued, targetVars, timerVars, sendVars, respVars,
                   replyVars, cacheVars, peerVars, countVars>>

TickTlsHandshake ==
    /\ TickRuns /\ state = "TLS_HANDSHAKE"
    /\ peer.phase = "relay" /\ peer.rcv = seq
    /\ state' = "TLS_HTTP"
    /\ off' = 0 /\ built' = None
    /\ tx' = "free"
    /\ UNCHANGED <<issued, targetVars, timerVars, ackSent, httpSent, seq,
                   httpSeq, respVars, replyVars, cacheVars, peerVars,
                   countVars>>

TickTlsWrite ==
    /\ TickRuns /\ state = "TLS_HTTP"
    /\ off < ReqChunks
    /\ Build
    /\ Transmit("data", seq)
    /\ seq' = seq + 1
    /\ off' = off + 1
    /\ tx' = "free"
    /\ UNCHANGED <<state, issued, targetVars, timerVars, ackSent, httpSent,
                   httpSeq, respVars, replyVars, cacheVars, conns, countVars>>

TickTlsWritten ==
    /\ TickRuns /\ state = "TLS_HTTP"
    /\ off >= ReqChunks
    /\ state' = "TLS_READ"
    /\ wait' = TRUE
    /\ tx' = "free"
    /\ UNCHANGED <<issued, targetVars, expired, sendVars, respVars, replyVars,
                   cacheVars, peerVars, countVars>>

\* A burst of reads.  Any byte counts as a response and makes the UDP reply
\* due; the burst ends with the response, with the connection or with mbedTLS
\* wanting more.
TickTlsRead(a) ==
    /\ TickRuns /\ state = "TLS_READ"
    /\ wait \/ ~gotResp
    /\ Responding
    /\ Feed(a.next, a.body, a.loc)
    /\ gotResp' = TRUE
    /\ wait' = TRUE
    /\ replyPending' = (replyPending \/ ( /\ ~replySent /\ redirect' = None
                                          /\ req.src = "udp" ))
    /\ state' \in {"TLS_READ", "DONE"}
    /\ tx' = "free"
    /\ UNCHANGED <<issued, targetVars, expired, sendVars, replySent, reports,
                   cacheVars, peerVars, countVars>>

\* The response is complete, or silent for three seconds, or the peer closed,
\* or the read fails.
TickTlsEnd ==
    /\ TickRuns /\ state = "TLS_READ"
    /\ state' = "DONE"
    /\ tx' = "free"
    /\ UNCHANGED <<issued, targetVars, timerVars, sendVars, respVars,
                   replyVars, cacheVars, peerVars, countVars>>

\* Where the loop goes next: the reply and the done blocks are skipped unless
\* there is something for them.
AfterTick == IF replyPending' /\ ~replySent' THEN "reply"
             ELSE IF state' = "DONE" THEN "done" ELSE "rx"

Tick ==
    /\ pc = "uart"
    /\ \/ TickExpired \/ TickNeedsGateway \/ TickNothing
       \/ TickAsk \/ TickAskedEnough \/ TickSocksSend \/ TickSocksEnough
       \/ TickHttpAck \/ TickHttpSend \/ TickHttpResend \/ TickHttpEnough
       \/ TickBuildFails \/ TickTlsFails
       \/ TickTlsHandshake \/ TickTlsWrite \/ TickTlsWritten
       \/ \E a \in FeedArgs : TickTlsRead(a)
       \/ TickTlsEnd
    /\ pc' = AfterTick

-----------------------------------------------------------------------------
(* The pending UDP reply says "http ok", whatever became of the fetch since *)
(* it was made pending.  A send that finds the device stuck changes nothing. *)
ReplySent ==
    /\ replyPending /\ ~replySent /\ req.src = "udp"
    /\ replySent' = TRUE /\ replyPending' = FALSE
    /\ reports' = Append(reports, "ok")
    /\ SideFrame

ReplyStep ==
    /\ pc = "reply"
    /\ pc' = IF state = "DONE" THEN "done" ELSE "rx"
    /\ \/ ReplySent
       \/ UNCHANGED <<tx, replyVars>>
    /\ UNCHANGED <<state, issued, targetVars, timerVars, sendVars, respVars,
                   cacheVars, peerVars, countVars>>

-----------------------------------------------------------------------------
(* A finished fetch: the agent takes it, or a redirect starts the next hop, *)
(* or the outcome is told and the engine is idle again.                     *)
Outcome == IF gotResp THEN "ok" ELSE "fail"

\* fetch_finish_agent_idle and agent_reset.
AgentFinishes ==
    /\ state = "DONE" /\ taskActive
    /\ state' = "IDLE"
    /\ taskActive' = FALSE /\ oauth' = FALSE
    /\ SideFrame
    /\ UNCHANGED <<issued, req, haveGw, dst, methodPost, timerVars, sendVars,
                   respVars, replyVars, cacheVars, peerVars, countVars>>

\* The agent asks for its next tool or model request.
AgentContinues(c) ==
    /\ state = "DONE" /\ taskActive
    /\ c.kind = "goal"
    /\ issued < MaxCommands
    /\ issued' = issued + 1
    /\ methodPost' = c.req.post /\ oauth' = c.req.oauth
    /\ reports' = <<>>
    /\ FetchStart(c.req, FALSE)
    /\ UNCHANGED <<taskActive, cacheVars>>

\* The hop is a GET without the body.
HopMethod_Kept == methodPost
HopMethod == FALSE

FollowRedirect ==
    /\ state = "DONE" /\ ~taskActive
    /\ redirect # None
    /\ methodPost' = HopMethod
    /\ FetchStart([src |-> req.src, host |-> redirect.host,
                   https |-> redirect.https, fixed |-> FALSE,
                   post |-> FALSE, oauth |-> oauth], TRUE)
    /\ UNCHANGED <<issued, oauth, taskActive, reports, cacheVars>>

Finish == /\ state' = "IDLE"
          /\ oauth' = FALSE
          /\ UNCHANGED <<req, haveGw, dst, methodPost, taskActive>>

TellConsole ==
    /\ state = "DONE" /\ ~taskActive /\ redirect = None
    /\ req.src = "console"
    /\ reports' = Append(reports, Outcome)
    /\ replyPending' = FALSE
    /\ Finish
    /\ SideFrame
    /\ UNCHANGED <<issued, timerVars, sendVars, respVars, replySent, cacheVars,
                   peerVars, countVars>>

\* The UDP peer is told unless it was already.  When the send fails the reply
\* becomes pending; while it is pending the fetch stays done.
TellUdp ==
    /\ state = "DONE" /\ ~taskActive /\ redirect = None
    /\ req.src = "udp"
    /\ \/ /\ replySent \/ Len(reports) < MaxReports
          /\ reports' = IF replySent THEN reports ELSE Append(reports, Outcome)
          /\ IF replyPending THEN UNCHANGED <<state, targetVars>> ELSE Finish
          /\ UNCHANGED replyPending
       \/ /\ ~replySent
          /\ replyPending' = TRUE
          /\ UNCHANGED <<state, targetVars, reports>>
    /\ SideFrame
    /\ UNCHANGED <<issued, timerVars, sendVars, respVars, replySent, cacheVars,
                   peerVars, countVars>>

DoneStep ==
    /\ pc = "done"
    /\ pc' = "rx"
    /\ \/ AgentFinishes
       \/ \E c \in Commands : AgentContinues(c)
       \/ FollowRedirect
       \/ TellConsole
       \/ TellUdp

-----------------------------------------------------------------------------
(* The loop moves on when it has no more frames; it ticks when it has no    *)
(* more console bytes.                                                      *)
RxEnd == /\ pc = "rx" /\ pc' = "uart"
         /\ UNCHANGED <<state, tx, issued, targetVars, timerVars, sendVars,
                        respVars, replyVars, cacheVars, peerVars, countVars>>

\* Time passes while the loop delays before its tick, the only reader of time.
WaitOver == /\ wait /\ pc = "uart"
            /\ state \in TransportStates \cup SocksStates \cup {"HTTP", "TLS_READ"}
            /\ wait' = FALSE
            /\ UNCHANGED <<pc, state, tx, issued, targetVars, expired,
                           sendVars, respVars, replyVars, cacheVars, peerVars,
                           countVars>>

DeadlineOver == /\ ~expired /\ state # "IDLE" /\ pc = "uart"
                /\ expired' = TRUE
                /\ UNCHANGED <<pc, state, tx, issued, targetVars, wait,
                               sendVars, respVars, replyVars, cacheVars,
                               peerVars, countVars>>

TxConsumed == /\ tx = "wait"
              /\ tx' = "free"
              /\ UNCHANGED <<pc, state, issued, targetVars, timerVars,
                             sendVars, respVars, replyVars, cacheVars,
                             peerVars, countVars>>

NoRequest == [src |-> "console", host |-> CHOOSE h \in Hosts : TRUE,
              https |-> FALSE, fixed |-> FALSE, post |-> FALSE,
              oauth |-> FALSE]

Init ==
    /\ pc = "rx" /\ state = "IDLE" /\ tx = "free" /\ issued = 0
    /\ req = NoRequest
    /\ haveGw = FALSE /\ dst = None
    /\ methodPost = FALSE /\ oauth = FALSE /\ taskActive = FALSE
    /\ wait = FALSE /\ expired = FALSE
    /\ ackSent = FALSE /\ httpSent = FALSE /\ off = 0 /\ seq = 0
    /\ httpSeq = 0 /\ built = None
    /\ gotResp = FALSE /\ parser = "headers" /\ redirect = None
    /\ redirects = 0 /\ fresh = FALSE
    /\ replyPending = FALSE /\ replySent = FALSE /\ reports = <<>>
    /\ gwLearned = FALSE /\ dnsCache = [h \in Hosts |-> None] /\ dnsNet = {}
    /\ peer = NoPeer /\ conns = 0 /\ execs = 0
    /\ rounds = 0 /\ retry = 0 /\ httpRetry = 0

Next == \/ \E c \in Commands : TakeCommand(c)
        \/ Rx
        \/ RxEnd
        \/ Tick
        \/ ReplyStep
        \/ DoneStep
        \/ WaitOver \/ DeadlineOver \/ TxConsumed

Spec == Init /\ [][Next]_vars

(* The loop never stops and the device consumes what it is given.  Every    *)
(* tick reads a clock that never stops, so a wait and a deadline are over   *)
(* at some tick; a UDP send finds the device stuck only now and then.       *)
Fairness ==
    /\ WF_vars(RxEnd) /\ WF_vars(Tick)
    /\ WF_vars(ReplyStep) /\ WF_vars(DoneStep) /\ WF_vars(TxConsumed)
    /\ SF_vars(WaitOver) /\ SF_vars(DeadlineOver)
    /\ SF_vars(ReplyStep /\ ReplySent)

FairSpec == Spec /\ Fairness

-----------------------------------------------------------------------------
(* Properties. *)

\* The values the static variables of the engine take.
ControlType == /\ pc \in {"rx", "uart", "reply", "done"}
               /\ state \in FetchStates
               /\ tx \in TxStates
               /\ issued \in 0..MaxCommands

TargetType == /\ req \in Request
              /\ haveGw \in BOOLEAN
              /\ dst \in Address
              /\ methodPost \in BOOLEAN /\ oauth \in BOOLEAN
              /\ taskActive \in BOOLEAN

TimerType == wait \in BOOLEAN /\ expired \in BOOLEAN

SendType == /\ ackSent \in BOOLEAN /\ httpSent \in BOOLEAN
            /\ off \in 0..ReqChunks
            /\ seq \in Nat /\ httpSeq \in Nat
            /\ built \in Built \cup {None}

RespType == /\ gotResp \in BOOLEAN /\ fresh \in BOOLEAN
            /\ parser \in ParserStates
            /\ redirect \in Locations \cup {None}
            /\ redirects \in 0..MaxRedirects

ReplyType == /\ replyPending \in BOOLEAN /\ replySent \in BOOLEAN
             /\ reports \in Seq({"ok", "fail"})

CacheType == /\ gwLearned \in BOOLEAN
             /\ dnsCache \in [Hosts -> Address]
             /\ dnsNet \subseteq Hosts

PeerType == /\ peer \in [phase : PeerPhases, rcv : Nat, got : Nat]
            /\ conns \in Nat /\ execs \in Nat

CountType == /\ rounds \in 0..MaxRounds
             /\ retry \in 0..MaxRetry
             /\ httpRetry \in 0..MaxRetry

TypeOK == /\ ControlType /\ TargetType /\ TimerType /\ SendType /\ RespType
          /\ ReplyType /\ CacheType /\ PeerType /\ CountType

\* However rounds, retransmissions, losses and deadlines interleave, a
\* connection makes the target execute the request at most once and a round
\* makes at most one connection (fetch_tick's restart and resend paths).
ExecutionsBounded == execs <= conns /\ conns <= rounds + 1

\* FETCH_GOT_RESP, the "ok" every user of the engine goes by, stands for
\* response bytes of the current round to a request that was executed.
OkIsEarned == gotResp => fresh /\ execs > 0

\* The request in HTTP_BUF is the one that was asked for: method and
\* authorisation are shared statics, read long after the command.  A url
\* command that is refused as busy writes them too: it must not come in between.
SentAsAsked ==
    state # "IDLE" /\ built # None =>
        built.post = req.post /\ built.oauth = req.oauth

\* A redirect hop repeats neither the body nor the authorisation of the
\* request that was redirected (capture_redirect, kmain's redirect branch).
HopIsBareGet ==
    redirects > 0 /\ redirect = None /\ built # None =>
        ~built.post /\ ~built.oauth

\* The engine implements FetchService: a request is in service from the
\* command to the return to FETCH_IDLE, through FETCH_DONE and any rounds.
Service == INSTANCE FetchService WITH
    Requests <- Request,
    job      <- IF state = "IDLE" THEN None ELSE req,
    agent    <- taskActive,
    hops     <- IF state = "IDLE" THEN 0
                ELSE IF redirect = None THEN redirects ELSE redirects - 1,
    lines    <- reports

ImplementsService == Service!Spec

\* Every fetch ends: no loss, stall or silent peer keeps the engine busy.
FetchEnds == state # "IDLE" ~> state = "IDLE"

\* README: "If a fetch is already pending, MiniOS replies `busy`".  The
\* request a pending fetch is for changes only at a redirect.
PendingFetchKept ==
    [][state \notin {"IDLE", "DONE"} => req' = req]_vars

\* README: "resolves domains via the user-net DNS server".  The address of
\* another host is not taken for this one's when the gateway has answered ARP
\* (fetch_resume_after_gateway_ready).
ResolvedBeforeSyn ==
    [][state = "ARP" /\ state' = "SYN" => dst \in {req.host, Proxy}]_vars
=============================================================================

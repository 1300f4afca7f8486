# MiniOS: specification of the agent, its fetch engine and the layers below

MiniOS is a bare-metal runtime (`runtime/src/`, Rust, one core, no interrupts, no
threads) that boots under QEMU, talks virtio-net and runs a language-model
agent: a line typed at the serial console becomes a chain of HTTP requests to a
model and to its tools. These modules specify how it behaves when frames are
lost, late or repeated, deadlines fire in awkward places, commands arrive while
a request is pending and the answers of the model are not what was hoped for.

Paths below are relative to the repository; `main.rs:3033` is line 3033 of
`runtime/src/main.rs`, `loop.rs` and its siblings are under `runtime/src/agent/`.

## 1. The system

### 1.1 Components

| Component | State it keeps | Operations | What makes it correct |
| --- | --- | --- | --- |
| Super-loop `kmain` (main.rs) | `LAST_RX_USED`, `UDP_REPLY_*`, the console line | handle received frames; console bytes, delay and tick; pending UDP reply; finished fetch | the order of these steps never loses an outcome |
| Fetch engine (main.rs 2190-3800) | `FETCH_STATE`, target, sequence numbers, retries, rounds, deadline, `FETCH_TX_INFLIGHT`, built request, redirect | `fetch_start_ex`, `fetch_tick`, `fetch_restart_transport_state`, the segment handlers | one request at a time, sent as asked, executed a bounded number of times, always ended, outcome true |
| Response parser `http_feed` (main.rs 2269-2480) | `HTTP_PARSE_STATE`, header buffer, chunk and content-length counters | feed bytes | every body byte delivered once, redirect recognised |
| DNS and ARP (main.rs 800-900, 4600-4720) | `DNS_CACHE`, gateway MAC | query, answer, cache | the address used is the name's |
| Agent loop M4/M5 (loop.rs) | `AGENT_TASK_ACTIVE`, `AGENT_PHASE`, tool, step, retries, last page | `handle_m4_goal_line`, `handle_m4_fetch_done` by phase, tools | a turn always waits for a fetch or is over; bounded work; one outcome |
| Session history (session.rs) | 16 KB text, 8 key-value slots | append, reset, read and write state | the history is in order and its turns are complete |
| Working memory (memory.rs) | five slots: task, source, workspace, execution, conversation | note, list, read, compact | bounded; what is listed can be read |
| Goal pipelines M0-M3 (goal.rs, task.rs, policy.rs, skill.rs) | `AGENT_MODE`, `AGENT_PHASE`, policy, body buffer, result, terminal kind | `handle_agent_task_line`, `handle_goal_line`, `handle_agent_fetch_done` | a task always has a fetch or is over; what the sink, the trace and the console say of it agrees and was earned |
| virtio-net queues (net.rs, virtio.rs) | eight receive buffers, one transmit buffer, ring indices | `rx_set_current`, `rx_rearm`, `tx_wait_ready`, senders | no buffer lost, none overwritten while the device reads it |
| TLS transport (tls.rs) | receive buffer, out-of-order slots, sequence and acknowledgement numbers | `push_rx_payload_seq`, read and write callbacks of mbedTLS | mbedTLS sees the stream that was sent |
| OAuth and OpenAI keys (oauth.rs, openai.rs) | keys, nonce | sign, set, clear | formatting and hashing |
| Console (uart.rs, main.rs) | line buffer | edit, parse, dispatch | commands are refused while busy |
| Platform (mem.rs, allocator.rs, dtb.rs, timer.rs, mmio.rs) | bump allocator, device tree | boot | - |
| Host side (tools/) | fixtures, host bridge | external peers | - |

### 1.2 How they interact

`kmain` is one loop without preemption. Components call each other and share
static variables; concurrency comes from outside: the network, the virtio device
that moves the used indices by itself, the console and the clock. In an
iteration the loop

1. handles every frame in the used ring (state transitions on ARP, DNS, TCP, and
   UDP commands);
2. handles console bytes (commands, lines for the agent), delays, and calls
   `fetch_tick` once;
3. sends the pending UDP reply, if there is one;
4. when `FETCH_STATE` is `FETCH_DONE`, gives the fetch to the agent, follows the
   redirect, or tells the outcome and makes the engine idle.

Several paths leave the iteration early (`continue 'main`, `break 'rx`). A line
for the agent starts a fetch; step 4 calls `handle_m4_fetch_done` or
`handle_agent_fetch_done`, which may start the next one before the engine was ever
idle. The flag
`FETCH_TX_INFLIGHT` is compared with the used index of the transmit queue; other
senders share that queue and wait by themselves.

### 1.3 Hard behaviours

- The deadline of a round fires in any state, `FETCH_DONE` included, and begins
  another round that resets most variables but not all of them.
- A request is sent again after five seconds, CONNECT and greeting after their
  own timeout; the peer may have taken the first copy.
- The used index is read before or after a send, depending on the sender, while
  the device moves it.
- Commands for a busy engine are refused in different ways, some after they have
  written the engine's variables.
- The reply to the UDP peer is decided at one time and sent at another.
- A turn of the agent goes through some twenty paths, each of which must start a
  fetch or end the turn; retries, missing keys and resets cut across all of them.

- The virtio device and the driver hand one pool of buffers back and forth with no
  lock but the ring indices, and the receive loop is left early on some frames.
- TLS segments arrive in any order; the receive buffer is emptied when it would
  overflow, although its bytes have been acknowledged.
- The body buffer is source, request and answer of the pipelines in turn.

`PROJECT.json` lists each hazard at its line with the properties about it.

## 2. Modules

| Module | Content |
| --- | --- |
| `FetchService` | What the engine promises: an abstract specification with four variables |
| `FetchEngine` | The engine with the super-loop around it, and its properties |
| `FetchEngine_proofs` | Theorems about `FetchEngine`, and that it implements `FetchService` |
| `MCFetch` | Commands and redirect targets for TLC |
| `AgentLoop` | Turns, tools, retries and history, over the service of the engine |
| `AgentLoop_proofs` | Theorems about `AgentLoop` |
| `MCAgent` | Tool sets for TLC |
| `GoalPipeline` | The M0-M3 pipelines and their policy, over the service of the engine |
| `GoalPipeline_proofs` | Theorems about `GoalPipeline` |
| `MCGoal` | Budgets for TLC |
| `VirtioNet` | The receive pool, the transmit buffer and the engine's transmit flag |
| `VirtioNet_proofs` | Theorems about the transmit half of `VirtioNet` |
| `VirtioNet_rx_proofs` | Theorems about its receive half, and its type invariant |
| `TlsStream` | The byte stream under mbedTLS while a response is read |
| `TlsStream_proofs` | Theorems about `TlsStream` |
| `HttpFeed` | The response parser byte by byte, and what the agent captures of a body |
| `HttpFeed_proofs` | Theorems about `HttpFeed` |
| `MCHttp` | Responses for TLC |
| `SessionMemory` | The history in bytes, the key-value slots and the working memory |
| `SessionMemory_proofs` | Theorems about `SessionMemory` |
| `MCSession` | Texts and keys for TLC |

`FetchEngine` is the middle. `AgentLoop` and `GoalPipeline` use it through two
facts: it serves one request at a time, and each fetch ends. `VirtioNet` justifies
the three values `FetchEngine` gives to `tx`, and `TlsStream` that what reaches
`http_feed` through mbedTLS is what the peer sent. `HttpFeed` details what `FetchEngine`
leaves to a choice (`Feed`) and says what the agent finds in its buffer when a fetch is
over; `SessionMemory` details what `AgentLoop` keeps as a sequence of entries.

### 2.1 FetchEngine

`pc` is the place in the iteration: `"rx"`, `"uart"` (console and tick),
`"reply"`, `"done"`. The variables are the statics of main.rs without their
`FETCH_` prefix, except:

- **Time.** `wait` is `now < FETCH_NEXT_MS` and `expired` is
  `now > FETCH_DEADLINE_MS`. A step that sets a time in the future sets the flag;
  `WaitOver` and `DeadlineOver` let the time pass. They occur at `"uart"`, where
  the loop delays and then reads the clock.
- **Transmit queue.** `tx` folds `FETCH_TX_INFLIGHT`, `FETCH_TX_USED` and the
  used index into `"free"` (the next reader finds the frame consumed), `"wait"`
  (it is not yet) and `"lost"` (the index was read after the device consumed the
  frame, so the engine waits for a completion that is not due, until another
  frame moves the index). `SideFrame` is a frame of another sender.
- **Network.** A frame is delivered or lost when it is sent; answers arrive in
  any order relative to everything else. A SYN-ACK may answer a SYN of an earlier round,
  which used the same port. What a peer never does is answer a SYN that this fetch has not
  sent. `dnsNet` are names whose answers may
  still arrive, in any number of copies. `peer` is the other end of the current
  connection: it takes segments in order of position, is a SOCKS5 proxy before
  it relays, and executes the request when it holds all its segments. A segment
  at a position it already has is ignored, as TCP does.
- **Positions** are counted in segments from the start of the connection. So
  `seq` and `httpSeq` are unbounded in the specification; every value of the
  32-bit sequence number stands for the offset to the connection's start, and no
  connection is long enough to wrap.
- **TLS.** mbedTLS is nondeterministic: each step wants more, makes progress or
  fails. A handshake can only finish with a peer that got exactly what was sent.
- **Parsing.** `Feed` chooses how far some bytes take the parser, whether body
  bytes were among them and whether the headers name a redirect target. Headers that are
  too large end the fetch, but the rest of their segment is still parsed (main.rs
  5018-5032) and may count as a response.
- **History variables.** `conns` and `execs` count connections and executions of
  the current hop, `fresh` says whether response bytes arrived in this round,
  `reports` are the outcome lines told, `issued` counts commands. No guard of
  modelled code reads them; `issued` and `reports` also carry the bounds
  `MaxCommands` and `MaxReports`.

Actions follow the code: `TakeCommand` (accepted or refused), one action per kind
of received frame under `Rx`, one per branch of `fetch_tick` under `Tick`,
`ReplyStep`, and the branches of the finished fetch under `DoneStep`. `FetchStart`
is the whole of `fetch_start_ex`, shared by commands, the agent and redirects;
`RestartRound` is the new round, shared by the deadline and by exhausted
retries.

### 2.2 FetchService and the refinement

`FetchService` has the request being served (`job`), whether the agent owns it,
the redirects followed and the lines told. It promises: no request is accepted
before the last is over; a redirect keeps the listener and drops the body, at
most `MaxRedirects` times; a console request is told exactly one outcome and a
UDP request at least one before it is over. `FetchEngine!Service` is the
refinement mapping: the job is in service from the command to the return to
`FETCH_IDLE`, and a redirect that was recognised but not followed yet is not a
hop. Two kinds of commands break it when they arrive while a fetch is pending: the post
commands take its place (finding 1 below), and a refused `url` command clears the OAuth
flag with which a redirect is followed (3.5). `fetch_service` leaves both cases out;
`EngineImplementsService` proves that there is no third.

### 2.3 AgentLoop

`loop` bundles what `m4_reset_turn_state` clears. The engine is reduced to whom
it fetches for: nobody, the active turn, somebody else. A result is any
combination of outcome and body, as a command of the UDP peer can put another
fetch in the place of the turn's (finding 1), so nothing may rest on its
content. `ModelFails`, `ModelUnparsed`, `ModelFinal` and `ModelCallsTool` are the
branches of the model phase, the other `...Done` actions those of the tool
phases; `StartModel`, `StartSummary`, `FinishLocal` and `Finalize` are the
functions of the same purpose in the code. Tools with the same control flow are
one tool: `read_session_state` stands for the memory readers, `post_url` for the
X tools, `read_file` for the workspace tools. The branches for a request that does not
start (loop.rs 1277-1280, 1318-1320) are left out: `fetch_start_ex` refuses only an empty or
overlong host or path (main.rs 2544-2560), and the URLs are constants. `M4_LOOP_STEP` is a
byte; `StepBound` stays below its wrap. `requests` is a history variable. The
history is a sequence of entries with a limit in entries where
the code has one in bytes; a full history drops what is appended.

`AgentLoop` relies on `FetchEngine` in one place: its fairness on `FetchDone` and
`OtherEnds` is the property `FetchEnds` there.

### 2.4 GoalPipeline

`task` bundles what `agent_reset` clears, so that the end of a task is one
assignment. A task goes through at most four phases; `StartGoverned`, `StartLocal`,
`RequestInterpretation`, `RequestSummary` and `TerminalPost` are the functions of the
same purpose, written as relations between the task as it is then and the next
state, so that a handler composes them as the code does. URLs and policy profiles
are reduced to `allows`, the skills the policy lets through with the hosts of this
task: for a task or a goal with a sink this can be any set, as the user names the
hosts. Texts are reduced to where they come from: `"page"`, `"plan"` (the model that
interprets a goal), `"reply"` (the one that summarises) or `"none"`.
`got`, `denied` (the skills the policy refused) and `sent` are history, and `told` is what
the last terminal event was about, since the task itself is gone by then.

Whether a request can be built and started is a choice, as is the wording of a
reason, which decides between refused and failed. Another's fetch (a `url` command,
an M4 turn) is `"other"` and starts only when the engine is idle; the commands that
take the engine from a task are finding 1 and belong to `FetchEngine`.

### 2.5 VirtioNet

Frames are numbered in the order of delivery, and the used index of the receive
queue is their number modulo `IndexSpan`. The device may deliver a frame into the
first available buffer, or consume a posted one, between any two steps of the
driver. `pc` follows `kmain` from boot, where only the newest frame is looked at,
through the receive loop with its ways out (`rx_rearm` at the end of a frame,
`break 'rx` without it) to the tick. A buffer that is left in that way comes back
with the next `rx_rearm`, which several senders call, or is lost when the next
frame takes its place in `RX_CUR_ID`. Transmit indices are not wrapped, because the
flag compares them only across one step. `Flag` is the value `FetchEngine!tx` has in
this state.

### 2.6 TlsStream

Byte `p` of the peer's stream is the number `p`; on the wire it has the sequence
number `Start + p` modulo `SeqSpan`. Any segment within the window the
acknowledgements have opened may arrive at any time, any number of times, which
covers loss, delay, duplication and reordering. `pending` are the valid slots, a
set, since their order does not matter. Compaction of the buffer moves bytes and
is folded into whether a payload fits. A tick reads between one and all buffered
bytes but at least `Burst` of them if there are as many: in the code 64 records of
at least 30 bytes, more than a frame brings. The module is about `FETCH_TLS_READ`; the
handshake and the sending half are not in it.

### 2.7 HttpFeed

A response is a finite sequence of bytes. Of a byte the parser sees its class (a
digit and its value, CR, LF, `;`, another) and nothing else; the labels beside it say
which part of the response it is for the sender, and only the properties read them.
`ResponseAssumption` says when the labels are right: the headers end where they say, a
chunked body is made of size lines, data and CR LF, and a trailer. It is an assumption
on the constant, so the theorems are about every response that is well framed, and
responses that break off are among them, since nothing says that a stream goes on.

`Feed` has one action per way an iteration of `http_feed`'s loop can go. `Segment` gives
it the next bytes, as `kmain` (pieces of 900 bytes) and `fetch_tick` (TLS records) do. `body` and `captured` are sets of pairs of round and
position: what was delivered, and what is in `AGENT_RESPONSE_BODY`. `Capture` is
`agent_capture_response_body`, with the truncation flag that an earlier fetch left, and
the early end for an answer that has been found. `NewRound` is the deadline in
`fetch_tick`, which resets neither parser nor capture; `mixed` tells that an earlier
round got bytes. `WholeEnds` leaves out the cuts that finding 3 is about.

### 2.8 SessionMemory

Texts are sequences of bytes. One character takes three bytes, so that every limit may
fall inside it; the tags `User: `, `Assistant: ` and `Tool[..]: ` are one byte. Every turn
is its question, the tools' results and its answer; what happens in between is
`AgentLoop`. `Appended` is `history_append_bytes`, called three times for an entry;
`Recent` cuts the running question off the history and takes the suffix that goes into
the prompt. `Write` and `Read` are `write_session_state` and `read_session_state` over the
arrays of slots, with `alloc_slot`'s choice. `SetSlot`, `NoteUser`, `NoteTool` and
`NoteAssistant` are the functions of memory.rs, and `Shown` is what
`append_slots_to` leaves of a line. The builders of compacted entries write a text that fits; its wording is
left out. `said`, `last`, `order` and `asked` are history. `SessionReset` may come in the
middle of a turn, as the console command does.

## 3. What is checked

### 3.1 Runs that pass

| Run | States | Shows |
| --- | --- | --- |
| `fetch_http` | 278,432 | `TypeOK`, `ExecutionsBounded`, `OkIsEarned`, `SentAsAsked`, `HopIsBareGet` for plain HTTP of two segments, the host bridge, and HTTPS through the proxy |
| `fetch_service` | 268,729 | `ImplementsService` and `FetchEnds` for agent, console and UDP requests one after the other |
| `agent_turn` | 30,548 | `TypeOK`, `TurnHasFetch`, `RequestsAccounted`, `HistoryInOrder`, `TurnEnds` over all tools and goals, two turns |
| `goal_tasks` | 8,100 | `TypeOK`, `TaskHasFetch`, `PayloadTrue`, `CompletedIsEarned`, `RequestsBounded`, `CompletedAsItSeems`, `TaskEnds` for all kinds of tasks, policies and answers |
| `virtio_net` | 450,973 | `TypeOK`, `OneOwner`, `OwnFrame`, `LossesKnown`, `TxBufferOwned`, `StuckOnlyByLateRead` from boot on |
| `tls_stream` | 7,025 | `TypeOK`, `StreamIntact`, `StreamRead` across the wrap of the sequence number |
| `http_feed` | 211,395 | `TypeOK`, `BodyIntact`, `CompleteExactly`, `CaptureTrue` for five responses, every cut but inside the end of the headers, two fetches and a second round |
| `session_memory` | 692,612 | `TypeOK`, `ReadsLast`, `KeysKept`, `CurrentTask`, `TurnsInOrder`, `RawIsWhole`, `HistoryWhole` over turns, tools, keys and resets in any order |

- **ExecutionsBounded.** The target executes the request at most once per
  connection, and there is at most one connection per round. What it rules out
  is a resend at new sequence numbers, a second CONNECT that makes the proxy
  relay more than the request, or a late SYN-ACK that opens a second connection
  in the same round.
- **OkIsEarned.** `FETCH_GOT_RESP` is what "http ok", the agent and the transport
  cooldown go by. It must not survive a round, nor be set by a segment without
  body bytes or by data of a proxy that never relayed.
- **SentAsAsked.** Method and OAuth flag are statics of the engine, written by the
  command and read by `build_http_request` much later. With one command nothing
  disturbs them (`fetch_http`); a second one that is refused changes them (3.5), and
  `SentAlwaysAsAsked` proves that nothing else does.
- **HopIsBareGet.** After any chain of redirects the request built is a GET
  without body and authorisation.
- **FetchEnds.** No loss, silence, stuck device or lost completion keeps the engine
  busy.
- **TurnHasFetch.** Each path through the handlers starts a fetch or ends the turn,
  and none does both; otherwise the agent refuses input for ever, or a fetch of a
  turn that is over is handed to the next.
- **RequestsAccounted.** Each model request is paid for by a tool step or a counted
  retry, and the retries start again at most once, for a summary.
- **HistoryInOrder.** The prompt is built from the history. Resets, double endings
  and a full buffer never put an entry of a turn after its answer or
  a question in the middle.
- **TurnEnds.** Every turn is over some day or has passed its step budget: only tools
  without a fetch let it go past that (3.5).
- **TaskHasFetch.** Each exit of the four phases, some thirty of them, starts the next
  fetch or ends the task and leaves the engine idle; otherwise every later line is
  answered `busy`.
- **PayloadTrue.** Status and terminal kind are set in different functions, and a
  denial on the way to the sink changes one of them. While the post is under way
  they agree.
- **CompletedIsEarned.** `goal_completed` is told only of a task that fetched its page,
  and of a governed one only if its model answered.
- **CompletedAsItSeems.** Two kinds of completed tasks are less than they seem, and no
  others: a governed task of which the post, and nothing but the post, was denied (3.4),
  and an M3 goal whose summary request was retried, which may be made of the failed
  answer that took the page's place in the body buffer. Any other denial on the way
  keeps the task from being completed, and no summary, first or retried, is made of what
  the interpreter of the goal answered, although that answer was in the buffer before.
- **RequestsBounded.** A task sends one request for each phase and one for each counted
  retry, whatever the model answers. **TaskEnds.** So it is over some day.
- **OneOwner, OwnFrame.** A receive buffer is with the device, in the used ring or with
  the handler, and the handler parses the frame whose turn it is while the device
  cannot write over it. The exception in `OwnFrame` is ring index 0, see 3.5.
- **LossesKnown.** A buffer is lost for good at boot, at index 0 and after a `break 'rx`,
  and nowhere else.
- **TxBufferOwned.** The one transmit buffer is filled only when the device is through
  with it. **StuckOnlyByLateRead.** The engine's flag gets stuck only behind an ACK or
  HTTP segment of `fetch_tick`; `FetchEngine` allows it after every post, so it is on
  the safe side.
- **StreamIntact, StreamRead.** mbedTLS reads the peer's bytes in order,
  none missing and none twice, the buffer is never emptied on overflow, no slot
  is left behind with old bytes, and all of the stream arrives if the peer keeps
  retransmitting.
- **BodyIntact, CompleteExactly.** However the stream is cut, once the headers are
  found what `http_feed` delivers is exactly the body as far as it has been seen, no size,
  extension, CR LF or trailer among it, and the response counts as complete exactly
  when the last byte its framing announces has been seen. One too few would let the
  fetch wait for the deadline, one too many would take the trailer for body.
- **CaptureTrue.** What the agent finds in its buffer is all that was
  delivered, or the truncation flag or an answer found earlier says why not; the flag
  is never one of an earlier fetch if this one got anything. What is missing is the end.
- **ReadsLast, KeysKept.** A key reads as what was last written under it in this session
  or as nothing: no slot shows a value from before the key was evicted and written
  again, and no reset leaves one. Nothing is lost while there were no more keys than
  slots, and after an overflow only the first slot changes hands.
- **CurrentTask.** The prompt has the running turn's question at its head, whatever the
  other entries are. The slot for it holds `SummaryMax` bytes (192, memory.rs 655-661), and
  a longer question is cut: what is shown is its beginning, no shorter than the limit
  makes it, so that less than a character's room is left. After a reset in the turn
  there is none, not an older one.
- **TurnsInOrder.** Entries are never older than they say and never of a turn to come.
- **RawIsWhole.** The thresholds that decide between raw and compacted and the limit an
  entry is cut at are three different numbers (`SourceTrigger`, `Trigger`, `DetailMax`), per
  tool: an entry that says RAW was not cut.
- **HistoryWhole.** No limit ever leaves half a character in the history or in the
  suffix for the prompt, and nothing is missing while there is room for a character.

### 3.2 Bounds

| Constant | Code | Runs | Why that is enough |
| --- | --- | --- | --- |
| `MaxRetry` | 5 | 1-2 | with 2 there is a first attempt, a repeated one and exhaustion; nothing else depends on the count |
| `MaxRounds` | 2 | 0-1 | a round and the restart of one; nothing else depends on the count |
| `MaxRedirects` | 3 | 0-1 | a hop, and a location that is no longer followed |
| `ReqChunks` | by size | 1-2 | two segments have a first and a last, and a resend in between |
| `MaxCommands` | - | 1-2 | one to follow a fetch through everything; two for a command that meets it or comes after it |
| `MaxReports` | - | 1-2 | bounds how often a stuck device repeats "http ..." to the UDP peer; the pending "http ok" comes on top of it, so one already gives a request two lines |
| `MaxSteps`, `StepBound` | 12, below 256 | 1, 2 | within, at and beyond the budget |
| `MaxRetries` | 4 | 2 | a retry, a second one and the refusal of one |
| `HistoryMax` of turns | 16 KB | 5 | in entries; the history fills in `agent_turn` |
| `MaxTurns` | - | 2 | two turns for what one leaves to the next |
| `MaxRetries` of goals | 1 | 1 | the code's value |
| `DefaultSteps`, `Budgets` | 6, any | 3, 1-3 | steps are numbered 1 to 3: each budget that stops one, and one that stops none |
| `BufCount`, `QueueSize` | 8, by device | 4, 4 | as many buffers as may be with device, ring and handler at once, and one more |
| `IndexSpan`, `MaxFrames` | 65536, - | 8, 10 | two rounds of the ring, and the index passes 0 |
| `MaxSends` | - | 4 | a frame outstanding, one given up, and two after it |
| `StreamLen`, `MaxSeg` | any, 1460 | 14, 3 | several segments, cut anywhere, two windows and the end |
| `Start`, `SeqSpan` | any, 2^32 | 60, 64 | the sequence number wraps within the stream |
| `Window`, `YieldAt`, `BufLen` | 16384, 131072, 262144 | 6, 4, 13 | `YieldAt + Window + MaxSeg <= BufLen` as in the code, with equality |
| `Slots`, `SlotLen`, `Burst` | code's | 3, 2, 3 | slots run out and segments are too long for them |
| `Responses` | any | 5 | two chunks with an extension, data that look like framing and a trailer; a chunk that breaks off; a content-length with bytes behind it; none; headers that do not fit |
| `Base` | 16 | 2 | sizes of one and of two digits |
| `HeaderMax`, `BodyMax` | 4096, 524288 | 6, 2 | headers that fit and do not, a body that fills the buffer |
| `MaxFetches` | - | 2 | one that leaves its flags to the next |
| `Slots`, `Keys` of the session | 8, any | 2, 4 | two keys of the loop's, one of the model's, and one that is too long; two slots overflow |
| `Texts` | any | 4 | a byte that fits everywhere, a cut character, a newline at the end, a whole character and more bytes than a slot holds |
| `HistoryMax`, `RecentLimit` | 16384, 2560 | 10, 5 | fills up in three entries, and the suffix begins inside one |
| `SummaryMax`, `DetailMax`, `Trigger`, `SourceTrigger` | 192, 512, 240, 160 | 3, 3, 3, 2 | every text is below, at and above one of them |
| `WorkingLimit`, `Overhead` | 640, by slot | 4, 1 | one full line fits and a second is cut |
| `TurnMod` | 2^16 | 3 | the counter wraps in the fourth turn |
| `MaxNotes` | - | 4 | two turns with a tool, or four questions |

Deadlock is checked in every run but those of `HttpFeed`, which stops when `MaxFetches`
are over: the super-loop never stops, and neither does the console of the agent.
`StepBound`, `MaxTurns`, `MaxCommands`, `MaxReports`, `MaxFrames`, `MaxSends`, `MaxFetches`
and `MaxNotes` are bounds of the model and appear in guards; the others are limits of the code.
The theorems hold for all values.

### 3.3 Fairness

`FairSpec` of `FetchEngine` asks that the loop goes on (weak fairness of its four
steps: nothing in it blocks, `tx_wait_ready` and the delay being bounded), that the
device consumes a frame it was given (`TxConsumed`), and that time passes: a wait
or a deadline that is again and again pending at a tick is over at some tick
(strong fairness, since `"uart"` is only visited). Nothing is assumed of the
network, the peer or mbedTLS. A UDP send may fail when the device is slow, but
not each time (strong fairness of `ReplyStep /\ ReplySent`), which `FetchEnds`
needs, because a fetch stays done while its reply is pending (main.rs 5646-5660).

`FairSpec` of `AgentLoop` asks only that fetches end and that `kmain` hands over
their result, which `fetch_service` shows of the engine. So does that of
`GoalPipeline`.

`Spec` of `TlsStream` includes weak fairness of `Tick` and of the end of the received
frames, as of the loop, and strong fairness of `Retransmit`: a peer that is sent
acknowledgements repeats the first byte that is missing. `HttpFeed`, `VirtioNet` and `SessionMemory` have no
liveness property and no fairness.

### 3.4 Disagreements between the code and what is said of it

Each is a configuration with which TLC finds a behaviour of the code that violates the
property. The first four are runs of `PROJECT.json`; the last two are run by hand
(`tlc -config FindDeniedPost.cfg MCGoal.tla`, `tlc -config FindQuestion.cfg MCSession.tla`).

1. `find_busy_post` (`PendingFetchKept`). runtime/README.md:131: "If a fetch is
   already pending, MiniOS replies `busy`." The post commands (main.rs 5318, console
   1631) start their fetch without a look at `FETCH_STATE`; the pending one is
   replaced and nobody is told. When an agent turn was waiting, it takes the
   result of the other fetch.
2. `find_dst` (`ResolvedBeforeSyn`). When the gateway has to be asked for first,
   `FETCH_DST_IP` still has the address of the previous fetch (main.rs 2832), and
   `fetch_resume_after_gateway_ready` (2990) takes it for the host's. The ARP entry
   must have expired between two fetches.
3. `find_headers` (`BodyIntact`). runtime/README.md:130: "the response body is sent in
   `body chunk <idx> ...`". `http_feed` (main.rs 2366) looks for the CR LF CR LF only in
   the piece it is given, and its callers cut a payload every 900 bytes (5018-5032)
   and where a segment or a TLS record ends. When a cut falls into these four bytes
   the end of the headers is never found and no byte of the body is delivered.
4. `find_round` (`RoundBody`). runtime/README.md:130: "Up to 4KB of HTTP headers are sent
   in `http chunk <idx> ...` messages, and the response body is sent in `body chunk <idx>
   ...`." A second round of a fetch (main.rs 3033, 2975) does not call `http_reset`: the parser is
   still behind the headers of the first response and delivers the headers of the second
   as body.
5. `FindDeniedPost.cfg` (`DeniedNotCompleted`). docs/milestones/m1.md:279-282,
   `m1-deny-disallowed-host`: "source or sink host is outside the allowlist", "expected
   result: `goal_refused`". When the page and the model's answer are there,
   `agent_start_terminal_post` sets the kind (skill.rs 36) before it asks the policy for the
   sink (43), and emits `goal_completed` (44) for the denied post. A denial of the source
   is refused as documented.
6. `FindQuestion.cfg` (`QuestionOnce`). docs/milestones/m4.md:173-175: the recent conversation
   is "the newest suffix of prior user/assistant/tool turns, excluding the current user
   turn when it is already represented in `Current request`". The function that cuts it off
   (session.rs 166-178) finds the question only at the end of the history. That is where it
   is for the first request of a turn; after a tool its result ends the history, and
   each later request shows the question in the conversation (loop.rs 1178) and as the
   current request (1012-1020). The property looks at the first turn of a session, where no
   earlier question can have the same words.

### 3.5 Observations

Things met while modelling that no property states, since the model must have
them too:

- `dns_parse_response` (main.rs 848-892) compares neither the identifier, which
  never changes, nor the name: a late answer about another host is taken
  (main.rs:4667) and cached. In the model `DnsReply(h)` takes any `h` of `dnsNet`.
- A POST whose answer is late is executed once per round, since the deadline
  starts another round in any state (main.rs 3034-3055). `ExecutionsBounded` is
  therefore a bound by rounds, not by one.
- When its 16 KB are full the history drops the newest entries, and nothing trims
  the oldest (session.rs 18-29); docs/milestones/m4.md:260 speaks of a bounded
  history, and m4.md:173-175 of its "newest suffix" in the prompt. After a text that was
  cut for want of room, later and shorter ones may still be appended.
- Tools without a fetch (loop.rs 1466) never compare the step with
  `M4_LOOP_MAX_STEPS`; docs/milestones/m4.md:317: "iteration budgets terminate runaway
  loops cleanly". `TurnEnds` excepts such turns.
- The retry of an M3 summary (skill.rs 304) is built from what the failed answer
  left in the body buffer (88-100): its input was the page the first time.
  `CompletedAsItSeems` says that no summary is made of anything else.
- A result longer than a slot's value is refused by `write_session_state`, and the
  caller does not look (loop.rs 2088): `last_posts` keeps an older result.
- A session reset in the middle of a turn does not end the turn: what it finds and
  answers is stored in the new session, whose working memory has no task then.
- A working-memory entry of a page that is no UTF-8 is "raw" although its text was cut
  at the first bad byte, if it is short. `RawIsWhole` compares with the valid part.
- A bridge tool whose fetch failed with a reason is told to the model as a success
  (loop.rs 2268).
- A redirect is followed for any status with a `Location` header (main.rs
  2224-2266); the model gives `Feed` a location without a status.
- The `url` command clears the method and the OAuth flag (main.rs 5379, console
  1679) before it finds the engine busy: a pending POST goes out as a GET.
- The pending UDP reply always says `http ok` (main.rs 5535), as soon as bytes were
  read, while a deadline may begin a round that fails (runtime/README.md:130:
  "The UDP reply will say `fetching ...` and `http ok`/`http fail`.").
- A turn without a key (loop.rs 1237) has written its question to the history and
  ends without an answer there (compare docs/milestones/m4.md:265). A retry after
  an unparsable answer that finds no key ends the turn, returns `false`, and the
  caller (loop.rs 2199) ends it again.
- M0, M2 and M3 take any response for the page, an error page too: they look at
  `ok` and not at the status (skill.rs 244-282).
- `goal_completed` is told although the post to the sink failed (skill.rs 331): the
  kind is always set by then, and the two branches after it are dead. The policy
  of `post_result` is asked in M1 only (43). "goal policy unavailable" (goal.rs 309,
  312) cannot happen, as the profiles are shorter than their buffer.
- A new round of a fetch does not reset `AGENT_RESPONSE_BODY_LEN`, so the body of the
  first round is followed by that of the second (model.rs 25-47); a fetch whose body is
  empty keeps the truncation flag of the one before (model.rs 24). `CaptureTrue` says
  what holds all the same.
- `break 'rx` on a TLS segment (main.rs 5128) leaves the receive buffer with the
  driver. At used index 0 `rx_used_elem_fields` (net.rs 1303) returns nothing: the
  loop parses the previous frame's buffer, and the new frame is lost with its own.
  At boot all frames but the newest are passed over.
- `tls_send` (tls.rs 187) ignores that `send_tcp` gave up on a slow device and moves
  its sequence number on.
- In `FETCH_ARP` a tick that finds the gateway known (main.rs 3097-3100) resumes the
  fetch, but whatever makes it known has left the state already: dead code, left
  out of `TickAsk`.

## 4. What is proved

The proofs hold for all constants that satisfy the assumptions named in the
modules: hosts other than the proxy and `None`, commands and locations of their
types, positive `MaxRetry`, `ReqChunks` and `MaxReports`, natural limits.

`FetchEngine_proofs`

- `TypeCorrect`. Each action preserves each part of `TypeOK`; `Same...` lemmas are
  about what an action leaves alone, `FetchStartType`, `FeedType`, `TransmitType`
  and `RestartRoundType` about the building blocks. Not a formality: `off <=
  ReqChunks`, `rounds <= MaxRounds` and `redirects <= MaxRedirects` need the guards
  of several actions, and `off` needs `SendsInRequest`.
- `ExecutionsAreBounded`. `ExecutionsBounded` is not inductive: whether the next
  segment completes the request a second time depends on where the peer is, and
  whether the next SYN-ACK is one too many on the state. `ConnInv` says that while
  the engine looks for the way to the host (ARP, DNS, SYN, or no gateway) it has
  connected at most once in each earlier round and not in this one, which is why a late
  SYN-ACK of an earlier round, too, can only take the place of this round's. `ExecInv` ties
  the position of the engine to that of the peer: a plain HTTP resend starts where
  the connection does, so the peer never takes more than one request; CONNECT and
  handshake leave it without request segments; and until it holds a whole request
  there are fewer executions than connections. `TransmitExec` is the one lemma
  about how the peer counts, and it is used for each send.
- `OkIsAlwaysEarned`. A flag set by `Feed` implies a responding peer, which by
  `ExecInv` has executed the request; a round clears it. The two are proved
  together.
- `HopsAreBareGets`. The invariant `HopInv` is stronger: once redirected, the OAuth
  flag is clear at all times, also while the next hop is only recorded, and the
  method flag from the start of the hop on. Refused commands only clear flags,
  accepted ones reset the number of redirects.
- `SentAlwaysAsAsked`, `SingleSentAsAsked`. `SentAsAsked` speaks of the request that is
  built; `AskedInv` adds that the two flags agree with the command all the time until
  the engine is idle, since a later round builds it again. `Works` sums up what the steps
  that serve a request may do, with one lemma for each group of handlers, and serves the
  refinement too. The hypothesis of the first, `RefusalsLeaveFlags`, is what the `url` command
  does not keep; with one command there is nothing to refuse, and it is proved.
- `EngineImplementsService`, `CheckedImplementService`. The step simulation. `Listener` is the
  invariant it needs: only a UDP request has a reply pending, a console request has been
  told nothing before its end, and a task of the agent never owns a UDP request. Each way a
  fetch starts, is told, redirected, continued or handed over maps to an action of
  `FetchService` (`CommandSimulates`, `RedirectSimulates`, ...), everything else to a stutter.
  `Retarget` is about the one place where the two differ in form: the engine rewrites fields
  of the request, the service makes a new one. Hypotheses: `PostsWait` (no post command takes a
  pending fetch), `RefusalsLeaveFlags`, and `GoalsAreTyped`, which the code has (a line for the agent is typed at
  the console, main.rs 1713-1723, so its fetches have source port 0). For a set of
  commands that all look at `FETCH_STATE` first the first two are proved. The assumption `None \notin Request` says that
  the constant for "no request" is none.
- `OnlyPostsReplace`. The converse of finding 1: under `PostsWait`, `PendingFetchKept` holds.
- `FetchAlwaysAdvances`. What `FetchEnds` rests on beside fairness: commands, redirects followed
  and rounds, compared in this order, never go back; once the deadline is over it stays so until one
  of them goes up; the tick that finds it over starts a round or ends the fetch; and the done block
  leaves the engine idle, goes on to a request further on, or has a UDP reply still to send. All three
  are limited (`TypeCorrect`). What fairness adds is that the deadline does end, the loop does tick
  and a reply can be sent some day.

`AgentLoop_proofs`

- `TypeCorrect`, `TurnAlwaysHasFetch`, `RequestsAreAccounted`, `HistoryAlwaysInOrder`.
  The inductive invariant adds two things. `ActiveTurn`: an active turn has a number,
  no answer in the history yet, and has made no more requests than its steps and
  the retries of its phase so far allow. `Kept`: entries are in order and none is of
  a later turn. It is stated of a history and a turn number, so that one lemma
  covers each way of appending, dropping included.
- `TurnAlwaysAdvances`. What `TurnEnds` rests on beside fairness: with each fetch of a turn that
  ends, the turn ends, leaves its step budget or comes nearer to its end, and no other
  action touches an active turn. `Left` is the count that goes down: two for each step the budget
  still has (the tool and the request after it), the retries not yet used, and the place of the
  phase, where a summary, whose retries start again at zero, comes last.

`GoalPipeline_proofs`

- `TypeCorrect`, `TaskAlwaysHasFetch`, `PayloadAlwaysTrue`, `CompletedIsAlwaysEarned`,
  `RequestsAreBounded`, for every retry limit, default budget and set of budgets.
  `CompletedAlwaysAsItSeems` needs an invariant of its own beside `TypeOK`, `Seems`: it says of
  each phase which denials the task can have had and where the text in the body buffer can
  come from (`Emptied`, before every request, is what keeps the plan out). The other five are proved together, with one addition: `InOrder` says what a task has
  got by the phase it is in (one that calls its model has its page; one that
  posts as COMPLETED has what that stands for), without which `CompletedIsEarned` is
  not inductive. One lemma for each building block
  (`RequestKeeps`, `OverKeeps`, `PostKeeps`, `SummaryRequestKeeps`, ...) says what it needs
  of the task it is given, and each handler is proved from those.
- `TaskAlwaysAdvances`. What `TaskEnds` rests on beside fairness: each fetch of a task that ends is
  followed by the end of the task or by one more request, no other action touches an active task, and
  the requests are at most four and the two limits of retries.

`VirtioNet_proofs`

- `TxBufferSafe` and `StuckOnlyThere`, for any number of buffers, frames and sends.
  `TxInv`: `TX_LAST_SENT` is what has been posted, and no index the driver has read is
  ahead of the device. `SendLeavesWork` is about the senders: whether they post or
  give up, the device has a frame in hand when they return. `StepKinds` sorts the
  steps by what they do to the transmit half, so that the receive half need not
  be looked at.

`VirtioNet_rx_proofs`

- `TypeCorrect`, `AlwaysOneOwner`, `AlwaysOwnFrame`, `LossesAlwaysKnown`, for any number of
  buffers, frames and sends, any ring that holds the buffers and any index span that is a
  multiple of the ring. `OneOwner` is not inductive for two reasons. It compares
  buffers by where the wrapped index leads, so `Ordered` says what the index means: it is
  the number of frames taken modulo the span, at most as many frames wait as there are
  buffers, and each is still in the buffer its slot names. And `RoomForOne` is what
  keeps it so: while the device has a buffer left, fewer frames wait than there are
  buffers, hence its next slot is not one of theirs. Between the boot's rearm and the start of
  the loop (`Loose`) none of this holds, because the boot looks at the newest frame only.
  The lemmas on `%` (`ModNext`, `ModBack`, `ModInjective`, `ModMod`) stand by themselves.

`TlsStream_proofs`

- `TypeCorrect`, `StreamAlwaysIntact`, `StreamAlwaysAdvances`, for every stream with its window shorter than
  half the number space, every first number, every number and length of slots, and the
  relations between buffer, window and yield that `StreamAssumption` names. `Distance` is the lemma on
  `tcp_seq_cmp`: between two bytes of the stream it is their distance, across the wrap
  too. `StreamIntact` is not inductive for three reasons. What a slot holds must be
  bytes of the stream under their own number (`Entry`), within the window that was opened. A segment may set
  slots free, whose bytes come on top of its own: `RoomInv` therefore counts the bytes of the
  buffer together with those that are held in slots, each once however many slots hold it, and says
  that a whole segment has room beside them. And after a FIN the acknowledgement is one
  ahead, so that every later segment is behind it (`AckInv`). `Outcome` says what a segment does to
  all of this. In it, `Stage` follows the stream through the pushes of one segment; a round of
  the replay frees one slot and keeps `Stage` (`RoundStage`), so after `Slots` rounds none is
  left that the stream has reached (`ReplayedStage`). `Upto`, an induction over one set of numbers that is
  proved from the smallest counterexample, takes the place of the library's.
  `StreamAlwaysAdvances` is the step `StreamRead` rests on: a retransmission of the first missing
  byte is acknowledged whole in every reachable state, and nothing acknowledged is
  taken back.

`HttpFeed_proofs`

- `TypeCorrect`, `BodyAlwaysIntact`, `CompleteAlwaysExactly`, `CaptureAlwaysTrue`, for every set of well-framed responses, base, buffer sizes, and
  number of rounds and fetches, and (the second and the third) every cut that leaves
  the end of the headers whole. The invariant of the parser relates its state to the
  label of the next byte: before the headers' end, in the digits with `parse` the
  number they make so far, in data with `remain` up to the chunk's `stop`, and so on.
  The one place where they need not agree is the LF a cut leaves behind a chunk, which
  the next size line passes over. The capture has an invariant of its own that does not
  look at the parser: what is captured is what is delivered up to some point.

`SessionMemory_proofs`

- `TypeCorrect`, `ReadsAlwaysLast`, `KeysAlwaysKept`, `TaskAlwaysCurrent`,
  `TurnsAlwaysInOrder`, `RawAlwaysWhole`, `HistoryAlwaysWhole`, for all texts, keys and limits that
  are ordered as the code's (`SizeAssumption`). Slots and memory never read one another
  and have an invariant each. `StoreInv`: slots are filled from the first on, no key has
  two, each holds the last value of its key, and the keys are in the order they came
  except for the first after an overflow. `WriteKeeps` is the one lemma about a write and
  covers the loop's own keys too. `MemInv`: the turn counter is at most the number of
  questions in the session until one of them wraps it, without which `TurnsInOrder` is not
  inductive. `Noted` says that a handler writes at most one entry, stamped now;
  `NotedKeeps` is proved from that. `TaskAlwaysCurrent` adds where the limit may cut the question
  (`QuestionShown`). `HistoryAlwaysWhole` rests on what a cut does to a valid
  text: it may be cut before any byte that begins a character (`ValidCut`, `ValidRest`), such
  a byte is never more than two away (`PrefixValid`), and so the three appends of a record
  together leave out less than a character as long as there is room for one (`RecordWhole`).

`Invariant` (`InvariantHolds` in `SessionMemory_proofs` and
`TlsStream_proofs`, `TxOrdered` and `RxInvariant` in those of `VirtioNet`) is the inductive invariant as a theorem.

Only model-checked: the liveness properties `FetchEnds`, `TurnEnds`, `TaskEnds`,
`StreamRead` and all that rests on fairness or `ENABLED`, which the prover
does not handle. For each of the four the step it rests on is a theorem (`FetchAlwaysAdvances`,
`TurnAlwaysAdvances`, `TaskAlwaysAdvances`, `StreamAlwaysAdvances`). Every invariant of the passing runs, and the refinement, is a theorem.

## 5. What is not modelled, and the plan

Left out of the modules above: the reuse of a TLS session for the OpenAI endpoint
and the length of the transport cooldown (only that it may delay the first tick);
the text of headers; the UDP echo, `ping` and the console editor; prompts, tool arguments
and the wording of answers and of compacted entries; the JSON of `memory_status`,
`list_memory` and `read_memory`; sequence numbers modulo 2^32 in `FetchEngine`.

Not modelled at all: boot and platform code, frame layout and checksums, OAuth
hashing, the vendored mbedTLS and the host programs.

What the plan has left:

1. The sending half of `TlsStream`: what is lost when `send_tcp` gives up (tls.rs 187).
2. `HttpFeed` as an implementation of `FetchEngine!Feed`: each of its steps is one that
   `Feed` allows.
3. The readers of the working memory (`list_memory`, `read_memory`), whose identifiers are
   matched by prefix.

Runs about related facts are merged, so that the set of runs stays small enough to be
repeated on each change; for the same reason disagreements 5 and 6 are configurations to be run
by hand.

## 6. Running the checks

```
tlc -config FetchHttp.cfg MCFetch.tla          # likewise the other .cfg files
tlc -config AgentTurn.cfg MCAgent.tla
tlc -config GoalTasks.cfg MCGoal.tla           # likewise FindDeniedPost
tlc -config HttpFeed.cfg MCHttp.tla            # likewise FindHeaders, FindRound
tlc -config SessionMemory.cfg MCSession.tla    # likewise FindQuestion
tlc -config VirtioNet.cfg VirtioNet.tla
tlc -config TlsStream.cfg TlsStream.tla
tlapm FetchEngine_proofs.tla                   # likewise the other _proofs modules
```

`PROJECT.json` lists the runs with their properties, for each property a mutated
definition (`..._Kept`, `..._Unbounded` and so on, beside the definition they
mutate) that violates it, and for each definition the lines it models.
`fetch_service` and `session_memory` take about two minutes each, `http_feed` one, the
other runs seconds.

----------------------------- MODULE AgentLoop -----------------------------
(***************************************************************************)
(* The M4 agent loop of runtime/src/agent/loop.rs with the conversation    *)
(* history of session.rs: a line typed at the console opens a turn, which  *)
(* is a chain of fetches (model requests and tools), each one started by   *)
(* the handler that takes the result of the one before.  The fetch engine  *)
(* is reduced to its service: idle, fetching for the turn, or fetching for *)
(* somebody else (FetchEngine is its model).  A request of the UDP peer can *)
(* take the place of the turn's: its result is then taken for the turn's,  *)
(* so a result may be anything.                                            *)
(*                                                                         *)
(* Tool arguments, prompts and answers are left out, but for the URL of    *)
(* fetch_url, whose last body is cached.                                   *)
(***************************************************************************)
EXTENDS Naturals, Sequences

CONSTANTS
    MaxSteps,     \* M4_LOOP_MAX_STEPS
    MaxRetries,   \* M4_OPENAI_MAX_RETRIES
    HostBridge,   \* HOST_OPENAI_BRIDGE_ENABLED
    HistoryMax,   \* SESSION_HISTORY_MAX, in entries
    Tools,        \* the tools the model calls
    Urls,         \* the URLs it fetches
    None,
    MaxTurns,     \* bound: lines given to the agent
    StepBound     \* bound: tools called in a turn, below the wrap of the u8
                  \* M4_LOOP_STEP

SyncTools == {"read_session_state", "write_session_state"}
BridgeTools == {"read_file", "read_process_output", "search_web"}

\* "read_session_state" stands for the tools that only read guest memory,
\* "post_url" for it and the X tools, "read_file" for the workspace tools.
AllTools == SyncTools \cup BridgeTools \cup {"fetch_url", "post_url"}

ASSUME ToolAssumption == Tools \subseteq AllTools /\ None \notin AllTools \cup Urls
ASSUME LimitAssumption == /\ MaxSteps \in Nat /\ MaxRetries \in Nat
                          /\ HistoryMax \in Nat /\ HostBridge \in BOOLEAN
                          /\ MaxTurns \in Nat /\ StepBound \in 0..255

VARIABLES
    loop,       \* AGENT_TASK_ACTIVE (in AGENT_MODE_M4), AGENT_PHASE and what
                \* m4_reset_turn_state clears
    goal,       \* what AGENT_GOAL_TEXT asks for
    keyReady,   \* an OpenAI key is set
    truncated,  \* AGENT_RESPONSE_BODY_TRUNCATED
    fetch,      \* whom the engine fetches for
    history,    \* SESSION_HISTORY
    turn,       \* history: the number of turns so far
    requests    \* history: model requests made for this turn

vars == <<loop, goal, keyReady, truncated, fetch, history, turn, requests>>

ModelPhases == {"M4_MODEL", "M4_SUMMARY_MODEL"}
ToolPhases == {"M4_FETCH_URL", "M4_POST_URL", "M5_BRIDGE_TOOL"}

\* M4_TOOL_NAME, M4_TOOL_ARG1 of fetch_url, M4_LAST_FETCH_URL, M4_LOOP_STEP,
\* M4_MODEL_RETRIES and M4_USE_HOST_OPENAI_BRIDGE.
LoopState == [active : BOOLEAN, phase : ModelPhases \cup ToolPhases \cup {"IDLE"},
              tool : Tools \cup {None}, url : Urls \cup {None},
              cache : Urls \cup {None}, step : 0..StepBound,
              retries : 0..MaxRetries, bridge : BOOLEAN]

NoTurn == [active |-> FALSE, phase |-> "IDLE", tool |-> None, url |-> None,
           cache |-> None, step |-> 0, retries |-> 0, bridge |-> FALSE]

\* "meta" asks for the tool inventory, "summary" for a summary, "output" for
\* what a process prints.
Goals == {"plain", "meta", "summary", "output"}

Entry == [kind : {"user", "tool", "assistant"}, turn : 1..MaxTurns]

\* How a fetch ended: with a 2xx status, with a failure the loop retries or
\* with another, and whether body bytes came and all of them fitted.
Result == [http : {"ok", "retry", "fail"}, body : {"none", "whole", "cut"}]

-----------------------------------------------------------------------------
(* Building blocks of the handlers. *)

\* history_append_bytes takes what fits; a full history drops the rest.
Record(h, k, n) ==
    IF Len(h) < HistoryMax THEN Append(h, [kind |-> k, turn |-> n]) ELSE h

\* agent_finish_local tells the outcome and agent_reset clears the turn.
FinishLocal(h) ==
    /\ history' = h
    /\ loop' = NoTurn
    /\ requests' = 0

\* finalize_m4_response and finalize_m4_reason, after which the engine is idle.
Finalize_Hanging ==
    FinishLocal(Record(history, "assistant", turn)) /\ UNCHANGED fetch
Finalize == FinishLocal(Record(history, "assistant", turn)) /\ fetch' = "idle"

\* When handle_m4_fetch_done returns FALSE the turn is over, and kmain goes on
\* with the fetch: a line to the console, or the redirect the response named.
LeftToKmain == {"idle", "other"}

HaveModel(t) == HostBridge \/ t.bridge \/ keyReady

\* One more model request, with the turn state t and the history h.
Request(t, h) ==
    /\ loop' = t
    /\ fetch' = "turn"
    /\ history' = h
    /\ requests' = requests + 1

\* start_m4_model_turn; without a key the turn ends and the history stays.
\* Its branch for a fetch that does not start (loop.rs 1277-1280), and the one
\* of start_m4_summary_model_turn (1318-1320), are left out: fetch_start_ex
\* refuses only an empty or overlong host or path (main.rs 2544-2560), and the
\* URLs of the model and of the bridge are constants.
Unkeyed_Recorded(h) == Record(h, "assistant", turn')
Unkeyed(h) == h

StartModel(t, h, over) ==
    \/ HaveModel(t) /\ Request([t EXCEPT !.active = TRUE, !.phase = "M4_MODEL"], h)
    \/ ~HaveModel(t) /\ FinishLocal(Unkeyed(h)) /\ fetch' \in over

\* start_m4_summary_model_turn.
StartSummary(t, h) ==
    \/ HaveModel(t) /\ Request([t EXCEPT !.phase = "M4_SUMMARY_MODEL"], h)
    \/ /\ ~HaveModel(t)
       /\ FinishLocal(Record(h, "assistant", turn))
       /\ fetch' \in LeftToKmain

-----------------------------------------------------------------------------
(* handle_m4_goal_line: a turn opens unless another is active or the engine *)
(* is busy.                                                                 *)
GoalLine(g) ==
    /\ ~loop.active /\ fetch = "idle"
    /\ turn < MaxTurns
    /\ turn' = turn + 1
    /\ goal' = g
    /\ LET asked == Record(history, "user", turn + 1) IN
       IF g = "meta"
         THEN FinishLocal(Record(asked, "assistant", turn + 1)) /\ UNCHANGED fetch
         ELSE StartModel(NoTurn, asked, {"idle"})
    /\ UNCHANGED <<keyReady, truncated>>

-----------------------------------------------------------------------------
(* handle_m4_fetch_done, by phase. *)

\* agent_capture_response_body has set the truncation flag before, if any
\* body bytes came; nothing else clears it.
Captured(r) == truncated' = IF r.body = "none" THEN truncated ELSE r.body = "cut"

Done(p, r) ==
    /\ fetch = "turn" /\ loop.phase = p
    /\ Captured(r)
    /\ UNCHANGED <<goal, keyReady, turn>>

Retried_Uncounted == loop
Retried == [loop EXCEPT !.retries = @ + 1]

MayRetry_OffByOne == loop.retries <= MaxRetries
MayRetry == loop.retries < MaxRetries

ModelFails(r) ==
    /\ Done("M4_MODEL", r) /\ r.http # "ok"
    /\ \/ /\ r.http = "retry" /\ MayRetry
          /\ StartModel(Retried, history, LeftToKmain)
       \/ /\ r.http = "fail" \/ ~MayRetry
          /\ Finalize

\* The answer does not parse.  When the retry finds no key it has ended the
\* turn by itself, and the turn is then ended once more.
ModelUnparsed(r) ==
    /\ Done("M4_MODEL", r) /\ r.http = "ok"
    /\ \/ /\ MayRetry /\ HaveModel(loop)
          /\ StartModel(Retried, history, {})
       \/ /\ MayRetry /\ ~HaveModel(loop)
          /\ history' = Record(Unkeyed(history), "assistant", turn)
          /\ loop' = NoTurn /\ requests' = 0 /\ fetch' = "idle"
       \/ ~MayRetry /\ Finalize

ModelFinal(r) ==
    /\ Done("M4_MODEL", r) /\ r.http = "ok" /\ r.body # "none"
    /\ Finalize

\* The end of every tool that succeeds: its result goes to the history.
Told == Record(history, "tool", turn)
\* M4_LOOP_STEP wraps at 256, which StepBound stays below.
Stepped(t) == [t EXCEPT !.step = @ + 1]

\* execute_sync_tool, which asks the model again at once.
SyncTool(t) ==
    /\ t.tool \in SyncTools
    /\ \/ StartModel(Stepped(t), Told, {"idle"})
       \/ t.tool = "write_session_state" /\ Finalize

\* execute_async_tool: a fetch_url of the URL fetched last is answered from
\* the cache, any other tool needs a fetch, which may fail to start.
CachedTool(t) ==
    /\ t.tool = "fetch_url" /\ t.url = t.cache
    /\ StartModel(Stepped(t), Told, {"idle"})

PhaseOf(tl) == IF tl = "fetch_url" THEN "M4_FETCH_URL"
               ELSE IF tl = "post_url" THEN "M4_POST_URL" ELSE "M5_BRIDGE_TOOL"

NotStarted_Forgotten(t) ==
    loop' = t /\ fetch' = "idle" /\ UNCHANGED <<history, requests>>
NotStarted(t) == Finalize

AsyncTool(t) ==
    /\ t.tool \notin SyncTools
    /\ t.tool = "fetch_url" => t.url # t.cache
    /\ \/ /\ loop' = [t EXCEPT !.phase = PhaseOf(t.tool)]
          /\ UNCHANGED <<fetch, history, requests>>
       \/ NotStarted(t)

ModelCallsTool(r, tl, u) ==
    /\ Done("M4_MODEL", r) /\ r.http = "ok" /\ r.body # "none"
    /\ loop.step < StepBound
    /\ LET t == [loop EXCEPT !.tool = tl,
                             !.url = IF tl = "fetch_url" THEN u ELSE None]
       IN SyncTool(t) \/ CachedTool(t) \/ AsyncTool(t)

\* complete_tool_and_continue with status "ok": the budget, then the output
\* of a process as the answer, or the model again.
OverBudget(t) == t.step > MaxSteps

Continue(t) ==
    LET s == Stepped(t) IN
    \/ OverBudget(s) /\ FinishLocal(Record(Told, "assistant", turn)) /\ fetch' = "idle"
    \/ /\ ~OverBudget(s)
       /\ t.tool = "read_process_output" /\ goal = "output"
       /\ FinishLocal(Record(Told, "assistant", turn)) /\ fetch' = "idle"
    \/ ~OverBudget(s) /\ StartModel(s, Told, LeftToKmain)

\* A bridge tool succeeds unless its response was cut, whatever the status:
\* without a body the reason of the failure is the result.
BridgeDone(r) ==
    /\ Done("M5_BRIDGE_TOOL", r)
    /\ IF truncated'
         THEN Finalize
         ELSE Continue([loop EXCEPT !.bridge = loop.tool # "search_web"])

PostDone(r) ==
    /\ Done("M4_POST_URL", r)
    /\ IF r.http = "ok" /\ ~truncated' THEN Continue(loop) ELSE Finalize

\* A page that was cut is still a page.  A goal that asks for a summary has
\* the model write it, without a look at the budget.
FetchUrlDone(r) ==
    /\ Done("M4_FETCH_URL", r)
    /\ IF r.http = "ok" /\ (truncated' => r.body # "none")
         THEN LET t == [loop EXCEPT !.cache = loop.url]
              IN IF goal = "summary"
                   THEN StartSummary([Stepped(t) EXCEPT !.retries = 0], Told)
                   ELSE Continue(t)
         ELSE Finalize

SummaryDone(r) ==
    /\ Done("M4_SUMMARY_MODEL", r)
    /\ \/ /\ r.http = "retry" /\ MayRetry
          /\ StartSummary(Retried, history)
       \/ /\ r.http # "retry" \/ ~MayRetry
          /\ Finalize

FetchDone == \E r \in Result :
    \/ ModelFails(r) \/ ModelUnparsed(r) \/ ModelFinal(r)
    \/ \E tl \in Tools, u \in Urls : ModelCallsTool(r, tl, u)
    \/ BridgeDone(r) \/ PostDone(r) \/ FetchUrlDone(r) \/ SummaryDone(r)

-----------------------------------------------------------------------------
(* Other commands, which the console takes at any time. *)

\* "session reset" and "session new", between turns or in one.
SessionReset ==
    /\ history' = <<>>
    /\ UNCHANGED <<loop, goal, keyReady, truncated, fetch, turn, requests>>

\* openai-key and openai-clear.
SetKey ==
    /\ keyReady' = ~keyReady
    /\ UNCHANGED <<loop, goal, truncated, fetch, history, turn, requests>>

\* A fetch that is no turn's: url and its like, or one left to kmain.
OtherStarts ==
    /\ ~loop.active /\ fetch = "idle"
    /\ fetch' = "other"
    /\ UNCHANGED <<loop, goal, keyReady, truncated, history, turn, requests>>

OtherEnds ==
    /\ fetch = "other"
    /\ fetch' = "idle"
    /\ UNCHANGED <<loop, goal, keyReady, truncated, history, turn, requests>>

Init ==
    /\ loop = NoTurn /\ goal = "plain"
    /\ keyReady \in BOOLEAN
    /\ truncated = FALSE
    /\ fetch = "idle"
    /\ history = <<>> /\ turn = 0 /\ requests = 0

Next == \/ \E g \in Goals : GoalLine(g)
        \/ FetchDone
        \/ SessionReset \/ SetKey
        \/ OtherStarts \/ OtherEnds

Spec == Init /\ [][Next]_vars

\* Every fetch ends (FetchEngine's FetchEnds) and kmain hands over its result.
FairSpec == Spec /\ WF_vars(FetchDone) /\ WF_vars(OtherEnds)

-----------------------------------------------------------------------------
(* Properties. *)

\* The values of the loop's static variables.
TypeOK ==
    /\ loop \in LoopState
    /\ goal \in Goals
    /\ keyReady \in BOOLEAN /\ truncated \in BOOLEAN
    /\ fetch \in {"idle", "turn", "other"}
    /\ history \in Seq(Entry) /\ Len(history) <= HistoryMax
    /\ turn \in 0..MaxTurns
    /\ requests \in Nat

\* Whatever fails on the way (a start, a retry, a key cleared in between), an
\* active turn waits for a fetch of its own and no other turn's fetch is left
\* behind: each path of handle_m4_fetch_done starts one or ends the turn.
TurnHasFetch == loop.active <=> fetch = "turn"

\* Each model request of a turn is paid for by a step or by a retry, and the
\* retries are limited per turn and once more for a summary.
RequestsAccounted ==
    requests <= 1 + loop.step + 2 * MaxRetries

\* In the history, which the next prompt is built from, a turn begins with
\* what the user said and nothing of a turn follows its answer: not even for
\* a turn that was ended twice, or reset in between.
HistoryInOrder ==
    \A i, j \in 1..Len(history) : i < j =>
        /\ history[i].turn <= history[j].turn
        /\ history[i].turn = history[j].turn =>
               history[i].kind # "assistant" /\ history[j].kind # "user"

\* Every turn comes to an end unless the model goes on past the step budget,
\* which only tools that take no fetch (execute_sync_tool) and the summary of a
\* page let it.
TurnEnds == loop.active ~> ~loop.active \/ loop.step > MaxSteps
=============================================================================

---------------------------- MODULE GoalPipeline ----------------------------
(***************************************************************************)
(* The fixed pipelines M0 to M3 of runtime/src/agent (task.rs, goal.rs,    *)
(* policy.rs, skill.rs): a JSON task or a goal line becomes a chain of at  *)
(* most four steps, interpret the goal, fetch the source, call the model,  *)
(* post the result to a sink.  As in AgentLoop the fetch engine is reduced *)
(* to whom it works for, and what a fetch brings is arbitrary.             *)
(*                                                                         *)
(* Texts are reduced to where they come from: the body buffer, the source  *)
(* of the model request and the summary are "page" (what the source URL    *)
(* sent), "plan" (what the model that interprets the goal sent), "reply"   *)
(* (what the model that summarises sent) or "none".  URLs and profiles are *)
(* reduced to the skills the policy lets through with the task's hosts.    *)
(***************************************************************************)
EXTENDS Naturals

CONSTANTS
    MaxRetries,   \* AGENT_OPENAI_MAX_RETRIES
    DefaultSteps, \* GOAL_DEFAULT_MAX_STEPS
    Budgets       \* the budgets that tasks of kind M1 ask for

ASSUME LimitAssumption ==
    MaxRetries \in Nat /\ DefaultSteps \in Nat \ {0} /\ Budgets \subseteq Nat \ {0}

Skills == {"fetch_url", "call_model", "summarize_text", "post_result"}
GovernedSkills == {"fetch_url", "call_model", "post_result"}
StepOf(s) == CASE s = "fetch_url" -> 1 [] s = "post_result" -> 3 [] OTHER -> 2

Phases == {"IDLE", "INTERPRET_GOAL", "FETCH_SOURCE", "CALL_MODEL", "POST_RESULT"}
Kinds == {"NONE", "COMPLETED", "REFUSED", "FAILED"}
Origins == {"none", "page", "plan", "reply"}

VARIABLES
    task,      \* what agent_reset clears
    keyReady,  \* an OpenAI key is set
    fetch,     \* whom the engine fetches for: "idle", "task" or "other"
    told       \* history: what the last terminal event was about

vars == <<task, keyReady, fetch, told>>

\* AGENT_MODE, AGENT_PHASE (IDLE: AGENT_TASK_ACTIVE is false), AGENT_SINK_URL,
\* AGENT_TASK_JSON, AGENT_MAX_STEPS, the two retry counters,
\* AGENT_RESPONSE_BODY, the source in the last model request, AGENT_SUMMARY,
\* AGENT_RESULT_STATUS and AGENT_TERMINAL_KIND.  The last three are history:
\* what succeeded, which skills the policy denied, the requests sent.
TaskState ==
    [mode : {"NONE", "M0", "M1", "M2", "M3"}, phase : Phases, sink : BOOLEAN,
     allows : SUBSET Skills, budget : Nat,
     interpretRetries : 0..MaxRetries, summaryRetries : 0..MaxRetries,
     body : Origins, asked : Origins, summary : Origins,
     result : {"none", "ok", "refused", "error"}, kind : Kinds,
     got : SUBSET {"page", "reply"}, denied : SUBSET Skills, sent : Nat]

NoTask ==
    [mode |-> "NONE", phase |-> "IDLE", sink |-> FALSE, allows |-> Skills,
     budget |-> 0, interpretRetries |-> 0, summaryRetries |-> 0,
     body |-> "none", asked |-> "none", summary |-> "none",
     result |-> "none", kind |-> "NONE", got |-> {}, denied |-> {}, sent |-> 0]

TerminalEvent ==
    [mode : {"NONE", "M0", "M1", "M2", "M3"}, kind : Kinds, summary : Origins,
     got : SUBSET {"page", "reply"}, denied : SUBSET Skills,
     retries : 0..MaxRetries]

Event(t, k) == [mode |-> t.mode, kind |-> k, summary |-> t.summary,
                got |-> t.got, denied |-> t.denied, retries |-> t.summaryRetries]

\* How a fetch ended: FETCH_GOT_RESP, the class of the status (a 2xx, a failure
\* openai_failure_retryable accepts, another), whether the answer can be used
\* and whether bytes were captured, be it in an earlier round.
Result == {r \in [ok : BOOLEAN, status : {"good", "again", "bad"},
                  useful : BOOLEAN, bytes : BOOLEAN] : r.useful => r.bytes}

-----------------------------------------------------------------------------
(* Building blocks of the handlers.  Each takes the task as it is then. *)

active == task.phase # "IDLE"

\* agent_policy_check; a denial also sets the result.
Allowed(t, s) == s \in t.allows /\ (t.budget # 0 => StepOf(s) <= t.budget)
Denied_StatusKept(t, s) == [t EXCEPT !.summary = "none", !.denied = @ \cup {s}]
Denied(t, s) ==
    [t EXCEPT !.result = "refused", !.summary = "none", !.denied = @ \cup {s}]
Broken(t) == [t EXCEPT !.result = "error"]
Fine(t) == [t EXCEPT !.result = "ok"]

\* A request of phase p was started by fetch_start_agent_url.
Request(t, p) ==
    /\ task' = [t EXCEPT !.phase = p, !.sent = @ + 1]
    /\ fetch' = "task"
    /\ UNCHANGED told

\* The terminal event and agent_finish_now (agent_finish_local, agent_fail).
Over(t, k) ==
    /\ told' = Event(t, k)
    /\ task' = NoTask
    /\ fetch' = "idle"

\* AGENT_RESPONSE_BODY_LEN = 0 before a request; what the fetch captures is
\* appended.
Emptied_Kept(t) == t
Emptied(t) == [t EXCEPT !.body = "none"]

\* agent_start_terminal_post: the result goes to the sink, if there is one
\* and (in M1) the policy lets it.  When the post is denied or fails to start
\* the kind of the terminal event stays what it was.
Unposted_Waiting(t, k) ==
    task' = [t EXCEPT !.kind = k, !.phase = "POST_RESULT"] /\ fetch' = "idle" /\ UNCHANGED told
Unposted(t, k) == Over(Broken(t), k)

TerminalPost(t, k) ==
    \/ ~t.sink /\ Over(t, k)
    \/ /\ t.sink /\ t.mode = "M1" /\ ~Allowed(t, "post_result")
       /\ Over(Denied(t, "post_result"), k)
    \/ /\ t.sink /\ (t.mode = "M1" => Allowed(t, "post_result"))
       /\ Request([t EXCEPT !.kind = k], "POST_RESULT") \/ Unposted(t, k)

\* start_governed_m1_task.
StartGoverned(t0) ==
    LET t == Fine(Emptied([t0 EXCEPT !.mode = "M1"])) IN
    \/ ~Allowed(t, "fetch_url") /\ TerminalPost(Denied(t, "fetch_url"), "REFUSED")
    \/ /\ Allowed(t, "fetch_url")
       /\ \/ Request(t, "FETCH_SOURCE")
          \/ TerminalPost(Broken([t EXCEPT !.summary = "none"]), "FAILED")

\* start_local_summary_task_with_mode: whatever fails here ends the task
\* without a post, also when there is a sink.
StartLocal(t0, m) ==
    LET t == Fine(Emptied([t0 EXCEPT !.mode = m])) IN
    \/ ~Allowed(t, "fetch_url") /\ Over(Denied(t, "fetch_url"), "REFUSED")
    \/ /\ Allowed(t, "fetch_url")
       /\ \/ Request(t, "FETCH_SOURCE")
          \/ Over(Broken([t EXCEPT !.summary = "none"]), "FAILED")

\* finish_goal_interpretation_failure: the wording of the reason, which may be
\* the model's, makes it a refusal or a failure.
InterpretationFails(t) ==
    \/ Over([t EXCEPT !.result = "refused"], "REFUSED")
    \/ Over(Broken(t), "FAILED")

\* start_openai_interpretation_request.
RequestInterpretation(t) ==
    \/ ~keyReady /\ Over([t EXCEPT !.result = "refused"], "REFUSED")
    \/ keyReady /\ (Request(Emptied(t), "INTERPRET_GOAL") \/ InterpretationFails(Emptied(t)))

\* start_m3_openai_summary_request.  The request is built from the body
\* buffer, which is emptied then: a retry finds there what the failed answer
\* left.
RequestSummary(t) ==
    \/ ~Allowed(t, "call_model") /\ TerminalPost(Denied(t, "call_model"), "REFUSED")
    \/ /\ Allowed(t, "call_model") /\ ~keyReady
       /\ TerminalPost(Broken(t), "FAILED")
    \/ /\ Allowed(t, "call_model") /\ keyReady
       /\ LET u == Emptied([t EXCEPT !.asked = t.body]) IN
          Request(u, "CALL_MODEL") \/ TerminalPost(Broken(u), "FAILED")

-----------------------------------------------------------------------------
(* Lines of the console.  They are refused while a task is active or the    *)
(* engine is busy.                                                          *)

Accepts == ~active /\ fetch = "idle"

\* handle_agent_task_line, kind fetch_summarize_post: no policy at all.
TaskM0(s) ==
    /\ Accepts
    /\ LET t == Fine([NoTask EXCEPT !.mode = "M0", !.sink = s])
       IN Request(t, "FETCH_SOURCE") \/ Over(Broken(t), "FAILED")
    /\ UNCHANGED keyReady

\* handle_agent_task_line, kind agent_task.
TaskM1(s, a, b) ==
    /\ Accepts
    /\ StartGoverned([NoTask EXCEPT !.sink = s, !.allows = a, !.budget = b])
    /\ UNCHANGED keyReady

\* handle_goal_line with a goal that compile_goal_locally understands, with a
\* sink (agent_store_default_goal_policy) or without (the local policy); the
\* URLs of the goal may name hosts the policy does not.
GoalWithSink(a) ==
    /\ Accepts
    /\ StartGoverned([NoTask EXCEPT !.sink = TRUE, !.allows = a,
                                    !.budget = DefaultSteps])
    /\ UNCHANGED keyReady

GoalWithoutSink(host) ==
    /\ Accepts
    /\ StartLocal([NoTask EXCEPT !.budget = DefaultSteps,
           !.allows = {"summarize_text"} \cup (IF host THEN {"fetch_url"} ELSE {})], "M2")
    /\ UNCHANGED keyReady

\* handle_goal_line with any other goal: start_goal_interpretation.
GoalToInterpret ==
    /\ Accepts
    /\ RequestInterpretation([NoTask EXCEPT !.mode = "M3", !.budget = DefaultSteps])
    /\ UNCHANGED keyReady

-----------------------------------------------------------------------------
(* handle_agent_fetch_done. *)

\* agent_http_success.
Success(r) == r.ok /\ r.status = "good"

\* Both retry counters have the same limit.
MayRetry_OffByOne(r, n) == r.status = "again" /\ n <= MaxRetries
MayRetry(r, n) == r.status = "again" /\ n < MaxRetries

\* agent_capture_response_body filled the buffer while the fetch ran.
Captured(r, origin) == IF r.bytes THEN [task EXCEPT !.body = origin] ELSE task

Done(p) == task.phase = p /\ fetch = "task" /\ UNCHANGED keyReady

\* handle_goal_interpretation_done.
InterpretationFailed(r) ==
    /\ Done("INTERPRET_GOAL") /\ ~Success(r)
    /\ LET t == Captured(r, "plan") IN
       IF MayRetry(r, t.interpretRetries)
         THEN RequestInterpretation([t EXCEPT !.interpretRetries = @ + 1])
         ELSE InterpretationFails(t)

\* apply_interpretation_response: local_summary, or post_summary with a sink.
Interpreted(r, s, host) ==
    /\ Done("INTERPRET_GOAL") /\ Success(r)
    /\ LET t == Captured(r, "plan") IN
       IF r.useful
         THEN StartLocal([t EXCEPT !.sink = s,
                  !.allows = {"summarize_text", "call_model"}
                             \cup (IF host THEN {"fetch_url"} ELSE {})
                             \cup (IF s THEN {"post_result"} ELSE {})], "M3")
         ELSE InterpretationFails(t)

GovernedSourceDone(r) ==
    /\ Done("FETCH_SOURCE") /\ task.mode = "M1"
    /\ LET t == Captured(r, "page")
           u == [t EXCEPT !.got = @ \cup {"page"}]
       IN \/ ~Success(r) /\ TerminalPost(Broken([t EXCEPT !.summary = "none"]), "FAILED")
          \/ /\ Success(r) /\ ~Allowed(u, "call_model")
             /\ TerminalPost(Denied(u, "call_model"), "REFUSED")
          \/ /\ Success(r) /\ Allowed(u, "call_model")
             /\ LET v == Emptied([u EXCEPT !.asked = u.body])
                IN Request(v, "CALL_MODEL") \/ TerminalPost(Broken(v), "FAILED")

\* M0, M2 and M3 take any response for the page, an error page too.
SourceDone(r) ==
    /\ Done("FETCH_SOURCE") /\ task.mode # "M1"
    /\ LET t == Captured(r, "page")
           u == [t EXCEPT !.got = @ \cup {"page"}]
       IN \/ ~r.ok /\ TerminalPost(Broken(t), "FAILED")
          \/ r.ok /\ u.mode = "M3" /\ keyReady /\ RequestSummary(u)
          \/ /\ r.ok /\ ~(u.mode = "M3" /\ keyReady)
             /\ IF Allowed(u, "summarize_text")
                  THEN TerminalPost(Fine([u EXCEPT !.summary = u.body]), "COMPLETED")
                  ELSE TerminalPost(Denied(u, "summarize_text"), "REFUSED")

\* The summary is of what the request was about.
Answered(t) == Fine([t EXCEPT !.summary = t.asked, !.got = @ \cup {"reply"}])

GovernedModelDone_Unchecked(r) ==
    /\ Done("CALL_MODEL") /\ task.mode = "M1"
    /\ TerminalPost(IF r.useful THEN Answered(task) ELSE Fine(task), "COMPLETED")

GovernedModelDone(r) ==
    /\ Done("CALL_MODEL") /\ task.mode = "M1"
    /\ LET t == Captured(r, "reply") IN
       IF Success(r) /\ r.useful
         THEN TerminalPost(Answered(t), "COMPLETED")
         ELSE TerminalPost(Broken([t EXCEPT !.summary = "none"]), "FAILED")

Retried_Uncounted(t) == t
Retried(t) == [t EXCEPT !.summaryRetries = @ + 1]

SummaryDone(r) ==
    /\ Done("CALL_MODEL") /\ task.mode = "M3"
    /\ LET t == [Captured(r, "reply") EXCEPT !.summary = "none"] IN
       IF Success(r) /\ r.useful
         THEN TerminalPost(Answered(t), "COMPLETED")
         ELSE IF MayRetry(r, t.summaryRetries)
           THEN RequestSummary(Retried(t))
           ELSE TerminalPost(Broken(t), "FAILED")

\* Whether the post succeeded does not matter.
PostDone_Governed ==
    /\ Done("POST_RESULT") /\ task.mode = "M1"
    /\ Over(task, task.kind)

PostDone ==
    /\ Done("POST_RESULT")
    /\ Over(task, task.kind)

FetchDone ==
    \/ \E r \in Result :
           \/ InterpretationFailed(r)
           \/ \E s, host \in BOOLEAN : Interpreted(r, s, host)
           \/ GovernedSourceDone(r) \/ SourceDone(r)
           \/ GovernedModelDone(r) \/ SummaryDone(r)
    \/ PostDone

-----------------------------------------------------------------------------
(* openai-key and openai-clear, and fetches of others while no task runs. *)

SetKey == keyReady' = ~keyReady /\ UNCHANGED <<task, fetch, told>>

OtherStarts ==
    /\ fetch = "idle"
    /\ fetch' = "other"
    /\ UNCHANGED <<task, keyReady, told>>

OtherEnds ==
    /\ fetch = "other" /\ ~active
    /\ fetch' = "idle"
    /\ UNCHANGED <<task, keyReady, told>>

Init == task = NoTask /\ keyReady \in BOOLEAN /\ fetch = "idle" /\ told = Event(NoTask, "NONE")

Line ==
    \/ \E s \in BOOLEAN : TaskM0(s)
    \/ \E s \in BOOLEAN, a \in SUBSET GovernedSkills, b \in Budgets : TaskM1(s, a, b)
    \/ \E a \in SUBSET GovernedSkills : GoalWithSink(a)
    \/ \E host \in BOOLEAN : GoalWithoutSink(host)
    \/ GoalToInterpret

Next == Line \/ FetchDone \/ SetKey \/ OtherStarts \/ OtherEnds

Spec == Init /\ [][Next]_vars

\* Every fetch ends (FetchEngine's FetchEnds) and kmain hands over its result.
FairSpec == Spec /\ WF_vars(FetchDone) /\ WF_vars(OtherEnds)

-----------------------------------------------------------------------------
(* Properties. *)

\* The values of the static variables.
TypeOK ==
    /\ task \in TaskState /\ told \in TerminalEvent
    /\ keyReady \in BOOLEAN
    /\ fetch \in {"idle", "task", "other"}

\* Whatever is denied, cannot be started or is retried without a key: each
\* path of the handlers starts the next fetch or ends the task and leaves the
\* engine idle, otherwise every later line would find it busy.
TaskHasFetch == active <=> fetch = "task"

\* While the result is under way to the sink, the status in its payload is the
\* one the terminal event will tell, though each is set in a place of its own.
PayloadTrue ==
    task.phase = "POST_RESULT" =>
        <<task.kind, task.result>> \in
            {<<"COMPLETED", "ok">>, <<"REFUSED", "refused">>, <<"FAILED", "error">>}

\* goal_completed is never told of a task whose page was not fetched in this
\* task, nor of a governed one whose model did not answer.
CompletedIsEarned ==
    told.kind = "COMPLETED" =>
        /\ "page" \in told.got
        /\ told.mode = "M1" => "reply" \in told.got

\* The requests of a task are bounded, whatever answers come: one for each
\* phase and one for each retry.
Place(p) == CASE p = "INTERPRET_GOAL" -> 1 [] p = "FETCH_SOURCE" -> 2
              [] p = "CALL_MODEL" -> 3 [] p = "POST_RESULT" -> 4 [] OTHER -> 0
RequestsBounded ==
    task.sent <= Place(task.phase) + task.interpretRetries + task.summaryRetries

\* Every task ends and the console takes lines again.
TaskEnds == active ~> ~active

\* A completed task is what it seems, with two exceptions, each as narrow as
\* the code makes it: the policy may have stopped the post, and only the post,
\* of a governed task, whose kind was set before; and the summary of an M3 goal
\* whose summary request was retried may be made of the failed answer, for the
\* buffer of the page was emptied.  No other step that was denied ends in
\* goal_completed, and the summary is never made of what the interpreter of
\* the goal answered, though page, plan and answer share one buffer.
CompletedAsItSeems ==
    told.kind = "COMPLETED" =>
        /\ told.denied # {} => told.mode = "M1" /\ told.denied = {"post_result"}
        /\ told.summary = "reply" => told.mode = "M3" /\ told.retries > 0
        /\ told.summary # "plan"

\* A task with a source or sink host outside the allowlist is refused
\* (docs/milestones/m1.md, m1-deny-disallowed-host), so none that was denied a
\* step is told to be complete.  The code tells goal_completed when it is the
\* post that is denied.
DeniedNotCompleted == told.kind = "COMPLETED" => told.denied = {}
=============================================================================

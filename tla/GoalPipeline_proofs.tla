------------------------ MODULE GoalPipeline_proofs ------------------------
(***************************************************************************)
(* Proofs about GoalPipeline.  The handlers end in one of three ways: a    *)
(* request is sent, the task is over, or the result is posted.  One lemma  *)
(* for each says when it leaves the invariant intact; the actions are then *)
(* shown to meet its conditions.                                           *)
(***************************************************************************)
EXTENDS GoalPipeline, TLAPS

\* What CompletedIsEarned asks of the event, asked of the task.
Earned(t) == "page" \in t.got /\ (t.mode = "M1" => "reply" \in t.got)

\* The source has been fetched before the model is called, and a result is
\* posted as completed only when it is earned.
InOrder ==
    /\ task.phase = "CALL_MODEL" => "page" \in task.got
    /\ task.phase = "POST_RESULT" /\ task.kind = "COMPLETED" => Earned(task)

TaskInv ==
    TypeOK /\ TaskHasFetch /\ PayloadTrue /\ CompletedIsEarned /\ RequestsBounded /\ InOrder

\* A request of phase p fits into the bound.
Room(t, p) == t.sent + 1 <= Place(p) + t.interpretRetries + t.summaryRetries

\* Kinds of terminal events with the status they go with.
Matching(k, s) ==
    \/ k = "COMPLETED" /\ s = "ok"
    \/ k = "REFUSED" /\ s = "refused"
    \/ k = "FAILED" /\ s = "error"

-----------------------------------------------------------------------------
(* The three ways a handler ends. *)

\* Every request that is sent for a well-typed task, has room and comes in
\* order leaves the invariant intact.
LEMMA RequestKeeps ==
    ASSUME told \in TerminalEvent, CompletedIsEarned, keyReady' \in BOOLEAN,
           NEW t \in TaskState, NEW p \in Phases \ {"IDLE"},
           Room(t, p),
           p = "CALL_MODEL" => "page" \in t.got,
           p = "POST_RESULT" => Matching(t.kind, t.result),
           p = "POST_RESULT" /\ t.kind = "COMPLETED" => Earned(t),
           Request(t, p)
    PROVE  TaskInv'
<1>1. /\ task' = [t EXCEPT !.phase = p, !.sent = @ + 1]
      /\ fetch' = "task" /\ told' = told
  BY DEF Request
<1>2. task' \in TaskState /\ task'.phase = p /\ task'.sent = t.sent + 1
  <2>1. t.sent \in Nat
    BY DEF TaskState
  <2>2. [t EXCEPT !.phase = p, !.sent = t.sent + 1] \in TaskState
    <3> DEFINE n == t.sent + 1
    <3>1. n \in Nat
      BY <2>1
    <3> HIDE DEF n
    <3>2. [t EXCEPT !.phase = p, !.sent = n] \in TaskState
      BY <3>1 DEF TaskState
    <3> QED BY <3>2 DEF n
  <2>3. /\ [t EXCEPT !.phase = p, !.sent = t.sent + 1].phase = p
        /\ [t EXCEPT !.phase = p, !.sent = t.sent + 1].sent = t.sent + 1
    BY DEF TaskState
  <2> QED BY <1>1, <2>2, <2>3
<1>3. /\ task'.kind = t.kind /\ task'.result = t.result /\ task'.got = t.got
      /\ task'.mode = t.mode
      /\ task'.interpretRetries = t.interpretRetries
      /\ task'.summaryRetries = t.summaryRetries
  BY <1>1 DEF TaskState
<1>4. TypeOK' /\ TaskHasFetch'
  BY <1>1, <1>2 DEF TypeOK, TaskHasFetch, active
<1>5. PayloadTrue'
  BY <1>2, <1>3 DEF PayloadTrue, Matching
<1>6. CompletedIsEarned'
  BY <1>1 DEF CompletedIsEarned
<1>7. RequestsBounded'
  BY <1>2, <1>3 DEF RequestsBounded, Room
<1>8. InOrder'
  BY <1>2, <1>3 DEF InOrder, Earned
<1> QED BY <1>4, <1>5, <1>6, <1>7, <1>8 DEF TaskInv

LEMMA OverKeeps ==
    ASSUME LimitAssumption, keyReady' \in BOOLEAN,
           NEW t \in TaskState, NEW k \in Kinds,
           k = "COMPLETED" => Earned(t),
           Over(t, k)
    PROVE  TaskInv'
<1>1. told' = Event(t, k) /\ task' = NoTask /\ fetch' = "idle"
  BY DEF Over
<1>2. task' \in TaskState
  BY <1>1 DEF NoTask, TaskState, Skills, Phases, Kinds, Origins, LimitAssumption
<1>3. told' \in TerminalEvent
  BY <1>1 DEF Event, TerminalEvent, TaskState
<1>4. task'.phase = "IDLE" /\ task'.sent = 0
      /\ task'.interpretRetries = 0 /\ task'.summaryRetries = 0
  BY <1>1 DEF NoTask
<1>5. TypeOK' /\ TaskHasFetch'
  BY <1>1, <1>2, <1>3, <1>4 DEF TypeOK, TaskHasFetch, active
<1>6. PayloadTrue' /\ InOrder'
  BY <1>4 DEF PayloadTrue, InOrder
<1>7. CompletedIsEarned'
  BY <1>1 DEF CompletedIsEarned, Event, Earned
<1>8. RequestsBounded'
  BY <1>4 DEF RequestsBounded, Place
<1> QED BY <1>5, <1>6, <1>7, <1>8 DEF TaskInv

\* The builders of a task keep its type; what they leave alone.
LEMMA Builders ==
    ASSUME NEW t \in TaskState
    PROVE  /\ Broken(t) \in TaskState /\ Fine(t) \in TaskState
           /\ Emptied(t) \in TaskState
           /\ Broken(t).result = "error" /\ Fine(t).result = "ok"
           /\ Emptied(t).result = t.result
           /\ \A u \in {Broken(t), Fine(t), Emptied(t)} :
                 /\ u.got = t.got /\ u.mode = t.mode /\ u.sent = t.sent
                 /\ u.interpretRetries = t.interpretRetries
                 /\ u.summaryRetries = t.summaryRetries
                 /\ u.kind = t.kind /\ u.phase = t.phase
           /\ \A s \in {"fetch_url", "call_model", "summarize_text", "post_result"} :
                 LET u == Denied(t, s) IN
                 /\ u \in TaskState /\ u.result = "refused"
                 /\ u.got = t.got /\ u.mode = t.mode /\ u.sent = t.sent
                 /\ u.interpretRetries = t.interpretRetries
                 /\ u.summaryRetries = t.summaryRetries
                 /\ u.kind = t.kind /\ u.phase = t.phase
  BY DEF Denied, Broken, Fine, Emptied, TaskState, Origins, Skills

LEMMA PostKeeps ==
    ASSUME LimitAssumption, told \in TerminalEvent, CompletedIsEarned,
           keyReady' \in BOOLEAN,
           NEW t \in TaskState, NEW k \in Kinds,
           Matching(k, t.result), k = "COMPLETED" => Earned(t),
           Room(t, "POST_RESULT"),
           TerminalPost(t, k)
    PROVE  TaskInv'
<1>1. CASE Over(t, k)
  BY <1>1, OverKeeps
<1>2. CASE Over(Denied(t, "post_result"), k) \/ Unposted(t, k)
  <2>1. Over(Denied(t, "post_result"), k) \/ Over(Broken(t), k)
    BY <1>2 DEF Unposted
  <2>2. k = "COMPLETED" => Earned(Denied(t, "post_result")) /\ Earned(Broken(t))
    BY Builders DEF Earned
  <2> QED BY <2>1, <2>2, OverKeeps, Builders
<1>3. CASE Request([t EXCEPT !.kind = k], "POST_RESULT")
  <2> DEFINE u == [t EXCEPT !.kind = k]
  <2>1. /\ u \in TaskState /\ u.kind = k /\ u.result = t.result /\ u.got = t.got
        /\ u.mode = t.mode /\ u.sent = t.sent
        /\ u.interpretRetries = t.interpretRetries
        /\ u.summaryRetries = t.summaryRetries
    BY DEF TaskState
  <2>2. Room(u, "POST_RESULT") /\ (u.kind = "COMPLETED" => Earned(u))
    BY <2>1 DEF Room, Earned
  <2>3. "POST_RESULT" \in Phases \ {"IDLE"}
    BY DEF Phases
  <2> HIDE DEF u
  <2>4. Request(u, "POST_RESULT")
    BY <1>3 DEF u
  <2> QED BY <2>1, <2>2, <2>3, <2>4, RequestKeeps
<1> QED BY <1>1, <1>2, <1>3 DEF TerminalPost

-----------------------------------------------------------------------------
(* The starts, which the console and the handlers share. *)

\* What holds whenever a handler runs.
Ready ==
    LimitAssumption /\ told \in TerminalEvent /\ CompletedIsEarned
    /\ keyReady \in BOOLEAN /\ keyReady' \in BOOLEAN

LEMMA GovernedKeeps ==
    ASSUME Ready, NEW t0 \in TaskState, Room(t0, "FETCH_SOURCE"), StartGoverned(t0)
    PROVE  TaskInv'
<1> DEFINE v == [t0 EXCEPT !.mode = "M1"]
           t == Fine(Emptied(v))
           w == [t EXCEPT !.summary = "none"]
<1>1. /\ v \in TaskState /\ v.sent = t0.sent
      /\ v.interpretRetries = t0.interpretRetries
      /\ v.summaryRetries = t0.summaryRetries
  BY DEF TaskState
<1> HIDE DEF v
<1>2. /\ t \in TaskState /\ t.sent = t0.sent
      /\ t.interpretRetries = t0.interpretRetries
      /\ t.summaryRetries = t0.summaryRetries
  BY <1>1, Builders
<1>3. \/ TerminalPost(Denied(t, "fetch_url"), "REFUSED")
      \/ Request(t, "FETCH_SOURCE")
      \/ TerminalPost(Broken(w), "FAILED")
  BY DEF StartGoverned, v
<1> HIDE DEF t
<1>4. /\ w \in TaskState /\ w.sent = t.sent
      /\ w.interpretRetries = t.interpretRetries
      /\ w.summaryRetries = t.summaryRetries
  BY <1>2 DEF TaskState, Origins
<1> HIDE DEF w
<1>5. /\ {"REFUSED", "FAILED"} \subseteq Kinds /\ "FETCH_SOURCE" \in Phases \ {"IDLE"}
      /\ Place("POST_RESULT") = 4 /\ Place("FETCH_SOURCE") = 2
  BY DEF Kinds, Phases, Place
<1>6. /\ t0.sent \in Nat /\ t0.interpretRetries \in Nat /\ t0.summaryRetries \in Nat
  BY DEF TaskState, Ready, LimitAssumption
<1>7. /\ Room(t, "FETCH_SOURCE") /\ Room(Denied(t, "fetch_url"), "POST_RESULT")
      /\ Room(Broken(w), "POST_RESULT")
  BY <1>2, <1>4, <1>5, <1>6, Builders DEF Room
<1>8. CASE TerminalPost(Denied(t, "fetch_url"), "REFUSED")
  BY <1>2, <1>5, <1>7, <1>8, Builders, PostKeeps DEF Matching, Ready
<1>9. CASE Request(t, "FETCH_SOURCE")
  BY <1>2, <1>5, <1>7, <1>9, RequestKeeps DEF Ready
<1>10. CASE TerminalPost(Broken(w), "FAILED")
  BY <1>4, <1>5, <1>7, <1>10, Builders, PostKeeps DEF Matching, Ready
<1> QED BY <1>3, <1>8, <1>9, <1>10

LEMMA LocalKeeps ==
    ASSUME Ready, NEW t0 \in TaskState, Room(t0, "FETCH_SOURCE"),
           NEW m \in {"M2", "M3"}, StartLocal(t0, m)
    PROVE  TaskInv'
<1> DEFINE v == [t0 EXCEPT !.mode = m]
           t == Fine(Emptied(v))
           w == [t EXCEPT !.summary = "none"]
<1>1. /\ v \in TaskState /\ v.sent = t0.sent
      /\ v.interpretRetries = t0.interpretRetries
      /\ v.summaryRetries = t0.summaryRetries
  BY DEF TaskState
<1> HIDE DEF v
<1>2. /\ t \in TaskState /\ t.sent = t0.sent
      /\ t.interpretRetries = t0.interpretRetries
      /\ t.summaryRetries = t0.summaryRetries
  BY <1>1, Builders
<1>3. \/ Over(Denied(t, "fetch_url"), "REFUSED")
      \/ Request(t, "FETCH_SOURCE")
      \/ Over(Broken(w), "FAILED")
  BY DEF StartLocal, v
<1> HIDE DEF t
<1>4. w \in TaskState
  BY <1>2 DEF TaskState, Origins
<1> HIDE DEF w
<1>5. {"REFUSED", "FAILED"} \subseteq Kinds /\ "FETCH_SOURCE" \in Phases \ {"IDLE"}
  BY DEF Kinds, Phases
<1>6. Room(t, "FETCH_SOURCE")
  BY <1>2 DEF Room
<1>7. CASE Over(Denied(t, "fetch_url"), "REFUSED")
  BY <1>2, <1>5, <1>7, Builders, OverKeeps DEF Ready
<1>8. CASE Request(t, "FETCH_SOURCE")
  BY <1>2, <1>5, <1>6, <1>8, RequestKeeps DEF Ready
<1>9. CASE Over(Broken(w), "FAILED")
  BY <1>4, <1>5, <1>9, Builders, OverKeeps DEF Ready
<1> QED BY <1>3, <1>7, <1>8, <1>9

LEMMA FailKeeps ==
    ASSUME Ready, NEW t \in TaskState, InterpretationFails(t)
    PROVE  TaskInv'
<1> DEFINE u == [t EXCEPT !.result = "refused"]
<1>1. u \in TaskState
  BY DEF TaskState
<1>2. Over(u, "REFUSED") \/ Over(Broken(t), "FAILED")
  BY DEF InterpretationFails
<1> HIDE DEF u
<1>3. {"REFUSED", "FAILED"} \subseteq Kinds
  BY DEF Kinds
<1> QED BY <1>1, <1>2, <1>3, Builders, OverKeeps DEF Ready

LEMMA InterpretationKeeps ==
    ASSUME Ready, NEW t \in TaskState, Room(t, "INTERPRET_GOAL"),
           RequestInterpretation(t)
    PROVE  TaskInv'
<1> DEFINE u == [t EXCEPT !.result = "refused"]
           e == Emptied(t)
<1>1. u \in TaskState
  BY DEF TaskState
<1>2. e \in TaskState /\ Room(e, "INTERPRET_GOAL")
  BY Builders DEF Room
<1>3. Over(u, "REFUSED") \/ Request(e, "INTERPRET_GOAL") \/ InterpretationFails(e)
  BY DEF RequestInterpretation
<1> HIDE DEF u, e
<1>4. "REFUSED" \in Kinds /\ "INTERPRET_GOAL" \in Phases \ {"IDLE"}
  BY DEF Kinds, Phases
<1>5. CASE Over(u, "REFUSED")
  BY <1>1, <1>4, <1>5, OverKeeps DEF Ready
<1>6. CASE Request(e, "INTERPRET_GOAL")
  BY <1>2, <1>4, <1>6, RequestKeeps DEF Ready
<1>7. CASE InterpretationFails(e)
  BY <1>2, <1>7, FailKeeps
<1> QED BY <1>3, <1>5, <1>6, <1>7

\* The request to the model, of both kinds, with what happens instead.
LEMMA ModelKeeps ==
    ASSUME Ready, NEW t \in TaskState, Room(t, "CALL_MODEL"), "page" \in t.got,
           \/ TerminalPost(Denied(t, "call_model"), "REFUSED")
           \/ TerminalPost(Broken(t), "FAILED")
           \/ Request(Emptied([t EXCEPT !.asked = t.body]), "CALL_MODEL")
           \/ TerminalPost(Broken(Emptied([t EXCEPT !.asked = t.body])), "FAILED")
    PROVE  TaskInv'
<1> DEFINE a == [t EXCEPT !.asked = t.body]
           u == Emptied(a)
<1>1. /\ a \in TaskState /\ a.sent = t.sent /\ a.got = t.got
      /\ a.interpretRetries = t.interpretRetries
      /\ a.summaryRetries = t.summaryRetries
  BY DEF TaskState
<1>2. \/ TerminalPost(Denied(t, "call_model"), "REFUSED")
      \/ TerminalPost(Broken(t), "FAILED")
      \/ Request(u, "CALL_MODEL")
      \/ TerminalPost(Broken(u), "FAILED")
  OBVIOUS
<1> HIDE DEF a
<1>3. /\ u \in TaskState /\ u.sent = t.sent /\ "page" \in u.got
      /\ u.interpretRetries = t.interpretRetries
      /\ u.summaryRetries = t.summaryRetries
  BY <1>1, Builders
<1> HIDE DEF u
<1>4. /\ {"REFUSED", "FAILED"} \subseteq Kinds /\ "CALL_MODEL" \in Phases \ {"IDLE"}
      /\ Place("POST_RESULT") = 4 /\ Place("CALL_MODEL") = 3
  BY DEF Kinds, Phases, Place
<1>5. /\ t.sent \in Nat /\ t.interpretRetries \in Nat /\ t.summaryRetries \in Nat
  BY DEF TaskState, Ready, LimitAssumption
<1>6. /\ Room(u, "CALL_MODEL") /\ Room(Denied(t, "call_model"), "POST_RESULT")
      /\ Room(Broken(t), "POST_RESULT") /\ Room(Broken(u), "POST_RESULT")
  BY <1>3, <1>4, <1>5, Builders DEF Room
<1>7. CASE TerminalPost(Denied(t, "call_model"), "REFUSED")
  BY <1>4, <1>6, <1>7, Builders, PostKeeps DEF Matching, Ready
<1>8. CASE TerminalPost(Broken(t), "FAILED")
  BY <1>4, <1>6, <1>8, Builders, PostKeeps DEF Matching, Ready
<1>9. CASE Request(u, "CALL_MODEL")
  BY <1>3, <1>4, <1>6, <1>9, RequestKeeps DEF Ready
<1>10. CASE TerminalPost(Broken(u), "FAILED")
  BY <1>3, <1>4, <1>6, <1>10, Builders, PostKeeps DEF Matching, Ready
<1> QED BY <1>2, <1>7, <1>8, <1>9, <1>10

LEMMA SummaryRequestKeeps ==
    ASSUME Ready, NEW t \in TaskState, Room(t, "CALL_MODEL"), "page" \in t.got,
           RequestSummary(t)
    PROVE  TaskInv'
BY ModelKeeps DEF RequestSummary

-----------------------------------------------------------------------------
(* The actions. *)

\* A line is taken: the task it begins is well-typed and has sent nothing.
LEMMA LineKeeps ==
    ASSUME Ready, Line
    PROVE  TaskInv'
<1> DEFINE Blank(u) == /\ u \in TaskState /\ u.sent = 0
                       /\ u.interpretRetries = 0 /\ u.summaryRetries = 0
<1>1. /\ Place("FETCH_SOURCE") = 2 /\ Place("INTERPRET_GOAL") = 1
      /\ {"FETCH_SOURCE", "INTERPRET_GOAL"} \subseteq Phases \ {"IDLE"}
      /\ "FAILED" \in Kinds
  BY DEF Place, Phases, Kinds
<1>2. ASSUME NEW u, Blank(u)
      PROVE  Room(u, "FETCH_SOURCE") /\ Room(u, "INTERPRET_GOAL")
  BY <1>1, <1>2 DEF Room
<1>3. DefaultSteps \in Nat /\ Budgets \subseteq Nat /\ 0 \in 0..MaxRetries
  BY DEF Ready, LimitAssumption
<1>4. ASSUME NEW s \in BOOLEAN, TaskM0(s)
      PROVE  TaskInv'
  <2> DEFINE v == [NoTask EXCEPT !.mode = "M0", !.sink = s]
             t == Fine(v)
  <2>1. Blank(v)
    BY <1>3 DEF NoTask, TaskState, Phases, Kinds, Origins
  <2>2. Request(t, "FETCH_SOURCE") \/ Over(Broken(t), "FAILED")
    BY <1>4 DEF TaskM0
  <2> HIDE DEF v
  <2>3. Blank(t)
    BY <2>1, Builders
  <2> HIDE DEF t
  <2>4. CASE Request(t, "FETCH_SOURCE")
    BY <1>1, <1>2, <2>3, <2>4, RequestKeeps DEF Ready
  <2>5. CASE Over(Broken(t), "FAILED")
    BY <1>1, <2>3, <2>5, Builders, OverKeeps DEF Ready
  <2> QED BY <2>2, <2>4, <2>5
<1>5. ASSUME NEW s \in BOOLEAN, NEW a \in SUBSET GovernedSkills, NEW b \in Budgets,
             TaskM1(s, a, b)
      PROVE  TaskInv'
  <2> DEFINE v == [NoTask EXCEPT !.sink = s, !.allows = a, !.budget = b]
  <2>1. Blank(v)
    BY <1>3 DEF NoTask, TaskState, Phases, Kinds, Origins, GovernedSkills, Skills
  <2>2. StartGoverned(v)
    BY <1>5 DEF TaskM1
  <2> HIDE DEF v
  <2> QED BY <1>2, <2>1, <2>2, GovernedKeeps
<1>6. ASSUME NEW a \in SUBSET GovernedSkills, GoalWithSink(a)
      PROVE  TaskInv'
  <2> DEFINE v == [NoTask EXCEPT !.sink = TRUE, !.allows = a, !.budget = DefaultSteps]
  <2>1. Blank(v)
    BY <1>3 DEF NoTask, TaskState, Phases, Kinds, Origins, GovernedSkills, Skills
  <2>2. StartGoverned(v)
    BY <1>6 DEF GoalWithSink
  <2> HIDE DEF v
  <2> QED BY <1>2, <2>1, <2>2, GovernedKeeps
<1>7. ASSUME NEW host \in BOOLEAN, GoalWithoutSink(host)
      PROVE  TaskInv'
  <2> DEFINE a == {"summarize_text"} \cup (IF host THEN {"fetch_url"} ELSE {})
             v == [NoTask EXCEPT !.budget = DefaultSteps, !.allows = a]
  <2>1. a \subseteq Skills
    BY DEF Skills
  <2>2. StartLocal(v, "M2")
    BY <1>7 DEF GoalWithoutSink
  <2> HIDE DEF a
  <2>3. Blank(v)
    BY <1>3, <2>1 DEF NoTask, TaskState, Phases, Kinds, Origins
  <2> HIDE DEF v
  <2> QED BY <1>2, <2>2, <2>3, LocalKeeps
<1>8. ASSUME GoalToInterpret
      PROVE  TaskInv'
  <2> DEFINE v == [NoTask EXCEPT !.mode = "M3", !.budget = DefaultSteps]
  <2>1. Blank(v)
    BY <1>3 DEF NoTask, TaskState, Phases, Kinds, Origins, Skills
  <2>2. RequestInterpretation(v)
    BY <1>8 DEF GoalToInterpret
  <2> HIDE DEF v
  <2> QED BY <1>2, <2>1, <2>2, InterpretationKeeps
<1> QED BY <1>4, <1>5, <1>6, <1>7, <1>8 DEF Line

\* The body of a response changes nothing but the buffer.
LEMMA CapturedFacts ==
    ASSUME NEW r, NEW o \in Origins, task \in TaskState
    PROVE  LET t == Captured(r, o) IN
           /\ t \in TaskState
           /\ t.got = task.got /\ t.mode = task.mode /\ t.sent = task.sent
           /\ t.interpretRetries = task.interpretRetries
           /\ t.summaryRetries = task.summaryRetries
BY DEF Captured, TaskState, Origins

\* What a handler for phase p starts from.
LEMMA DoneFacts ==
    ASSUME LimitAssumption, TaskInv, NEW p, Done(p)
    PROVE  /\ Ready /\ task \in TaskState /\ task.phase = p
           /\ task.sent <= Place(p) + task.interpretRetries + task.summaryRetries
           /\ task.sent \in Nat /\ task.interpretRetries \in Nat
           /\ task.summaryRetries \in Nat
           /\ p = "CALL_MODEL" => "page" \in task.got
<1>1. Ready
  BY DEF Ready, Done, TaskInv, TypeOK
<1>2. task \in TaskState /\ task.phase = p
  BY DEF TaskInv, TypeOK, Done
<1>3. /\ task.sent \in Nat /\ task.interpretRetries \in Nat
      /\ task.summaryRetries \in Nat
  BY <1>2 DEF TaskState, LimitAssumption
<1>4. task.sent <= Place(p) + task.interpretRetries + task.summaryRetries
  BY <1>2 DEF TaskInv, RequestsBounded
<1>5. p = "CALL_MODEL" => "page" \in task.got
  BY <1>2 DEF TaskInv, InOrder
<1> QED BY <1>1, <1>2, <1>3, <1>4, <1>5

LEMMA InterpretationFailedKeeps ==
    ASSUME LimitAssumption, TaskInv, NEW r, InterpretationFailed(r)
    PROVE  TaskInv'
<1> DEFINE t == Captured(r, "plan")
           u == [t EXCEPT !.interpretRetries = @ + 1]
<1>1. Done("INTERPRET_GOAL")
  BY DEF InterpretationFailed
<1>2. "plan" \in Origins /\ Place("INTERPRET_GOAL") = 1
  BY DEF Origins, Place
<1>3. /\ t \in TaskState /\ t.sent = task.sent
      /\ t.interpretRetries = task.interpretRetries
      /\ t.summaryRetries = task.summaryRetries
  BY <1>1, <1>2, DoneFacts, CapturedFacts
<1>4. \/ t.interpretRetries < MaxRetries /\ RequestInterpretation(u)
      \/ InterpretationFails(t)
  BY DEF InterpretationFailed, MayRetry
<1> HIDE DEF t
<1>5. CASE t.interpretRetries < MaxRetries /\ RequestInterpretation(u)
  <2>1. t.interpretRetries + 1 \in 0..MaxRetries
    BY <1>1, <1>3, <1>5, DoneFacts DEF LimitAssumption
  <2>2. /\ u \in TaskState /\ u.sent = t.sent
        /\ u.interpretRetries = t.interpretRetries + 1
        /\ u.summaryRetries = t.summaryRetries
    BY <1>3, <2>1 DEF TaskState
  <2>3. RequestInterpretation(u)
    BY <1>5
  <2> HIDE DEF u
  <2>4. Room(u, "INTERPRET_GOAL")
    BY <1>1, <1>2, <1>3, <2>2, DoneFacts DEF Room
  <2> QED BY <1>1, <2>2, <2>3, <2>4, DoneFacts, InterpretationKeeps
<1>6. CASE InterpretationFails(t)
  BY <1>1, <1>3, <1>6, DoneFacts, FailKeeps
<1> QED BY <1>4, <1>5, <1>6

LEMMA InterpretedKeeps ==
    ASSUME LimitAssumption, TaskInv, NEW r, NEW s \in BOOLEAN, NEW host \in BOOLEAN,
           Interpreted(r, s, host)
    PROVE  TaskInv'
<1> DEFINE t == Captured(r, "plan")
           a == {"summarize_text", "call_model"}
                \cup (IF host THEN {"fetch_url"} ELSE {})
                \cup (IF s THEN {"post_result"} ELSE {})
           u == [t EXCEPT !.sink = s, !.allows = a]
<1>1. Done("INTERPRET_GOAL")
  BY DEF Interpreted
<1>2. "plan" \in Origins /\ Place("INTERPRET_GOAL") = 1 /\ Place("FETCH_SOURCE") = 2
  BY DEF Origins, Place
<1>3. /\ t \in TaskState /\ t.sent = task.sent
      /\ t.interpretRetries = task.interpretRetries
      /\ t.summaryRetries = task.summaryRetries
  BY <1>1, <1>2, DoneFacts, CapturedFacts
<1>4. StartLocal(u, "M3") \/ InterpretationFails(t)
  BY DEF Interpreted
<1>5. a \subseteq Skills
  BY DEF Skills
<1> HIDE DEF t, a
<1>6. /\ u \in TaskState /\ u.sent = t.sent
      /\ u.interpretRetries = t.interpretRetries
      /\ u.summaryRetries = t.summaryRetries
  BY <1>3, <1>5 DEF TaskState
<1> HIDE DEF u
<1>7. Room(u, "FETCH_SOURCE")
  BY <1>1, <1>2, <1>3, <1>6, DoneFacts DEF Room
<1>8. CASE StartLocal(u, "M3")
  BY <1>1, <1>6, <1>7, <1>8, DoneFacts, LocalKeeps
<1>9. CASE InterpretationFails(t)
  BY <1>1, <1>3, <1>9, DoneFacts, FailKeeps
<1> QED BY <1>4, <1>8, <1>9

\* The task once a page came.
LEMMA PageFacts ==
    ASSUME LimitAssumption, TaskInv, NEW r, Done("FETCH_SOURCE"), NEW u,
           u = [Captured(r, "page") EXCEPT !.got = @ \cup {"page"}]
    PROVE  /\ u \in TaskState /\ "page" \in u.got /\ u.mode = task.mode
           /\ Room(u, "CALL_MODEL") /\ Room(u, "POST_RESULT")
<1> DEFINE t == Captured(r, "page")
<1>1. "page" \in Origins /\ Place("FETCH_SOURCE") = 2 /\ Place("CALL_MODEL") = 3
      /\ Place("POST_RESULT") = 4
  BY DEF Origins, Place
<1>2. /\ t \in TaskState /\ t.sent = task.sent /\ t.mode = task.mode
      /\ t.interpretRetries = task.interpretRetries
      /\ t.summaryRetries = task.summaryRetries
  BY <1>1, DoneFacts, CapturedFacts
<1> HIDE DEF t
<1>3. /\ u \in TaskState /\ u.sent = t.sent /\ "page" \in u.got /\ u.mode = t.mode
      /\ u.interpretRetries = t.interpretRetries
      /\ u.summaryRetries = t.summaryRetries
  <2>1. u = [t EXCEPT !.got = t.got \cup {"page"}]
    BY DEF t
  <2>2. t.got \cup {"page"} \in SUBSET {"page", "reply"}
    BY <1>2 DEF TaskState
  <2> QED BY <1>2, <2>1, <2>2 DEF TaskState
<1> QED BY <1>1, <1>2, <1>3, DoneFacts DEF Room

LEMMA GovernedSourceKeeps ==
    ASSUME LimitAssumption, TaskInv, NEW r, GovernedSourceDone(r)
    PROVE  TaskInv'
<1> DEFINE t == Captured(r, "page")
           w == [t EXCEPT !.summary = "none"]
           u == [t EXCEPT !.got = @ \cup {"page"}]
<1>1. Done("FETCH_SOURCE")
  BY DEF GovernedSourceDone
<1>2. "page" \in Origins /\ Place("FETCH_SOURCE") = 2 /\ Place("POST_RESULT") = 4
      /\ "FAILED" \in Kinds
  BY DEF Origins, Place, Kinds
<1>3. /\ u \in TaskState /\ "page" \in u.got
      /\ Room(u, "CALL_MODEL") /\ Room(u, "POST_RESULT")
  BY <1>1, PageFacts
<1>4. \/ TerminalPost(Broken(w), "FAILED")
      \/ TerminalPost(Denied(u, "call_model"), "REFUSED")
      \/ Request(Emptied([u EXCEPT !.asked = u.body]), "CALL_MODEL")
      \/ TerminalPost(Broken(Emptied([u EXCEPT !.asked = u.body])), "FAILED")
  BY DEF GovernedSourceDone
<1>5. CASE TerminalPost(Broken(w), "FAILED")
  <2>1. /\ t \in TaskState /\ t.sent = task.sent
        /\ t.interpretRetries = task.interpretRetries
        /\ t.summaryRetries = task.summaryRetries
    BY <1>1, <1>2, DoneFacts, CapturedFacts
  <2> HIDE DEF t
  <2>2. /\ w \in TaskState /\ w.sent = task.sent
        /\ w.interpretRetries = task.interpretRetries
        /\ w.summaryRetries = task.summaryRetries
    BY <2>1 DEF TaskState, Origins
  <2>3. TerminalPost(Broken(w), "FAILED")
    BY <1>5 DEF t
  <2> HIDE DEF w
  <2>4. Room(Broken(w), "POST_RESULT")
    BY <1>1, <1>2, <2>2, Builders, DoneFacts DEF Room
  <2> QED BY <1>1, <1>2, <2>2, <2>3, <2>4, Builders, DoneFacts, PostKeeps DEF Matching, Ready
<1>6. CASE \/ TerminalPost(Denied(u, "call_model"), "REFUSED")
           \/ Request(Emptied([u EXCEPT !.asked = u.body]), "CALL_MODEL")
           \/ TerminalPost(Broken(Emptied([u EXCEPT !.asked = u.body])), "FAILED")
  <2> HIDE DEF u
  <2> QED BY <1>1, <1>3, <1>6, DoneFacts, ModelKeeps
<1> QED BY <1>4, <1>5, <1>6

LEMMA SourceKeeps ==
    ASSUME LimitAssumption, TaskInv, NEW r, SourceDone(r)
    PROVE  TaskInv'
<1> DEFINE t == Captured(r, "page")
           u == [t EXCEPT !.got = @ \cup {"page"}]
           v == [u EXCEPT !.summary = u.body]
<1>1. Done("FETCH_SOURCE") /\ task.mode # "M1"
  BY DEF SourceDone
<1>2. "page" \in Origins /\ Place("FETCH_SOURCE") = 2 /\ Place("POST_RESULT") = 4
      /\ Kinds = {"NONE", "COMPLETED", "REFUSED", "FAILED"}
  BY DEF Origins, Place, Kinds
<1>3. /\ u \in TaskState /\ "page" \in u.got /\ u.mode = task.mode
      /\ Room(u, "CALL_MODEL") /\ Room(u, "POST_RESULT")
  BY <1>1, PageFacts
<1>4. \/ TerminalPost(Broken(t), "FAILED")
      \/ RequestSummary(u)
      \/ TerminalPost(Fine(v), "COMPLETED")
      \/ TerminalPost(Denied(u, "summarize_text"), "REFUSED")
  BY DEF SourceDone
<1>5. CASE TerminalPost(Broken(t), "FAILED")
  <2>1. /\ t \in TaskState /\ t.sent = task.sent
        /\ t.interpretRetries = task.interpretRetries
        /\ t.summaryRetries = task.summaryRetries
    BY <1>1, <1>2, DoneFacts, CapturedFacts
  <2> HIDE DEF t
  <2>2. Room(Broken(t), "POST_RESULT")
    BY <1>1, <1>2, <2>1, Builders, DoneFacts DEF Room
  <2> QED BY <1>1, <1>2, <1>5, <2>1, <2>2, Builders, DoneFacts, PostKeeps DEF Matching, Ready
<1> HIDE DEF u
<1>6. CASE RequestSummary(u)
  BY <1>1, <1>3, <1>6, DoneFacts, SummaryRequestKeeps
<1>7. CASE TerminalPost(Fine(v), "COMPLETED")
  <2>1. /\ v \in TaskState /\ v.sent = u.sent /\ v.got = u.got /\ v.mode = u.mode
        /\ v.interpretRetries = u.interpretRetries
        /\ v.summaryRetries = u.summaryRetries
    BY <1>3 DEF TaskState
  <2> HIDE DEF v
  <2>2. Room(Fine(v), "POST_RESULT") /\ Earned(Fine(v))
    BY <1>1, <1>3, <2>1, Builders DEF Room, Earned
  <2> QED BY <1>1, <1>2, <1>7, <2>1, <2>2, Builders, DoneFacts, PostKeeps DEF Matching, Ready
<1>8. CASE TerminalPost(Denied(u, "summarize_text"), "REFUSED")
  <2>1. Room(Denied(u, "summarize_text"), "POST_RESULT")
    BY <1>3, Builders DEF Room
  <2> QED BY <1>1, <1>2, <1>3, <1>8, <2>1, Builders, DoneFacts, PostKeeps DEF Matching, Ready
<1> QED BY <1>4, <1>5, <1>6, <1>7, <1>8

\* A model that answered: the task may be told to be complete.
LEMMA AnsweredKeeps ==
    ASSUME Ready, NEW t \in TaskState, "page" \in t.got, Room(t, "POST_RESULT"),
           TerminalPost(Answered(t), "COMPLETED")
    PROVE  TaskInv'
<1> DEFINE g == t.got \cup {"reply"}
           u == [t EXCEPT !.summary = t.asked, !.got = g]
<1>1. g \in SUBSET {"page", "reply"} /\ {"page", "reply"} \subseteq g
      /\ t.asked \in Origins
  BY DEF TaskState
<1> HIDE DEF g
<1>2. /\ u \in TaskState /\ u.sent = t.sent
      /\ u.got = g
      /\ u.interpretRetries = t.interpretRetries
      /\ u.summaryRetries = t.summaryRetries
  BY <1>1 DEF TaskState
<1>3. TerminalPost(Fine(u), "COMPLETED")
  BY DEF Answered, g
<1> HIDE DEF u
<1>4. Room(Fine(u), "POST_RESULT") /\ Earned(Fine(u))
  BY <1>1, <1>2, Builders DEF Room, Earned
<1>5. "COMPLETED" \in Kinds
  BY DEF Kinds
<1> QED BY <1>2, <1>3, <1>4, <1>5, Builders, PostKeeps DEF Matching, Ready

\* The task without a summary, once the model's response came.
LEMMA ReplyFacts ==
    ASSUME LimitAssumption, TaskInv, NEW r, Done("CALL_MODEL"), NEW t,
           \/ t = Captured(r, "reply")
           \/ t = [Captured(r, "reply") EXCEPT !.summary = "none"]
    PROVE  /\ t \in TaskState /\ "page" \in t.got
           /\ t.summaryRetries = task.summaryRetries
           /\ t.sent <= 3 + t.interpretRetries + t.summaryRetries
           /\ t.sent \in Nat /\ t.interpretRetries \in Nat /\ t.summaryRetries \in Nat
           /\ Room(t, "POST_RESULT")
<1> DEFINE c == Captured(r, "reply")
<1>1. "reply" \in Origins /\ Place("CALL_MODEL") = 3 /\ Place("POST_RESULT") = 4
  BY DEF Origins, Place
<1>2. /\ c \in TaskState /\ c.got = task.got /\ c.sent = task.sent
      /\ c.interpretRetries = task.interpretRetries
      /\ c.summaryRetries = task.summaryRetries
  BY <1>1, DoneFacts, CapturedFacts
<1>3. t = c \/ t = [c EXCEPT !.summary = "none"]
  OBVIOUS
<1> HIDE DEF c
<1>4. /\ t \in TaskState /\ t.got = c.got /\ t.sent = c.sent
      /\ t.interpretRetries = c.interpretRetries
      /\ t.summaryRetries = c.summaryRetries
  BY <1>2, <1>3 DEF TaskState, Origins
<1> QED BY <1>1, <1>2, <1>4, DoneFacts DEF Room

LEMMA GovernedModelKeeps ==
    ASSUME LimitAssumption, TaskInv, NEW r, GovernedModelDone(r)
    PROVE  TaskInv'
<1> DEFINE t == Captured(r, "reply")
           w == [t EXCEPT !.summary = "none"]
<1>1. Done("CALL_MODEL") /\ "FAILED" \in Kinds
  BY DEF GovernedModelDone, Kinds
<1>2. TerminalPost(Answered(t), "COMPLETED") \/ TerminalPost(Broken(w), "FAILED")
  BY DEF GovernedModelDone
<1>3. /\ t \in TaskState /\ "page" \in t.got /\ Room(t, "POST_RESULT")
      /\ w \in TaskState /\ Room(w, "POST_RESULT")
  BY <1>1, ReplyFacts
<1> HIDE DEF t, w
<1>4. CASE TerminalPost(Answered(t), "COMPLETED")
  BY <1>1, <1>3, <1>4, AnsweredKeeps, DoneFacts
<1>5. CASE TerminalPost(Broken(w), "FAILED")
  <2>1. Room(Broken(w), "POST_RESULT")
    BY <1>3, Builders DEF Room
  <2> QED BY <1>1, <1>3, <1>5, <2>1, Builders, DoneFacts, PostKeeps DEF Matching, Ready
<1> QED BY <1>2, <1>4, <1>5

LEMMA SummaryKeeps ==
    ASSUME LimitAssumption, TaskInv, NEW r, SummaryDone(r)
    PROVE  TaskInv'
<1> DEFINE c == Captured(r, "reply")
           t == [c EXCEPT !.summary = "none"]
           n == t.summaryRetries + 1
           u == [t EXCEPT !.summaryRetries = n]
<1>1. Done("CALL_MODEL") /\ "FAILED" \in Kinds /\ Place("CALL_MODEL") = 3
  BY DEF SummaryDone, Kinds, Place
<1>2. \/ TerminalPost(Answered(t), "COMPLETED")
      \/ t.summaryRetries < MaxRetries /\ RequestSummary(u)
      \/ TerminalPost(Broken(t), "FAILED")
  BY DEF SummaryDone, MayRetry, Retried
<1>3. /\ t \in TaskState /\ "page" \in t.got /\ Room(t, "POST_RESULT")
      /\ t.sent <= 3 + t.interpretRetries + t.summaryRetries
      /\ t.sent \in Nat /\ t.interpretRetries \in Nat /\ t.summaryRetries \in Nat
  BY <1>1, ReplyFacts
<1> HIDE DEF t
<1>4. CASE TerminalPost(Answered(t), "COMPLETED")
  BY <1>1, <1>3, <1>4, AnsweredKeeps, DoneFacts
<1>5. CASE t.summaryRetries < MaxRetries /\ RequestSummary(u)
  <2>1. n \in 0..MaxRetries /\ n = t.summaryRetries + 1
    BY <1>3, <1>5 DEF LimitAssumption
  <2>2. RequestSummary(u)
    BY <1>5
  <2> HIDE DEF n
  <2>3. /\ u \in TaskState /\ u.sent = t.sent /\ u.got = t.got
        /\ u.interpretRetries = t.interpretRetries
        /\ u.summaryRetries = n
    BY <1>3, <2>1 DEF TaskState
  <2> HIDE DEF u
  <2>4. Room(u, "CALL_MODEL")
    BY <1>1, <1>3, <2>1, <2>3 DEF Room
  <2> QED BY <1>1, <1>3, <2>2, <2>3, <2>4, DoneFacts, SummaryRequestKeeps
<1>6. CASE TerminalPost(Broken(t), "FAILED")
  <2>1. Room(Broken(t), "POST_RESULT")
    BY <1>3, Builders DEF Room
  <2> QED BY <1>1, <1>3, <1>6, <2>1, Builders, DoneFacts, PostKeeps DEF Matching, Ready
<1> QED BY <1>2, <1>4, <1>5, <1>6

LEMMA PostDoneKeeps ==
    ASSUME LimitAssumption, TaskInv, PostDone
    PROVE  TaskInv'
<1>1. Done("POST_RESULT") /\ Over(task, task.kind)
  BY DEF PostDone
<1>2. task \in TaskState /\ task.phase = "POST_RESULT" /\ Ready
  BY <1>1, DoneFacts
<1>3. task.kind \in Kinds
  BY <1>2 DEF TaskState
<1>4. task.kind = "COMPLETED" => Earned(task)
  BY <1>2 DEF TaskInv, InOrder
<1> QED BY <1>1, <1>2, <1>3, <1>4, OverKeeps DEF Ready

-----------------------------------------------------------------------------
(* A completed task is what it seems.  The argument needs where the bytes   *)
(* come from that a summary is made of, and when a task is denied a step;   *)
(* the types are those of TaskInv.                                          *)

\* What a task may make a summary of: never the interpreter's answer, and a
\* model's answer only in an M3 goal that retries the summary.
MayUse(t, o) ==
    o # "plan" /\ (o = "reply" => t.mode = "M3" /\ t.summaryRetries > 0)
Sourced(t) == MayUse(t, t.summary)

\* The buffer is empty when the page or the summary is asked for.
Honest ==
    /\ Sourced(task)
    /\ task.denied # {} => task.phase = "POST_RESULT" /\ task.kind # "COMPLETED"
    /\ task.phase \in {"FETCH_SOURCE", "CALL_MODEL"} => task.body = "none"
    /\ task.phase = "CALL_MODEL" => MayUse(task, task.asked)

Seems == CompletedAsItSeems /\ Honest

LEMMA RequestSeems ==
    ASSUME CompletedAsItSeems, NEW t \in TaskState, NEW p \in Phases, Sourced(t),
           t.denied # {} => p = "POST_RESULT" /\ t.kind # "COMPLETED",
           p \in {"FETCH_SOURCE", "CALL_MODEL"} => t.body = "none",
           p = "CALL_MODEL" => MayUse(t, t.asked),
           Request(t, p)
    PROVE  Seems'
<1>1. task' = [t EXCEPT !.phase = p, !.sent = @ + 1] /\ told' = told
  BY DEF Request
<1>2. /\ task'.phase = p /\ task'.kind = t.kind /\ task'.mode = t.mode
      /\ task'.summary = t.summary /\ task'.denied = t.denied
      /\ task'.body = t.body /\ task'.asked = t.asked
      /\ task'.summaryRetries = t.summaryRetries
  BY <1>1 DEF TaskState
<1>3. CompletedAsItSeems'
  BY <1>1 DEF CompletedAsItSeems
<1> QED BY <1>2, <1>3 DEF Seems, Honest, Sourced, MayUse

LEMMA OverSeems ==
    ASSUME NEW t \in TaskState, NEW k, Sourced(t),
           k = "COMPLETED" /\ t.denied # {} =>
               t.mode = "M1" /\ t.denied = {"post_result"},
           Over(t, k)
    PROVE  Seems'
<1>1. told' = Event(t, k) /\ task' = NoTask
  BY DEF Over
<1>2. CompletedAsItSeems'
  BY <1>1 DEF CompletedAsItSeems, Event, Sourced, MayUse
<1>3. Honest'
  BY <1>1 DEF Honest, Sourced, MayUse, NoTask
<1> QED BY <1>2, <1>3 DEF Seems

\* What the builders leave alone of all this.
LEMMA BuildersSeem ==
    ASSUME NEW t \in TaskState
    PROVE  /\ Broken(t).summary = t.summary /\ Broken(t).denied = t.denied
           /\ Fine(t).summary = t.summary /\ Fine(t).denied = t.denied
           /\ Fine(t).body = t.body /\ Fine(t).asked = t.asked
           /\ Emptied(t).summary = t.summary /\ Emptied(t).denied = t.denied
           /\ Emptied(t).body = "none" /\ Emptied(t).asked = t.asked
  BY DEF Broken, Fine, Emptied, TaskState

LEMMA DeniedSeems ==
    ASSUME NEW t \in TaskState, NEW s \in Skills, NEW d, d = Denied(t, s)
    PROVE  /\ d \in TaskState /\ d.summary = "none" /\ d.mode = t.mode
           /\ d.sent = t.sent /\ (t.denied = {} => d.denied = {s})
  BY DEF Denied, TaskState, Origins

LEMMA SourcedBuilders ==
    ASSUME NEW t \in TaskState, Sourced(t)
    PROVE  Sourced(Broken(t)) /\ Sourced(Fine(t)) /\ Sourced(Emptied(t))
<1>1. ASSUME NEW u \in {Broken(t), Fine(t), Emptied(t)}
      PROVE  /\ u.summary = t.summary /\ u.mode = t.mode
             /\ u.summaryRetries = t.summaryRetries
  BY DEF Broken, Fine, Emptied, TaskState
<1> QED BY <1>1 DEF Sourced, MayUse

LEMMA PostSeems ==
    ASSUME CompletedAsItSeems, NEW t \in TaskState, NEW k \in Kinds, Sourced(t),
           k = "COMPLETED" => t.denied = {},
           TerminalPost(t, k)
    PROVE  Seems'
<1>1. CASE Over(t, k)
  BY <1>1, OverSeems
<1>2. CASE t.mode = "M1" /\ Over(Denied(t, "post_result"), k)
  <2> DEFINE d == Denied(t, "post_result")
  <2>1. /\ d \in TaskState /\ d.mode = "M1" /\ d.summary = "none"
        /\ t.denied = {} => d.denied = {"post_result"}
    BY <1>2, DeniedSeems DEF Skills
  <2> HIDE DEF d
  <2>2. Sourced(d)
    BY <2>1 DEF Sourced, MayUse
  <2>3. Over(d, k)
    BY <1>2 DEF d
  <2> QED BY <2>1, <2>2, <2>3, OverSeems
<1>3. CASE Unposted(t, k)
  <2>1. /\ Broken(t) \in TaskState /\ Sourced(Broken(t))
        /\ Broken(t).denied = t.denied
    BY Builders, BuildersSeem, SourcedBuilders
  <2>2. Over(Broken(t), k)
    BY <1>3 DEF Unposted
  <2> QED BY <2>1, <2>2, OverSeems
<1>4. CASE Request([t EXCEPT !.kind = k], "POST_RESULT")
  <2> DEFINE u == [t EXCEPT !.kind = k]
  <2>1. /\ u \in TaskState /\ u.kind = k /\ u.summary = t.summary
        /\ u.denied = t.denied /\ u.mode = t.mode
        /\ u.summaryRetries = t.summaryRetries
    BY DEF TaskState
  <2>2. "POST_RESULT" \in Phases
    BY DEF Phases
  <2>3. Request(u, "POST_RESULT")
    BY <1>4
  <2> HIDE DEF u
  <2> QED BY <2>1, <2>2, <2>3, RequestSeems DEF Sourced, MayUse
<1> QED BY <1>1, <1>2, <1>3, <1>4 DEF TerminalPost

\* A task that is stopped before its page is asked for.
LEMMA StoppedSeems ==
    ASSUME CompletedAsItSeems, NEW t \in TaskState, Sourced(t),
           NEW s \in Skills, NEW k \in Kinds \ {"COMPLETED"},
           NEW u \in {t, Denied(t, s), Broken(t), Broken([t EXCEPT !.summary = "none"])},
           TerminalPost(u, k) \/ Over(u, k)
    PROVE  Seems'
<1> DEFINE w == [t EXCEPT !.summary = "none"]
<1>1. w \in TaskState /\ w.summary = "none" /\ w.mode = t.mode
  BY DEF TaskState, Origins
<1> HIDE DEF w
<1>2. u \in {t, Denied(t, s), Broken(t), Broken(w)}
  BY DEF w
<1>3. /\ Denied(t, s) \in TaskState /\ Broken(t) \in TaskState /\ Broken(w) \in TaskState
      /\ Denied(t, s).summary = "none" /\ Broken(w).summary = "none"
      /\ Sourced(Broken(t))
  <2>1. Denied(t, s) \in TaskState /\ Denied(t, s).summary = "none"
    BY DeniedSeems
  <2>2. Broken(t) \in TaskState /\ Sourced(Broken(t))
    BY Builders, SourcedBuilders
  <2>3. Broken(w) \in TaskState /\ Broken(w).summary = "none"
    BY <1>1, Builders, BuildersSeem
  <2> QED BY <2>1, <2>2, <2>3
<1>4. u \in TaskState /\ Sourced(u)
  BY <1>2, <1>3 DEF Sourced, MayUse
<1> QED BY <1>4, PostSeems, OverSeems

LEMMA GovernedSeems ==
    ASSUME CompletedAsItSeems, NEW t0 \in TaskState, t0.denied = {},
           t0.summary = "none", StartGoverned(t0)
    PROVE  Seems'
<1> DEFINE v == [t0 EXCEPT !.mode = "M1"]
           t == Fine(Emptied(v))
<1>1. v \in TaskState /\ v.summary = "none" /\ v.denied = {}
  BY DEF TaskState
<1>2. \/ TerminalPost(Denied(t, "fetch_url"), "REFUSED")
      \/ Request(t, "FETCH_SOURCE")
      \/ TerminalPost(Broken([t EXCEPT !.summary = "none"]), "FAILED")
  BY DEF StartGoverned
<1> HIDE DEF v
<1>3. t \in TaskState /\ t.summary = "none" /\ t.denied = {} /\ t.body = "none"
  <2>1. /\ Emptied(v) \in TaskState /\ Emptied(v).summary = "none"
        /\ Emptied(v).denied = {} /\ Emptied(v).body = "none"
    BY <1>1, Builders, BuildersSeem
  <2> QED BY <2>1, Builders, BuildersSeem
<1> HIDE DEF t
<1>4. {"REFUSED", "FAILED"} \subseteq Kinds \ {"COMPLETED"} /\ "FETCH_SOURCE" \in Phases
  BY DEF Kinds, Phases
<1>5. Sourced(t)
  BY <1>3 DEF Sourced, MayUse
<1>6. CASE Request(t, "FETCH_SOURCE")
  BY <1>3, <1>4, <1>5, <1>6, RequestSeems
<1> QED BY <1>2, <1>3, <1>4, <1>5, <1>6, StoppedSeems DEF Skills

LEMMA LocalSeems ==
    ASSUME CompletedAsItSeems, NEW t0 \in TaskState, t0.denied = {},
           NEW m \in {"M2", "M3"},
           t0.summary = "none" \/ (m = "M3" /\ Sourced(t0)), StartLocal(t0, m)
    PROVE  Seems'
<1> DEFINE v == [t0 EXCEPT !.mode = m]
           t == Fine(Emptied(v))
<1>1. /\ v \in TaskState /\ v.summary = t0.summary /\ v.mode = m /\ v.denied = {}
      /\ v.summaryRetries = t0.summaryRetries
  BY DEF TaskState
<1>2. \/ Over(Denied(t, "fetch_url"), "REFUSED")
      \/ Request(t, "FETCH_SOURCE")
      \/ Over(Broken([t EXCEPT !.summary = "none"]), "FAILED")
  BY DEF StartLocal
<1> HIDE DEF v
<1>3. t \in TaskState /\ Sourced(t) /\ t.denied = {} /\ t.body = "none"
  <2>1. Sourced(v)
    BY <1>1 DEF Sourced, MayUse
  <2>2. /\ Emptied(v) \in TaskState /\ Sourced(Emptied(v))
        /\ Emptied(v).denied = {} /\ Emptied(v).body = "none"
    BY <1>1, <2>1, Builders, BuildersSeem, SourcedBuilders
  <2> QED BY <2>2, Builders, BuildersSeem, SourcedBuilders
<1> HIDE DEF t
<1>4. {"REFUSED", "FAILED"} \subseteq Kinds \ {"COMPLETED"} /\ "FETCH_SOURCE" \in Phases
  BY DEF Kinds, Phases
<1>5. CASE Request(t, "FETCH_SOURCE")
  BY <1>3, <1>4, <1>5, RequestSeems
<1> QED BY <1>2, <1>3, <1>4, <1>5, StoppedSeems DEF Skills

LEMMA InterpretationFailsSeems ==
    ASSUME NEW t \in TaskState, Sourced(t), InterpretationFails(t)
    PROVE  Seems'
<1> DEFINE u == [t EXCEPT !.result = "refused"]
<1>1. u \in TaskState /\ Sourced(u)
  BY DEF TaskState, Sourced, MayUse
<1>2. Broken(t) \in TaskState /\ Sourced(Broken(t))
  BY Builders, SourcedBuilders
<1>3. Over(u, "REFUSED") \/ Over(Broken(t), "FAILED")
  BY DEF InterpretationFails
<1> HIDE DEF u
<1> QED BY <1>1, <1>2, <1>3, OverSeems

LEMMA InterpretationSeems ==
    ASSUME CompletedAsItSeems, NEW t \in TaskState, Sourced(t), t.denied = {},
           RequestInterpretation(t)
    PROVE  Seems'
<1> DEFINE u == [t EXCEPT !.result = "refused"]
           e == Emptied(t)
<1>1. u \in TaskState /\ Sourced(u)
  BY DEF TaskState, Sourced, MayUse
<1>2. e \in TaskState /\ Sourced(e) /\ e.denied = {} /\ "INTERPRET_GOAL" \in Phases
  BY Builders, BuildersSeem, SourcedBuilders DEF Phases
<1>3. Over(u, "REFUSED") \/ Request(e, "INTERPRET_GOAL") \/ InterpretationFails(e)
  BY DEF RequestInterpretation
<1> HIDE DEF u, e
<1> QED BY <1>1, <1>2, <1>3, OverSeems, RequestSeems, InterpretationFailsSeems

\* The request to the model, as in ModelKeeps, about the body.
LEMMA ModelSeems ==
    ASSUME CompletedAsItSeems, NEW t \in TaskState, Sourced(t), t.denied = {},
           MayUse(t, t.body),
           \/ TerminalPost(Denied(t, "call_model"), "REFUSED")
           \/ TerminalPost(Broken(t), "FAILED")
           \/ Request(Emptied([t EXCEPT !.asked = t.body]), "CALL_MODEL")
           \/ TerminalPost(Broken(Emptied([t EXCEPT !.asked = t.body])), "FAILED")
    PROVE  Seems'
<1> DEFINE a == [t EXCEPT !.asked = t.body]
           u == Emptied(a)
<1>1. /\ a \in TaskState /\ a.asked = t.body /\ a.summary = t.summary
      /\ a.mode = t.mode /\ a.denied = {} /\ a.summaryRetries = t.summaryRetries
  BY DEF TaskState
<1>2. \/ TerminalPost(Denied(t, "call_model"), "REFUSED")
      \/ TerminalPost(Broken(t), "FAILED")
      \/ Request(u, "CALL_MODEL")
      \/ TerminalPost(Broken(u), "FAILED")
  OBVIOUS
<1> HIDE DEF a
<1>3. /\ u \in TaskState /\ MayUse(u, u.asked) /\ Sourced(u) /\ u.denied = {}
      /\ u.body = "none"
  <2>1. /\ u \in TaskState /\ u.asked = a.asked /\ u.mode = a.mode
        /\ u.summary = a.summary /\ u.denied = a.denied
        /\ u.summaryRetries = a.summaryRetries /\ u.body = "none"
    BY <1>1, Builders, BuildersSeem
  <2> QED BY <1>1, <2>1 DEF Sourced, MayUse
<1> HIDE DEF u
<1>4. {"REFUSED", "FAILED"} \subseteq Kinds \ {"COMPLETED"} /\ "CALL_MODEL" \in Phases
  BY DEF Kinds, Phases
<1>5. CASE Request(u, "CALL_MODEL")
  BY <1>3, <1>4, <1>5, RequestSeems
<1> QED BY <1>2, <1>3, <1>4, <1>5, StoppedSeems DEF Skills

LEMMA LineSeems ==
    ASSUME LimitAssumption, CompletedAsItSeems, Line
    PROVE  Seems'
<1> DEFINE Blank(u) == u \in TaskState /\ u.denied = {} /\ u.summary = "none"
                       /\ u.body = "none"
<1>1. /\ {"FETCH_SOURCE", "INTERPRET_GOAL"} \subseteq Phases
      /\ "FAILED" \in Kinds \ {"COMPLETED"}
  BY DEF Phases, Kinds
<1>2. DefaultSteps \in Nat /\ Budgets \subseteq Nat /\ 0 \in 0..MaxRetries
  BY DEF LimitAssumption
<1>3. ASSUME NEW s \in BOOLEAN, TaskM0(s)
      PROVE  Seems'
  <2> DEFINE v == [NoTask EXCEPT !.mode = "M0", !.sink = s]
             t == Fine(v)
  <2>1. Blank(v)
    BY <1>2 DEF NoTask, TaskState, Phases, Kinds, Origins
  <2>2. Request(t, "FETCH_SOURCE") \/ Over(Broken(t), "FAILED")
    BY <1>3 DEF TaskM0
  <2> HIDE DEF v
  <2>3. Blank(t) /\ Sourced(t)
    BY <2>1, Builders, BuildersSeem DEF Sourced, MayUse
  <2> HIDE DEF t
  <2> QED BY <1>1, <2>2, <2>3, RequestSeems, StoppedSeems DEF Skills
<1>4. ASSUME NEW s \in BOOLEAN, NEW a \in SUBSET GovernedSkills, NEW b \in Budgets,
             TaskM1(s, a, b)
      PROVE  Seems'
  <2> DEFINE v == [NoTask EXCEPT !.sink = s, !.allows = a, !.budget = b]
  <2>1. Blank(v)
    BY <1>2 DEF NoTask, TaskState, Phases, Kinds, Origins, GovernedSkills, Skills
  <2>2. StartGoverned(v)
    BY <1>4 DEF TaskM1
  <2> HIDE DEF v
  <2> QED BY <2>1, <2>2, GovernedSeems
<1>5. ASSUME NEW a \in SUBSET GovernedSkills, GoalWithSink(a)
      PROVE  Seems'
  <2> DEFINE v == [NoTask EXCEPT !.sink = TRUE, !.allows = a, !.budget = DefaultSteps]
  <2>1. Blank(v)
    BY <1>2 DEF NoTask, TaskState, Phases, Kinds, Origins, GovernedSkills, Skills
  <2>2. StartGoverned(v)
    BY <1>5 DEF GoalWithSink
  <2> HIDE DEF v
  <2> QED BY <2>1, <2>2, GovernedSeems
<1>6. ASSUME NEW host \in BOOLEAN, GoalWithoutSink(host)
      PROVE  Seems'
  <2> DEFINE a == {"summarize_text"} \cup (IF host THEN {"fetch_url"} ELSE {})
             v == [NoTask EXCEPT !.budget = DefaultSteps, !.allows = a]
  <2>1. a \subseteq Skills
    BY DEF Skills
  <2>2. StartLocal(v, "M2")
    BY <1>6 DEF GoalWithoutSink
  <2> HIDE DEF a
  <2>3. Blank(v)
    BY <1>2, <2>1 DEF NoTask, TaskState, Phases, Kinds, Origins
  <2> HIDE DEF v
  <2> QED BY <2>2, <2>3, LocalSeems
<1>7. ASSUME GoalToInterpret
      PROVE  Seems'
  <2> DEFINE v == [NoTask EXCEPT !.mode = "M3", !.budget = DefaultSteps]
  <2>1. Blank(v)
    BY <1>2 DEF NoTask, TaskState, Phases, Kinds, Origins, Skills
  <2>2. RequestInterpretation(v)
    BY <1>7 DEF GoalToInterpret
  <2> HIDE DEF v
  <2>3. Sourced(v)
    BY <2>1 DEF Sourced, MayUse
  <2> QED BY <2>1, <2>2, <2>3, InterpretationSeems
<1> QED BY <1>3, <1>4, <1>5, <1>6, <1>7 DEF Line

\* What a handler finds when a fetch before the post is done.
LEMMA DoneSeems ==
    ASSUME TypeOK, Seems, NEW p \in Phases \ {"POST_RESULT"}, Done(p),
           NEW r, NEW o \in Origins, NEW t, t = Captured(r, o)
    PROVE  /\ CompletedAsItSeems /\ t \in TaskState /\ Sourced(t) /\ t.denied = {}
           /\ t.mode = task.mode /\ t.asked = task.asked /\ t.summary = task.summary
           /\ t.summaryRetries = task.summaryRetries
           /\ p \in {"FETCH_SOURCE", "CALL_MODEL"} => t.body \in {"none", o}
           /\ p = "CALL_MODEL" => MayUse(t, t.asked)
<1>1. task \in TaskState /\ task.phase = p
  BY DEF TypeOK, Done
<1>2. /\ t \in TaskState /\ t.mode = task.mode /\ t.asked = task.asked
      /\ t.summary = task.summary /\ t.denied = task.denied
      /\ t.body \in {task.body, o} /\ t.summaryRetries = task.summaryRetries
  BY <1>1 DEF Captured, TaskState, Origins
<1> QED BY <1>1, <1>2 DEF Seems, Honest, Sourced, MayUse

LEMMA InterpretationFailedSeems ==
    ASSUME LimitAssumption, TypeOK, Seems, NEW r, InterpretationFailed(r)
    PROVE  Seems'
<1> DEFINE t == Captured(r, "plan")
           n == t.interpretRetries + 1
           u == [t EXCEPT !.interpretRetries = n]
<1>1. Done("INTERPRET_GOAL") /\ "INTERPRET_GOAL" \in Phases \ {"POST_RESULT"}
      /\ "plan" \in Origins
  BY DEF InterpretationFailed, Phases, Origins
<1>2. CompletedAsItSeems /\ t \in TaskState /\ Sourced(t) /\ t.denied = {}
  BY <1>1, DoneSeems
<1>3. \/ t.interpretRetries < MaxRetries /\ RequestInterpretation(u)
      \/ InterpretationFails(t)
  BY DEF InterpretationFailed, MayRetry
<1> HIDE DEF t
<1>4. CASE t.interpretRetries < MaxRetries /\ RequestInterpretation(u)
  <2>1. t.interpretRetries \in 0..MaxRetries
    BY <1>2 DEF TaskState
  <2>2. n \in 0..MaxRetries
    BY <1>4, <2>1 DEF LimitAssumption
  <2>3. RequestInterpretation(u)
    BY <1>4
  <2> HIDE DEF n
  <2>4. /\ u \in TaskState /\ u.summary = t.summary /\ u.mode = t.mode
        /\ u.denied = {} /\ u.summaryRetries = t.summaryRetries
    BY <1>2, <2>2 DEF TaskState
  <2> HIDE DEF u
  <2> QED BY <1>2, <2>3, <2>4, InterpretationSeems DEF Sourced, MayUse
<1>5. CASE InterpretationFails(t)
  BY <1>2, <1>5, InterpretationFailsSeems
<1> QED BY <1>3, <1>4, <1>5

LEMMA InterpretedSeems ==
    ASSUME TypeOK, Seems, NEW r, NEW s \in BOOLEAN, NEW host \in BOOLEAN,
           Interpreted(r, s, host)
    PROVE  Seems'
<1> DEFINE t == Captured(r, "plan")
           a == {"summarize_text", "call_model"}
                \cup (IF host THEN {"fetch_url"} ELSE {})
                \cup (IF s THEN {"post_result"} ELSE {})
           v == [t EXCEPT !.sink = s, !.allows = a]
<1>1. Done("INTERPRET_GOAL") /\ "INTERPRET_GOAL" \in Phases \ {"POST_RESULT"}
      /\ "plan" \in Origins
  BY DEF Interpreted, Phases, Origins
<1>2. CompletedAsItSeems /\ t \in TaskState /\ Sourced(t) /\ t.denied = {}
  BY <1>1, DoneSeems
<1>3. StartLocal(v, "M3") \/ InterpretationFails(t)
  BY DEF Interpreted
<1>4. a \subseteq Skills
  BY DEF Skills
<1> HIDE DEF t, a
<1>5. /\ v \in TaskState /\ v.denied = {} /\ v.summary = t.summary
      /\ v.mode = t.mode /\ v.summaryRetries = t.summaryRetries
  BY <1>2, <1>4 DEF TaskState
<1> HIDE DEF v
<1>6. Sourced(v)
  BY <1>2, <1>5 DEF Sourced, MayUse
<1> QED BY <1>2, <1>3, <1>5, <1>6, LocalSeems, InterpretationFailsSeems

LEMMA GovernedSourceSeems ==
    ASSUME TypeOK, Seems, NEW r, GovernedSourceDone(r)
    PROVE  Seems'
<1> DEFINE t == Captured(r, "page")
           g == t.got \cup {"page"}
           u == [t EXCEPT !.got = g]
<1>1. /\ Done("FETCH_SOURCE") /\ "FETCH_SOURCE" \in Phases \ {"POST_RESULT"}
      /\ "page" \in Origins /\ "FAILED" \in Kinds \ {"COMPLETED"}
  BY DEF GovernedSourceDone, Phases, Origins, Kinds
<1>2. /\ CompletedAsItSeems /\ t \in TaskState /\ Sourced(t) /\ t.denied = {}
      /\ t.body \in {"none", "page"}
  BY <1>1, DoneSeems
<1>3. \/ TerminalPost(Broken([t EXCEPT !.summary = "none"]), "FAILED")
      \/ TerminalPost(Denied(u, "call_model"), "REFUSED")
      \/ Request(Emptied([u EXCEPT !.asked = u.body]), "CALL_MODEL")
      \/ TerminalPost(Broken(Emptied([u EXCEPT !.asked = u.body])), "FAILED")
  BY DEF GovernedSourceDone
<1> HIDE DEF t
<1>4. g \in SUBSET {"page", "reply"}
  BY <1>2 DEF TaskState
<1> HIDE DEF g
<1>5. /\ u \in TaskState /\ u.mode = t.mode /\ u.body = t.body
      /\ u.summary = t.summary /\ u.denied = {} /\ u.summaryRetries = t.summaryRetries
  BY <1>2, <1>4 DEF TaskState
<1> HIDE DEF u
<1>6. CASE TerminalPost(Broken([t EXCEPT !.summary = "none"]), "FAILED")
  BY <1>1, <1>2, <1>6, StoppedSeems DEF Skills
<1>7. Sourced(u) /\ MayUse(u, u.body)
  BY <1>2, <1>5 DEF Sourced, MayUse
<1> QED BY <1>2, <1>3, <1>5, <1>6, <1>7, ModelSeems

LEMMA SourceSeems ==
    ASSUME TypeOK, Seems, NEW r, SourceDone(r)
    PROVE  Seems'
<1> DEFINE t == Captured(r, "page")
           g == t.got \cup {"page"}
           u == [t EXCEPT !.got = g]
           v == [u EXCEPT !.summary = u.body]
<1>1. /\ Done("FETCH_SOURCE") /\ "FETCH_SOURCE" \in Phases \ {"POST_RESULT"}
      /\ "page" \in Origins /\ "COMPLETED" \in Kinds
      /\ {"REFUSED", "FAILED"} \subseteq Kinds \ {"COMPLETED"}
  BY DEF SourceDone, Phases, Origins, Kinds
<1>2. /\ CompletedAsItSeems /\ t \in TaskState /\ Sourced(t) /\ t.denied = {}
      /\ t.body \in {"none", "page"}
  BY <1>1, DoneSeems
<1>3. \/ TerminalPost(Broken(t), "FAILED")
      \/ RequestSummary(u)
      \/ TerminalPost(Fine(v), "COMPLETED")
      \/ TerminalPost(Denied(u, "summarize_text"), "REFUSED")
  BY DEF SourceDone
<1> HIDE DEF t
<1>4. g \in SUBSET {"page", "reply"}
  BY <1>2 DEF TaskState
<1> HIDE DEF g
<1>5. /\ u \in TaskState /\ u.mode = t.mode /\ u.body = t.body
      /\ u.summary = t.summary /\ u.denied = {} /\ u.summaryRetries = t.summaryRetries
  BY <1>2, <1>4 DEF TaskState
<1> HIDE DEF u
<1>6. Sourced(u) /\ MayUse(u, u.body)
  BY <1>2, <1>5 DEF Sourced, MayUse
<1>7. CASE TerminalPost(Broken(t), "FAILED")
  BY <1>1, <1>2, <1>7, StoppedSeems DEF Skills
<1>8. CASE RequestSummary(u)
  BY <1>2, <1>5, <1>6, <1>8, ModelSeems DEF RequestSummary
<1>9. CASE TerminalPost(Fine(v), "COMPLETED")
  <2>1. /\ v \in TaskState /\ v.summary = u.body /\ v.mode = u.mode /\ v.denied = {}
        /\ v.summaryRetries = u.summaryRetries
    BY <1>5 DEF TaskState
  <2> HIDE DEF v
  <2>2. Sourced(v)
    BY <1>6, <2>1 DEF Sourced, MayUse
  <2>3. Fine(v) \in TaskState /\ Fine(v).denied = {} /\ Sourced(Fine(v))
    BY <2>1, <2>2, Builders, BuildersSeem, SourcedBuilders
  <2> QED BY <1>1, <1>2, <1>9, <2>3, PostSeems
<1>10. CASE TerminalPost(Denied(u, "summarize_text"), "REFUSED")
  BY <1>1, <1>2, <1>5, <1>6, <1>10, StoppedSeems DEF Skills
<1> QED BY <1>3, <1>7, <1>8, <1>9, <1>10

\* The answer of a model is of what the request was about.
LEMMA AnsweredSeems ==
    ASSUME CompletedAsItSeems, NEW t \in TaskState, t.denied = {},
           MayUse(t, t.asked), TerminalPost(Answered(t), "COMPLETED")
    PROVE  Seems'
<1> DEFINE g == t.got \cup {"reply"}
           u == [t EXCEPT !.summary = t.asked, !.got = g]
<1>1. g \in SUBSET {"page", "reply"} /\ t.asked \in Origins /\ "COMPLETED" \in Kinds
  BY DEF TaskState, Kinds
<1> HIDE DEF g
<1>2. /\ u \in TaskState /\ u.summary = t.asked /\ u.mode = t.mode /\ u.denied = {}
      /\ u.summaryRetries = t.summaryRetries
  BY <1>1 DEF TaskState
<1>3. TerminalPost(Fine(u), "COMPLETED")
  BY DEF Answered, g
<1> HIDE DEF u
<1>4. Sourced(u)
  BY <1>2 DEF Sourced, MayUse
<1>5. Fine(u) \in TaskState /\ Fine(u).denied = {} /\ Sourced(Fine(u))
  BY <1>2, <1>4, Builders, BuildersSeem, SourcedBuilders
<1> QED BY <1>1, <1>3, <1>5, PostSeems

LEMMA GovernedModelSeems ==
    ASSUME TypeOK, Seems, NEW r, GovernedModelDone(r)
    PROVE  Seems'
<1> DEFINE t == Captured(r, "reply")
<1>1. /\ Done("CALL_MODEL") /\ "CALL_MODEL" \in Phases \ {"POST_RESULT"}
      /\ "reply" \in Origins /\ "FAILED" \in Kinds \ {"COMPLETED"}
  BY DEF GovernedModelDone, Phases, Origins, Kinds
<1>2. /\ CompletedAsItSeems /\ t \in TaskState /\ Sourced(t) /\ t.denied = {}
      /\ MayUse(t, t.asked)
  BY <1>1, DoneSeems
<1>3. \/ TerminalPost(Answered(t), "COMPLETED")
      \/ TerminalPost(Broken([t EXCEPT !.summary = "none"]), "FAILED")
  BY DEF GovernedModelDone
<1> HIDE DEF t
<1> QED BY <1>1, <1>2, <1>3, AnsweredSeems, StoppedSeems DEF Skills

LEMMA SummarySeems ==
    ASSUME LimitAssumption, TypeOK, Seems, NEW r, SummaryDone(r)
    PROVE  Seems'
<1> DEFINE c == Captured(r, "reply")
           t == [c EXCEPT !.summary = "none"]
           n == t.summaryRetries + 1
           u == [t EXCEPT !.summaryRetries = n]
<1>1. /\ Done("CALL_MODEL") /\ task.mode = "M3"
      /\ "CALL_MODEL" \in Phases \ {"POST_RESULT"}
      /\ "reply" \in Origins /\ "FAILED" \in Kinds \ {"COMPLETED"}
  BY DEF SummaryDone, Phases, Origins, Kinds
<1>2. /\ CompletedAsItSeems /\ c \in TaskState /\ c.denied = {} /\ c.mode = "M3"
      /\ MayUse(c, c.asked) /\ c.body \in {"none", "reply"}
  BY <1>1, DoneSeems
<1>3. \/ TerminalPost(Answered(t), "COMPLETED")
      \/ t.summaryRetries < MaxRetries /\ RequestSummary(u)
      \/ TerminalPost(Broken(t), "FAILED")
  BY DEF SummaryDone, MayRetry, Retried
<1> HIDE DEF c
<1>4. /\ t \in TaskState /\ t.denied = {} /\ t.mode = "M3" /\ Sourced(t)
      /\ MayUse(t, t.asked) /\ t.body \in {"none", "reply"}
  <2>1. /\ t \in TaskState /\ t.denied = {} /\ t.mode = "M3" /\ t.summary = "none"
        /\ t.asked = c.asked /\ t.body = c.body
        /\ t.summaryRetries = c.summaryRetries
    BY <1>2 DEF TaskState, Origins
  <2> QED BY <1>2, <2>1 DEF Sourced, MayUse
<1> HIDE DEF t
<1>5. CASE TerminalPost(Answered(t), "COMPLETED")
  BY <1>2, <1>4, <1>5, AnsweredSeems
<1>6. CASE t.summaryRetries < MaxRetries /\ RequestSummary(u)
  <2>1. t.summaryRetries \in 0..MaxRetries
    BY <1>4 DEF TaskState
  <2>2. n \in 0..MaxRetries /\ n > 0
    BY <1>6, <2>1 DEF LimitAssumption
  <2>3. RequestSummary(u)
    BY <1>6
  <2> HIDE DEF n
  <2>4. /\ u \in TaskState /\ u.denied = {} /\ u.mode = "M3" /\ u.summaryRetries = n
        /\ u.summary = t.summary /\ u.body = t.body
    BY <1>4, <2>2 DEF TaskState
  <2> HIDE DEF u
  <2>5. Sourced(u) /\ MayUse(u, u.body)
    BY <1>4, <2>2, <2>4 DEF Sourced, MayUse
  <2> QED BY <1>2, <2>3, <2>4, <2>5, ModelSeems DEF RequestSummary
<1>7. CASE TerminalPost(Broken(t), "FAILED")
  BY <1>1, <1>2, <1>4, <1>7, StoppedSeems DEF Skills
<1> QED BY <1>3, <1>5, <1>6, <1>7

LEMMA PostDoneSeems ==
    ASSUME TypeOK, Seems, PostDone
    PROVE  Seems'
BY OverSeems DEF PostDone, TypeOK, Seems, Honest

LEMMA SeemsInit == LimitAssumption /\ Init => Seems
BY DEF Init, NoTask, Event, Seems, CompletedAsItSeems, Honest, Sourced, MayUse

LEMMA SeemsNext == LimitAssumption /\ TypeOK /\ Seems /\ [Next]_vars => Seems'
<1> SUFFICES ASSUME LimitAssumption, TypeOK, Seems, [Next]_vars PROVE Seems'
  OBVIOUS
<1>1. ASSUME Line PROVE Seems'
  BY <1>1, LineSeems DEF Seems
<1>2. ASSUME FetchDone PROVE Seems'
  BY <1>2, InterpretationFailedSeems, InterpretedSeems, GovernedSourceSeems,
     SourceSeems, GovernedModelSeems, SummarySeems, PostDoneSeems DEF FetchDone
<1>3. ASSUME SetKey \/ OtherStarts \/ OtherEnds \/ UNCHANGED vars PROVE Seems'
  <2>1. task' = task /\ told' = told
    BY <1>3 DEF SetKey, OtherStarts, OtherEnds, vars
  <2> QED BY <2>1 DEF Seems, CompletedAsItSeems, Honest, Sourced, MayUse
<1> QED BY <1>1, <1>2, <1>3 DEF Next

-----------------------------------------------------------------------------
(* The theorems. *)

LEMMA TaskInvInit == LimitAssumption /\ Init => TaskInv
<1> SUFFICES ASSUME LimitAssumption, Init PROVE TaskInv
  OBVIOUS
<1>1. NoTask \in TaskState
  BY DEF NoTask, TaskState, Skills, Phases, Kinds, Origins, LimitAssumption
<1>2. Event(NoTask, "NONE") \in TerminalEvent
  BY <1>1 DEF Event, TerminalEvent, TaskState, Kinds
<1>3. NoTask.phase = "IDLE" /\ NoTask.sent = 0 /\ NoTask.interpretRetries = 0
      /\ NoTask.summaryRetries = 0 /\ Event(NoTask, "NONE").kind = "NONE"
  BY DEF NoTask, Event
<1> QED BY <1>1, <1>2, <1>3 DEF Init, TaskInv, TypeOK, TaskHasFetch, active,
          PayloadTrue, CompletedIsEarned, RequestsBounded, Place, InOrder

LEMMA TaskInvNext == LimitAssumption /\ TaskInv /\ [Next]_vars => TaskInv'
<1> SUFFICES ASSUME LimitAssumption, TaskInv, [Next]_vars PROVE TaskInv'
  OBVIOUS
<1>1. ASSUME Line PROVE TaskInv'
  <2>1. keyReady' = keyReady
    BY <1>1 DEF Line, TaskM0, TaskM1, GoalWithSink, GoalWithoutSink, GoalToInterpret
  <2>2. Ready
    BY <2>1 DEF Ready, TaskInv, TypeOK
  <2> QED BY <1>1, <2>2, LineKeeps
<1>2. ASSUME FetchDone PROVE TaskInv'
  BY <1>2, InterpretationFailedKeeps, InterpretedKeeps, GovernedSourceKeeps,
     SourceKeeps, GovernedModelKeeps, SummaryKeeps, PostDoneKeeps DEF FetchDone
<1>3. ASSUME SetKey PROVE TaskInv'
  <2>1. task' = task /\ fetch' = fetch /\ told' = told /\ keyReady' \in BOOLEAN
    BY <1>3 DEF SetKey, TaskInv, TypeOK
  <2> QED BY <2>1 DEF TaskInv, TypeOK, TaskHasFetch, active, PayloadTrue,
            CompletedIsEarned, RequestsBounded, InOrder
<1>4. ASSUME OtherStarts \/ OtherEnds PROVE TaskInv'
  <2>1. /\ task' = task /\ told' = told /\ keyReady' = keyReady
        /\ fetch # "task" /\ fetch' \in {"idle", "other"}
    BY <1>4 DEF OtherStarts, OtherEnds
  <2> QED BY <2>1 DEF TaskInv, TypeOK, TaskHasFetch, active, PayloadTrue,
            CompletedIsEarned, RequestsBounded, InOrder
<1>5. ASSUME UNCHANGED vars PROVE TaskInv'
  BY <1>5 DEF vars, TaskInv, TypeOK, TaskHasFetch, active, PayloadTrue,
     CompletedIsEarned, RequestsBounded, InOrder
<1> QED BY <1>1, <1>2, <1>3, <1>4, <1>5 DEF Next

\* The inductive invariant holds in every reachable state of the pipelines.
THEOREM Invariant == Spec => []TaskInv
<1>1. LimitAssumption /\ Init => TaskInv
  BY TaskInvInit
<1>2. LimitAssumption /\ TaskInv /\ [Next]_vars => TaskInv'
  BY TaskInvNext
<1> QED BY <1>1, <1>2, LimitAssumption, PTL DEF Spec

\* The static variables of task.rs, goal.rs and skill.rs keep their types; the
\* retry counters never exceed their limit.
THEOREM TypeCorrect == Spec => []TypeOK
BY Invariant, PTL DEF TaskInv

\* Every handler that leaves a task active has started its next fetch, and
\* every one that ends it leaves the engine idle.
THEOREM TaskAlwaysHasFetch == Spec => []TaskHasFetch
BY Invariant, PTL DEF TaskInv

\* The payload on its way to the sink and the terminal event that
\* agent_emit_terminal_event will tell agree.
THEOREM PayloadAlwaysTrue == Spec => []PayloadTrue
BY Invariant, PTL DEF TaskInv

\* goal_completed is told only of a task whose page came, and of a governed one
\* only when its model answered.
THEOREM CompletedIsAlwaysEarned == Spec => []CompletedIsEarned
BY Invariant, PTL DEF TaskInv

\* No answers, of whatever kind, make a task send more requests than it has
\* phases and retries.
THEOREM RequestsAreBounded == Spec => []RequestsBounded
BY Invariant, PTL DEF TaskInv

\* A task told to be complete (agent_emit_terminal_event) was denied no step
\* but the post of a governed one, its summary is never the interpreter's
\* answer, and it is a model's failed answer only when the summary of an M3
\* goal was retried, so without its page.
THEOREM CompletedAlwaysAsItSeems == Spec => []CompletedAsItSeems
<1>1. LimitAssumption /\ Init => Seems
  BY SeemsInit
<1>2. LimitAssumption /\ TypeOK /\ Seems /\ [Next]_vars => Seems'
  BY SeemsNext
<1>3. Spec => []TypeOK
  BY TypeCorrect
<1> QED BY <1>1, <1>2, <1>3, LimitAssumption, PTL DEF Spec, Seems

-----------------------------------------------------------------------------
(* What TaskEnds rests on beside the fairness of the engine. *)

\* A task at t goes on with one more request, or it is over.
GoesOn(t) == task'.phase = "IDLE" \/ task'.sent = t.sent + 1

MostRequests == 4 + 2 * MaxRetries

Advances ==
    /\ FetchDone => ~active' \/ task.sent < task'.sent
    /\ active /\ ~FetchDone => UNCHANGED task
    /\ task'.sent <= MostRequests

LEMMA RequestGoesOn ==
    ASSUME NEW t \in TaskState, NEW p, Request(t, p)
    PROVE  GoesOn(t)
BY DEF Request, GoesOn, TaskState

LEMMA OverGoesOn ==
    ASSUME NEW t, NEW k, NEW v, Over(t, k)
    PROVE  GoesOn(v)
BY DEF Over, NoTask, GoesOn

LEMMA PostGoesOn ==
    ASSUME NEW t \in TaskState, NEW k \in Kinds, TerminalPost(t, k)
    PROVE  GoesOn(t)
<1>1. CASE Request([t EXCEPT !.kind = k], "POST_RESULT")
  <2> DEFINE u == [t EXCEPT !.kind = k]
  <2>1. u \in TaskState /\ u.sent = t.sent
    BY DEF TaskState
  <2> HIDE DEF u
  <2>2. Request(u, "POST_RESULT")
    BY <1>1 DEF u
  <2> QED BY <2>1, <2>2, RequestGoesOn DEF GoesOn
<1> QED BY <1>1, OverGoesOn DEF TerminalPost, Unposted

LEMMA LocalGoesOn ==
    ASSUME NEW t0 \in TaskState, NEW m \in {"M2", "M3"}, StartLocal(t0, m)
    PROVE  GoesOn(t0)
<1> DEFINE v == [t0 EXCEPT !.mode = m]
           t == Fine(Emptied(v))
<1>1. v \in TaskState /\ v.sent = t0.sent
  BY DEF TaskState
<1>2. StartLocal(t0, m) <=>
        \/ ~Allowed(t, "fetch_url") /\ Over(Denied(t, "fetch_url"), "REFUSED")
        \/ /\ Allowed(t, "fetch_url")
           /\ \/ Request(t, "FETCH_SOURCE")
              \/ Over(Broken([t EXCEPT !.summary = "none"]), "FAILED")
  BY DEF StartLocal
<1> HIDE DEF v
<1>3. t \in TaskState /\ t.sent = t0.sent
  BY <1>1, Builders
<1> HIDE DEF t
<1>4. CASE Request(t, "FETCH_SOURCE")
  BY <1>3, <1>4, RequestGoesOn DEF GoesOn
<1> QED BY <1>2, <1>4, OverGoesOn

LEMMA InterpretationGoesOn ==
    ASSUME NEW t \in TaskState, RequestInterpretation(t)
    PROVE  GoesOn(t)
<1>1. Emptied(t) \in TaskState /\ Emptied(t).sent = t.sent
  BY Builders
<1>2. CASE Request(Emptied(t), "INTERPRET_GOAL")
  BY <1>1, <1>2, RequestGoesOn DEF GoesOn
<1> QED BY <1>2, OverGoesOn DEF RequestInterpretation, InterpretationFails

\* The model is called about the body, which is emptied then.
LEMMA ModelGoesOn ==
    ASSUME NEW t \in TaskState, NEW u, u = Emptied([t EXCEPT !.asked = t.body]),
           Request(u, "CALL_MODEL") \/ TerminalPost(Broken(u), "FAILED")
    PROVE  GoesOn(t)
<1> DEFINE v == [t EXCEPT !.asked = t.body]
<1>1. v \in TaskState /\ v.sent = t.sent
  BY DEF TaskState
<1> HIDE DEF v
<1>2. u \in TaskState /\ u.sent = t.sent
  BY <1>1, Builders DEF v
<1>3. Broken(u) \in TaskState /\ Broken(u).sent = t.sent
  BY <1>2, Builders
<1>4. CASE Request(u, "CALL_MODEL")
  BY <1>2, <1>4, RequestGoesOn DEF GoesOn
<1>5. CASE TerminalPost(Broken(u), "FAILED")
  BY <1>3, <1>5, PostGoesOn DEF GoesOn, Kinds
<1> QED BY <1>4, <1>5

LEMMA StoppedGoesOn ==
    ASSUME NEW t \in TaskState, NEW s \in Skills,
           \/ TerminalPost(Denied(t, s), "REFUSED") \/ TerminalPost(Broken(t), "FAILED")
    PROVE  GoesOn(t)
<1>1. /\ Denied(t, s) \in TaskState /\ Denied(t, s).sent = t.sent
      /\ Broken(t) \in TaskState /\ Broken(t).sent = t.sent
  BY Builders, DeniedSeems
<1> QED BY <1>1, PostGoesOn DEF GoesOn, Kinds

LEMMA SummaryRequestGoesOn ==
    ASSUME NEW t \in TaskState, RequestSummary(t)
    PROVE  GoesOn(t)
<1>1. \/ TerminalPost(Denied(t, "call_model"), "REFUSED") \/ TerminalPost(Broken(t), "FAILED")
      \/ \E u : /\ u = Emptied([t EXCEPT !.asked = t.body])
                /\ Request(u, "CALL_MODEL") \/ TerminalPost(Broken(u), "FAILED")
  BY DEF RequestSummary
<1> QED BY <1>1, ModelGoesOn, StoppedGoesOn DEF Skills

LEMMA InterpretingGoesOn ==
    ASSUME LimitAssumption, TaskInv, NEW r,
           \/ InterpretationFailed(r)
           \/ \E s, host \in BOOLEAN : Interpreted(r, s, host)
    PROVE  GoesOn(task)
<1> DEFINE t == Captured(r, "plan")
<1>1. Done("INTERPRET_GOAL")
  BY DEF InterpretationFailed, Interpreted
<1>2. t \in TaskState /\ t.sent = task.sent /\ t.interpretRetries \in Nat
  BY <1>1, DoneFacts, CapturedFacts DEF Origins
<1>3. \/ /\ t.interpretRetries < MaxRetries
         /\ RequestInterpretation([t EXCEPT !.interpretRetries = t.interpretRetries + 1])
      \/ InterpretationFails(t)
      \/ \E s, host \in BOOLEAN, a \in SUBSET Skills :
             StartLocal([t EXCEPT !.sink = s, !.allows = a], "M3")
  <2>1. CASE InterpretationFailed(r)
    BY <2>1 DEF InterpretationFailed, MayRetry
  <2>2. ASSUME NEW s \in BOOLEAN, NEW host \in BOOLEAN, Interpreted(r, s, host)
        PROVE  \/ InterpretationFails(t)
               \/ \E a \in SUBSET Skills :
                    StartLocal([t EXCEPT !.sink = s, !.allows = a], "M3")
    <3> DEFINE a == {"summarize_text", "call_model"}
                    \cup (IF host THEN {"fetch_url"} ELSE {})
                    \cup (IF s THEN {"post_result"} ELSE {})
    <3>1. a \in SUBSET Skills
      BY DEF Skills
    <3>2. \/ InterpretationFails(t)
          \/ StartLocal([t EXCEPT !.sink = s, !.allows = a], "M3")
      BY <2>2 DEF Interpreted
    <3> HIDE DEF a, t
    <3> QED BY <3>1, <3>2
  <2> QED BY <2>1, <2>2
<1> HIDE DEF t
<1>4. ASSUME t.interpretRetries < MaxRetries,
             RequestInterpretation([t EXCEPT !.interpretRetries = t.interpretRetries + 1])
      PROVE  GoesOn(task)
  <2> DEFINE n == t.interpretRetries + 1
             u == [t EXCEPT !.interpretRetries = n]
  <2>1. n \in 0..MaxRetries
    BY <1>2, <1>4 DEF LimitAssumption
  <2> HIDE DEF n
  <2>2. u \in TaskState /\ u.sent = t.sent
    BY <1>2, <2>1 DEF TaskState
  <2> HIDE DEF u
  <2>3. RequestInterpretation(u)
    BY <1>4 DEF u, n
  <2> QED BY <1>2, <2>2, <2>3, InterpretationGoesOn DEF GoesOn
<1>5. ASSUME NEW s \in BOOLEAN, NEW a \in SUBSET Skills,
             StartLocal([t EXCEPT !.sink = s, !.allows = a], "M3")
      PROVE  GoesOn(task)
  <2> DEFINE u == [t EXCEPT !.sink = s, !.allows = a]
  <2>1. u \in TaskState /\ u.sent = t.sent
    BY <1>2 DEF TaskState
  <2> HIDE DEF u
  <2>2. StartLocal(u, "M3")
    BY <1>5 DEF u
  <2> QED BY <1>2, <2>1, <2>2, LocalGoesOn DEF GoesOn
<1> QED BY <1>3, <1>4, <1>5, OverGoesOn DEF InterpretationFails

LEMMA SourceGoesOn ==
    ASSUME LimitAssumption, TaskInv, NEW r, GovernedSourceDone(r) \/ SourceDone(r)
    PROVE  GoesOn(task)
<1> DEFINE t == Captured(r, "page")
           w == [t EXCEPT !.summary = "none"]
           u == [t EXCEPT !.got = @ \cup {"page"}]
           x == [u EXCEPT !.summary = u.body]
<1>1. Done("FETCH_SOURCE")
  BY DEF GovernedSourceDone, SourceDone
<1>2. \/ \E y \in {t, w, u}, s \in Skills :
             TerminalPost(Denied(y, s), "REFUSED") \/ TerminalPost(Broken(y), "FAILED")
      \/ \E v : /\ v = Emptied([u EXCEPT !.asked = u.body])
                /\ Request(v, "CALL_MODEL") \/ TerminalPost(Broken(v), "FAILED")
      \/ RequestSummary(u)
      \/ TerminalPost(Fine(x), "COMPLETED")
  BY DEF GovernedSourceDone, SourceDone, Skills
<1>3. t \in TaskState /\ t.sent = task.sent
  BY <1>1, DoneFacts, CapturedFacts DEF Origins
<1> HIDE DEF t
<1>4. w \in TaskState /\ w.sent = task.sent /\ u \in TaskState /\ u.sent = task.sent
  BY <1>3 DEF TaskState, Origins
<1> HIDE DEF w, u
<1>5. x \in TaskState /\ x.sent = task.sent
  BY <1>4 DEF TaskState, Origins
<1> HIDE DEF x
<1>6. Fine(x) \in TaskState /\ Fine(x).sent = task.sent
  BY <1>5, Builders
<1>7. ASSUME NEW y \in TaskState, y.sent = task.sent, GoesOn(y) PROVE GoesOn(task)
  BY <1>7 DEF GoesOn
<1> QED BY <1>2, <1>3, <1>4, <1>6, <1>7, StoppedGoesOn, ModelGoesOn,
           SummaryRequestGoesOn, PostGoesOn DEF Kinds

LEMMA ModelDoneGoesOn ==
    ASSUME LimitAssumption, TaskInv, NEW r, GovernedModelDone(r) \/ SummaryDone(r)
    PROVE  GoesOn(task)
<1> DEFINE t == Captured(r, "reply")
           w == [t EXCEPT !.summary = "none"]
<1>1. Done("CALL_MODEL")
  BY DEF GovernedModelDone, SummaryDone
<1>2. \/ \E y \in {t, w} : TerminalPost(Answered(y), "COMPLETED")
      \/ TerminalPost(Broken(w), "FAILED")
      \/ w.summaryRetries < MaxRetries /\ RequestSummary(Retried(w))
  BY DEF GovernedModelDone, SummaryDone, MayRetry
<1>3. t \in TaskState /\ t.sent = task.sent
  BY <1>1, DoneFacts, CapturedFacts DEF Origins
<1> HIDE DEF t
<1>4. w \in TaskState /\ w.sent = task.sent
  BY <1>3 DEF TaskState, Origins
<1> HIDE DEF w
<1>5. ASSUME NEW y \in TaskState
      PROVE  Answered(y) \in TaskState /\ Answered(y).sent = y.sent
  BY DEF Answered, Fine, TaskState, Origins
<1>6. ASSUME w.summaryRetries < MaxRetries
      PROVE  Retried(w) \in TaskState /\ Retried(w).sent = task.sent
  <2> DEFINE n == w.summaryRetries + 1
  <2>1. n \in 0..MaxRetries
    BY <1>4, <1>6 DEF LimitAssumption, TaskState
  <2>2. Retried(w) = [w EXCEPT !.summaryRetries = n]
    BY DEF Retried
  <2> HIDE DEF n
  <2> QED BY <1>4, <2>1, <2>2 DEF TaskState
<1>7. ASSUME NEW y \in TaskState, y.sent = task.sent, GoesOn(y) PROVE GoesOn(task)
  BY <1>7 DEF GoesOn
<1> QED BY <1>2, <1>3, <1>4, <1>5, <1>6, <1>7, StoppedGoesOn,
           SummaryRequestGoesOn, PostGoesOn DEF Kinds, Skills

\* Each fetch of a task that ends is followed by the end of the task or by one
\* more request, no other step sets an active task back, and the requests are
\* limited: the induction of TaskEnds, whatever comes back (handle_agent_fetch_done).
THEOREM TaskAlwaysAdvances == Spec => [][Advances]_vars
<1>1. LimitAssumption /\ TaskInv /\ TaskInv' /\ [Next]_vars => [Advances]_vars
  <2> SUFFICES ASSUME LimitAssumption, TaskInv, TaskInv', Next PROVE Advances
    OBVIOUS
  <2>1. FetchDone => GoesOn(task)
    BY InterpretingGoesOn, SourceGoesOn, ModelDoneGoesOn, OverGoesOn
       DEF FetchDone, PostDone
  <2>2. task.sent \in Nat
    BY DEF TaskInv, TypeOK, TaskState
  <2>3. FetchDone => ~active' \/ task.sent < task'.sent
    BY <2>1, <2>2 DEF GoesOn, active
  <2>4. active /\ ~FetchDone => UNCHANGED task
    BY DEF Next, Line, TaskM0, TaskM1, GoalWithSink, GoalWithoutSink,
           GoalToInterpret, Accepts, SetKey, OtherStarts, OtherEnds
  <2>5. task'.sent <= MostRequests
    <3>1. /\ task'.sent \in Nat /\ task'.interpretRetries \in 0..MaxRetries
          /\ task'.summaryRetries \in 0..MaxRetries
      BY DEF TaskInv, TypeOK, TaskState
    <3>2. task'.sent <= Place(task'.phase) + task'.interpretRetries + task'.summaryRetries
      BY DEF TaskInv, RequestsBounded
    <3>3. Place(task'.phase) \in 0..4
      BY DEF Place
    <3> QED BY <3>1, <3>2, <3>3 DEF MostRequests, LimitAssumption
  <2> QED BY <2>3, <2>4, <2>5 DEF Advances
<1> QED BY <1>1, Invariant, LimitAssumption, PTL DEF Spec
=============================================================================

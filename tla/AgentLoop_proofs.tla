-------------------------- MODULE AgentLoop_proofs --------------------------
(***************************************************************************)
(* Proofs about AgentLoop: its invariants hold for every number of steps,  *)
(* retries, turns and history entries and every set of tools and URLs.     *)
(* The last part is the step that its liveness property rests on.          *)
(***************************************************************************)
EXTENDS AgentLoop, SequenceTheorems, TLAPS

\* A history that may be kept at turn n: in order and of no later turn.
Kept(h, n) ==
    /\ h \in Seq(Entry) /\ Len(h) <= HistoryMax
    /\ \A i \in 1..Len(h) : h[i].turn <= n
    /\ \A i, j \in 1..Len(h) : i < j =>
        /\ h[i].turn <= h[j].turn
        /\ h[i].turn = h[j].turn => h[i].kind # "assistant" /\ h[j].kind # "user"

\* Turn n has no answer in the history yet.
Unanswered(h, n) == \A i \in 1..Len(h) : h[i].turn = n => h[i].kind # "assistant"

\* A summary's retries are counted anew.
Budget(t) == 1 + t.step + t.retries
                 + IF t.phase = "M4_SUMMARY_MODEL" THEN MaxRetries ELSE 0

\* The inductive invariant.
ActiveTurn ==
    /\ loop.active <=> loop.phase # "IDLE"
    /\ loop.phase \in ToolPhases => loop.step < StepBound
    /\ loop.active => turn \in 1..MaxTurns /\ Unanswered(history, turn)
    /\ requests <= IF loop.active THEN Budget(loop) ELSE 0

IInv == TypeOK /\ TurnHasFetch /\ ActiveTurn /\ Kept(history, turn)

\* The types of what most handlers leave alone.
Env == /\ goal \in Goals
       /\ keyReady \in BOOLEAN /\ truncated \in BOOLEAN
       /\ turn \in 0..MaxTurns

-----------------------------------------------------------------------------
(* The history. *)

\* The entries of a history that is kept are entries.
LEMMA KeptEntries ==
    ASSUME NEW n, NEW h, Kept(h, n), NEW i \in 1..Len(h)
    PROVE  /\ h[i].kind \in {"user", "tool", "assistant"}
           /\ h[i].turn \in Nat
  <1>1. h[i] \in Entry
    BY ElementOfSeq DEF Kept
  <1> QED BY <1>1 DEF Entry

\* g is h with one entry more.
Longer(g, h, k, m) ==
    /\ g \in Seq(Entry) /\ Len(g) = Len(h) + 1
    /\ Len(g) <= HistoryMax
    /\ \A i \in 1..Len(h) : g[i] = h[i]
    /\ g[Len(g)].kind = k /\ g[Len(g)].turn = m

\* A history takes another entry, or is full and stays as it is.
LEMMA RecordCases ==
    ASSUME NEW n, NEW h, Kept(h, n), NEW k \in {"user", "tool", "assistant"},
           NEW m \in 1..MaxTurns
    PROVE  Record(h, k, m) = h \/ Longer(Record(h, k, m), h, k, m)
  <1> DEFINE e == [kind |-> k, turn |-> m]
  <1>1. CASE Len(h) < HistoryMax
    <2>1. Record(h, k, m) = Append(h, e)
      BY <1>1 DEF Record
    <2>2. e \in Entry
      BY DEF Entry
    <2>3. h \in Seq(Entry)
      BY DEF Kept
    <2>4. /\ Append(h, e) \in Seq(Entry)
          /\ Len(Append(h, e)) = Len(h) + 1
          /\ \A i \in 1..Len(h) : Append(h, e)[i] = h[i]
          /\ Append(h, e)[Len(h) + 1] = e
      BY <2>2, <2>3, AppendProperties
    <2>5. e.kind = k /\ e.turn = m
      OBVIOUS
    <2>6. Len(h) \in Nat
      BY <2>3, LenProperties
    <2> QED
      BY <1>1, <2>1, <2>4, <2>5, <2>6, LimitAssumption DEF Longer
  <1>2. CASE ~(Len(h) < HistoryMax)
    BY <1>2 DEF Record
  <1> QED BY <1>1, <1>2

\* Recording what the user says opens the next turn.
LEMMA RecordUser ==
    ASSUME NEW n \in Nat, n + 1 \in 1..MaxTurns, NEW h, Kept(h, n)
    PROVE  /\ Kept(Record(h, "user", n + 1), n + 1)
           /\ Unanswered(Record(h, "user", n + 1), n + 1)
  <1>1. Len(h) \in Nat
    BY LenProperties DEF Kept
  <1>2. \A i \in 1..Len(h) : h[i].turn \in Nat
    BY KeptEntries
  <1>3. Kept(h, n + 1) /\ Unanswered(h, n + 1)
    BY <1>2 DEF Kept, Unanswered
  <1>4. ASSUME NEW g, Longer(g, h, "user", n + 1)
        PROVE  Kept(g, n + 1) /\ Unanswered(g, n + 1)
    BY <1>1, <1>2, <1>4 DEF Kept, Unanswered, Longer
  <1> QED BY <1>3, <1>4, RecordCases

\* Within a turn that has no answer yet, tool results and an answer may follow.
LEMMA RecordInTurn ==
    ASSUME NEW n \in 1..MaxTurns, NEW h, Kept(h, n), Unanswered(h, n),
           NEW k \in {"tool", "assistant"}
    PROVE  /\ Kept(Record(h, k, n), n)
           /\ k = "tool" => Unanswered(Record(h, k, n), n)
  <1>1. Len(h) \in Nat
    BY LenProperties DEF Kept
  <1>2. \A i \in 1..Len(h) : h[i].turn \in Nat
    BY KeptEntries
  <1>3. ASSUME NEW g, Longer(g, h, k, n)
        PROVE  Kept(g, n) /\ (k = "tool" => Unanswered(g, n))
    BY <1>1, <1>2, <1>3 DEF Kept, Unanswered, Longer
  <1> QED BY <1>3, RecordCases

-----------------------------------------------------------------------------
(* The building blocks of the handlers. *)

\* A turn that ends leaves the loop as it was before any turn.
LEMMA FinishLocalInv ==
    ASSUME IInv, Env', NEW h, Kept(h, turn'), FinishLocal(h),
           fetch' \in {"idle", "other"}
    PROVE  IInv'
  <1>1. NoTurn \in LoopState
    BY LimitAssumption DEF NoTurn, LoopState
  <1>2. /\ loop' = NoTurn /\ history' = h
        /\ requests' = 0
    BY DEF FinishLocal, IInv, TypeOK
  <1>3. NoTurn.active = FALSE /\ NoTurn.phase = "IDLE"
    BY DEF NoTurn
  <1>4. TypeOK'
    BY <1>1, <1>2 DEF TypeOK, Env, Kept
  <1>5. TurnHasFetch'
    BY <1>2, <1>3 DEF TurnHasFetch
  <1>6. ActiveTurn'
    BY <1>2, <1>3 DEF ActiveTurn, ToolPhases
  <1> QED BY <1>2, <1>4, <1>5, <1>6 DEF IInv, Kept

\* One more model request, in a turn whose budget allows it.
LEMMA RequestInv ==
    ASSUME IInv, Env', NEW t \in LoopState, NEW h, Request(t, h),
           t.active, t.phase \in ModelPhases,
           requests + 1 <= Budget(t),
           Kept(h, turn'), Unanswered(h, turn'), turn' \in 1..MaxTurns
    PROVE  IInv'
  <1>1. /\ loop' = t /\ history' = h /\ fetch' = "turn"
        /\ requests' = requests + 1
    BY DEF Request
  <1>2. TypeOK'
    BY <1>1 DEF IInv, TypeOK, Env, Kept
  <1>3. TurnHasFetch'
    BY <1>1 DEF TurnHasFetch
  <1>4. ActiveTurn'
    BY <1>1 DEF ActiveTurn, ModelPhases, ToolPhases, Budget, Unanswered
  <1> QED BY <1>1, <1>2, <1>3, <1>4 DEF IInv, Kept

LEMMA StartModelInv ==
    ASSUME IInv, Env', NEW t \in LoopState, NEW h,
           NEW over \in SUBSET {"idle", "other"}, StartModel(t, h, over),
           requests <= t.step + t.retries,
           Kept(h, turn'), Unanswered(h, turn'), turn' \in 1..MaxTurns
    PROVE  IInv'
  <1> DEFINE s == [t EXCEPT !.active = TRUE, !.phase = "M4_MODEL"]
  <1>1. CASE Request(s, h)
    <2>1. /\ s \in LoopState /\ s.active /\ s.phase = "M4_MODEL"
          /\ s.step = t.step /\ s.retries = t.retries
      BY DEF LoopState, ModelPhases
    <2>2. t.step \in Nat /\ t.retries \in Nat /\ requests \in Nat
      BY DEF LoopState, IInv, TypeOK
    <2>3. requests + 1 <= Budget(s)
      BY <2>1, <2>2 DEF Budget
    <2> HIDE DEF s
    <2> QED BY <1>1, <2>1, <2>3, RequestInv DEF ModelPhases
  <1>2. CASE FinishLocal(h) /\ fetch' \in over
    BY <1>2, FinishLocalInv
  <1> QED BY <1>1, <1>2 DEF StartModel, Unkeyed

LEMMA FinalizeInv ==
    ASSUME IInv, Env', loop.active, turn' = turn, Finalize
    PROVE  IInv'
  <1>1. /\ turn \in 1..MaxTurns /\ Unanswered(history, turn)
        /\ Kept(history, turn)
    BY DEF IInv, ActiveTurn
  <1>2. Kept(Record(history, "assistant", turn), turn)
    BY <1>1, RecordInTurn
  <1> QED BY <1>2, FinishLocalInv DEF Finalize

LEMMA StartSummaryInv ==
    ASSUME IInv, Env', NEW t \in LoopState, NEW h, StartSummary(t, h),
           t.active, requests <= t.step + t.retries + MaxRetries,
           Kept(h, turn), Unanswered(h, turn),
           turn' = turn, turn \in 1..MaxTurns
    PROVE  IInv'
  <1> DEFINE s == [t EXCEPT !.phase = "M4_SUMMARY_MODEL"]
  <1>1. CASE Request(s, h)
    <2>1. /\ s \in LoopState /\ s.active /\ s.phase = "M4_SUMMARY_MODEL"
          /\ s.step = t.step /\ s.retries = t.retries
      BY DEF LoopState, ModelPhases
    <2>2. t.step \in Nat /\ t.retries \in Nat /\ requests \in Nat
      BY DEF LoopState, IInv, TypeOK
    <2>3. requests + 1 <= Budget(s)
      BY <2>1, <2>2, LimitAssumption DEF Budget
    <2> HIDE DEF s
    <2> QED BY <1>1, <2>1, <2>3, RequestInv DEF ModelPhases
  <1>2. CASE /\ FinishLocal(Record(h, "assistant", turn))
             /\ fetch' \in LeftToKmain
    <2>1. Kept(Record(h, "assistant", turn), turn)
      BY RecordInTurn
    <2> QED BY <1>2, <2>1, FinishLocalInv DEF LeftToKmain
  <1> QED BY <1>1, <1>2 DEF StartSummary

-----------------------------------------------------------------------------
(* The steps. *)

LEMMA GoalLineInv ==
    ASSUME IInv, NEW g \in Goals, GoalLine(g)
    PROVE  IInv'
  <1> DEFINE asked == Record(history, "user", turn + 1)
  <1>1. /\ ~loop.active /\ fetch = "idle" /\ turn < MaxTurns
        /\ turn' = turn + 1 /\ goal' = g /\ UNCHANGED <<keyReady, truncated>>
    BY DEF GoalLine
  <1>2. /\ turn \in Nat /\ turn + 1 \in 1..MaxTurns /\ requests = 0
        /\ Env' /\ Kept(history, turn)
    BY <1>1, LimitAssumption DEF IInv, TypeOK, Env, ActiveTurn
  <1>3. Kept(asked, turn') /\ Unanswered(asked, turn')
    BY <1>1, <1>2, RecordUser
  <1>4. CASE /\ FinishLocal(Record(asked, "assistant", turn + 1))
             /\ UNCHANGED fetch
    <2>1. Kept(Record(asked, "assistant", turn + 1), turn')
      BY <1>1, <1>2, <1>3, RecordInTurn
    <2> QED BY <1>1, <1>2, <1>4, <2>1, FinishLocalInv
  <1>5. CASE StartModel(NoTurn, asked, {"idle"})
    <2>1. NoTurn \in LoopState /\ requests <= NoTurn.step + NoTurn.retries
      BY <1>2, LimitAssumption DEF NoTurn, LoopState
    <2> HIDE DEF asked
    <2> QED BY <1>1, <1>2, <1>3, <1>5, <2>1, StartModelInv
  <1> QED BY <1>4, <1>5 DEF GoalLine

\* What every handler of a result knows.
LEMMA DoneFacts ==
    ASSUME IInv, NEW p, NEW r \in Result, Done(p, r)
    PROVE  /\ Env' /\ turn' = turn /\ turn \in 1..MaxTurns
           /\ loop \in LoopState /\ loop.active /\ loop.phase = p
           /\ Kept(history, turn) /\ Unanswered(history, turn)
           /\ loop.step \in 0..StepBound /\ loop.retries \in 0..MaxRetries
           /\ requests \in Nat /\ requests <= Budget(loop)
           /\ p \in ToolPhases => loop.step < StepBound
  <1>1. fetch = "turn" /\ loop.phase = p /\ Captured(r)
        /\ UNCHANGED <<goal, keyReady, turn>>
    BY DEF Done
  <1>2. truncated' \in BOOLEAN
    BY <1>1 DEF Captured, IInv, TypeOK
  <1>3. loop \in LoopState /\ loop.active
    BY <1>1 DEF IInv, TypeOK, TurnHasFetch
  <1>4. loop.step \in 0..StepBound /\ loop.retries \in 0..MaxRetries
    BY <1>3 DEF LoopState
  <1> QED BY <1>1, <1>2, <1>3, <1>4 DEF IInv, TypeOK, ActiveTurn, Env

LEMMA RetriedFacts ==
    ASSUME loop \in LoopState, MayRetry
    PROVE  /\ Retried \in LoopState
           /\ Retried.active = loop.active /\ Retried.phase = loop.phase
           /\ Retried.step = loop.step /\ Retried.retries = loop.retries + 1
  BY LimitAssumption DEF LoopState, Retried, MayRetry

LEMMA ModelFailsInv ==
    ASSUME IInv, NEW r \in Result, ModelFails(r)
    PROVE  IInv'
  <1>1. Done("M4_MODEL", r)
    BY DEF ModelFails
  <1>2. CASE MayRetry /\ StartModel(Retried, history, LeftToKmain)
    <2>1. requests <= Retried.step + Retried.retries
      BY <1>1, <1>2, DoneFacts, RetriedFacts DEF Budget
    <2>2. LeftToKmain \in SUBSET {"idle", "other"}
      BY DEF LeftToKmain
    <2> QED BY <1>1, <1>2, <2>1, <2>2, DoneFacts, RetriedFacts, StartModelInv
  <1>3. CASE Finalize
    BY <1>1, <1>3, DoneFacts, FinalizeInv
  <1> QED BY <1>2, <1>3 DEF ModelFails

LEMMA ModelUnparsedInv ==
    ASSUME IInv, NEW r \in Result, ModelUnparsed(r)
    PROVE  IInv'
  <1>1. Done("M4_MODEL", r)
    BY DEF ModelUnparsed
  <1>2. CASE MayRetry /\ StartModel(Retried, history, {})
    <2>1. requests <= Retried.step + Retried.retries
      BY <1>1, <1>2, DoneFacts, RetriedFacts DEF Budget
    <2> QED BY <1>1, <1>2, <2>1, DoneFacts, RetriedFacts, StartModelInv
  <1>3. CASE /\ history' = Record(Unkeyed(history), "assistant", turn)
             /\ loop' = NoTurn /\ requests' = 0 /\ fetch' = "idle"
    <2>1. Kept(history', turn)
      BY <1>1, <1>3, DoneFacts, RecordInTurn DEF Unkeyed
    <2>2. NoTurn \in LoopState /\ ~NoTurn.active /\ NoTurn.phase = "IDLE"
      BY LimitAssumption DEF NoTurn, LoopState
    <2>3. Env' /\ turn' = turn
      BY <1>1, <1>3, DoneFacts DEF IInv, TypeOK
    <2> HIDE DEF Unkeyed
    <2>4. TypeOK'
      BY <1>3, <2>1, <2>2, <2>3 DEF TypeOK, Env, Kept
    <2>5. TurnHasFetch' /\ ActiveTurn'
      BY <1>3, <2>2 DEF TurnHasFetch, ActiveTurn, ToolPhases
    <2> QED BY <2>1, <2>3, <2>4, <2>5 DEF IInv, Kept
  <1>4. CASE Finalize
    BY <1>1, <1>4, DoneFacts, FinalizeInv
  <1> QED BY <1>2, <1>3, <1>4 DEF ModelUnparsed

LEMMA ModelFinalInv ==
    ASSUME IInv, NEW r \in Result, ModelFinal(r)
    PROVE  IInv'
  BY DoneFacts, FinalizeInv DEF ModelFinal

\* A tool that is done is paid for by its step.
LEMMA SteppedFacts ==
    ASSUME NEW t \in LoopState, t.step < StepBound
    PROVE  /\ Stepped(t) \in LoopState
           /\ Stepped(t).active = t.active
           /\ Stepped(t).step = t.step + 1 /\ Stepped(t).retries = t.retries
  BY LimitAssumption DEF LoopState, Stepped

LEMMA ToldFacts ==
    ASSUME turn \in 1..MaxTurns, Kept(history, turn), Unanswered(history, turn)
    PROVE  Kept(Told, turn) /\ Unanswered(Told, turn)
  BY RecordInTurn DEF Told

LEMMA ModelCallsToolInv ==
    ASSUME IInv, NEW r \in Result, NEW tl \in Tools, NEW u \in Urls,
           ModelCallsTool(r, tl, u)
    PROVE  IInv'
  <1> DEFINE t == [loop EXCEPT !.tool = tl,
                               !.url = IF tl = "fetch_url" THEN u ELSE None]
  <1>1. Done("M4_MODEL", r) /\ loop.step < StepBound
    BY DEF ModelCallsTool
  <1>2. /\ t \in LoopState /\ t.active /\ t.phase = "M4_MODEL" /\ t.tool = tl
        /\ t.step = loop.step /\ t.retries = loop.retries
    BY <1>1, DoneFacts DEF LoopState
  <1> HIDE DEF t
  <1>3. requests <= Stepped(t).step + Stepped(t).retries
    <2>1. requests <= 1 + t.step + t.retries
      BY <1>1, <1>2, DoneFacts DEF Budget
    <2>2. Stepped(t).step = t.step + 1 /\ Stepped(t).retries = t.retries
      BY <1>1, <1>2, SteppedFacts
    <2> QED BY <1>1, <1>2, <2>1, <2>2, DoneFacts
  <1>4. CASE StartModel(Stepped(t), Told, {"idle"})
    <2>1. Stepped(t) \in LoopState
      BY <1>1, <1>2, SteppedFacts
    <2>2. Env' /\ turn' \in 1..MaxTurns /\ Kept(Told, turn') /\ Unanswered(Told, turn')
      BY <1>1, DoneFacts, ToldFacts
    <2> QED BY <1>3, <1>4, <2>1, <2>2, StartModelInv
  <1>5. CASE Finalize
    BY <1>1, <1>5, DoneFacts, FinalizeInv
  <1>6. CASE /\ loop' = [t EXCEPT !.phase = PhaseOf(t.tool)]
             /\ UNCHANGED <<fetch, history, requests>>
    <2>1. PhaseOf(t.tool) \in ToolPhases
      BY DEF PhaseOf, ToolPhases
    <2>2. /\ loop' \in LoopState /\ loop'.active
          /\ loop'.phase \in ToolPhases
          /\ loop'.step = loop.step /\ loop'.retries = loop.retries
      BY <1>2, <1>6, <2>1 DEF LoopState
    <2>3. Env' /\ turn' = turn
      BY <1>1, DoneFacts
    <2>4. TypeOK' /\ TurnHasFetch'
      BY <1>1, <1>6, <2>2, <2>3 DEF IInv, TypeOK, TurnHasFetch, Env, Done
    <2>5. requests' <= Budget(loop')
      BY <1>1, <1>6, <2>2, DoneFacts DEF Budget, ToolPhases
    <2>6. ActiveTurn'
      BY <1>1, <1>6, <2>2, <2>3, <2>5, DoneFacts
         DEF ActiveTurn, ToolPhases, Unanswered
    <2> QED BY <1>6, <2>3, <2>4, <2>6 DEF IInv, Kept
  <1>7. SyncTool(t) \/ CachedTool(t) \/ AsyncTool(t)
    BY DEF ModelCallsTool, t
  <1> QED BY <1>4, <1>5, <1>6, <1>7 DEF SyncTool, CachedTool, AsyncTool, NotStarted

LEMMA ContinueInv ==
    ASSUME IInv, Env', turn' = turn, turn \in 1..MaxTurns,
           Kept(history, turn), Unanswered(history, turn),
           NEW t \in LoopState, t.active, t.step < StepBound,
           requests <= 1 + t.step + t.retries, Continue(t)
    PROVE  IInv'
  <1>1. Kept(Told, turn) /\ Unanswered(Told, turn)
    BY ToldFacts
  <1>2. CASE /\ FinishLocal(Record(Told, "assistant", turn))
             /\ fetch' = "idle"
    <2>1. Kept(Record(Told, "assistant", turn), turn)
      BY <1>1, RecordInTurn
    <2> QED BY <1>2, <2>1, FinishLocalInv
  <1>3. CASE StartModel(Stepped(t), Told, LeftToKmain)
    <2>1. /\ Stepped(t) \in LoopState
          /\ Stepped(t).step = t.step + 1 /\ Stepped(t).retries = t.retries
      BY SteppedFacts
    <2>2. requests <= Stepped(t).step + Stepped(t).retries
      BY <2>1 DEF LoopState
    <2>3. LeftToKmain \in SUBSET {"idle", "other"}
      BY DEF LeftToKmain
    <2> QED BY <1>1, <1>3, <2>1, <2>2, <2>3, StartModelInv
  <1> QED BY <1>2, <1>3 DEF Continue

LEMMA BridgeDoneInv ==
    ASSUME IInv, NEW r \in Result, BridgeDone(r)
    PROVE  IInv'
  <1>1. Done("M5_BRIDGE_TOOL", r)
    BY DEF BridgeDone
  <1>2. CASE Finalize
    BY <1>1, <1>2, DoneFacts, FinalizeInv
  <1>3. ASSUME NEW t, t = [loop EXCEPT !.bridge = loop.tool # "search_web"],
               Continue(t)
        PROVE  IInv'
    <2>1. /\ t \in LoopState /\ t.active
          /\ t.step = loop.step /\ t.retries = loop.retries
      BY <1>1, <1>3, DoneFacts DEF LoopState
    <2>2. t.step < StepBound /\ requests <= 1 + t.step + t.retries
      BY <1>1, <2>1, DoneFacts DEF Budget, ToolPhases
    <2> QED BY <1>1, <1>3, <2>1, <2>2, DoneFacts, ContinueInv
  <1> QED BY <1>2, <1>3 DEF BridgeDone

LEMMA PostDoneInv ==
    ASSUME IInv, NEW r \in Result, PostDone(r)
    PROVE  IInv'
  <1>1. Done("M4_POST_URL", r)
    BY DEF PostDone
  <1>2. CASE Finalize
    BY <1>1, <1>2, DoneFacts, FinalizeInv
  <1>3. CASE Continue(loop)
    <2>1. loop.step < StepBound /\ requests <= 1 + loop.step + loop.retries
      BY <1>1, DoneFacts DEF Budget, ToolPhases
    <2> QED BY <1>1, <1>3, <2>1, DoneFacts, ContinueInv
  <1> QED BY <1>2, <1>3 DEF PostDone

LEMMA FetchUrlDoneInv ==
    ASSUME IInv, NEW r \in Result, FetchUrlDone(r)
    PROVE  IInv'
  <1> DEFINE t == [loop EXCEPT !.cache = loop.url]
  <1>1. Done("M4_FETCH_URL", r)
    BY DEF FetchUrlDone
  <1>2. CASE Finalize
    BY <1>1, <1>2, DoneFacts, FinalizeInv
  <1>3. /\ t \in LoopState /\ t.active
        /\ t.step = loop.step /\ t.retries = loop.retries
    BY <1>1, DoneFacts DEF LoopState
  <1>4. t.step < StepBound /\ requests <= 1 + t.step + t.retries
    BY <1>1, <1>3, DoneFacts DEF Budget, ToolPhases
  <1> HIDE DEF t
  <1>5. CASE Continue(t)
    BY <1>1, <1>3, <1>4, <1>5, DoneFacts, ContinueInv
  <1>6. CASE StartSummary([Stepped(t) EXCEPT !.retries = 0], Told)
    <2> DEFINE s == [Stepped(t) EXCEPT !.retries = 0]
    <2>1. /\ s \in LoopState /\ s.active /\ s.step = t.step + 1 /\ s.retries = 0
      BY <1>3, <1>4, SteppedFacts, LimitAssumption DEF LoopState
    <2>2. requests <= s.step + s.retries + MaxRetries
      BY <1>1, <1>3, <1>4, <2>1, DoneFacts, LimitAssumption
    <2>3. Kept(Told, turn) /\ Unanswered(Told, turn)
      BY <1>1, DoneFacts, ToldFacts
    <2> HIDE DEF s
    <2>4. StartSummary(s, Told)
      BY <1>6 DEF s
    <2> QED BY <1>1, <2>1, <2>2, <2>3, <2>4, DoneFacts, StartSummaryInv
  <1> QED BY <1>2, <1>5, <1>6 DEF FetchUrlDone, t

LEMMA SummaryDoneInv ==
    ASSUME IInv, NEW r \in Result, SummaryDone(r)
    PROVE  IInv'
  <1>1. Done("M4_SUMMARY_MODEL", r)
    BY DEF SummaryDone
  <1>2. CASE MayRetry /\ StartSummary(Retried, history)
    <2>1. requests <= Retried.step + Retried.retries + MaxRetries
      BY <1>1, <1>2, DoneFacts, RetriedFacts, LimitAssumption DEF Budget
    <2> QED BY <1>1, <1>2, <2>1, DoneFacts, RetriedFacts, StartSummaryInv
  <1>3. CASE Finalize
    BY <1>1, <1>3, DoneFacts, FinalizeInv
  <1> QED BY <1>2, <1>3 DEF SummaryDone

LEMMA CommandsInv ==
    ASSUME IInv, SessionReset \/ SetKey \/ OtherStarts \/ OtherEnds
    PROVE  IInv'
  <1>1. CASE SessionReset
    <2>1. history' = <<>> /\ UNCHANGED <<loop, goal, keyReady, truncated, fetch,
                                        turn, requests>>
      BY <1>1 DEF SessionReset
    <2>2. Len(history') = 0 /\ history' \in Seq(Entry)
      BY <2>1
    <2>3. Kept(history, turn)' /\ Unanswered(history', turn')
      BY <2>2, LimitAssumption DEF Kept, Unanswered
    <2>4. TypeOK' /\ TurnHasFetch'
      BY <2>1, <2>2, LimitAssumption DEF IInv, TypeOK, TurnHasFetch
    <2>5. ActiveTurn'
      BY <2>1, <2>3 DEF IInv, ActiveTurn, Unanswered, Budget
    <2> QED BY <2>3, <2>4, <2>5 DEF IInv
  <1>2. CASE SetKey \/ OtherStarts \/ OtherEnds
    <2>1. /\ keyReady' \in BOOLEAN /\ fetch' \in {"idle", "turn", "other"}
          /\ fetch' = "turn" <=> fetch = "turn"
          /\ UNCHANGED <<loop, goal, truncated, history, turn, requests>>
      BY <1>2 DEF SetKey, OtherStarts, OtherEnds, IInv, TypeOK
    <2>2. TypeOK' /\ TurnHasFetch'
      BY <2>1 DEF IInv, TypeOK, TurnHasFetch
    <2>3. ActiveTurn' /\ Kept(history, turn)'
      BY <2>1 DEF IInv, ActiveTurn, Kept, Unanswered, Budget
    <2> QED BY <2>2, <2>3 DEF IInv
  <1> QED BY <1>1, <1>2

LEMMA StepInv ==
    ASSUME IInv, [Next]_vars
    PROVE  IInv'
  <1>1. ASSUME NEW g \in Goals, GoalLine(g) PROVE IInv'
    BY <1>1, GoalLineInv
  <1>2. CASE FetchDone
    <2>1. ASSUME NEW r \in Result,
                 ModelFails(r) \/ ModelUnparsed(r) \/ ModelFinal(r)
          PROVE  IInv'
      BY <2>1, ModelFailsInv, ModelUnparsedInv, ModelFinalInv
    <2>2. ASSUME NEW r \in Result, NEW tl \in Tools, NEW u \in Urls,
                 ModelCallsTool(r, tl, u)
          PROVE  IInv'
      BY <2>2, ModelCallsToolInv
    <2>3. ASSUME NEW r \in Result,
                 BridgeDone(r) \/ PostDone(r) \/ FetchUrlDone(r) \/ SummaryDone(r)
          PROVE  IInv'
      BY <2>3, BridgeDoneInv, PostDoneInv, FetchUrlDoneInv, SummaryDoneInv
    <2> QED BY <1>2, <2>1, <2>2, <2>3 DEF FetchDone
  <1>3. CASE SessionReset \/ SetKey \/ OtherStarts \/ OtherEnds
    BY <1>3, CommandsInv
  <1>4. CASE UNCHANGED vars
    BY <1>4 DEF vars, IInv, TypeOK, TurnHasFetch, ActiveTurn, Kept, Unanswered,
                Budget
  <1> QED BY <1>1, <1>2, <1>3, <1>4 DEF Next

LEMMA InitInv == Init => IInv
  <1> SUFFICES ASSUME Init PROVE IInv
    OBVIOUS
  <1>1. NoTurn \in LoopState /\ ~NoTurn.active /\ NoTurn.phase = "IDLE"
    BY LimitAssumption DEF NoTurn, LoopState
  <1>2. TypeOK
    <2>1. /\ loop \in LoopState /\ goal \in Goals /\ keyReady \in BOOLEAN
          /\ truncated \in BOOLEAN
      BY <1>1 DEF Init, Goals
    <2>2. history \in Seq(Entry) /\ Len(history) = 0
      BY DEF Init
    <2> QED BY <2>1, <2>2, LimitAssumption DEF Init, TypeOK
  <1>3. TurnHasFetch /\ ActiveTurn
    BY <1>1 DEF Init, TurnHasFetch, ActiveTurn, ToolPhases
  <1>4. Kept(history, turn)
    BY LimitAssumption DEF Init, Kept
  <1> QED BY <1>2, <1>3, <1>4 DEF IInv

\* The invariant of the agent loop.
THEOREM Invariant == Spec => []IInv
  BY InitInv, StepInv, PTL DEF Spec

-----------------------------------------------------------------------------
(* What follows from it. *)

\* The static variables of the loop and of the history keep their types.
THEOREM TypeCorrect == Spec => []TypeOK
  <1>1. IInv => TypeOK
    BY DEF IInv
  <1> QED BY <1>1, Invariant, PTL

\* No path of handle_m4_fetch_done leaves a turn without a fetch, or a fetch
\* of a turn without the turn.
THEOREM TurnAlwaysHasFetch == Spec => []TurnHasFetch
  <1>1. IInv => TurnHasFetch
    BY DEF IInv
  <1> QED BY <1>1, Invariant, PTL

\* The model requests of a turn are paid for by its steps and retries.
THEOREM RequestsAreAccounted == Spec => []RequestsAccounted
  <1>1. IInv => RequestsAccounted
    <2> SUFFICES ASSUME IInv PROVE RequestsAccounted
      OBVIOUS
    <2>1. /\ loop.step \in Nat /\ loop.retries \in 0..MaxRetries
          /\ requests \in Nat
      BY LimitAssumption DEF IInv, TypeOK, LoopState
    <2>2. requests <= 1 + loop.step + loop.retries + MaxRetries
      BY <2>1, LimitAssumption DEF IInv, ActiveTurn, Budget
    <2> QED BY <2>1, <2>2, LimitAssumption DEF RequestsAccounted
  <1> QED BY <1>1, Invariant, PTL

\* The history is in order: turn by turn, a question first, nothing after an
\* answer.
THEOREM HistoryAlwaysInOrder == Spec => []HistoryInOrder
  <1>1. IInv => HistoryInOrder
    BY DEF IInv, Kept, HistoryInOrder
  <1> QED BY <1>1, Invariant, PTL

-----------------------------------------------------------------------------
(* What TurnEnds rests on beside the fairness of the engine. *)

\* What a turn may still do within the step budget: a step is a tool and the
\* request after it, and a summary has retries of its own.
Left(t) == 2 * (MaxSteps - t.step) + (MaxRetries - t.retries)
             + (IF t.phase = "M4_SUMMARY_MODEL" THEN 0
                ELSE IF t.phase = "M4_MODEL" THEN MaxRetries + 1 ELSE MaxRetries)

InBudget(t) == t.active /\ t.step <= MaxSteps

\* Between t and s a turn ended, left the budget or came nearer to its end.
Nearer(t, s) == InBudget(s) => InBudget(t) /\ Left(s) \in Nat /\ Left(s) < Left(t)

Advances ==
    /\ FetchDone => Nearer(loop, loop')
    /\ loop.active /\ ~FetchDone => UNCHANGED loop

\* The four ways a turn goes on: the request is retried, a tool is called, the
\* model is asked again, or it is asked for the summary.
LEMMA GoesOn ==
    ASSUME NEW t \in LoopState, NEW s \in LoopState, t.active,
           \/ s.phase = t.phase /\ s.step = t.step /\ s.retries = t.retries + 1
           \/ /\ t.phase = "M4_MODEL" /\ s.phase \in ToolPhases
              /\ s.step = t.step /\ s.retries = t.retries
           \/ /\ t.phase \in ToolPhases \cup {"M4_MODEL"} /\ s.phase = "M4_MODEL"
              /\ s.step = t.step + 1 /\ s.retries = t.retries
           \/ /\ t.phase \in ToolPhases /\ s.phase = "M4_SUMMARY_MODEL"
              /\ s.step = t.step + 1 /\ s.retries = 0
    PROVE  Nearer(t, s)
  <1> SUFFICES ASSUME InBudget(s)
               PROVE  InBudget(t) /\ Left(s) \in Nat /\ Left(s) < Left(t)
    BY DEF Nearer
  <1>1. /\ t.step \in Nat /\ s.step \in Nat /\ s.step <= MaxSteps
        /\ t.retries \in Nat /\ s.retries \in Nat
        /\ t.retries <= MaxRetries /\ s.retries <= MaxRetries
        /\ MaxSteps \in Nat /\ MaxRetries \in Nat
    BY LimitAssumption DEF LoopState, InBudget
  <1>2. s.step = t.step \/ s.step = t.step + 1
    OBVIOUS
  <1>3. InBudget(t)
    BY <1>1, <1>2 DEF InBudget
  <1>4. Left(s) \in Nat
    BY <1>1 DEF Left
  <1>5. Left(s) < Left(t)
    BY <1>1 DEF Left, ToolPhases
  <1> QED BY <1>3, <1>4, <1>5

\* Whatever ends a turn leaves none that is active.
LEMMA Ends ==
    ASSUME \/ Finalize \/ loop' = NoTurn \/ \E h : FinishLocal(h)
    PROVE  Nearer(loop, loop')
  BY DEF Finalize, FinishLocal, NoTurn, Nearer, InBudget

LEMMA StartModelNearer ==
    ASSUME loop \in LoopState, loop.active,
           NEW t \in LoopState, NEW h, NEW over, StartModel(t, h, over),
           \/ /\ loop.phase = "M4_MODEL" /\ t.step = loop.step
              /\ t.retries = loop.retries + 1
           \/ /\ loop.phase \in ToolPhases \cup {"M4_MODEL"}
              /\ t.step = loop.step + 1 /\ t.retries = loop.retries
    PROVE  Nearer(loop, loop')
  <1>1. CASE loop' = [t EXCEPT !.active = TRUE, !.phase = "M4_MODEL"]
    <2>1. /\ loop' \in LoopState /\ loop'.phase = "M4_MODEL"
          /\ loop'.step = t.step /\ loop'.retries = t.retries
      BY <1>1 DEF LoopState, ModelPhases
    <2> QED BY <2>1, GoesOn
  <1> QED BY <1>1, Ends DEF StartModel, Request

LEMMA StartSummaryNearer ==
    ASSUME loop \in LoopState, loop.active,
           NEW t \in LoopState, NEW h, StartSummary(t, h),
           \/ /\ loop.phase = "M4_SUMMARY_MODEL" /\ t.step = loop.step
              /\ t.retries = loop.retries + 1
           \/ /\ loop.phase \in ToolPhases
              /\ t.step = loop.step + 1 /\ t.retries = 0
    PROVE  Nearer(loop, loop')
  <1>1. CASE loop' = [t EXCEPT !.phase = "M4_SUMMARY_MODEL"]
    <2>1. /\ loop' \in LoopState /\ loop'.phase = "M4_SUMMARY_MODEL"
          /\ loop'.step = t.step /\ loop'.retries = t.retries
      BY <1>1 DEF LoopState, ModelPhases
    <2> QED BY <2>1, GoesOn
  <1> QED BY <1>1, Ends DEF StartSummary, Request

LEMMA ContinueNearer ==
    ASSUME loop \in LoopState, loop.active, loop.phase \in ToolPhases,
           NEW t \in LoopState, t.step = loop.step, t.retries = loop.retries,
           t.step < StepBound, Continue(t)
    PROVE  Nearer(loop, loop')
  <1>1. /\ Stepped(t) \in LoopState
        /\ Stepped(t).step = t.step + 1 /\ Stepped(t).retries = t.retries
    BY SteppedFacts
  <1> QED BY <1>1, Ends, StartModelNearer DEF Continue

\* The result of a model request.
LEMMA ModelDoneNearer ==
    ASSUME IInv, NEW r \in Result,
           \/ ModelFails(r) \/ ModelUnparsed(r) \/ ModelFinal(r) \/ SummaryDone(r)
    PROVE  Nearer(loop, loop')
  <1>1. CASE ModelFails(r) \/ ModelUnparsed(r) \/ ModelFinal(r)
    <2>1. Done("M4_MODEL", r)
      BY <1>1 DEF ModelFails, ModelUnparsed, ModelFinal
    <2>2. /\ loop \in LoopState /\ loop.active /\ loop.phase = "M4_MODEL"
      BY <2>1, DoneFacts
    <2>3. ASSUME NEW over, MayRetry, StartModel(Retried, history, over)
          PROVE  Nearer(loop, loop')
      BY <2>2, <2>3, RetriedFacts, StartModelNearer
    <2> QED BY <1>1, <2>3, Ends DEF ModelFails, ModelUnparsed, ModelFinal
  <1>2. CASE SummaryDone(r)
    <2>1. Done("M4_SUMMARY_MODEL", r)
      BY <1>2 DEF SummaryDone
    <2>2. /\ loop \in LoopState /\ loop.active /\ loop.phase = "M4_SUMMARY_MODEL"
      BY <2>1, DoneFacts
    <2>3. CASE MayRetry /\ StartSummary(Retried, history)
      BY <2>2, <2>3, RetriedFacts, StartSummaryNearer
    <2> QED BY <1>2, <2>3, Ends DEF SummaryDone
  <1> QED BY <1>1, <1>2

\* A tool that is called, at once or with a fetch.
LEMMA ModelCallsToolNearer ==
    ASSUME IInv, NEW r \in Result, NEW tl \in Tools, NEW u \in Urls,
           ModelCallsTool(r, tl, u)
    PROVE  Nearer(loop, loop')
  <1> DEFINE t == [loop EXCEPT !.tool = tl,
                               !.url = IF tl = "fetch_url" THEN u ELSE None]
  <1>1. Done("M4_MODEL", r) /\ loop.step < StepBound
    BY DEF ModelCallsTool
  <1>2. loop \in LoopState /\ loop.active /\ loop.phase = "M4_MODEL"
    BY <1>1, DoneFacts
  <1>3. /\ t \in LoopState /\ t.tool = tl
        /\ t.step = loop.step /\ t.retries = loop.retries
    BY <1>2 DEF LoopState
  <1>4. SyncTool(t) \/ CachedTool(t) \/ AsyncTool(t)
    BY DEF ModelCallsTool
  <1> HIDE DEF t
  <1>5. CASE StartModel(Stepped(t), Told, {"idle"})
    BY <1>1, <1>2, <1>3, <1>5, SteppedFacts, StartModelNearer
  <1>6. CASE loop' = [t EXCEPT !.phase = PhaseOf(t.tool)]
    <2>1. PhaseOf(t.tool) \in ToolPhases
      BY DEF PhaseOf, ToolPhases
    <2>2. /\ loop' \in LoopState /\ loop'.phase \in ToolPhases
          /\ loop'.step = loop.step /\ loop'.retries = loop.retries
      BY <1>3, <1>6, <2>1 DEF LoopState
    <2> QED BY <1>2, <2>2, GoesOn
  <1> QED BY <1>4, <1>5, <1>6, Ends DEF SyncTool, CachedTool, AsyncTool, NotStarted

\* The result of a tool.
LEMMA ToolDoneNearer ==
    ASSUME IInv, NEW r \in Result, BridgeDone(r) \/ PostDone(r) \/ FetchUrlDone(r)
    PROVE  Nearer(loop, loop')
  <1>1. /\ loop \in LoopState /\ loop.active /\ loop.phase \in ToolPhases
        /\ loop.step < StepBound
    BY DoneFacts DEF BridgeDone, PostDone, FetchUrlDone, ToolPhases
  <1>2. ASSUME NEW t \in LoopState, t.step = loop.step, t.retries = loop.retries,
               Continue(t)
        PROVE  Nearer(loop, loop')
    BY <1>1, <1>2, ContinueNearer
  <1>3. ASSUME NEW b \in BOOLEAN
        PROVE  /\ [loop EXCEPT !.bridge = b] \in LoopState
               /\ [loop EXCEPT !.bridge = b].step = loop.step
               /\ [loop EXCEPT !.bridge = b].retries = loop.retries
    BY <1>1 DEF LoopState
  <1>4. CASE BridgeDone(r)
    BY <1>2, <1>3, <1>4, Ends DEF BridgeDone
  <1>5. CASE PostDone(r)
    BY <1>1, <1>2, <1>5, Ends DEF PostDone
  <1>6. CASE FetchUrlDone(r)
    <2> DEFINE t == [loop EXCEPT !.cache = loop.url]
    <2>1. /\ t \in LoopState /\ t.step = loop.step /\ t.retries = loop.retries
      BY <1>1 DEF LoopState
    <2>2. \/ Continue(t) \/ Finalize
          \/ StartSummary([Stepped(t) EXCEPT !.retries = 0], Told)
      BY <1>6 DEF FetchUrlDone
    <2> HIDE DEF t
    <2>3. CASE StartSummary([Stepped(t) EXCEPT !.retries = 0], Told)
      <3> DEFINE s == [Stepped(t) EXCEPT !.retries = 0]
      <3>1. s \in LoopState /\ s.step = t.step + 1 /\ s.retries = 0
        BY <1>1, <2>1, SteppedFacts, LimitAssumption DEF LoopState
      <3> HIDE DEF s
      <3>2. StartSummary(s, Told)
        BY <2>3 DEF s
      <3> QED BY <1>1, <2>1, <3>1, <3>2, StartSummaryNearer
    <2> QED BY <1>2, <2>1, <2>2, <2>3, Ends
  <1> QED BY <1>4, <1>5, <1>6

\* With each fetch of a turn that ends, the turn ends, leaves its step budget
\* or is nearer to its end, and no other step sets an active turn back: the
\* induction of TurnEnds, whatever the model answers (handle_m4_fetch_done).
THEOREM TurnAlwaysAdvances == Spec => [][Advances]_vars
  <1>1. IInv /\ [Next]_vars => [Advances]_vars
    <2> SUFFICES ASSUME IInv, Next PROVE Advances
      OBVIOUS
    <2>1. FetchDone => Nearer(loop, loop')
      BY ModelDoneNearer, ModelCallsToolNearer, ToolDoneNearer DEF FetchDone
    <2>2. loop.active /\ ~FetchDone => UNCHANGED loop
      BY DEF Next, GoalLine, SessionReset, SetKey, OtherStarts, OtherEnds
    <2> QED BY <2>1, <2>2 DEF Advances
  <1> QED BY <1>1, Invariant, PTL DEF Spec
=============================================================================

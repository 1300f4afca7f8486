--------------------------- MODULE SessionMemory ---------------------------
(***************************************************************************)
(* What the agent remembers between its turns: the conversation history    *)
(* and the key-value slots of runtime/src/agent/session.rs and the working *)
(* memory of memory.rs, written by the handlers of loop.rs and read back   *)
(* into the next prompt.  The turn that writes them is reduced to its      *)
(* question (AgentLoop is its model).                                      *)
(*                                                                         *)
(* Texts are sequences of bytes, one of them the beginning of a character  *)
(* of three bytes.  "User: ", "Assistant: " and "Tool[...]: " are one byte *)
(* each, and every limit is small in proportion.  At boot the statics are  *)
(* as a reset leaves them, so ensure_session_started and ensure_started    *)
(* change nothing.                                                         *)
(***************************************************************************)
EXTENDS Naturals, Sequences, FiniteSets

CONSTANTS
    Slots,         \* SESSION_STATE_SLOTS
    Keys,          \* keys the model chooses, and the two the loop itself uses
    LongKeys,      \* those longer than SESSION_STATE_KEY_MAX
    ValueMax,      \* SESSION_STATE_VALUE_MAX
    HistoryMax,    \* SESSION_HISTORY_MAX
    RecentLimit,   \* M4_RECENT_CONVERSATION_LIMIT
    SummaryMax,    \* M7_MEMORY_SUMMARY_MAX
    DetailMax,     \* M7_MEMORY_DETAIL_MAX
    Trigger,       \* M7_COMPACTION_TRIGGER_CHARS
    SourceTrigger, \* the 160 bytes of the tools that read something
    WorkingLimit,  \* M4_WORKING_MEMORY_LIMIT
    Overhead,      \* the brackets around a line of the working memory
    TurnMod,       \* 2^16: M7_MEMORY_TURN is a u16
    Texts,         \* what is asked, answered, found and stored
    Urls,          \* those that are URLs
    NoGoal, NoKey,
    MaxNotes       \* bound: texts appended in a session

AutoKeys == {"last_posts", "last_fetch_url"}
Bytes == {"U", "A", "T", "nl", "a", "x1", "x2", "x3"}

\* "posts" stands for the tools whose result the memory takes no note of.
\* "write_file" for the workspace tools other than read_file.
Tools == {"fetch_url", "search_web", "read_file", "write_file", "run_process",
          "read_process_output", "posts"}

ASSUME TextAssumption == Texts \cup Urls \subseteq Seq(Bytes) /\ NoGoal \notin Seq(Bytes)
ASSUME KeyAssumption == AutoKeys \subseteq Keys \ LongKeys /\ NoKey \notin Keys
ASSUME SizeAssumption ==
    /\ Slots \in Nat \ {0} /\ ValueMax \in Nat /\ HistoryMax \in Nat
    /\ RecentLimit \in Nat /\ Overhead \in Nat
    /\ SummaryMax \in Nat \ {0} /\ DetailMax \in Nat \ {0}
    /\ SourceTrigger \in Nat /\ Trigger \in SourceTrigger..DetailMax
    /\ WorkingLimit \in Nat /\ Overhead + SummaryMax <= WorkingLimit
    /\ TurnMod \in Nat \ {0} /\ MaxNotes \in Nat

VARIABLES
    goal,     \* AGENT_GOAL_TEXT of the active turn
    keys,     \* SESSION_STATE_KEYS, NoKey where the length is zero
    values,   \* SESSION_STATE_VALUES
    history,  \* SESSION_HISTORY
    memory,   \* the M7_MEMORY arrays
    turn,     \* M7_MEMORY_TURN
    said,     \* history: every byte appended in this session
    notes,    \* history: how many texts that were
    last,     \* history: what was written last under each key
    order,    \* history: the keys in the order of their first write
    asked     \* history: the active turn's question is of this session

store == <<keys, values, last, order>>
vars == <<goal, keys, values, history, memory, turn, said, notes, last, order, asked>>

-----------------------------------------------------------------------------
(* Bytes. *)

\* Every byte belongs to a whole character (utf8_seq_len_at).
Valid(s) == \A i \in 1..Len(s) :
    /\ s[i] = "x1" => i + 2 <= Len(s) /\ s[i + 1] = "x2" /\ s[i + 2] = "x3"
    /\ s[i] = "x2" => i > 1 /\ s[i - 1] = "x1"
    /\ s[i] = "x3" => i > 2 /\ s[i - 1] = "x2"

Least(m, n) == IF m < n THEN m ELSE n

\* utf8_safe_prefix_len and copy_utf8_prefix.
Utf8Prefix_Bytes(s, max) == SubSeq(s, 1, Least(max, Len(s)))
Utf8Prefix(s, max) ==
    LET fits == {n \in 0..Least(max, Len(s)) : Valid(SubSeq(s, 1, n))}
    IN SubSeq(s, 1, CHOOSE n \in fits : \A m \in fits : m <= n)

\* summary_from_text.
Summary(s, max) ==
    LET p == Utf8Prefix(s, max)
        ends == {n \in 0..Len(p) : \A i \in n + 1..Len(p) : p[i] = "nl"}
    IN SubSeq(p, 1, CHOOSE n \in ends : \A m \in ends : n <= m)

-----------------------------------------------------------------------------
(* The history. *)

\* history_append_bytes: what does not fit is dropped, later bytes may fit.
Appended_All(h, s) == IF Len(h) < HistoryMax THEN h \o s ELSE h
Appended(h, s) == h \o Utf8Prefix(s, HistoryMax - Len(h))

Piece(tag, text) == <<tag>> \o text \o <<"nl">>

\* append_user_turn, append_tool_result and append_assistant_turn make three
\* appends each.
Record(h, tag, text) == Appended(Appended(Appended(h, <<tag>>), text), <<"nl">>)

Ends(h, s) == Len(s) <= Len(h) /\ SubSeq(h, Len(h) - Len(s) + 1, Len(h)) = s

\* utf8_safe_suffix_start_local drops what is left of a cut character.
Suffix(s, max) ==
    LET cut == IF Len(s) <= max THEN 1 ELSE Len(s) - max + 1
        starts == {n \in cut..Len(s) + 1 : n <= Len(s) => s[n] \notin {"x2", "x3"}}
    IN SubSeq(s, CHOOSE n \in starts : \A m \in starts : n <= m, Len(s))

\* append_history_suffix_excluding_current_user_to.
Recent(h, g) ==
    LET asks == Piece("U", g)
    IN Suffix(IF Ends(h, asks) THEN SubSeq(h, 1, Len(h) - Len(asks)) ELSE h, RecentLimit)

-----------------------------------------------------------------------------
(* The slots of the session state. *)

\* find_slot, else alloc_slot: the first free slot, else the first one.
SlotOf_FreeFirst(k) ==
    LET at == {i \in 1..Slots : keys[i] = NoKey}
        was == {i \in 1..Slots : keys[i] = k}
        from == IF at # {} THEN at ELSE IF was # {} THEN was ELSE {1}
    IN CHOOSE i \in from : \A j \in from : i <= j
SlotOf_LastGoes(k) ==
    LET from == IF \E i \in 1..Slots : keys[i] = k
                  THEN {i \in 1..Slots : keys[i] = k}
                  ELSE {i \in 1..Slots : keys[i] = NoKey} \cup {Slots}
    IN CHOOSE i \in from : \A j \in from : i <= j
SlotOf(k) ==
    LET was == {i \in 1..Slots : keys[i] = k}
        free == {i \in 1..Slots : keys[i] = NoKey}
        from == IF was # {} THEN was ELSE IF free # {} THEN free ELSE {1}
    IN CHOOSE i \in from : \A j \in from : i <= j

Writable(k, v) == k \notin LongKeys /\ Len(v) <= ValueMax

\* write_session_state, which changes nothing when it refuses.
Write(k, v) ==
    IF Writable(k, v)
      THEN /\ keys' = [keys EXCEPT ![SlotOf(k)] = k]
           /\ values' = [values EXCEPT ![SlotOf(k)] = Utf8Prefix(v, ValueMax)]
           /\ last' = [last EXCEPT ![k] = Utf8Prefix(v, ValueMax)]
           /\ order' = IF \E i \in 1..Len(order) : order[i] = k
                         THEN order ELSE Append(order, k)
      ELSE UNCHANGED store

\* read_session_state, to which an empty value is no value.
Holds(k) == \E i \in 1..Slots : keys[i] = k
Read(k) == IF Holds(k)
             THEN values[CHOOSE i \in 1..Slots : keys[i] = k /\ \A j \in 1..i - 1 : keys[j] # k]
             ELSE <<>>

-----------------------------------------------------------------------------
(* The working memory. *)

MemorySlots == {"task", "source", "workspace", "execution", "conversation"}
States == {"NONE", "RAW", "COMPACTED", "DERIVED"}

\* "whole" is history: nothing of the text is missing in the entry.
NoEntry == [state |-> "NONE", summary |-> <<>>, detail |-> <<>>, whole |-> FALSE,
            created |-> 0, updated |-> 0]

\* set_slot: the turn of the creation stays until the slot is cleared.
SetSlot(m, s, state, summary, detail, whole, now) ==
    [m EXCEPT ![s] = [state |-> state, summary |-> summary, detail |-> detail,
                      whole |-> whole, updated |-> now,
                      created |-> IF m[s].state = "NONE" THEN now ELSE m[s].created]]

\* clear_slot, for each slot of memory_reset.
Cleared_KeepsTurns == [s \in MemorySlots |->
    [NoEntry EXCEPT !.created = memory[s].created, !.state = memory[s].state]]
Cleared == [s \in MemorySlots |-> NoEntry]

\* note_user_request.
NoteUser(text, now) ==
    SetSlot(memory, "task", "DERIVED", Summary(text, SummaryMax), <<>>, FALSE, now)

\* tool_kind_slot.
SlotOfTool(tool) ==
    CASE tool \in {"fetch_url", "search_web"} -> "source"
      [] tool \in {"read_file", "write_file"} -> "workspace"
      [] tool \in {"run_process", "read_process_output"} -> "execution"
      [] OTHER -> "none"

\* compact_tool_result_if_needed: run_process has no form of its own, so what
\* it says stays raw, whatever its length.
Compacts_AtDetail(tool, text) == tool # "run_process" /\ Len(text) > DetailMax + 1
Compacts(tool, text) ==
    /\ tool # "run_process"
    /\ Len(text) > IF tool = "write_file" THEN Trigger ELSE SourceTrigger

\* What the builders of a compacted entry write.
CompactedText == <<"a">>

\* note_tool_result.
NoteTool(tool, text) ==
    LET s == SlotOfTool(tool)
        detail == Summary(text, DetailMax)
    IN IF s = "none" THEN memory
       ELSE IF Compacts(tool, text)
         THEN SetSlot(memory, s, "COMPACTED", CompactedText, CompactedText, FALSE, turn)
         ELSE SetSlot(memory, s, IF tool = "search_web" THEN "DERIVED" ELSE "RAW",
                      CompactedText, detail, detail = Summary(text, Len(text)), turn)

\* note_assistant_response.
NoteAssistant(m, text) ==
    IF Len(text) > Trigger
      THEN SetSlot(m, "conversation", "COMPACTED", CompactedText, CompactedText, FALSE, turn)
      ELSE SetSlot(m, "conversation", "DERIVED", Summary(text, SummaryMax), <<>>, FALSE, turn)

\* append_slots_to for the three slots of the working memory: the bytes of
\* each line of append_entry_prompt_line, and of what the lines before leave.
Line(s) == LET e == memory[s]
           IN IF e.summary = <<>> THEN 0
              ELSE Overhead + Len(e.summary) + Len(e.detail)
Before_TaskLast(s) == IF s = "task" THEN Line("execution") + Line("conversation")
                      ELSE IF s = "execution" THEN 0 ELSE Line("execution")
Before(s) == IF s = "task" THEN 0
             ELSE IF s = "execution" THEN Line("task")
             ELSE Line("task") + Line("execution")
Shown(s) == IF Before(s) >= WorkingLimit THEN 0
            ELSE Least(Line(s), WorkingLimit - Before(s))

-----------------------------------------------------------------------------
(* The handlers. *)

Say(tag, text) ==
    /\ notes < MaxNotes
    /\ notes' = notes + 1
    /\ said' = said \o Piece(tag, text)
    /\ history' = Record(history, tag, text)

\* handle_m4_goal_line, whose turn opens with append_user_turn.
GoalLine(g) ==
    /\ goal = NoGoal
    /\ g # <<>> /\ \A i \in 1..Len(g) : g[i] # "nl"
    /\ goal' = g /\ asked' = TRUE
    /\ turn' = (turn + 1) % TurnMod
    /\ memory' = NoteUser(g, turn')
    /\ Say("U", g)
    /\ UNCHANGED store

\* append_tool_result, for a tool that stored nothing before.
Tell(tool, text) ==
    /\ goal # NoGoal
    /\ memory' = NoteTool(tool, text)
    /\ Say("T", text)
    /\ UNCHANGED <<goal, turn, asked>>

\* The tools that take a fetch; the bridge answers run_process with a number.
\* fetch_url remembers its URL u and an X tool its result under a key of its
\* own, and neither looks whether the write was refused.
Tool(tool, text, u) ==
    /\ tool = "run_process" => Len(text) <= SourceTrigger
    /\ Tell(tool, text)
    /\ CASE tool = "fetch_url" -> Write("last_fetch_url", u)
         [] tool = "posts" -> Write("last_posts", text)
         [] OTHER -> UNCHANGED store

\* read_session_state and write_session_state called by the model.
ReadState(k) ==
    /\ Tell("none", IF Read(k) = <<>> THEN CompactedText ELSE Read(k))
    /\ UNCHANGED store

WriteState(k, v) ==
    /\ Writable(k, v)
    /\ Tell("none", CompactedText)
    /\ Write(k, v)

\* finalize_m4_response and finalize_m4_reason, for a refused write too.
Answer(text) ==
    /\ goal # NoGoal
    /\ goal' = NoGoal /\ asked' = FALSE
    /\ memory' = NoteAssistant(memory, text)
    /\ Say("A", text)
    /\ UNCHANGED <<turn, store>>

\* agent_finish_local without an answer: there was no key for the model.
Unanswered ==
    /\ goal # NoGoal
    /\ goal' = NoGoal /\ asked' = FALSE
    /\ UNCHANGED <<turn, memory, said, notes, history, store>>

\* session_reset, between turns or in one, which then goes on.
SessionReset ==
    /\ keys' = [i \in 1..Slots |-> NoKey] /\ values' = [i \in 1..Slots |-> <<>>]
    /\ last' = [k \in Keys |-> <<>>] /\ order' = <<>>
    /\ history' = <<>> /\ said' = <<>> /\ notes' = 0
    /\ turn' = 0 /\ memory' = Cleared
    /\ asked' = FALSE
    /\ UNCHANGED goal

Init ==
    /\ goal = NoGoal /\ asked = FALSE
    /\ keys = [i \in 1..Slots |-> NoKey] /\ values = [i \in 1..Slots |-> <<>>]
    /\ last = [k \in Keys |-> <<>>] /\ order = <<>>
    /\ history = <<>> /\ said = <<>> /\ notes = 0
    /\ turn = 0 /\ memory = [s \in MemorySlots |-> NoEntry]

Next == \/ \E g \in Texts : GoalLine(g)
        \/ \E tool \in Tools, text \in Texts, u \in Urls : Tool(tool, text, u)
        \/ \E k \in Keys : ReadState(k)
        \/ \E k \in Keys, v \in Texts : WriteState(k, v)
        \/ \E text \in Texts : Answer(text)
        \/ Unanswered \/ SessionReset

Spec == Init /\ [][Next]_vars

-----------------------------------------------------------------------------
(* Properties. *)

\* The values of the static variables, which stay within their arrays.
TypeOK ==
    /\ goal \in Texts \cup {NoGoal} /\ asked \in BOOLEAN
    /\ keys \in [1..Slots -> (Keys \ LongKeys) \cup {NoKey}]
    /\ \A i \in 1..Slots : Len(values[i]) <= ValueMax
    /\ Len(history) <= HistoryMax
    /\ \A s \in MemorySlots :
         LET e == memory[s] IN
         /\ e.state \in States /\ e.created \in 0..TurnMod - 1 /\ e.updated \in 0..TurnMod - 1
         /\ Len(e.summary) <= SummaryMax /\ Len(e.detail) <= DetailMax
    /\ turn \in 0..TurnMod - 1

\* read_session_state returns what was last written under its key in this
\* session, or nothing: a write finds the key's slot wherever it is, an
\* overflow leaves no second one behind, a refused write leaves the old value.
ReadsLast == \A k \in Keys : Read(k) \in {last[k], <<>>}

\* Which keys survive: all while there were no more than there are slots, and
\* after an overflow, whatever is written, all but the first of those that
\* came while there were free slots.
KeysKept ==
    \A i \in 1..Len(order) :
        (i \in 2..Slots \/ Len(order) <= Slots) => Holds(order[i])

\* What the model sees of the task, however much the other lines take of the
\* budget: the beginning of the running turn's question, which is cut only
\* when SummaryMax, the 192 bytes of M7_MEMORY_SUMMARY_MAX, leaves no room for
\* one more character (note_user_request and summary_from_text).  In a turn
\* that was asked before a reset the working memory has no task.
CurrentTask ==
    goal # NoGoal =>
        IF asked
          THEN LET s == memory["task"].summary IN
               /\ Len(s) <= Len(goal) /\ s = SubSeq(goal, 1, Len(s))
               /\ Valid(goal) => s = goal \/ SummaryMax - Len(s) < 3
               /\ memory["task"].updated = turn
               /\ Shown("task") = Line("task")
          ELSE memory["task"] = NoEntry

\* Entries belong to this session and their turns are in order, until the
\* counter of the turns wraps: a reset leaves nothing of an entry behind.
TurnsInOrder ==
    Cardinality({i \in 1..Len(said) : said[i] = "U"}) < TurnMod =>
        \A s \in MemorySlots : memory[s].created <= memory[s].updated
                              /\ memory[s].updated <= turn

\* m7.md's truthful compaction: an entry that says it is raw holds the whole
\* text but for newlines at its end, unless the text was no UTF-8.
RawIsWhole == \A s \in MemorySlots : memory[s].state = "RAW" => memory[s].whole

\* The history, and what is cut from it for the prompt, is valid UTF-8
\* whatever was appended, and nothing of a valid conversation is missing
\* while there is room for one more character.
HistoryWhole ==
    /\ Valid(history) /\ Valid(Suffix(history, RecentLimit))
    /\ Valid(said) => history = said \/ HistoryMax - Len(history) < 3

\* m4.md 173-175: the recent conversation is "the newest suffix of prior user/
\* assistant/tool turns, excluding the current user turn when it is already
\* represented in `Current request`", where every prompt shows it.  Said of the
\* first turn of a session, in which no earlier turn can have asked the same.
\* The code breaks it (FindQuestion.cfg): the question is looked for at the end
\* of the history only, where a later request of the turn finds a tool's result.
QuestionOnce ==
    asked /\ Cardinality({i \in 1..Len(said) : said[i] = "U"}) = 1 =>
        LET shown == Recent(history, goal)
            asks == Piece("U", goal)
        IN \A i \in 0..Len(shown) : ~Ends(SubSeq(shown, 1, i), asks)
=============================================================================

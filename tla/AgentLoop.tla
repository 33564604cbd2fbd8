------------------------------- MODULE AgentLoop -------------------------------
(***************************************************************************)
(* One multi-turn rollout of ToolAgentLoop.run together with the rollout   *)
(* side of Advantage-Aware Masking: the PENDING / GENERATING /             *)
(* PROCESSING_TOOLS / TERMINATED state machine, its token and turn         *)
(* budgets, and the bad-turn spans that nanoclaw_support records.          *)
(*                                                                         *)
(* Tokens are positions: the response is 0 .. len-1 and `active' is the    *)
(* set of positions whose response_mask entry is 1.  The assistant and     *)
(* the tool entries of trajectory_events are two sequences, since nothing  *)
(* reads the order between the two kinds; assistant turn t is turns[t].    *)
(***************************************************************************)
EXTENDS Integers, FiniteSets, Sequences

CONSTANTS
    ResponseLength,    \* rollout.response_length
    PromptLength,      \* tokens of the initial prompt
    Limits,            \* multi_turn limits a run may be configured with
    MaxParallelCalls,  \* multi_turn.max_parallel_calls
    MaxCalls,          \* bound: tool calls the parser finds in one turn
    MaxToolTokens,     \* bound: tokens of one rendered tool turn
    ToolResults,       \* (tool, arguments, response, result) of a tool call
    ErrorResults,      \* those nanoclaw_tool_result_is_error accepts
    None               \* Python's None

LimitType ==
    [assistant_len   : Nat \cup {None},   \* max_assistant_response_length
     assistant_turns : Nat,               \* max_assistant_turns, 0 for none
     user_turns      : Nat]               \* max_user_turns, 0 for none

\* The lengths of AgentLoopOutput.response_ids and response_mask.
OutputType == [response_ids : Nat, response_mask : Nat]

ASSUME AgentLoopAssumption ==
    /\ ResponseLength \in Nat \ {0}
    /\ PromptLength \in Nat \ {0}
    /\ Limits \subseteq LimitType
    /\ MaxParallelCalls \in Nat \ {0}
    /\ MaxCalls \in Nat
    /\ MaxToolTokens \in Nat
    /\ ErrorResults \subseteq ToolResults
    /\ None \notin Nat \cup OutputType

PosthocReasons == {"budget", "duplicate", "error"}
Reasons == PosthocReasons \cup {"looping"}

BudgetReasons == {"max_response_tokens", "max_assistant_response_tokens"}
TerminationReasons ==
    BudgetReasons \cup
    {"unknown", "max_assistant_turns", "max_user_turns",
     "completed_no_tool_call", "max_response_tokens_after_tool"}

VARIABLES
    limits,                     \* the configured limits
    env,                        \* the NANOCLAW_MASK_* switches
    state,                      \* AgentState
    len,                        \* len(response_mask)
    active,                     \* positions with response_mask = 1
    turns,                      \* assistant trajectory events
    tool_events,                \* tool trajectory events
    tool_calls,                 \* number of calls parsed from the last turn
    user_turns,
    assistant_response_tokens,
    termination_reason,
    bad_spans,                  \* extra_fields["nanoclaw_bad_turn_spans"]
    masked_tokens,              \* tokens zeroed, as the metrics count them
    output                      \* AgentLoopOutput, None before run returns

loopVars == <<limits, env, state, len, active, turns, tool_events, tool_calls,
              user_turns, assistant_response_tokens, termination_reason,
              bad_spans, masked_tokens, output>>

assistant_turns == Len(turns)
Span(t) == turns[t].start .. (turns[t].end - 1)
AssistantTokens == UNION {Span(t) : t \in 1 .. assistant_turns}

--------------------------------------------------------------------------------
(* The states of the loop. *)

Init ==
    /\ limits \in Limits
    /\ env \in [Reasons \cup {"only_positive"} -> BOOLEAN]
    /\ state = "pending"
    /\ len = 0
    /\ active = {}
    /\ turns = <<>>
    /\ tool_events = <<>>
    /\ tool_calls = 0
    /\ user_turns = 0
    /\ assistant_response_tokens = 0
    /\ termination_reason = "unknown"
    /\ bad_spans = {}
    /\ masked_tokens = 0
    /\ output = None

\* _handle_pending_state: the prompt is tokenised; the response is empty.
HandlePending ==
    /\ state = "pending"
    /\ state' = "generating"
    /\ UNCHANGED <<limits, env, len, active, turns, tool_events, tool_calls,
                   user_turns, assistant_response_tokens, termination_reason,
                   bad_spans, masked_tokens, output>>

AssistantBudgetSpent(spent) ==
    limits.assistant_len # None /\ spent >= limits.assistant_len

\* The early returns at the head of _handle_generating_state.
HeadReason ==
    IF len >= ResponseLength THEN "max_response_tokens"
    ELSE IF AssistantBudgetSpent(assistant_response_tokens)
    THEN "max_assistant_response_tokens" ELSE "none"

GenerateRefused ==
    /\ state = "generating"
    /\ HeadReason # "none"
    /\ termination_reason' = HeadReason
    /\ state' = "terminated"
    /\ UNCHANGED <<limits, env, len, active, turns, tool_events, tool_calls,
                   user_turns, assistant_response_tokens, bad_spans,
                   masked_tokens, output>>

MaxTokensAssistantOnly ==
    IF limits.assistant_len = None THEN ResponseLength - len
    ELSE limits.assistant_len - assistant_response_tokens

\* sampling_params["max_tokens"] of the next model call.
MaxTokens ==
    IF limits.assistant_len = None \/ ResponseLength - len
            <= limits.assistant_len - assistant_response_tokens
    THEN ResponseLength - len
    ELSE limits.assistant_len - assistant_response_tokens

TailReasonAnswerFirst(total, spent, nturns, calls) ==
    IF calls = 0 THEN "completed_no_tool_call"
    ELSE IF total >= ResponseLength THEN "max_response_tokens"
    ELSE IF AssistantBudgetSpent(spent) THEN "max_assistant_response_tokens"
    ELSE IF limits.assistant_turns # 0 /\ nturns >= limits.assistant_turns
    THEN "max_assistant_turns"
    ELSE IF limits.user_turns # 0 /\ user_turns >= limits.user_turns
    THEN "max_user_turns" ELSE "unknown"

\* The checks after a generation, in the order of the code: the budgets, the
\* turn limits, and only then whether the parser found tool calls.
TailReason(total, spent, nturns, calls) ==
    IF total >= ResponseLength THEN "max_response_tokens"
    ELSE IF AssistantBudgetSpent(spent) THEN "max_assistant_response_tokens"
    ELSE IF limits.assistant_turns # 0 /\ nturns >= limits.assistant_turns
    THEN "max_assistant_turns"
    ELSE IF limits.user_turns # 0 /\ user_turns >= limits.user_turns
    THEN "max_user_turns"
    ELSE IF calls = 0 THEN "completed_no_tool_call" ELSE "unknown"

\* A detected turn is zeroed in the rollout when its switch is on, unless the
\* mask waits for the advantage (NANOCLAW_MASK_ONLY_POSITIVE_ADVANTAGE).
MaskAtOnce(reason) == env[reason] /\ ~env["only_positive"]

\* nanoclaw_record_bad_turn_span: one entry per (turn, reason, span).
BadSpan(t, reason, start, end, count) ==
    [turn |-> t, reason |-> reason, start |-> start, end |-> end,
     token_count |-> count, mask_enabled |-> env[reason]]

StartFromTokenCounter == assistant_response_tokens

\* assistant_response_start: the turn begins where the mask ends.
ResponseStart == len

\* _handle_generating_state: n tokens come back from the server, `looping' is
\* the verdict of the loop detector on the decoded turn and `calls' the number
\* of tool calls the parser would find in it.
HandleGenerating(n, looping, calls) ==
    /\ state = "generating"
    /\ HeadReason = "none"
    /\ LET start  == ResponseStart
           end    == start + n
           spent  == assistant_response_tokens + n
           zeroed == looping /\ MaskAtOnce("looping")
           reason == TailReason(len + n, spent, assistant_turns + 1, calls)
       IN  /\ len' = len + n
           /\ turns' = Append(turns, [start |-> start, end |-> end,
                                      looping |-> looping])
           /\ assistant_response_tokens' = spent
           /\ active' = IF zeroed THEN active
                        ELSE active \cup start .. (end - 1)
           /\ masked_tokens' = IF zeroed THEN masked_tokens + n
                               ELSE masked_tokens
           /\ bad_spans' = IF looping
                           THEN bad_spans \cup
                                {BadSpan(assistant_turns + 1, "looping", start,
                                         end, n)}
                           ELSE bad_spans
           /\ termination_reason' = reason
           /\ tool_calls' = IF reason \in {"unknown", "completed_no_tool_call"}
                            THEN calls ELSE tool_calls
           /\ state' = IF reason = "unknown" THEN "processing_tools"
                       ELSE "terminated"
    /\ UNCHANGED <<limits, env, tool_events, user_turns, output>>

\* An empty generation (an aborted request) neither loops nor calls a tool.
Generate ==
    \E n \in 0 .. MaxTokens, looping \in BOOLEAN, calls \in 0 .. MaxCalls :
        /\ n = 0 => ~looping /\ calls = 0
        /\ HandleGenerating(n, looping, calls)

CallsRun == IF tool_calls <= MaxParallelCalls THEN tool_calls
            ELSE MaxParallelCalls

ToolEvents(results) ==
    [i \in 1 .. Len(results) |-> [turn |-> assistant_turns,
                                  result |-> results[i]]]

ToolTurnTooLong(k) == len + k >= ResponseLength

\* _handle_processing_tools_state: the first max_parallel_calls calls run and
\* give `results'; their rendering has k tokens.  A rendering that would reach
\* the response budget ends the rollout and is not appended.  This is the append
\* of plain tokens; the merge of continuous-token mode, off by default, is not.
HandleTools(results, k) ==
    /\ state = "processing_tools"
    /\ tool_events' = tool_events \o ToolEvents(results)
    /\ IF ToolTurnTooLong(k)
       THEN /\ termination_reason' = "max_response_tokens_after_tool"
            /\ state' = "terminated"
            /\ UNCHANGED <<len, user_turns>>
       ELSE /\ len' = len + k
            /\ user_turns' = user_turns + 1
            /\ state' = "generating"
            /\ UNCHANGED termination_reason
    /\ UNCHANGED <<limits, env, active, turns, tool_calls,
                   assistant_response_tokens, bad_spans, masked_tokens, output>>

ProcessTools ==
    \E results \in [1 .. CallsRun -> ToolResults], k \in 1 .. MaxToolTokens :
        HandleTools(results, k)

--------------------------------------------------------------------------------
(* nanoclaw_apply_posthoc_turn_masks and the output of run.  The three loops  *)
(* of the code (budget, duplicate, error) are given by the turns they select; *)
(* PosthocMask.tla states the loops themselves, which are proved to agree.    *)

\* nanoclaw_assistant_turn_spans: turns without tokens have no span.
SpanTurns == {t \in 1 .. assistant_turns : turns[t].end > turns[t].start}

BudgetTurns ==
    IF termination_reason \in BudgetReasons
    THEN {assistant_turns} \cap SpanTurns ELSE {}

DuplicateTurns ==
    {tool_events[i].turn : i \in
        {i \in 1 .. Len(tool_events) :
            \E j \in 1 .. (i - 1) :
                tool_events[j].result = tool_events[i].result}} \cap SpanTurns

ErrorTurns ==
    {tool_events[i].turn : i \in
        {i \in 1 .. Len(tool_events) :
            tool_events[i].result \in ErrorResults}} \cap SpanTurns

BadTurns(reason) ==
    CASE reason = "budget"    -> BudgetTurns
      [] reason = "duplicate" -> DuplicateTurns
      [] reason = "error"     -> ErrorTurns
      [] reason = "looping"   -> {t \in SpanTurns : turns[t].looping}

\* Reasons whose loop runs before the loop of `reason'.
Earlier(reason) ==
    CASE reason = "budget"    -> {}
      [] reason = "duplicate" -> {"budget"}
      [] reason = "error"     -> {"budget", "duplicate"}

ActiveIn(t) == Cardinality(active \cap Span(t))

\* Turns whose span the loops of the given reasons have already zeroed.
ZeroedBy(reasons) ==
    UNION {BadTurns(r) : r \in {r \in reasons : MaskAtOnce(r)}}

CountAtRecord(reason, t) ==
    IF t \in ZeroedBy(Earlier(reason)) THEN 0 ELSE ActiveIn(t)

PosthocSpansIfEnabled ==
    UNION {{BadSpan(t, reason, turns[t].start, turns[t].end,
                    CountAtRecord(reason, t)) : t \in BadTurns(reason)}
           : reason \in {r \in PosthocReasons : env[r]}}

PosthocSpans ==
    UNION {{BadSpan(t, reason, turns[t].start, turns[t].end,
                    CountAtRecord(reason, t)) : t \in BadTurns(reason)}
           : reason \in PosthocReasons}

ZeroedWithoutDuplicates ==
    active \cap UNION {Span(t) : t \in ZeroedBy({"budget", "error"})}

ZeroedWholeSpans == UNION {Span(t) : t \in ZeroedBy(PosthocReasons)}

\* Tokens the three loops clear.  The metrics add up one count per turn, each
\* taken when the turn is cleared; turns are disjoint (TurnsSeparated).
ZeroedTokens ==
    active \cap UNION {Span(t) : t \in ZeroedBy(PosthocReasons)}

\* The slices of run that build AgentLoopOutput: prompt_ids[-len(mask):] is
\* the whole list when the mask is empty.
ResponseIds == IF len = 0 THEN PromptLength ELSE len

CutToBudget(n) == IF n <= ResponseLength THEN n ELSE ResponseLength

DoneUnlessCutByTool ==
    /\ state = "terminated"
    /\ termination_reason # "max_response_tokens_after_tool"

\* The loop of run ends in TERMINATED.
Done == state = "terminated"

\* The end of run.
Finish ==
    /\ Done
    /\ output = None
    /\ bad_spans' = bad_spans \cup PosthocSpans
    /\ active' = active \ ZeroedTokens
    /\ masked_tokens' = masked_tokens + Cardinality(ZeroedTokens)
    /\ output' = [response_ids  |-> CutToBudget(ResponseIds),
                  response_mask |-> CutToBudget(len)]
    /\ UNCHANGED <<limits, env, state, len, turns, tool_events, tool_calls,
                   user_turns, assistant_response_tokens, termination_reason>>

LoopNext ==
    \/ HandlePending
    \/ GenerateRefused
    \/ Generate
    \/ ProcessTools
    \/ Finish

\* The loop always takes its next step: run is one coroutine, and the model
\* server and the tools answer or raise, which _call_tool turns into text.
LoopSpec == Init /\ [][LoopNext]_loopVars /\ WF_loopVars(LoopNext)

--------------------------------------------------------------------------------
(* Properties. *)

TurnType == [start : Nat, end : Nat, looping : BOOLEAN]
ToolEventType == [turn : Nat, result : ToolResults]
BadSpanType == [turn : Nat, reason : Reasons, start : Nat, end : Nat,
                token_count : Nat, mask_enabled : BOOLEAN]

\* The fields of AgentData and of the output have their types.
TypeOK ==
    /\ limits \in Limits
    /\ env \in [Reasons \cup {"only_positive"} -> BOOLEAN]
    /\ state \in {"pending", "generating", "processing_tools", "terminated"}
    /\ len \in Nat
    /\ active \subseteq 0 .. (len - 1)
    /\ turns \in Seq(TurnType)
    /\ tool_events \in Seq(ToolEventType)
    /\ tool_calls \in Nat
    /\ user_turns \in Nat
    /\ assistant_response_tokens \in Nat
    /\ termination_reason \in TerminationReasons
    /\ bad_spans \subseteq BadSpanType
    /\ masked_tokens \in Nat
    /\ output = None \/ output \in OutputType

\* The recorded turns tile the response: they lie inside it, in order, and
\* tool tokens separate every two of them, so no span of a bad turn can reach
\* into another turn (response_start / response_end of trajectory_events).
TurnsSeparated ==
    \A t \in 1 .. assistant_turns :
        /\ turns[t].start <= turns[t].end
        /\ turns[t].end <= len
        /\ \A u \in 1 .. (t - 1) : turns[u].end < turns[t].start

\* A turn only starts while both token budgets have room, so the two early
\* returns of _handle_generating_state can fire only before the first turn;
\* no budget and no turn limit is ever exceeded.
BudgetsRespected ==
    /\ len <= ResponseLength
    /\ limits.assistant_len # None =>
            assistant_response_tokens <= limits.assistant_len
    /\ limits.assistant_turns # 0 => assistant_turns <= limits.assistant_turns
    /\ limits.user_turns # 0 => user_turns <= limits.user_turns
    /\ state = "generating" /\ turns # <<>> => HeadReason = "none"

\* Tool results and assistant turns alternate: whatever tool results the model
\* was given, it has answered them when the rollout ends.
TurnsAlternate ==
    /\ state \in {"pending", "generating"} => assistant_turns = user_turns
    /\ state = "processing_tools" \/ (state = "terminated" /\ turns # <<>>)
            => assistant_turns = user_turns + 1

\* The response mask selects exactly the tokens the model produced, less the
\* turns that masking has removed so far; a tool token is never trained on.
MaskSelectsModelTokens ==
    active = AssistantTokens \ UNION {Span(t) : t \in
                ZeroedBy(IF output = None THEN {"looping"} ELSE Reasons)}

\* The masked-token metrics count each zeroed token once, although a turn may
\* be bad for several reasons and zeroed by the first of them only.
MaskedTokensAccounted ==
    masked_tokens + Cardinality(active) = assistant_response_tokens

\* The termination reason tells the truth: a completed rollout had budget left
\* and asked for no tool; a turn that ends the rollout at a budget or turn
\* limit never runs its tool calls; one that ends it after its tools did run.
ReasonTruthful ==
    state = "terminated" =>
        /\ termination_reason # "unknown"
        /\ termination_reason = "completed_no_tool_call" =>
                tool_calls = 0 /\ HeadReason = "none"
        /\ (\E i \in 1 .. Len(tool_events) :
                tool_events[i].turn = assistant_turns)
            <=> termination_reason = "max_response_tokens_after_tool"

\* "Rollout-side detection always records candidate spans, independently of
\* whether masking is enabled": the spans handed to the trainer are exactly
\* the turns the trajectory shows to be bad, with their positions and switch.
BadTurnsRecorded ==
    LET detected == IF output = None THEN {"looping"} ELSE Reasons
    IN  /\ \A s \in bad_spans :
            /\ s.reason \in detected /\ s.turn \in BadTurns(s.reason)
            /\ s.start = turns[s.turn].start /\ s.end = turns[s.turn].end
            /\ s.mask_enabled = env[s.reason]
        /\ \A r \in detected : \A t \in BadTurns(r) :
            \E s \in bad_spans : s.reason = r /\ s.turn = t

\* What each state of the loop knows, on top of the properties above; it makes
\* their conjunction inductive.
LoopFacts ==
    /\ state # "terminated" => output = None /\ termination_reason = "unknown"
    /\ state = "pending" => turns = <<>>
    /\ turns = <<>> => len = 0 /\ assistant_response_tokens = 0
    /\ turns = <<>> => tool_events = <<>>
    /\ state = "generating" =>
            \A t \in 1 .. assistant_turns : turns[t].end < len
    /\ state = "processing_tools" =>
            /\ turns # <<>> /\ tool_calls > 0 /\ HeadReason = "none"
            /\ limits.user_turns # 0 => user_turns < limits.user_turns
    /\ state \in {"generating", "processing_tools"} /\ turns # <<>> =>
            (limits.assistant_turns # 0 =>
                assistant_turns < limits.assistant_turns)
    /\ \A i \in 1 .. Len(tool_events) :
            /\ tool_events[i].turn <= assistant_turns
            /\ state = "processing_tools" =>
                    tool_events[i].turn < assistant_turns

\* The inductive invariant of the loop.
LoopInv ==
    /\ TypeOK
    /\ TurnsSeparated
    /\ BudgetsRespected
    /\ TurnsAlternate
    /\ MaskSelectsModelTokens
    /\ MaskedTokensAccounted
    /\ ReasonTruthful
    /\ LoopFacts

HistoryStep ==
    /\ len <= len'
    /\ active' \cap 0 .. (len - 1) \subseteq active
    /\ bad_spans \subseteq bad_spans'
    /\ assistant_turns <= Len(turns')
    /\ \A t \in 1 .. assistant_turns : turns'[t] = turns[t]

\* What a step may never do: drop a recorded turn or span, move an earlier
\* token, or train again on a token whose mask was cleared.
HistoryKept == [][HistoryStep]_loopVars

\* Every rollout returns an output.
RolloutReturns == <>(output # None)

\* AgentLoopOutput documents response_mask as an entry per response token, so
\* response_ids and response_mask must have one length.
OutputAligned == output # None => output.response_ids = output.response_mask
================================================================================

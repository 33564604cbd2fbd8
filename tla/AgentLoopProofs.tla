---------------------------- MODULE AgentLoopProofs ----------------------------
(* Machine-checked proofs about AgentLoop, for every value of its constants. *)
EXTENDS AgentLoop, FiniteSetTheorems, SequenceTheorems, TLAPS

\* The positions of a prefix of the response.
LEMMA PrefixGrows ==
    ASSUME NEW m \in Nat, NEW n \in Nat, m <= n, NEW S,
           S \subseteq 0 .. (m - 1)
    PROVE  S \subseteq 0 .. (n - 1)
OBVIOUS

\* The fields of a recorded turn have their types.
LEMMA TurnFields ==
    ASSUME TypeOK, NEW t \in 1 .. assistant_turns
    PROVE  /\ turns[t].start \in Nat
           /\ turns[t].end \in Nat
           /\ turns[t].looping \in BOOLEAN
<1>1. turns \in Seq(TurnType)
  BY DEF TypeOK
<1>2. turns[t] \in TurnType
  BY <1>1, ElementOfSeq DEF assistant_turns
<1> QED
  BY <1>2 DEF TurnType

\* The number of active tokens in a turn is a natural number.
LEMMA ActiveInNat ==
    ASSUME TypeOK, NEW t \in 1 .. assistant_turns
    PROVE  ActiveIn(t) \in Nat
<1>1. turns[t].start \in Int /\ turns[t].end - 1 \in Int
  BY TurnFields
<1>2. IsFiniteSet(Span(t))
  BY <1>1, FS_Interval DEF Span
<1>3. IsFiniteSet(active \cap Span(t))
  BY <1>2, FS_Subset
<1> QED
  BY <1>3, FS_CardinalityType DEF ActiveIn

\* A posthoc loop only ever names turns that exist.
LEMMA BadTurnsExist ==
    ASSUME NEW r \in Reasons
    PROVE  BadTurns(r) \subseteq SpanTurns /\ SpanTurns \subseteq 1 .. assistant_turns
<1>1. CASE r = "budget"
  BY <1>1 DEF BadTurns, BudgetTurns, SpanTurns
<1>2. CASE r = "duplicate"
  BY <1>2 DEF BadTurns, DuplicateTurns, SpanTurns
<1>3. CASE r = "error"
  BY <1>3 DEF BadTurns, ErrorTurns, SpanTurns
<1>4. CASE r = "looping"
  BY <1>4 DEF BadTurns, SpanTurns
<1> QED
  BY <1>1, <1>2, <1>3, <1>4 DEF Reasons, PosthocReasons

\* The spans the posthoc loops record are well formed.
LEMMA PosthocSpansType ==
    ASSUME TypeOK
    PROVE  PosthocSpans \subseteq BadSpanType
<1> SUFFICES ASSUME NEW reason \in PosthocReasons, NEW t \in BadTurns(reason)
             PROVE  BadSpan(t, reason, turns[t].start, turns[t].end,
                            CountAtRecord(reason, t)) \in BadSpanType
  <2>1. ASSUME NEW s \in PosthocSpans
        PROVE  \E reason \in PosthocReasons : \E t \in BadTurns(reason) :
                 s = BadSpan(t, reason, turns[t].start, turns[t].end,
                             CountAtRecord(reason, t))
    BY DEF PosthocSpans
  <2> QED
    BY <2>1
<1>1. reason \in Reasons
  BY DEF Reasons
<1>2. t \in 1 .. assistant_turns
  BY <1>1, BadTurnsExist
<1>3. turns[t].start \in Nat /\ turns[t].end \in Nat
  BY <1>2, TurnFields
<1>4. CountAtRecord(reason, t) \in Nat
  BY <1>2, ActiveInNat DEF CountAtRecord
<1>5. env[reason] \in BOOLEAN
  BY <1>1 DEF TypeOK
<1> QED
  BY <1>1, <1>2, <1>3, <1>4, <1>5 DEF BadSpan, BadSpanType, assistant_turns

\* The tokens the posthoc loops clear are a finite set.
LEMMA ZeroedTokensFinite ==
    ASSUME TypeOK
    PROVE  IsFiniteSet(active) /\ IsFiniteSet(ZeroedTokens)
<1>1. IsFiniteSet(0 .. (len - 1))
  BY FS_Interval DEF TypeOK
<1>2. IsFiniteSet(active)
  BY <1>1, FS_Subset DEF TypeOK
<1> QED
  BY <1>2, FS_Subset DEF ZeroedTokens

\* HandleGenerating keeps the types.
LEMMA TypeGenerate ==
    ASSUME TypeOK, Generate
    PROVE  TypeOK'
<1>1. PICK n \in 0 .. MaxTokens, looping \in BOOLEAN, calls \in 0 .. MaxCalls :
        HandleGenerating(n, looping, calls)
  BY DEF Generate
<1> USE AgentLoopAssumption
<1>2. n \in Nat /\ calls \in Nat
  BY <1>1
<1>3. len' \in Nat /\ assistant_response_tokens' \in Nat /\ tool_calls' \in Nat
      /\ masked_tokens' \in Nat
  BY <1>1, <1>2 DEF TypeOK, HandleGenerating
<1>4. active' \subseteq 0 .. (len' - 1)
  BY <1>1, <1>2 DEF TypeOK, HandleGenerating, ResponseStart
<1>5. turns' \in Seq(TurnType)
  BY <1>1, <1>2 DEF TypeOK, HandleGenerating, ResponseStart, TurnType
<1>6. BadSpan(assistant_turns + 1, "looping", len, len + n, n) \in BadSpanType
  BY <1>2 DEF TypeOK, BadSpan, BadSpanType, Reasons, assistant_turns
<1>7. bad_spans' \subseteq BadSpanType
  BY <1>1, <1>6 DEF TypeOK, HandleGenerating, ResponseStart
<1>8. state' \in {"pending", "generating", "processing_tools", "terminated"}
      /\ termination_reason' \in TerminationReasons
  BY <1>1 DEF HandleGenerating, TailReason, TerminationReasons, BudgetReasons
<1> QED
  BY <1>1, <1>3, <1>4, <1>5, <1>7, <1>8 DEF TypeOK, HandleGenerating

\* HandleTools keeps the types.
LEMMA TypeTools ==
    ASSUME TypeOK, ProcessTools
    PROVE  TypeOK'
<1>1. PICK results \in [1 .. CallsRun -> ToolResults], k \in 1 .. MaxToolTokens :
        HandleTools(results, k)
  BY DEF ProcessTools
<1> USE AgentLoopAssumption
<1>2. CallsRun \in Nat
  BY DEF TypeOK, CallsRun
<1>3. results \in Seq(ToolResults)
  BY <1>2
<1>4. ToolEvents(results) \in Seq(ToolEventType)
  <2>1. Len(results) \in Nat /\ assistant_turns \in Nat
    BY <1>3 DEF TypeOK, assistant_turns
  <2>2. ASSUME NEW i \in 1 .. Len(results)
        PROVE  [turn |-> assistant_turns, result |-> results[i]]
                    \in ToolEventType
    BY <1>3, <2>1, ElementOfSeq DEF ToolEventType
  <2>3. ToolEvents(results) \in [1 .. Len(results) -> ToolEventType]
    BY <2>2 DEF ToolEvents
  <2> QED
    BY <2>1, <2>3
<1>5. tool_events' \in Seq(ToolEventType)
  BY <1>1, <1>4 DEF TypeOK, HandleTools
<1>6. len' \in Nat /\ len <= len' /\ user_turns' \in Nat
  BY <1>1 DEF TypeOK, HandleTools
<1>7. active' \subseteq 0 .. (len' - 1)
  <2>1. active' = active /\ active \subseteq 0 .. (len - 1) /\ len \in Nat
    BY <1>1 DEF TypeOK, HandleTools
  <2> QED
    BY <1>6, <2>1, PrefixGrows
<1>8. state' \in {"pending", "generating", "processing_tools", "terminated"}
      /\ termination_reason' \in TerminationReasons
  BY <1>1 DEF TypeOK, HandleTools, TerminationReasons
<1> QED
  BY <1>1, <1>5, <1>6, <1>7, <1>8 DEF TypeOK, HandleTools

\* Finish keeps the types.
LEMMA TypeFinish ==
    ASSUME TypeOK, Finish
    PROVE  TypeOK'
<1> USE AgentLoopAssumption
<1>1. bad_spans' \subseteq BadSpanType
  BY PosthocSpansType DEF TypeOK, Finish
<1>2. masked_tokens' \in Nat
  BY ZeroedTokensFinite, FS_CardinalityType DEF TypeOK, Finish
<1>3. output' \in OutputType
  BY DEF TypeOK, Finish, OutputType, CutToBudget, ResponseIds
<1>4. active' \subseteq 0 .. (len' - 1)
  BY DEF TypeOK, Finish
<1> QED
  BY <1>1, <1>2, <1>3, <1>4 DEF TypeOK, Finish

\* Every step keeps the types.
LEMMA TypeStep ==
    ASSUME TypeOK, [LoopNext]_loopVars
    PROVE  TypeOK'
<1> USE AgentLoopAssumption
<1>1. CASE HandlePending
  BY <1>1 DEF TypeOK, HandlePending
<1>2. CASE GenerateRefused
  BY <1>2 DEF TypeOK, GenerateRefused, HeadReason, TerminationReasons,
              BudgetReasons
<1>3. CASE Generate
  BY <1>3, TypeGenerate
<1>4. CASE ProcessTools
  BY <1>4, TypeTools
<1>5. CASE Finish
  BY <1>5, TypeFinish
<1>6. CASE UNCHANGED loopVars
  BY <1>6 DEF TypeOK, loopVars
<1> QED
  BY <1>1, <1>2, <1>3, <1>4, <1>5, <1>6 DEF LoopNext

--------------------------------------------------------------------------------
(* The inductive invariant. *)

\* Before the output is built, the mask is the union of the turns that were
\* not zeroed when they were generated.
Unmasked == {t \in 1 .. assistant_turns :
                ~(turns[t].looping /\ MaskAtOnce("looping"))}

LEMMA MaskBeforeOutput ==
    ASSUME TypeOK, TurnsSeparated
    PROVE  AssistantTokens \ UNION {Span(t) : t \in ZeroedBy({"looping"})}
            = UNION {Span(t) : t \in Unmasked}
<1> DEFINE Z == ZeroedBy({"looping"})
<1>1. ASSUME NEW t PROVE
        t \in Z <=> /\ t \in 1 .. assistant_turns
                    /\ turns[t].end > turns[t].start
                    /\ turns[t].looping /\ MaskAtOnce("looping")
  BY DEF ZeroedBy, BadTurns, SpanTurns
<1>2. ASSUME NEW t \in 1 .. assistant_turns, NEW u \in 1 .. assistant_turns,
             NEW p, p \in Span(t), p \in Span(u)
      PROVE  t = u
  <2>1. \A v \in 1 .. assistant_turns :
            turns[v].start \in Nat /\ turns[v].end \in Nat
    BY TurnFields
  <2>2. /\ turns[t].start <= p /\ p < turns[t].end
        /\ turns[u].start <= p /\ p < turns[u].end /\ p \in Int
    BY <1>2, <2>1 DEF Span
  <2>3. CASE t < u
    <3>1. turns[t].end < turns[u].start
      BY <2>3 DEF TurnsSeparated, TypeOK, assistant_turns
    <3> QED
      BY <2>1, <2>2, <3>1
  <2>4. CASE u < t
    <3>1. turns[u].end < turns[t].start
      BY <2>4 DEF TurnsSeparated, TypeOK, assistant_turns
    <3> QED
      BY <2>1, <2>2, <3>1
  <2> QED
    BY <2>3, <2>4 DEF TypeOK, assistant_turns
<1>3. ASSUME NEW t \in 1 .. assistant_turns, NEW p \in Span(t)
      PROVE  turns[t].end > turns[t].start
  BY <1>3, TurnFields DEF Span
<1>4. ASSUME NEW p
      PROVE  (p \in AssistantTokens /\ p \notin UNION {Span(t) : t \in Z})
                <=> p \in UNION {Span(t) : t \in Unmasked}
  <2>1. ASSUME p \in AssistantTokens, p \notin UNION {Span(t) : t \in Z}
        PROVE  p \in UNION {Span(t) : t \in Unmasked}
    <3>1. PICK t \in 1 .. assistant_turns : p \in Span(t)
      BY <2>1 DEF AssistantTokens
    <3>2. t \notin Z
      BY <2>1, <3>1
    <3> QED
      BY <1>1, <1>3, <3>1, <3>2 DEF Unmasked
  <2>2. ASSUME p \in UNION {Span(t) : t \in Unmasked}
        PROVE  p \in AssistantTokens /\ p \notin UNION {Span(t) : t \in Z}
    <3>1. PICK t \in Unmasked : p \in Span(t)
      BY <2>2
    <3>2. t \in 1 .. assistant_turns /\ t \notin Z
      BY <1>1 DEF Unmasked
    <3>3. ASSUME NEW u \in Z PROVE p \notin Span(u)
      BY <1>1, <1>2, <3>1, <3>2
    <3> QED
      BY <3>1, <3>2, <3>3 DEF AssistantTokens
  <2> QED
    BY <2>1, <2>2
<1> HIDE DEF Z
<1> QED
  BY <1>4 DEF Z

\* The mask in the form the step lemmas use.
LEMMA MaskOpen ==
    ASSUME TypeOK, TurnsSeparated, output = None
    PROVE  MaskSelectsModelTokens <=> active = UNION {Span(t) : t \in Unmasked}
  BY MaskBeforeOutput DEF MaskSelectsModelTokens

\* A generation preserves the invariant.
LEMMA InvGenerate ==
    ASSUME LoopInv, Generate
    PROVE  LoopInv'
<1> USE AgentLoopAssumption
<1>1. PICK n \in 0 .. MaxTokens, looping \in BOOLEAN, calls \in 0 .. MaxCalls :
        HandleGenerating(n, looping, calls)
  BY DEF Generate
<1>2. TypeOK /\ TypeOK'
  BY TypeGenerate DEF LoopInv
<1>2a. PICK N \in Nat : N = Len(turns)
  BY <1>2 DEF TypeOK
<1> DEFINE new == [start |-> len, end |-> len + n, looping |-> looping]
           reason == TailReason(len + n, assistant_response_tokens + n, N + 1,
                                calls)
           zeroed == looping /\ MaskAtOnce("looping")
<1>3. /\ N \in Nat /\ len \in Nat /\ n \in Nat /\ calls \in Nat
      /\ turns \in Seq(TurnType) /\ new \in TurnType
  BY <1>1, <1>2 DEF TypeOK, TurnType
<1>4a. active' = IF zeroed THEN active ELSE active \cup len .. ((len + n) - 1)
  BY <1>1, Zenon DEF HandleGenerating, ResponseStart
<1>4. /\ turns' = Append(turns, new)
      /\ len' = len + n
      /\ assistant_response_tokens' = assistant_response_tokens + n
      /\ termination_reason' = reason
      /\ state' = IF reason = "unknown" THEN "processing_tools" ELSE "terminated"
      /\ state = "generating" /\ HeadReason = "none"
      /\ UNCHANGED <<limits, env, tool_events, user_turns, output>>
  BY <1>1, <1>2a DEF HandleGenerating, ResponseStart, assistant_turns
<1>5. /\ Len(turns') = N + 1
      /\ \A t \in 1 .. N : turns'[t] = turns[t]
      /\ turns'[N + 1] = new
  BY <1>2a, <1>3, <1>4
<1> HIDE DEF new, reason, zeroed
<1>6. /\ output = None /\ output' = None
      /\ \A t \in 1 .. N : turns[t].end < len
  BY <1>4, <1>2a DEF LoopInv, LoopFacts, assistant_turns
<1>7. TurnsSeparated'
  <2> SUFFICES ASSUME NEW t \in 1 .. (N + 1)
               PROVE  /\ turns'[t].start <= turns'[t].end
                      /\ turns'[t].end <= len'
                      /\ \A u \in 1 .. (t - 1) : turns'[u].end < turns'[t].start
    BY <1>5 DEF TurnsSeparated, assistant_turns
  <2>1. CASE t \in 1 .. N
    <3>1. /\ turns[t].start <= turns[t].end
          /\ \A u \in 1 .. (t - 1) : turns[u].end < turns[t].start
      BY <2>1, <1>2a DEF LoopInv, TurnsSeparated, assistant_turns
    <3>2. turns[t].end \in Nat /\ turns[t].end <= len'
      BY <1>2, <1>3, <1>4, <1>6, <2>1, TurnFields, <1>2a DEF assistant_turns
    <3>3. \A u \in 1 .. (t - 1) : u \in 1 .. N
      BY <1>3, <2>1
    <3> QED
      BY <1>5, <2>1, <3>1, <3>2, <3>3
  <2>2. CASE t = N + 1
    <3>1. \A u \in 1 .. (t - 1) : u \in 1 .. N
      BY <1>3, <2>2
    <3> QED
      BY <1>3, <1>4, <1>5, <1>6, <2>2, <3>1 DEF new
  <2> QED
    BY <1>3, <2>1, <2>2
<1>8. BudgetsRespected'
  <2>1. len + n <= ResponseLength
    BY <1>1, <1>3, <1>4, <1>2 DEF MaxTokens, TypeOK, HeadReason, LimitType
  <2>2. limits.assistant_len # None =>
            assistant_response_tokens + n <= limits.assistant_len
    BY <1>1, <1>2, <1>3, <1>4 DEF MaxTokens, TypeOK, HeadReason, LimitType,
                                  AssistantBudgetSpent
  <2>3. limits.assistant_turns # 0 => N + 1 <= limits.assistant_turns
    <3>1. CASE turns = <<>>
      BY <1>2, <1>3, <3>1, <1>2a DEF TypeOK, LimitType
    <3>2. CASE turns # <<>>
      BY <1>2, <1>3, <1>4, <3>2, <1>2a DEF LoopInv, LoopFacts, TypeOK, LimitType,
                                    assistant_turns
    <3> QED
      BY <3>1, <3>2
  <2>4. limits.user_turns # 0 => user_turns <= limits.user_turns
    BY DEF LoopInv, BudgetsRespected
  <2> QED
    BY <1>4, <1>5, <2>1, <2>2, <2>3, <2>4 DEF BudgetsRespected, assistant_turns
<1>9. TurnsAlternate'
  <2>1. N = user_turns
    BY <1>4, <1>2a DEF LoopInv, TurnsAlternate, assistant_turns
  <2> QED
    BY <1>4, <1>5, <2>1 DEF TurnsAlternate, assistant_turns
<1>10. MaskSelectsModelTokens'
  <2>1. active = UNION {Span(t) : t \in Unmasked}
    BY <1>2, <1>6, MaskOpen DEF LoopInv
  <2>2. \A t \in 1 .. N : Span(t)' = Span(t)
    BY <1>5 DEF Span
  <2>3. Span(N + 1)' = len .. ((len + n) - 1)
    <3>1. turns'[N + 1].start = len /\ turns'[N + 1].end = len + n
      BY <1>5 DEF new
    <3> QED
      BY <3>1, Zenon DEF Span
  <2>4. Unmasked' = Unmasked \cup (IF zeroed THEN {} ELSE {N + 1})
    <3>1. MaskAtOnce("looping")' = MaskAtOnce("looping")
      BY <1>4 DEF MaskAtOnce
    <3>2. ASSUME NEW t
          PROVE  t \in Unmasked' <=>
                    t \in Unmasked \/ (t = N + 1 /\ ~zeroed)
      <4>1. t \in 1 .. (N + 1) <=> t \in 1 .. N \/ t = N + 1
        BY <1>3
      <4>2. N + 1 \notin 1 .. N
        BY <1>3
      <4> QED
        BY <1>5, <3>1, <4>1, <4>2, <1>2a DEF Unmasked, assistant_turns, zeroed, new
    <3> QED
      BY <3>2
  <2>5. Unmasked \subseteq 1 .. N
    BY <1>2a DEF Unmasked, assistant_turns
  <2>6. active' = UNION {Span(t)' : t \in Unmasked'}
    BY <1>4a, <2>1, <2>2, <2>3, <2>4, <2>5
  <2>7. (MaskSelectsModelTokens <=> active = UNION {Span(t) : t \in Unmasked})'
    <3>1. (TypeOK /\ TurnsSeparated /\ output = None)'
      BY <1>2, <1>6, <1>7
    <3> QED
      BY <3>1, MaskOpen, PTL
  <2> QED
    BY <2>6, <2>7
<1>11. MaskedTokensAccounted'
  <2>1. masked_tokens' = IF zeroed THEN masked_tokens + n ELSE masked_tokens
    BY <1>1 DEF HandleGenerating, zeroed
  <2>2. IsFiniteSet(active) /\ Cardinality(active) \in Nat
    BY <1>2, ZeroedTokensFinite, FS_CardinalityType
  <2>3. IsFiniteSet(len .. ((len + n) - 1)) /\ Cardinality(len .. ((len + n) - 1)) = n
    <3>1. len \in Int /\ (len + n) - 1 \in Int
      BY <1>3
    <3>2. Cardinality(len .. ((len + n) - 1))
            = IF len > (len + n) - 1 THEN 0 ELSE ((len + n) - 1) - len + 1
      BY <3>1, FS_Interval
    <3> QED
      BY <1>3, <3>1, <3>2, FS_Interval
  <2>4. active \cap (len .. ((len + n) - 1)) = {}
    BY <1>2, <1>3 DEF TypeOK
  <2>5. Cardinality(active \cup (len .. ((len + n) - 1)))
            = Cardinality(active) + n
    <3>1. Cardinality(active \cup (len .. ((len + n) - 1)))
            = Cardinality(active) + Cardinality(len .. ((len + n) - 1))
              - Cardinality(active \cap (len .. ((len + n) - 1)))
      BY <2>2, <2>3, FS_Union
    <3> QED
      <4>1. Cardinality(active \cap (len .. ((len + n) - 1))) = 0
        BY <2>4, FS_EmptySet
      <4> QED
        BY <1>3, <2>2, <2>3, <3>1, <4>1
  <2>6. masked_tokens + Cardinality(active) = assistant_response_tokens
    BY DEF LoopInv, MaskedTokensAccounted
  <2>7. masked_tokens \in Nat
    BY <1>2 DEF TypeOK
  <2>8. CASE zeroed
    <3>1. masked_tokens' = masked_tokens + n /\ active' = active
      BY <1>4a, <2>1, <2>8
    <3> QED
      BY <1>3, <1>4, <2>2, <2>6, <2>7, <3>1 DEF MaskedTokensAccounted
  <2>9. CASE ~zeroed
    <3>1. /\ masked_tokens' = masked_tokens
          /\ Cardinality(active') = Cardinality(active) + n
      BY <1>4a, <2>1, <2>5, <2>9
    <3> QED
      BY <1>3, <1>4, <2>2, <2>6, <2>7, <3>1 DEF MaskedTokensAccounted
  <2> QED
    BY <2>8, <2>9
<1>12. \A i \in 1 .. Len(tool_events) : tool_events[i].turn < N + 1
  <2> SUFFICES ASSUME NEW i \in 1 .. Len(tool_events)
               PROVE  tool_events[i].turn < N + 1
    OBVIOUS
  <2>1. tool_events[i] \in ToolEventType
    BY <1>2, ElementOfSeq DEF TypeOK
  <2>2. tool_events[i].turn <= N
    BY <1>2a DEF LoopInv, LoopFacts, assistant_turns
  <2> QED
    BY <1>3, <2>1, <2>2 DEF ToolEventType
<1>13. reason # "max_response_tokens_after_tool"
  BY DEF reason, TailReason
<1>14. reason = "completed_no_tool_call" => tool_calls' = 0 /\ HeadReason' = "none"
  BY <1>1, <1>4, <1>2a DEF reason, TailReason, HandleGenerating, HeadReason,
                    AssistantBudgetSpent, assistant_turns
<1>15. ReasonTruthful'
  <2>1. reason # "unknown" => termination_reason' # "unknown"
    BY <1>4
  <2>2. state' = "terminated" => reason # "unknown"
    BY <1>4
  <2>3. \A i \in 1 .. Len(tool_events') : tool_events'[i].turn # Len(turns')
    <3> SUFFICES ASSUME NEW i \in 1 .. Len(tool_events)
                 PROVE  tool_events[i].turn # N + 1
      BY <1>4, <1>5
    <3>1. tool_events[i] \in ToolEventType
      BY <1>2, ElementOfSeq DEF TypeOK
    <3> QED
      BY <1>3, <1>12, <3>1 DEF ToolEventType
  <2> QED
    BY <1>4, <1>13, <1>14, <2>1, <2>2, <2>3 DEF ReasonTruthful, assistant_turns
<1>16. LoopFacts'
  <2>1. turns' # <<>>
    BY <1>3, <1>4
  <2>2. ASSUME reason = "unknown"
        PROVE  /\ tool_calls' > 0 /\ HeadReason' = "none"
               /\ limits.user_turns # 0 => user_turns < limits.user_turns
               /\ limits.assistant_turns # 0 => N + 1 < limits.assistant_turns
    BY <1>1, <1>2, <1>2a, <1>3, <1>4, <2>2
       DEF reason, TailReason, HandleGenerating, HeadReason,
           AssistantBudgetSpent, assistant_turns, TypeOK, LimitType
  <2>3. \A i \in 1 .. Len(tool_events') :
            /\ tool_events'[i].turn <= Len(turns')
            /\ tool_events'[i].turn < Len(turns')
    <3> SUFFICES ASSUME NEW i \in 1 .. Len(tool_events)
                 PROVE  tool_events[i].turn <= N + 1
      BY <1>4, <1>5, <1>12
    <3>1. tool_events[i] \in ToolEventType
      BY <1>2, ElementOfSeq DEF TypeOK
    <3> QED
      BY <1>3, <1>12, <3>1 DEF ToolEventType
  <2>4. state' \in {"processing_tools", "terminated"}
        /\ (state' = "processing_tools" =>
                reason = "unknown" /\ termination_reason' = "unknown")
    BY <1>4
  <2> QED
    BY <1>4, <1>5, <1>6, <2>1, <2>2, <2>3, <2>4 DEF LoopFacts, assistant_turns
<1> QED
  BY <1>2, <1>7, <1>8, <1>9, <1>10, <1>11, <1>15, <1>16 DEF LoopInv

\* A tool turn preserves the invariant.
LEMMA InvTools ==
    ASSUME LoopInv, ProcessTools
    PROVE  LoopInv'
<1> USE AgentLoopAssumption
<1>1. PICK results \in [1 .. CallsRun -> ToolResults], k \in 1 .. MaxToolTokens :
        HandleTools(results, k)
  BY DEF ProcessTools
<1>2. TypeOK /\ TypeOK'
  BY TypeTools DEF LoopInv
<1>3. k \in Nat /\ k > 0
  BY <1>1
<1>4. /\ state = "processing_tools"
      /\ UNCHANGED <<limits, env, active, turns, tool_calls,
                     assistant_response_tokens, bad_spans, masked_tokens, output>>
      /\ tool_events' = tool_events \o ToolEvents(results)
  BY <1>1 DEF HandleTools
<1>5. \/ /\ state' = "terminated" /\ len' = len /\ user_turns' = user_turns
         /\ termination_reason' = "max_response_tokens_after_tool"
      \/ /\ state' = "generating" /\ len' = len + k
         /\ len' < ResponseLength
         /\ user_turns' = user_turns + 1
         /\ termination_reason' = termination_reason
  BY <1>1, <1>2 DEF HandleTools, ToolTurnTooLong, TypeOK
<1>6. /\ len \in Nat /\ len' \in Nat /\ len <= len'
      /\ assistant_turns \in Nat /\ assistant_turns' = assistant_turns
  BY <1>2, <1>3, <1>4, <1>5 DEF TypeOK, assistant_turns
<1>7. /\ output = None /\ termination_reason = "unknown" /\ turns # <<>>
      /\ HeadReason = "none" /\ tool_calls > 0
      /\ limits.user_turns # 0 => user_turns < limits.user_turns
      /\ limits.assistant_turns # 0 => assistant_turns < limits.assistant_turns
  BY <1>4 DEF LoopInv, LoopFacts
<1>8. CallsRun \in Nat /\ CallsRun > 0
  BY <1>2, <1>7 DEF TypeOK, CallsRun
<1>9. /\ Len(tool_events') = Len(tool_events) + CallsRun
      /\ \A i \in 1 .. Len(tool_events) : tool_events'[i] = tool_events[i]
      /\ \A i \in (Len(tool_events) + 1) .. Len(tool_events') :
            tool_events'[i].turn = assistant_turns
  <2>1. results \in Seq(ToolResults) /\ Len(results) = CallsRun
    BY <1>8
  <2> DEFINE te == ToolEvents(results)
  <2>2. /\ Len(te) = CallsRun
        /\ \A i \in 1 .. CallsRun : te[i].turn = assistant_turns
    BY <1>8, <2>1 DEF ToolEvents
  <2>3. te \in Seq({te[i] : i \in 1 .. CallsRun})
    BY <1>8, <2>1 DEF ToolEvents
  <2>4. tool_events \in Seq(ToolEventType) /\ Len(tool_events) \in Nat
    BY <1>2 DEF TypeOK
  <2> HIDE DEF te
  <2>5. /\ Len(tool_events \o te) = Len(tool_events) + Len(te)
        /\ \A i \in 1 .. Len(tool_events) + Len(te) :
              (tool_events \o te)[i] = IF i <= Len(tool_events) THEN tool_events[i]
                                       ELSE te[i - Len(tool_events)]
    BY <2>3, <2>4
  <2>6. tool_events' = tool_events \o te
    BY <1>4 DEF te
  <2> QED
    BY <1>8, <2>2, <2>4, <2>5, <2>6
<1>10. \A i \in 1 .. Len(tool_events) :
            tool_events[i].turn \in Nat /\ tool_events[i].turn < assistant_turns
  <2> SUFFICES ASSUME NEW i \in 1 .. Len(tool_events)
               PROVE  tool_events[i].turn \in Nat
                      /\ tool_events[i].turn < assistant_turns
    OBVIOUS
  <2>1. tool_events[i] \in ToolEventType
    BY <1>2, ElementOfSeq DEF TypeOK
  <2> QED
    BY <1>4, <2>1 DEF LoopInv, LoopFacts, ToolEventType
<1>11. TurnsSeparated'
  <2> SUFFICES ASSUME NEW t \in 1 .. assistant_turns
               PROVE  /\ turns[t].start <= turns[t].end
                      /\ turns[t].end <= len'
                      /\ \A u \in 1 .. (t - 1) : turns[u].end < turns[t].start
    BY <1>4, <1>6 DEF TurnsSeparated
  <2>1. turns[t].end \in Nat
    BY <1>2, TurnFields
  <2> QED
    BY <1>6, <2>1 DEF LoopInv, TurnsSeparated
<1>12. HeadReason' = "none" \/ state' = "terminated"
  BY <1>2, <1>4, <1>5, <1>7 DEF HeadReason, AssistantBudgetSpent, TypeOK
<1>13. BudgetsRespected'
  <2>1. len' <= ResponseLength
    BY <1>5, <1>6 DEF LoopInv, BudgetsRespected
  <2>2. limits.user_turns # 0 => user_turns' <= limits.user_turns
    <3>1. limits.user_turns \in Nat /\ user_turns \in Nat
      BY <1>2 DEF TypeOK, LimitType
    <3> QED
      BY <1>5, <1>7, <3>1
  <2> QED
    BY <1>4, <1>6, <1>12, <2>1, <2>2 DEF LoopInv, BudgetsRespected
<1>14. TurnsAlternate'
  <2>1. assistant_turns = user_turns + 1 /\ user_turns \in Nat
    BY <1>2, <1>4 DEF LoopInv, TurnsAlternate, TypeOK
  <2> QED
    BY <1>5, <1>6, <2>1 DEF TurnsAlternate
<1>15. MaskSelectsModelTokens'
  <2>1. active = UNION {Span(t) : t \in Unmasked}
    BY <1>2, <1>7, MaskOpen DEF LoopInv
  <2>2. /\ \A t : Span(t)' = Span(t)
        /\ Unmasked' = Unmasked
    BY <1>4, <1>6 DEF Span, Unmasked, MaskAtOnce
  <2>3. active' = UNION {Span(t)' : t \in Unmasked'}
    BY <1>4, <2>1, <2>2
  <2>4. (MaskSelectsModelTokens <=> active = UNION {Span(t) : t \in Unmasked})'
    <3>1. (TypeOK /\ TurnsSeparated /\ output = None)'
      BY <1>2, <1>4, <1>7, <1>11
    <3> QED
      BY <3>1, MaskOpen, PTL
  <2> QED
    BY <2>3, <2>4
<1>16. MaskedTokensAccounted'
  BY <1>4 DEF LoopInv, MaskedTokensAccounted
<1>17. ReasonTruthful'
  <2>1. Len(tool_events) \in Nat
    BY <1>2 DEF TypeOK
  <2>2. Len(tool_events') \in 1 .. Len(tool_events')
        /\ tool_events'[Len(tool_events')].turn = assistant_turns
    BY <1>8, <1>9, <2>1
  <2> QED
    BY <1>5, <1>6, <2>2 DEF ReasonTruthful
<1>18. LoopFacts'
  <2>1. \A i \in 1 .. Len(tool_events') : tool_events'[i].turn <= assistant_turns
    <3> SUFFICES ASSUME NEW i \in 1 .. Len(tool_events')
                 PROVE  tool_events'[i].turn <= assistant_turns
      OBVIOUS
    <3>1. Len(tool_events) \in Nat
      BY <1>2 DEF TypeOK
    <3>2. CASE i \in 1 .. Len(tool_events)
      BY <1>6, <1>9, <1>10, <3>2
    <3>3. CASE i \in (Len(tool_events) + 1) .. Len(tool_events')
      BY <1>6, <1>9, <3>3
    <3> QED
      BY <1>8, <1>9, <3>1, <3>2, <3>3
  <2>2. state' = "generating" =>
            \A t \in 1 .. assistant_turns : turns[t].end < len'
    <3> SUFFICES ASSUME state' = "generating", NEW t \in 1 .. assistant_turns
                 PROVE  turns[t].end < len'
      OBVIOUS
    <3>1. turns[t].end \in Nat
      BY <1>2, TurnFields
    <3>2. turns[t].end <= len
      BY DEF LoopInv, TurnsSeparated
    <3> QED
      BY <1>3, <1>5, <1>6, <3>1, <3>2
  <2> QED
    BY <1>4, <1>5, <1>6, <1>7, <2>1, <2>2 DEF LoopFacts
<1> QED
  BY <1>2, <1>11, <1>13, <1>14, <1>15, <1>16, <1>17, <1>18 DEF LoopInv

\* What masking has selected depends only on the trajectory and the switches.
LEMMA ZeroedStable ==
    ASSUME NEW reasons \in SUBSET Reasons,
           UNCHANGED <<turns, tool_events, termination_reason, env>>
    PROVE  /\ ZeroedBy(reasons)' = ZeroedBy(reasons)
           /\ AssistantTokens' = AssistantTokens
           /\ \A t : Span(t)' = Span(t)
<1>1. \A t : Span(t)' = Span(t)
  BY DEF Span
<1>2. assistant_turns' = assistant_turns
  BY DEF assistant_turns
<1>3. SpanTurns' = SpanTurns
  BY <1>2 DEF SpanTurns
<1>4. AssistantTokens' = AssistantTokens
  BY <1>1, <1>2 DEF AssistantTokens
<1>5. \A r : MaskAtOnce(r)' = MaskAtOnce(r)
  BY DEF MaskAtOnce
<1>6. BudgetTurns' = BudgetTurns
  BY <1>2, <1>3 DEF BudgetTurns
<1>7. DuplicateTurns' = DuplicateTurns /\ ErrorTurns' = ErrorTurns
  BY <1>3 DEF DuplicateTurns, ErrorTurns
<1>8. ASSUME NEW r \in Reasons PROVE BadTurns(r)' = BadTurns(r)
  <2>1. CASE r = "budget"
    BY <1>6, <2>1 DEF BadTurns
  <2>2. CASE r = "duplicate"
    BY <1>7, <2>2 DEF BadTurns
  <2>3. CASE r = "error"
    BY <1>7, <2>3 DEF BadTurns
  <2>4. CASE r = "looping"
    BY <1>3, <2>4 DEF BadTurns
  <2> QED
    BY <2>1, <2>2, <2>3, <2>4 DEF Reasons, PosthocReasons
<1>9. ZeroedBy(reasons)' = ZeroedBy(reasons)
  BY <1>5, <1>8 DEF ZeroedBy
<1> QED
  BY <1>1, <1>4, <1>9

\* The end of run preserves the invariant.
LEMMA InvFinish ==
    ASSUME LoopInv, Finish
    PROVE  LoopInv'
<1> USE AgentLoopAssumption
<1>1. TypeOK /\ TypeOK'
  BY TypeFinish DEF LoopInv
<1>2. /\ state = "terminated" /\ output = None
      /\ active' = active \ ZeroedTokens
      /\ masked_tokens' = masked_tokens + Cardinality(ZeroedTokens)
      /\ UNCHANGED <<limits, env, state, len, turns, tool_events, tool_calls,
                     user_turns, assistant_response_tokens, termination_reason>>
  BY DEF Finish, Done
<1>3. output' # None
  BY TypeFinish DEF LoopInv, TypeOK, Finish, OutputType, CutToBudget, ResponseIds
<1>4. /\ TurnsSeparated' /\ BudgetsRespected' /\ TurnsAlternate'
      /\ ReasonTruthful' /\ LoopFacts'
  <2>1. assistant_turns' = assistant_turns /\ HeadReason' = HeadReason
    BY <1>2 DEF assistant_turns, HeadReason, AssistantBudgetSpent
  <2>2. TurnsSeparated'
    BY <1>2, <2>1 DEF LoopInv, TurnsSeparated
  <2>3. BudgetsRespected' /\ TurnsAlternate'
    BY <1>2, <2>1 DEF LoopInv, BudgetsRespected, TurnsAlternate
  <2>4. ReasonTruthful'
    BY <1>2, <2>1 DEF LoopInv, ReasonTruthful
  <2>5. LoopFacts'
    BY <1>2, <2>1 DEF LoopInv, LoopFacts
  <2> QED
    BY <2>2, <2>3, <2>4, <2>5
<1>5. MaskSelectsModelTokens'
  <2> DEFINE U(rs) == UNION {Span(t) : t \in ZeroedBy(rs)}
  <2>1. active = AssistantTokens \ U({"looping"})
    BY <1>2 DEF LoopInv, MaskSelectsModelTokens
  <2>2. ZeroedTokens = active \cap U(PosthocReasons)
    BY DEF ZeroedTokens
  <2>3. ZeroedBy(Reasons) = ZeroedBy({"looping"}) \cup ZeroedBy(PosthocReasons)
    BY DEF ZeroedBy, Reasons
  <2>4. U(Reasons) = U({"looping"}) \cup U(PosthocReasons)
    BY <2>3
  <2> HIDE DEF U
  <2>5. active' = AssistantTokens \ U(Reasons)
    BY <1>2, <2>1, <2>2, <2>4
  <2>6. U(Reasons)' = U(Reasons) /\ AssistantTokens' = AssistantTokens
    <3>1. /\ ZeroedBy(Reasons)' = ZeroedBy(Reasons)
          /\ AssistantTokens' = AssistantTokens
          /\ \A t : Span(t)' = Span(t)
      BY <1>2, ZeroedStable
    <3>2. {Span(t)' : t \in ZeroedBy(Reasons)'}
            = {Span(t) : t \in ZeroedBy(Reasons)}
      BY <3>1
    <3> QED
      BY <3>1, <3>2 DEF U
  <2> QED
    BY <1>3, <2>5, <2>6 DEF MaskSelectsModelTokens, U
<1>6. MaskedTokensAccounted'
  <2>1. IsFiniteSet(active) /\ Cardinality(active) \in Nat
        /\ Cardinality(ZeroedTokens) \in Nat
    BY <1>1, ZeroedTokensFinite, FS_CardinalityType
  <2>2. active \cap ZeroedTokens = ZeroedTokens
    BY DEF ZeroedTokens
  <2>3. Cardinality(active') = Cardinality(active) - Cardinality(ZeroedTokens)
    BY <1>2, <2>1, <2>2, FS_Difference
  <2>4. masked_tokens + Cardinality(active) = assistant_response_tokens
        /\ masked_tokens \in Nat
    BY <1>1 DEF LoopInv, MaskedTokensAccounted, TypeOK
  <2> QED
    BY <1>2, <2>1, <2>3, <2>4 DEF MaskedTokensAccounted
<1> QED
  BY <1>1, <1>4, <1>5, <1>6 DEF LoopInv

\* Starting a rollout, and a refusal to generate, preserve the invariant.
LEMMA InvIdle ==
    ASSUME LoopInv, TypeOK', HandlePending \/ GenerateRefused
    PROVE  LoopInv'
<1>1. /\ UNCHANGED <<limits, env, len, active, turns, tool_events, tool_calls,
                     user_turns, assistant_response_tokens, bad_spans,
                     masked_tokens, output>>
      /\ state \in {"pending", "generating"}
  BY DEF HandlePending, GenerateRefused
<1>2. /\ assistant_turns' = assistant_turns /\ HeadReason' = HeadReason
      /\ output = None /\ termination_reason = "unknown"
  BY <1>1 DEF assistant_turns, HeadReason, AssistantBudgetSpent, LoopInv,
              LoopFacts
<1>3. turns = <<>>
  BY <1>1 DEF HandlePending, GenerateRefused, LoopInv, LoopFacts,
              BudgetsRespected
<1>4. tool_events = <<>> /\ Len(tool_events) = 0 /\ assistant_turns = 0
  BY <1>3 DEF LoopInv, LoopFacts, assistant_turns
<1>5. state' \in {"generating", "terminated"}
      /\ (state' = "generating" => termination_reason' = "unknown")
      /\ (state' = "terminated" => termination_reason' \in BudgetReasons)
  BY <1>2 DEF HandlePending, GenerateRefused, HeadReason, BudgetReasons
<1>6. TurnsSeparated' /\ BudgetsRespected' /\ TurnsAlternate'
  BY <1>1, <1>2, <1>3, <1>4, <1>5
     DEF LoopInv, TurnsSeparated, BudgetsRespected, TurnsAlternate
<1>7. MaskSelectsModelTokens' /\ MaskedTokensAccounted'
  <2>1. AssistantTokens = {} /\ AssistantTokens' = {}
    BY <1>1, <1>2, <1>4 DEF AssistantTokens
  <2>2. active = {}
    BY <2>1 DEF LoopInv, MaskSelectsModelTokens
  <2> QED
    BY <1>1, <2>1, <2>2 DEF LoopInv, MaskSelectsModelTokens,
                            MaskedTokensAccounted
<1>8. ReasonTruthful' /\ LoopFacts'
  BY <1>1, <1>2, <1>3, <1>4, <1>5
     DEF LoopInv, ReasonTruthful, LoopFacts, BudgetReasons
<1> QED
  BY <1>6, <1>7, <1>8 DEF LoopInv

\* The invariant holds initially.
LEMMA InvInit ==
    ASSUME Init
    PROVE  LoopInv
<1> USE AgentLoopAssumption
<1>1. TypeOK
  BY DEF Init, TypeOK, TerminationReasons
<1>2. Len(turns) = 0 /\ Len(tool_events) = 0
  BY DEF Init
<1>3. AssistantTokens = {}
  BY <1>2 DEF AssistantTokens, assistant_turns
<1>4. MaskSelectsModelTokens /\ MaskedTokensAccounted
  BY <1>3, FS_EmptySet DEF Init, MaskSelectsModelTokens, MaskedTokensAccounted
<1>5. TurnsSeparated /\ BudgetsRespected /\ TurnsAlternate
  BY <1>1, <1>2 DEF Init, TurnsSeparated, BudgetsRespected, TurnsAlternate,
                    assistant_turns, TypeOK, LimitType
<1>6. ReasonTruthful /\ LoopFacts
  BY <1>2 DEF Init, ReasonTruthful, LoopFacts, assistant_turns
<1> QED
  BY <1>1, <1>4, <1>5, <1>6 DEF LoopInv

\* Every step preserves the invariant.
LEMMA InvStep ==
    ASSUME LoopInv, [LoopNext]_loopVars
    PROVE  LoopInv'
<1>0. TypeOK'
  BY TypeStep DEF LoopInv
<1>1. CASE HandlePending
  BY <1>0, <1>1, InvIdle
<1>2. CASE GenerateRefused
  BY <1>0, <1>2, InvIdle
<1>3. CASE Generate
  BY <1>3, InvGenerate
<1>4. CASE ProcessTools
  BY <1>4, InvTools
<1>5. CASE Finish
  BY <1>5, InvFinish
<1>6. CASE UNCHANGED loopVars
  <2>1. assistant_turns' = assistant_turns /\ HeadReason' = HeadReason
    BY <1>6 DEF loopVars, assistant_turns, HeadReason, AssistantBudgetSpent
  <2>2. TurnsSeparated' /\ BudgetsRespected' /\ TurnsAlternate'
        /\ MaskedTokensAccounted'
    BY <1>6, <2>1 DEF loopVars, LoopInv, TurnsSeparated, BudgetsRespected,
                      TurnsAlternate, MaskedTokensAccounted
  <2>3. ReasonTruthful' /\ LoopFacts'
    BY <1>6, <2>1 DEF loopVars, LoopInv, ReasonTruthful, LoopFacts
  <2>4. MaskSelectsModelTokens'
    <3>1. ASSUME NEW rs \in SUBSET Reasons
          PROVE  /\ ZeroedBy(rs)' = ZeroedBy(rs)
                 /\ AssistantTokens' = AssistantTokens
                 /\ \A t : Span(t)' = Span(t)
      BY <1>6, ZeroedStable DEF loopVars
    <3>2. {"looping"} \in SUBSET Reasons /\ Reasons \in SUBSET Reasons
      BY DEF Reasons
    <3>3. CASE output = None
      BY <1>6, <3>1, <3>2, <3>3 DEF loopVars, LoopInv, MaskSelectsModelTokens
    <3>4. CASE output # None
      BY <1>6, <3>1, <3>2, <3>4 DEF loopVars, LoopInv, MaskSelectsModelTokens
    <3> QED
      BY <3>3, <3>4
  <2> QED
    BY <1>0, <2>2, <2>3, <2>4 DEF LoopInv
<1> QED
  BY <1>1, <1>2, <1>3, <1>4, <1>5, <1>6 DEF LoopNext

\* The conjunction of the properties below is an inductive invariant of a
\* rollout.
THEOREM LoopInvariant == LoopSpec => []LoopInv
<1>1. Init => LoopInv
  BY InvInit
<1>2. LoopInv /\ [LoopNext]_loopVars => LoopInv'
  BY InvStep
<1> QED
  BY <1>1, <1>2, PTL DEF LoopSpec

\* Every reachable state of a rollout has the types of AgentData.
THEOREM TypeCorrect == LoopSpec => []TypeOK
<1>1. LoopInv => TypeOK
  BY DEF LoopInv
<1> QED
  BY <1>1, LoopInvariant, PTL

\* The spans of trajectory_events tile the response with tool tokens between
\* them, for every response budget and every mix of turns and tools.
THEOREM SpansCorrect == LoopSpec => []TurnsSeparated
<1>1. LoopInv => TurnsSeparated
  BY DEF LoopInv
<1> QED
  BY <1>1, LoopInvariant, PTL

\* No token or turn budget of ToolAgentLoop is ever exceeded.
THEOREM BudgetsCorrect == LoopSpec => []BudgetsRespected
<1>1. LoopInv => BudgetsRespected
  BY DEF LoopInv
<1> QED
  BY <1>1, LoopInvariant, PTL

\* response_mask selects the model's tokens less the turns masked so far.
THEOREM MaskCorrect == LoopSpec => []MaskSelectsModelTokens
<1>1. LoopInv => MaskSelectsModelTokens
  BY DEF LoopInv
<1> QED
  BY <1>1, LoopInvariant, PTL

\* The masked-token metrics of nanoclaw_support count every token once.
THEOREM AccountingCorrect == LoopSpec => []MaskedTokensAccounted
<1>1. LoopInv => MaskedTokensAccounted
  BY DEF LoopInv
<1> QED
  BY <1>1, LoopInvariant, PTL

\* rollout_termination_reason agrees with what the rollout did.
THEOREM ReasonCorrect == LoopSpec => []ReasonTruthful
<1>1. LoopInv => ReasonTruthful
  BY DEF LoopInv
<1> QED
  BY <1>1, LoopInvariant, PTL

\* No step of ToolAgentLoop rewrites the past of a rollout: recorded turns and
\* spans stay, and a cleared response_mask entry is never set again.
THEOREM HistoryCorrect == LoopSpec => HistoryKept
<1> USE AgentLoopAssumption
<1>1. LoopInv /\ [LoopNext]_loopVars => [HistoryStep]_loopVars
  <2> SUFFICES ASSUME LoopInv, LoopNext PROVE HistoryStep
    BY Zenon
  <2>1. TypeOK /\ TypeOK'
    BY TypeStep DEF LoopInv
  <2>2. len \in Nat /\ len' \in Nat /\ Len(turns) \in Nat
    BY <2>1 DEF TypeOK
  <2>3. CASE HandlePending \/ GenerateRefused \/ Finish
    BY <2>2, <2>3 DEF HandlePending, GenerateRefused, Finish, HistoryStep,
                      assistant_turns
  <2>4. CASE Generate
    <3>1. PICK n \in 0 .. MaxTokens, looping \in BOOLEAN,
               calls \in 0 .. MaxCalls : HandleGenerating(n, looping, calls)
      BY <2>4 DEF Generate
    <3> DEFINE new == [start |-> len, end |-> len + n, looping |-> looping]
    <3>2. /\ turns' = Append(turns, new)
          /\ len' = len + n /\ n \in Nat
          /\ bad_spans \subseteq bad_spans'
          /\ active' \subseteq active \cup (len .. ((len + n) - 1))
      BY <3>1 DEF HandleGenerating, ResponseStart
    <3>3. turns \in Seq(TurnType)
      BY <2>1 DEF TypeOK
    <3> HIDE DEF new
    <3>4. Len(turns') = Len(turns) + 1
          /\ \A t \in 1 .. Len(turns) : turns'[t] = turns[t]
      BY <3>2, <3>3
    <3>5. active' \cap 0 .. (len - 1) \subseteq active
      BY <2>2, <3>2
    <3> QED
      BY <2>2, <3>2, <3>4, <3>5 DEF HistoryStep, assistant_turns
  <2>5. CASE ProcessTools
    <3>1. PICK results \in [1 .. CallsRun -> ToolResults],
               k \in 1 .. MaxToolTokens : HandleTools(results, k)
      BY <2>5 DEF ProcessTools
    <3> QED
      BY <2>2, <3>1 DEF HandleTools, HistoryStep, assistant_turns
  <2> QED
    BY <2>3, <2>4, <2>5 DEF LoopNext
<1> QED
  BY <1>1, LoopInvariant, PTL DEF LoopSpec, HistoryKept
================================================================================

-------------------------- MODULE AdvantageMaskProofs --------------------------
(* Machine-checked proofs about AdvantageMask and PosthocMask, for every       *)
(* rollout and every advantage: the mask the actor loss uses is the masking    *)
(* rule of the recipe, the counts that are logged account for every token, and *)
(* the loops over the trajectory's events do what AgentLoop states with sets.  *)
EXTENDS AdvantageMask, PosthocMask, AgentLoopProofs

\* The bad turns of a trajectory do not change when it is only re-read.
LEMMA BadTurnsStable ==
    ASSUME UNCHANGED <<turns, tool_events, termination_reason>>,
           NEW r \in Reasons
    PROVE  BadTurns(r)' = BadTurns(r)
<1>1. assistant_turns' = assistant_turns
  BY DEF assistant_turns
<1>2. SpanTurns' = SpanTurns
  BY <1>1 DEF SpanTurns
<1>3. BudgetTurns' = BudgetTurns
  BY <1>1, <1>2 DEF BudgetTurns
<1>4. DuplicateTurns' = DuplicateTurns /\ ErrorTurns' = ErrorTurns
  BY <1>2 DEF DuplicateTurns, ErrorTurns
<1>5. CASE r = "budget"
  BY <1>3, <1>5 DEF BadTurns
<1>6. CASE r = "duplicate"
  BY <1>4, <1>6 DEF BadTurns
<1>7. CASE r = "error"
  BY <1>4, <1>7 DEF BadTurns
<1>8. CASE r = "looping"
  BY <1>2, <1>8 DEF BadTurns
<1> QED
  BY <1>5, <1>6, <1>7, <1>8 DEF Reasons, PosthocReasons

\* A generation records the turn exactly when it loops.
LEMMA RecordedGenerate ==
    ASSUME LoopInv, BadTurnsRecorded, Generate
    PROVE  BadTurnsRecorded'
<1> USE AgentLoopAssumption
<1>1. PICK n \in 0 .. MaxTokens, looping \in BOOLEAN, calls \in 0 .. MaxCalls :
        /\ n = 0 => ~looping
        /\ HandleGenerating(n, looping, calls)
  BY DEF Generate
<1>2. PICK N \in Nat : N = Len(turns)
  BY DEF LoopInv, TypeOK
<1> DEFINE new == [start |-> len, end |-> len + n, looping |-> looping]
           span == BadSpan(N + 1, "looping", len, len + n, n)
<1>3. /\ turns' = Append(turns, new)
      /\ bad_spans' = IF looping THEN bad_spans \cup {span} ELSE bad_spans
      /\ output = None /\ output' = None /\ env' = env
  BY <1>1, <1>2 DEF HandleGenerating, ResponseStart, assistant_turns, LoopInv,
                    LoopFacts
<1>4. turns \in Seq(TurnType) /\ len \in Nat /\ n \in Nat
  BY <1>1 DEF LoopInv, TypeOK
<1>5. /\ Len(turns') = N + 1
      /\ \A t \in 1 .. N : turns'[t] = turns[t]
      /\ turns'[N + 1] = new
  BY <1>2, <1>3, <1>4
<1> DEFINE B == {t \in 1 .. N : turns[t].end > turns[t].start /\ turns[t].looping}
<1>6. BadTurns("looping") = B
  BY <1>2 DEF BadTurns, SpanTurns, assistant_turns
<1>7. BadTurns("looping")' = IF looping THEN B \cup {N + 1} ELSE B
  <2>1. BadTurns("looping")' = {t \in 1 .. (N + 1) :
                turns'[t].end > turns'[t].start /\ turns'[t].looping}
    BY <1>5 DEF BadTurns, SpanTurns, assistant_turns
  <2>2. 1 .. (N + 1) = (1 .. N) \cup {N + 1}
    BY <1>2
  <2>3. looping <=> new.end > new.start /\ new.looping
    BY <1>1, <1>4
  <2> HIDE DEF new
  <2> QED
    BY <1>5, <2>1, <2>2, <2>3
<1>8. /\ span.reason = "looping" /\ span.turn = N + 1
      /\ span.start = new.start /\ span.end = new.end
      /\ span.mask_enabled = env["looping"]
  BY DEF BadSpan
<1>9. /\ \A s \in bad_spans :
            /\ s.reason = "looping" /\ s.turn \in B
            /\ s.start = turns[s.turn].start /\ s.end = turns[s.turn].end
            /\ s.mask_enabled = env["looping"]
      /\ \A t \in B : \E s \in bad_spans : s.reason = "looping" /\ s.turn = t
  <2>1. /\ \A s \in bad_spans :
            /\ s.reason = "looping" /\ s.turn \in BadTurns("looping")
            /\ s.start = turns[s.turn].start /\ s.end = turns[s.turn].end
            /\ s.mask_enabled = env["looping"]
        /\ \A t \in BadTurns("looping") :
                \E s \in bad_spans : s.reason = "looping" /\ s.turn = t
    BY <1>3 DEF BadTurnsRecorded
  <2> QED
    BY <1>6, <2>1
<1>10. B \subseteq 1 .. N /\ N + 1 \notin 1 .. N
  BY <1>2
<1>11. \A r : r = "looping" =>
            BadTurns(r)' = IF looping THEN B \cup {N + 1} ELSE B
  BY <1>7
<1> HIDE DEF new, span, B
<1>12. ASSUME NEW s \in bad_spans'
       PROVE  /\ s.reason = "looping" /\ s.turn \in BadTurns(s.reason)'
              /\ s.start = turns'[s.turn].start /\ s.end = turns'[s.turn].end
              /\ s.mask_enabled = env'["looping"]
  <2>1. CASE s \in bad_spans
    <3>1. s.turn \in B /\ s.turn \in 1 .. N
      BY <1>9, <1>10, <2>1
    <3> QED
      BY <1>3, <1>5, <1>9, <1>11, <2>1, <3>1
  <2>2. CASE looping /\ s = span
    BY <1>3, <1>5, <1>8, <1>11, <2>2
  <2> QED
    BY <1>3, <2>1, <2>2
<1>13. ASSUME NEW r, r = "looping", NEW t \in BadTurns(r)'
       PROVE  \E s \in bad_spans' : s.reason = r /\ s.turn = t
  <2>1. CASE t \in B
    BY <1>3, <1>9, <1>13, <2>1
  <2>2. CASE looping /\ t = N + 1
    BY <1>3, <1>8, <1>13, <2>2
  <2> QED
    BY <1>11, <1>13, <2>1, <2>2
<1>14. \A s \in bad_spans' :
            /\ s.reason \in {"looping"} /\ s.turn \in BadTurns(s.reason)'
            /\ s.start = turns'[s.turn].start /\ s.end = turns'[s.turn].end
            /\ s.mask_enabled = env'[s.reason]
  BY <1>12
<1>15. \A r \in {"looping"} : \A t \in BadTurns(r)' :
            \E s \in bad_spans' : s.reason = r /\ s.turn = t
  BY <1>13
<1>16. output' = None
  BY <1>3
<1> QED
  BY <1>14, <1>15, <1>16, Zenon DEF BadTurnsRecorded

\* The end of run adds the turns of the three posthoc loops.
LEMMA RecordedFinish ==
    ASSUME LoopInv, BadTurnsRecorded, Finish
    PROVE  BadTurnsRecorded'
<1>1. /\ output = None /\ output' # None
      /\ bad_spans' = bad_spans \cup PosthocSpans
      /\ UNCHANGED <<env, turns, tool_events, termination_reason>>
  BY AgentLoopAssumption, TypeFinish
     DEF Finish, LoopInv, TypeOK, OutputType, CutToBudget, ResponseIds
<1>2. \A r \in Reasons : BadTurns(r)' = BadTurns(r)
  BY <1>1, BadTurnsStable
<1>3. /\ \A s \in bad_spans :
            /\ s.reason = "looping" /\ s.turn \in BadTurns("looping")
            /\ s.start = turns[s.turn].start /\ s.end = turns[s.turn].end
            /\ s.mask_enabled = env["looping"]
      /\ \A t \in BadTurns("looping") :
            \E s \in bad_spans : s.reason = "looping" /\ s.turn = t
  BY <1>1 DEF BadTurnsRecorded
<1>4. ASSUME NEW s \in PosthocSpans
      PROVE  /\ s.reason \in PosthocReasons /\ s.turn \in BadTurns(s.reason)
             /\ s.start = turns[s.turn].start /\ s.end = turns[s.turn].end
             /\ s.mask_enabled = env[s.reason]
  <2>1. PICK reason \in PosthocReasons : \E t \in BadTurns(reason) :
            s = BadSpan(t, reason, turns[t].start, turns[t].end,
                        CountAtRecord(reason, t))
    BY DEF PosthocSpans
  <2>2. PICK t \in BadTurns(reason) :
            s = BadSpan(t, reason, turns[t].start, turns[t].end,
                        CountAtRecord(reason, t))
    BY <2>1
  <2>3. /\ s.reason = reason /\ s.turn = t /\ s.start = turns[t].start
        /\ s.end = turns[t].end /\ s.mask_enabled = env[reason]
    BY <2>2 DEF BadSpan
  <2> QED
    BY <2>3
<1>5. ASSUME NEW r \in PosthocReasons, NEW t \in BadTurns(r)
      PROVE  \E s \in PosthocSpans : s.reason = r /\ s.turn = t
  <2> DEFINE s == BadSpan(t, r, turns[t].start, turns[t].end, CountAtRecord(r, t))
  <2>1. s \in PosthocSpans
    BY DEF PosthocSpans
  <2>2. s.reason = r /\ s.turn = t
    BY DEF BadSpan
  <2> QED
    BY <2>1, <2>2
<1> QED
  BY <1>1, <1>2, <1>3, <1>4, <1>5 DEF BadTurnsRecorded, Reasons

\* Every step of a rollout keeps the records faithful.
LEMMA RecordedStep ==
    ASSUME LoopInv, BadTurnsRecorded, [LoopNext]_loopVars
    PROVE  BadTurnsRecorded'
<1>1. CASE HandlePending \/ GenerateRefused
  <2>1. turns = <<>> /\ UNCHANGED <<turns, bad_spans, output, env>>
        /\ output = None
    BY <1>1 DEF HandlePending, GenerateRefused, LoopInv, LoopFacts,
                BudgetsRespected
  <2>2. BadTurns("looping") = {} /\ BadTurns("looping")' = {}
    BY <2>1 DEF BadTurns, SpanTurns, assistant_turns
  <2> QED
    BY <2>1, <2>2 DEF BadTurnsRecorded
<1>2. CASE Generate
  BY <1>2, RecordedGenerate
<1>3. CASE ProcessTools
  <2>1. /\ UNCHANGED <<turns, bad_spans, output, env>> /\ output = None
    BY <1>3 DEF ProcessTools, HandleTools, LoopInv, LoopFacts
  <2>2. BadTurns("looping")' = BadTurns("looping")
    BY <2>1 DEF BadTurns, SpanTurns, assistant_turns
  <2> QED
    BY <2>1, <2>2 DEF BadTurnsRecorded
<1>4. CASE Finish
  BY <1>4, RecordedFinish
<1>5. CASE UNCHANGED loopVars
  <2>1. UNCHANGED <<turns, tool_events, termination_reason, env, output,
                    bad_spans>>
    BY <1>5 DEF loopVars
  <2>2. \A r \in Reasons : BadTurns(r)' = BadTurns(r)
    BY <2>1, BadTurnsStable
  <2>3. "looping" \in Reasons
    BY DEF Reasons
  <2> QED
    BY <2>1, <2>2, <2>3 DEF BadTurnsRecorded
<1> QED
  BY <1>1, <1>2, <1>3, <1>4, <1>5 DEF LoopNext

\* The spans a rollout hands to the trainer are exactly its bad turns, whatever
\* the masking switches (nanoclaw_record_bad_turn_span).
THEOREM RecordsCorrect == LoopSpec => []BadTurnsRecorded
<1>1. Init => BadTurnsRecorded
  <2> SUFFICES ASSUME Init PROVE BadTurnsRecorded
    OBVIOUS
  <2>1. BadTurns("looping") = {}
    BY DEF Init, BadTurns, SpanTurns, assistant_turns
  <2> QED
    BY <2>1 DEF Init, BadTurnsRecorded
<1>2. LoopInv /\ BadTurnsRecorded /\ [LoopNext]_loopVars => BadTurnsRecorded'
  BY RecordedStep
<1> QED
  BY <1>1, <1>2, LoopInvariant, PTL DEF LoopSpec

--------------------------------------------------------------------------------
(* The trainer step. *)

\* The key of a recorded span covers exactly the tokens of its turn.
LEMMA KeyCoversTurn ==
    ASSUME LoopInv, BadTurnsRecorded, output # None, NEW s \in bad_spans
    PROVE  /\ Tokens(Key(s)) = Span(s.turn)
           /\ CutToBudget(s.end) > s.start
<1> USE AgentLoopAssumption
<1>1. /\ s.reason \in Reasons /\ s.turn \in BadTurns(s.reason)
      /\ s.start = turns[s.turn].start /\ s.end = turns[s.turn].end
  BY DEF BadTurnsRecorded
<1>2. s.turn \in SpanTurns /\ s.turn \in 1 .. assistant_turns
  BY <1>1, BadTurnsExist
<1>3. turns[s.turn].end \in Nat /\ turns[s.turn].start \in Nat
  BY <1>2, TurnFields DEF LoopInv
<1>4. turns[s.turn].end <= len /\ len <= ResponseLength /\ len \in Nat
  BY <1>2 DEF LoopInv, TurnsSeparated, BudgetsRespected, TypeOK
<1>5. turns[s.turn].end > turns[s.turn].start
  BY <1>2 DEF SpanTurns
<1>6. CutToBudget(s.end) = turns[s.turn].end
  BY <1>1, <1>3, <1>4 DEF CutToBudget
<1> QED
  BY <1>1, <1>5, <1>6 DEF Tokens, Key, Span

\* A token lies in an enabled candidate of the trainer iff it lies in a turn
\* that is bad for an enabled reason.
LEMMA CandidatesMatchTurns ==
    ASSUME LoopInv, BadTurnsRecorded, output # None, NEW p \in active
    PROVE  (\E k \in Candidates : MergedEnabled(k) /\ p \in Tokens(k))
                <=> (\E t \in EnabledBadTurns : p \in Span(t))
<1>1. ASSUME NEW k \in Candidates, MergedEnabled(k), p \in Tokens(k)
      PROVE  \E t \in EnabledBadTurns : p \in Span(t)
  <2>1. PICK s \in bad_spans : Key(s) = k /\ s.mask_enabled
    BY <1>1 DEF MergedEnabled, Merged
  <2>2. p \in Span(s.turn)
    BY <1>1, <2>1, KeyCoversTurn
  <2>3. s.reason \in Reasons /\ s.turn \in BadTurns(s.reason) /\ env[s.reason]
    BY <2>1 DEF BadTurnsRecorded
  <2>4. s.turn \in EnabledBadTurns
    BY <2>3 DEF EnabledBadTurns
  <2> QED
    BY <2>2, <2>4
<1>2. ASSUME NEW t \in EnabledBadTurns, p \in Span(t)
      PROVE  \E k \in Candidates : MergedEnabled(k) /\ p \in Tokens(k)
  <2>1. PICK r \in Reasons : env[r] /\ t \in BadTurns(r)
    BY DEF EnabledBadTurns
  <2>2. PICK s \in bad_spans : s.reason = r /\ s.turn = t
    BY <2>1 DEF BadTurnsRecorded
  <2>3. s.mask_enabled
    BY <2>1, <2>2 DEF BadTurnsRecorded
  <2>4. p \in Tokens(Key(s)) /\ CutToBudget(s.end) > s.start
    BY <1>2, <2>2, KeyCoversTurn
  <2>5. Key(s) \in Candidates
    BY <2>4 DEF Candidates, Keys
  <2>6. MergedEnabled(Key(s))
    BY <2>3 DEF MergedEnabled, Merged
  <2> QED
    BY <2>4, <2>5, <2>6
<1> QED
  BY <1>1, <1>2

\* What the trainer step leaves of the mask.
LEMMA TrainerMask ==
    ASSUME LoopInv, BadTurnsRecorded, output # None, NEW pos \in SUBSET active
    PROVE  active \ Cleared(pos) =
            {p \in AssistantTokens :
                ~ \E t \in EnabledBadTurns :
                    p \in Span(t) /\ (env["only_positive"] => p \in pos)}
<1>1. active = AssistantTokens \ UNION {Span(t) : t \in ZeroedBy(Reasons)}
  BY DEF LoopInv, MaskSelectsModelTokens
<1>2. CASE env["only_positive"]
  <2>1. ZeroedBy(Reasons) = {}
    BY <1>2 DEF ZeroedBy, MaskAtOnce
  <2>2. active = AssistantTokens
    BY <1>1, <2>1
  <2>3. Cleared(pos) = {p \in active \cap pos :
            \E k \in Candidates : MergedEnabled(k) /\ p \in Tokens(k)}
    BY <1>2 DEF Cleared
  <2>4. \A p \in active :
            (\E k \in Candidates : MergedEnabled(k) /\ p \in Tokens(k))
                <=> (\E t \in EnabledBadTurns : p \in Span(t))
    BY CandidatesMatchTurns
  <2> QED
    BY <1>2, <2>2, <2>3, <2>4
<1>3. CASE ~env["only_positive"]
  <2>1. ZeroedBy(Reasons) = EnabledBadTurns
    BY <1>3 DEF ZeroedBy, MaskAtOnce, EnabledBadTurns
  <2>2. Cleared(pos) = {}
    BY <1>3 DEF Cleared
  <2> QED
    BY <1>1, <1>3, <2>1, <2>2
<1> QED
  BY <1>2, <1>3

AAMInv ==
    /\ LoopInv
    /\ BadTurnsRecorded
    /\ trained # None => output # None
    /\ TrainedMaskExact

\* Once the output exists the rollout takes no further step.
LEMMA RolloutOver ==
    ASSUME LoopInv, output # None
    PROVE  ~LoopNext
  BY DEF LoopInv, LoopFacts, LoopNext, HandlePending, GenerateRefused, Generate,
         HandleGenerating, ProcessTools, HandleTools, Finish

\* Every step of the composition preserves its invariant.
LEMMA AAMStep ==
    ASSUME AAMInv, [AAMNext]_aamVars
    PROVE  AAMInv'
<1>1. [LoopNext]_loopVars
  BY DEF AAMNext, Rollout, Train, ApplyMask, aamVars
<1>2. LoopInv' /\ BadTurnsRecorded'
  BY <1>1, InvStep, RecordedStep DEF AAMInv
<1>3. CASE Rollout
  <2>1. trained = None /\ trained' = None
    BY <1>3, RolloutOver DEF AAMInv, Rollout
  <2> QED
    BY <1>2, <2>1 DEF AAMInv, TrainedMaskExact
<1>4. CASE Train
  <2>1. PICK pos \in SUBSET active : ApplyMask(pos)
    BY <1>4 DEF Train
  <2>2. output # None /\ output' # None /\ positive' = pos
        /\ trained'.mask = active \ Cleared(pos)
        /\ UNCHANGED <<turns, tool_events, termination_reason, env>>
    BY <2>1 DEF ApplyMask, loopVars
  <2>3. EnabledBadTurns' = EnabledBadTurns
    <3>1. \A r \in Reasons : BadTurns(r)' = BadTurns(r)
      BY <2>2, BadTurnsStable
    <3> QED
      BY <2>2, <3>1 DEF EnabledBadTurns
  <2>4. AssistantTokens' = AssistantTokens /\ \A t : Span(t)' = Span(t)
    BY <2>2, ZeroedStable
  <2>5. trained'.mask = {p \in AssistantTokens :
                ~ \E t \in EnabledBadTurns :
                    p \in Span(t) /\ (env["only_positive"] => p \in pos)}
    BY <2>2, TrainerMask DEF AAMInv
  <2>6. TrainedMaskExact'
    BY <2>2, <2>3, <2>4, <2>5 DEF TrainedMaskExact
  <2> QED
    BY <1>2, <2>2, <2>6 DEF AAMInv
<1>5. CASE UNCHANGED aamVars
  <2>1. UNCHANGED <<turns, tool_events, termination_reason, env, output,
                    trained, positive>>
    BY <1>5 DEF aamVars, loopVars
  <2>2. EnabledBadTurns' = EnabledBadTurns
    <3>1. \A r \in Reasons : BadTurns(r)' = BadTurns(r)
      BY <2>1, BadTurnsStable
    <3> QED
      BY <2>1, <3>1 DEF EnabledBadTurns
  <2>3. AssistantTokens' = AssistantTokens /\ \A t : Span(t)' = Span(t)
    BY <2>1, ZeroedStable
  <2> QED
    BY <1>2, <2>1, <2>2, <2>3 DEF AAMInv, TrainedMaskExact
<1> QED
  BY <1>3, <1>4, <1>5 DEF AAMNext

\* The response mask of the actor update is the masking rule of the recipe:
\* a model token is dropped iff its turn is bad for an enabled reason and, in
\* positive-advantage mode, its advantage is positive
\* (apply_nanoclaw_positive_advantage_bad_turn_mask after the rollout).
THEOREM TrainedMaskCorrect == AAMSpec => []TrainedMaskExact
<1>1. AAMInit => AAMInv
  <2> SUFFICES ASSUME AAMInit PROVE AAMInv
    OBVIOUS
  <2>1. LoopInv
    BY InvInit DEF AAMInit
  <2>2. BadTurns("looping") = {}
    BY DEF AAMInit, Init, BadTurns, SpanTurns, assistant_turns
  <2>3. BadTurnsRecorded
    BY <2>2 DEF AAMInit, Init, BadTurnsRecorded
  <2> QED
    BY <2>1, <2>3 DEF AAMInit, AAMInv, TrainedMaskExact
<1>2. AAMInv /\ [AAMNext]_aamVars => AAMInv'
  BY AAMStep
<1>3. AAMInv => TrainedMaskExact
  BY DEF AAMInv
<1> QED
  BY <1>1, <1>2, <1>3, PTL DEF AAMSpec

--------------------------------------------------------------------------------
(* The counts of the trainer. *)

\* The mask the trainer leaves and the tokens it counts as masked make up the
\* mask of the rollout.
TrainerSplits ==
    trained # None =>
        /\ output # None
        /\ Cardinality(trained.mask) + trained.masked_tokens = Cardinality(active)

\* Clearing a part of a finite mask splits its count.
LEMMA SplitCount ==
    ASSUME NEW A, IsFiniteSet(A), NEW B, B \subseteq A
    PROVE  Cardinality(A \ B) + Cardinality(B) = Cardinality(A)
<1>1. IsFiniteSet(B)
  BY FS_Subset
<1>2. A \cap B = B
  OBVIOUS
<1>3. Cardinality(A \ B) = Cardinality(A) - Cardinality(A \cap B)
  BY FS_Difference, Zenon
<1>4. Cardinality(A) \in Nat /\ Cardinality(B) \in Nat
  BY <1>1, FS_CardinalityType
<1> QED
  BY <1>2, <1>3, <1>4

\* A trainer step splits the mask it is given.
LEMMA SplitsStep ==
    ASSUME LoopInv, TrainerSplits, [AAMNext]_aamVars
    PROVE  TrainerSplits'
<1>1. CASE Rollout
  <2>1. trained' = trained /\ (output # None => ~LoopNext)
    BY <1>1, RolloutOver DEF Rollout
  <2> QED
    BY <1>1, <2>1 DEF Rollout, TrainerSplits
<1>2. CASE Train
  <2>1. PICK pos \in SUBSET active : ApplyMask(pos)
    BY <1>2 DEF Train
  <2>2. /\ output' # None /\ active' = active
        /\ trained'.mask = active \ Cleared(pos)
        /\ trained'.masked_tokens = Cardinality(Cleared(pos))
    BY <2>1 DEF ApplyMask, loopVars
  <2>3. Cleared(pos) \subseteq active
    BY DEF Cleared
  <2>4. IsFiniteSet(active)
    BY ZeroedTokensFinite DEF LoopInv
  <2>5. Cardinality(active \ Cleared(pos)) + Cardinality(Cleared(pos))
            = Cardinality(active)
    BY <2>3, <2>4, SplitCount
  <2> QED
    BY <2>2, <2>5 DEF TrainerSplits
<1>3. CASE UNCHANGED aamVars
  BY <1>3 DEF aamVars, loopVars, TrainerSplits
<1> QED
  BY <1>1, <1>2, <1>3 DEF AAMNext

\* Every model token of a rollout is trained on, was zeroed by the rollout or
\* cleared by the trainer, and the two metrics together count it once
\* (nanoclaw/bad_turn_masked_tokens of the trainer, on top of the rollout's).
THEOREM TokensCorrect == AAMSpec => []TokensConserved
<1>1. AAMInit => LoopInv /\ TrainerSplits
  BY InvInit DEF AAMInit, TrainerSplits
<1>2. LoopInv /\ TrainerSplits /\ [AAMNext]_aamVars => (LoopInv /\ TrainerSplits)'
  <2> SUFFICES ASSUME LoopInv, TrainerSplits, [AAMNext]_aamVars
               PROVE  (LoopInv /\ TrainerSplits)'
    OBVIOUS
  <2>1. [LoopNext]_loopVars
    BY DEF AAMNext, Rollout, Train, ApplyMask, aamVars
  <2> QED
    BY <2>1, InvStep, SplitsStep
<1>3. LoopInv /\ TrainerSplits => TokensConserved
  <2> SUFFICES ASSUME LoopInv, TrainerSplits, trained # None
               PROVE  Cardinality(trained.mask) + trained.masked_tokens + masked_tokens
                        = assistant_response_tokens
    BY DEF TokensConserved
  <2>1. masked_tokens + Cardinality(active) = assistant_response_tokens
    BY DEF LoopInv, MaskedTokensAccounted
  <2>2. Cardinality(trained.mask) + trained.masked_tokens = Cardinality(active)
    BY DEF TrainerSplits
  <2>3. masked_tokens \in Nat /\ Cardinality(active) \in Nat
    BY ZeroedTokensFinite, FS_CardinalityType DEF LoopInv, TypeOK
  <2> QED
    BY <2>1, <2>2, <2>3
<1> QED
  BY <1>1, <1>2, <1>3, PTL DEF AAMSpec

--------------------------------------------------------------------------------
(* The candidate metrics.  MapThenSumSet is a recursion over the subsets of a  *)
(* finite set; what it computes is proved by induction on their size, from the *)
(* least size at which it could fail.                                          *)

\* Every nonempty set of naturals has a least member.
LEMMA LeastNatural ==
    ASSUME NEW T, T \subseteq Nat, T # {}
    PROVE  \E n \in T : \A m \in T : n <= m
<1>1. PICK n \in T : \A m \in T : <<m, n>> \notin OpToRel(<, Nat)
  BY NatLessThanWellFounded, WFMin
<1>2. \A m \in T : ~(m < n)
  BY <1>1 DEF OpToRel
<1> QED
  BY <1>2

\* Induction over the naturals, for the members of a set.
LEMMA NatSetInduction ==
    ASSUME NEW T, 0 \in T, \A n \in Nat : n \in T => n + 1 \in T
    PROVE  \A n \in Nat : n \in T
<1>1. SUFFICES ASSUME NEW n \in Nat, n \notin T PROVE FALSE
  OBVIOUS
<1>2. PICK m \in Nat \ T : \A k \in Nat \ T : m <= k
  <2>1. Nat \ T \subseteq Nat /\ Nat \ T # {}
    BY <1>1
  <2> QED
    BY <2>1, LeastNatural
<1>3. m # 0 /\ m - 1 \in Nat
  BY <1>2
<1>4. m - 1 \in T
  BY <1>2, <1>3
<1> QED
  BY <1>2, <1>3, <1>4

\* One step of the sum of the candidate tokens over a set of keys.
SumStep(g, s) ==
    IF s = {} THEN 0
    ELSE CandidateTokens(CHOOSE x \in s : TRUE) + g[s \ {CHOOSE x \in s : TRUE}]

\* The size of a part of a finite set.
LEMMA PartSize ==
    ASSUME NEW S, IsFiniteSet(S), NEW s \in SUBSET S
    PROVE  IsFiniteSet(s) /\ Cardinality(s) \in Nat /\ (Cardinality(s) = 0 <=> s = {})
<1>1. IsFiniteSet(s)
  BY FS_Subset
<1> QED
  BY <1>1, FS_CardinalityType, FS_EmptySet

\* The member that is taken first leaves a smaller set.
LEMMA TakenFirst ==
    ASSUME NEW S, IsFiniteSet(S), NEW s \in SUBSET S, s # {}
    PROVE  /\ (CHOOSE x \in s : TRUE) \in s
           /\ s \ {CHOOSE x \in s : TRUE} \in SUBSET S
           /\ IsFiniteSet(s) /\ Cardinality(s) \in Nat \ {0}
           /\ Cardinality(s \ {CHOOSE x \in s : TRUE}) = Cardinality(s) - 1
<1>1. (CHOOSE x \in s : TRUE) \in s
  OBVIOUS
<1>2. IsFiniteSet(s)
  BY PartSize
<1>3. Cardinality(s) \in Nat /\ Cardinality(s) # 0
  BY PartSize
<1> DEFINE c == CHOOSE x \in s : TRUE
<1> HIDE DEF c
<1>4. c \in s
  BY <1>1 DEF c
<1>5. Cardinality(s \ {c}) = IF c \in s THEN Cardinality(s) - 1 ELSE Cardinality(s)
  BY <1>2, FS_RemoveElement, Zenon
<1>6. Cardinality(s \ {c}) = Cardinality(s) - 1 /\ s \ {c} \in SUBSET S
  BY <1>4, <1>5
<1> QED
  BY <1>1, <1>2, <1>3, <1>6 DEF c

\* The recursion of the sum has a solution on a finite set.
LEMMA SumSolvable ==
    ASSUME NEW S, IsFiniteSet(S)
    PROVE  \E g : g = [s \in SUBSET S |-> SumStep(g, s)]
<1> DEFINE Upto(g, n) == \A s \in SUBSET S : Cardinality(s) <= n => g[s] = SumStep(g, s)
           T == {n \in Nat : \E g : Upto(g, n)}
<1>1. 0 \in T
  <2> DEFINE g == [s \in SUBSET S |-> 0]
  <2>1. ASSUME NEW s \in SUBSET S, Cardinality(s) <= 0 PROVE s = {}
    BY <2>1, PartSize
  <2>2. Upto(g, 0)
    BY <2>1 DEF SumStep
  <2> QED
    BY <2>2
<1>2. ASSUME NEW n \in Nat, n \in T PROVE n + 1 \in T
  <2>1. PICK g : Upto(g, n)
    BY <1>2
  <2> DEFINE h == [s \in SUBSET S |-> SumStep(g, s)]
  <2>2. ASSUME NEW s \in SUBSET S, Cardinality(s) <= n + 1 PROVE h[s] = SumStep(h, s)
    <3>1. h[s] = SumStep(g, s)
      OBVIOUS
    <3>2. CASE s = {}
      BY <3>1, <3>2 DEF SumStep
    <3>3. CASE s # {}
      <4> DEFINE r == s \ {CHOOSE x \in s : TRUE}
      <4>1. r \in SUBSET S /\ Cardinality(r) <= n
        BY <2>2, <3>3, TakenFirst
      <4>2. g[r] = SumStep(g, r) /\ h[r] = SumStep(g, r)
        BY <2>1, <4>1
      <4> QED
        BY <3>1, <3>3, <4>2 DEF SumStep
    <3> QED
      BY <3>2, <3>3
  <2>3. Upto(h, n + 1)
    BY <2>2
  <2> HIDE DEF h
  <2> QED
    BY <2>3
<1>3. Cardinality(S) \in T
  <2> HIDE DEF T
  <2>1. \A n \in Nat : n \in T
    BY <1>1, <1>2, NatSetInduction
  <2> QED
    BY <2>1, FS_CardinalityType
<1>4. PICK g : Upto(g, Cardinality(S))
  BY <1>3
<1> DEFINE h == [s \in SUBSET S |-> g[s]]
<1>5. ASSUME NEW s \in SUBSET S PROVE h[s] = SumStep(h, s)
  <2>1. Cardinality(s) <= Cardinality(S)
    BY FS_Subset
  <2>2. g[s] = SumStep(g, s)
    BY <1>4, <2>1
  <2> QED
    BY <2>2, TakenFirst DEF SumStep
<1>6. h = [s \in SUBSET S |-> SumStep(h, s)]
  BY <1>5
<1> HIDE DEF h
<1> QED
  BY <1>6

\* MapThenSumSet satisfies its recursion on a finite set.
LEMMA SumUnfolds ==
    ASSUME NEW S, IsFiniteSet(S)
    PROVE  \E g : /\ MapThenSumSet(CandidateTokens, S) = g[S]
                  /\ \A s \in SUBSET S : g[s] = SumStep(g, s)
<1> DEFINE sum == CHOOSE g : g = [s \in SUBSET S |-> SumStep(g, s)]
<1>1. MapThenSumSet(CandidateTokens, S) = sum[S]
  BY Zenon DEF MapThenSumSet, MapThenFoldSet, SumStep
<1>2. sum = [s \in SUBSET S |-> SumStep(sum, s)]
  BY SumSolvable
<1> HIDE DEF sum
<1> QED
  BY <1>1, <1>2

\* The sum over keys that stand for disjoint spans is the number of tokens in
\* them.
LEMMA SumOfSpans ==
    ASSUME NEW S, IsFiniteSet(S),
           \A k \in S : /\ IsFiniteSet(Tokens(k))
                        /\ CandidateTokens(k) = Cardinality(Tokens(k)),
           \A k, l \in S : k # l => Tokens(k) \cap Tokens(l) = {}
    PROVE  MapThenSumSet(CandidateTokens, S) = Cardinality(UNION {Tokens(k) : k \in S})
<1> DEFINE All(s) == UNION {Tokens(k) : k \in s}
<1>1. PICK g : /\ MapThenSumSet(CandidateTokens, S) = g[S]
               /\ \A s \in SUBSET S : g[s] = SumStep(g, s)
  BY SumUnfolds
<1> DEFINE T == {n \in Nat : \A s \in SUBSET S :
                    Cardinality(s) = n => /\ IsFiniteSet(All(s))
                                          /\ g[s] = Cardinality(All(s))}
<1>2. 0 \in T
  <2>1. ASSUME NEW s \in SUBSET S, Cardinality(s) = 0
        PROVE  IsFiniteSet(All(s)) /\ g[s] = Cardinality(All(s))
    <3>1. s = {}
      BY <2>1, PartSize
    <3>2. All(s) = {} /\ g[s] = 0
      BY <1>1, <3>1 DEF SumStep
    <3> QED
      BY <3>2, FS_EmptySet
  <2> QED
    BY <2>1
<1>3. ASSUME NEW n \in Nat, n \in T PROVE n + 1 \in T
  <2>1. ASSUME NEW s \in SUBSET S, Cardinality(s) = n + 1
        PROVE  IsFiniteSet(All(s)) /\ g[s] = Cardinality(All(s))
    <3>1. s # {}
      BY <2>1, PartSize
    <3>2. PICK c \in s : c = CHOOSE x \in s : TRUE
      BY <3>1
    <3>3. s \ {c} \in SUBSET S /\ Cardinality(s \ {c}) = n
      <4>1. /\ s \ {CHOOSE x \in s : TRUE} \in SUBSET S
            /\ Cardinality(s \ {CHOOSE x \in s : TRUE}) = Cardinality(s) - 1
        BY <3>1, TakenFirst
      <4> QED
        BY <2>1, <3>2, <4>1
    <3>4. IsFiniteSet(All(s \ {c})) /\ g[s \ {c}] = Cardinality(All(s \ {c}))
      BY <1>3, <3>3
    <3>5. g[s] = CandidateTokens(c) + g[s \ {c}]
      BY <1>1, <3>1, <3>2 DEF SumStep
    <3>6. IsFiniteSet(Tokens(c)) /\ CandidateTokens(c) = Cardinality(Tokens(c))
      OBVIOUS
    <3>7. All(s) = Tokens(c) \cup All(s \ {c})
      OBVIOUS
    <3>8. Tokens(c) \cap All(s \ {c}) = {}
      OBVIOUS
    <3> HIDE DEF All
    <3>9. /\ IsFiniteSet(Tokens(c) \cup All(s \ {c}))
          /\ Cardinality(Tokens(c) \cup All(s \ {c}))
                = Cardinality(Tokens(c)) + Cardinality(All(s \ {c}))
                    - Cardinality(Tokens(c) \cap All(s \ {c}))
      BY <3>4, <3>6, FS_Union, Zenon
    <3>10. /\ Cardinality(Tokens(c)) \in Nat /\ Cardinality(All(s \ {c})) \in Nat
           /\ Cardinality({}) = 0
      BY <3>4, <3>6, FS_CardinalityType, FS_EmptySet
    <3>11. IsFiniteSet(All(s)) /\ Cardinality(All(s))
                = Cardinality(Tokens(c)) + Cardinality(All(s \ {c})) - Cardinality({})
      BY <3>7, <3>8, <3>9
    <3> QED
      BY <3>4, <3>5, <3>6, <3>10, <3>11
  <2> QED
    BY <2>1
<1>4. Cardinality(S) \in T
  <2> HIDE DEF T
  <2>1. \A n \in Nat : n \in T
    BY <1>2, <1>3, NatSetInduction
  <2> QED
    BY <2>1, FS_CardinalityType
<1> QED
  BY <1>1, <1>4

\* Every recorded turn has its whole span in the mask, or a record that counted
\* the whole span before the rollout's masking cleared it.
CountsRight ==
    \A s \in bad_spans :
        /\ s.token_count <= Cardinality(Span(s.turn))
        /\ \/ Span(s.turn) \subseteq active
           \/ \E f \in bad_spans : /\ f.turn = s.turn
                                   /\ f.token_count = Cardinality(Span(f.turn))

\* The turns of a response have finite spans that share no token.
LEMMA SpansFinite ==
    ASSUME TypeOK, NEW t \in 1 .. assistant_turns
    PROVE  IsFiniteSet(Span(t)) /\ Cardinality(Span(t)) \in Nat
<1>1. turns[t].start \in Int /\ turns[t].end - 1 \in Int
  BY TurnFields
<1>2. IsFiniteSet(Span(t))
  BY <1>1, FS_Interval DEF Span
<1> QED
  BY <1>2, FS_CardinalityType

LEMMA SpansDisjoint ==
    ASSUME TypeOK, TurnsSeparated,
           NEW t \in 1 .. assistant_turns, NEW u \in 1 .. assistant_turns, t # u
    PROVE  Span(t) \cap Span(u) = {}
<1>1. /\ turns[t].start \in Nat /\ turns[t].end \in Nat
      /\ turns[u].start \in Nat /\ turns[u].end \in Nat
  BY TurnFields
<1>2. assistant_turns \in Nat /\ t \in Nat /\ u \in Nat
  BY DEF TypeOK, assistant_turns
<1>3. CASE u < t
  <2>1. turns[u].end < turns[t].start
    BY <1>2, <1>3 DEF TurnsSeparated
  <2> QED
    BY <1>1, <2>1 DEF Span
<1>4. CASE t < u
  <2>1. turns[t].end < turns[u].start
    BY <1>2, <1>4 DEF TurnsSeparated
  <2> QED
    BY <1>1, <2>1 DEF Span
<1> QED
  BY <1>2, <1>3, <1>4

\* A generation counts the tokens of the turn it records.
LEMMA CountsGenerate ==
    ASSUME LoopInv, BadTurnsRecorded, CountsRight, Generate
    PROVE  CountsRight'
<1> USE AgentLoopAssumption
<1>1. PICK n \in 0 .. MaxTokens, looping \in BOOLEAN, calls \in 0 .. MaxCalls :
        HandleGenerating(n, looping, calls)
  BY DEF Generate
<1>2. PICK N \in Nat : N = Len(turns)
  BY DEF LoopInv, TypeOK
<1> DEFINE new == [start |-> len, end |-> len + n, looping |-> looping]
           span == BadSpan(N + 1, "looping", len, len + n, n)
<1>3. /\ turns' = Append(turns, new)
      /\ bad_spans' = IF looping THEN bad_spans \cup {span} ELSE bad_spans
      /\ output = None
      /\ active \subseteq active'
  BY <1>1, <1>2 DEF HandleGenerating, ResponseStart, assistant_turns, LoopInv, LoopFacts
<1>4. turns \in Seq(TurnType) /\ len \in Nat /\ n \in Nat
  BY <1>1 DEF LoopInv, TypeOK
<1>5. /\ \A t \in 1 .. N : turns'[t] = turns[t]
      /\ turns'[N + 1] = new
  BY <1>2, <1>3, <1>4
<1>6. \A t \in 1 .. N : Span(t)' = Span(t)
  BY <1>5 DEF Span
<1>7. Span(N + 1)' = len .. (len + n - 1)
  <2>1. turns'[N + 1].start = len /\ turns'[N + 1].end = len + n
    BY <1>5
  <2> QED
    BY <1>4, <2>1 DEF Span
<1>8. Cardinality(len .. (len + n - 1)) = n
  <2>0. len \in Int /\ len + n - 1 \in Int
    BY <1>4
  <2>1. Cardinality(len .. (len + n - 1))
            = IF len > len + n - 1 THEN 0 ELSE (len + n - 1) - len + 1
    BY <2>0, FS_Interval, Zenon
  <2> QED
    BY <1>4, <2>1
<1>9. \A s \in bad_spans : s.turn \in 1 .. N
  BY <1>2, <1>3, BadTurnsExist DEF BadTurnsRecorded, Reasons, assistant_turns
<1>10. span.turn = N + 1 /\ span.token_count = n
  BY DEF BadSpan
<1> HIDE DEF new, span
<1>11. ASSUME NEW s \in bad_spans'
       PROVE  /\ s.token_count <= Cardinality(Span(s.turn)')
              /\ \/ Span(s.turn)' \subseteq active'
                 \/ \E f \in bad_spans' : /\ f.turn = s.turn
                                          /\ f.token_count = Cardinality(Span(f.turn)')
  <2>1. CASE s \in bad_spans
    <3>1. Span(s.turn)' = Span(s.turn)
      BY <1>6, <1>9, <2>1
    <3>2. CASE Span(s.turn) \subseteq active
      BY <1>3, <2>1, <3>1, <3>2 DEF CountsRight
    <3>3. CASE ~(Span(s.turn) \subseteq active)
      <4>1. PICK f \in bad_spans : /\ f.turn = s.turn
                                   /\ f.token_count = Cardinality(Span(f.turn))
        BY <2>1, <3>3 DEF CountsRight
      <4> QED
        BY <1>3, <2>1, <3>1, <4>1 DEF CountsRight
    <3> QED
      BY <3>2, <3>3
  <2>2. CASE s = span /\ looping
    <3>1. s.turn = N + 1 /\ s.token_count = Cardinality(Span(s.turn)')
      BY <1>7, <1>8, <1>10, <2>2
    <3>2. s.token_count <= Cardinality(Span(s.turn)')
      BY <1>4, <1>10, <2>2, <3>1
    <3> QED
      BY <3>1, <3>2
  <2> QED
    BY <1>3, <2>1, <2>2
<1> QED
  BY <1>11 DEF CountsRight

\* The first loop that clears a turn finds its tokens still in the mask.
LEMMA FirstToClear ==
    ASSUME NEW t \in ZeroedBy(PosthocReasons)
    PROVE  \E r \in PosthocReasons : t \in BadTurns(r) /\ t \notin ZeroedBy(Earlier(r))
<1>1. PICK r \in PosthocReasons : MaskAtOnce(r) /\ t \in BadTurns(r)
  BY DEF ZeroedBy
<1>2. CASE t \in ZeroedBy({"budget"})
  <2>1. t \in BadTurns("budget") /\ ZeroedBy(Earlier("budget")) = {}
    BY <1>2 DEF ZeroedBy, Earlier
  <2> QED
    BY <2>1 DEF PosthocReasons
<1>3. CASE t \notin ZeroedBy({"budget"}) /\ t \in ZeroedBy({"budget", "duplicate"})
  <2>1. t \in BadTurns("duplicate") /\ Earlier("duplicate") = {"budget"}
    BY <1>3 DEF ZeroedBy, Earlier
  <2> QED
    BY <1>3, <2>1 DEF PosthocReasons
<1>4. CASE t \notin ZeroedBy({"budget", "duplicate"})
  <2>1. r = "error"
    BY <1>1, <1>4 DEF ZeroedBy, PosthocReasons
  <2>2. Earlier("error") = {"budget", "duplicate"}
    BY DEF Earlier
  <2> QED
    BY <1>1, <1>4, <2>1, <2>2
<1> QED
  BY <1>2, <1>3, <1>4 DEF ZeroedBy

\* The posthoc loops count a turn before they clear it.
LEMMA CountsFinish ==
    ASSUME LoopInv, BadTurnsRecorded, CountsRight, Finish
    PROVE  CountsRight'
<1>1. /\ output = None /\ TypeOK /\ TurnsSeparated
      /\ bad_spans' = bad_spans \cup PosthocSpans
      /\ active' = active \ ZeroedTokens
      /\ turns' = turns
  BY DEF Finish, LoopInv
<1>2. \A t : Span(t)' = Span(t)
  BY <1>1 DEF Span
<1>3. \A r \in Reasons : BadTurns(r) \subseteq 1 .. assistant_turns
  BY BadTurnsExist
<1>4. ASSUME NEW s \in bad_spans
      PROVE  s.turn \in 1 .. assistant_turns
  BY <1>1, <1>3 DEF BadTurnsRecorded, Reasons
<1>5. ASSUME NEW s \in PosthocSpans
      PROVE  /\ s.turn \in 1 .. assistant_turns
             /\ s.token_count <= Cardinality(Span(s.turn))
  <2>1. PICK r \in PosthocReasons : \E t \in BadTurns(r) :
            s = BadSpan(t, r, turns[t].start, turns[t].end, CountAtRecord(r, t))
    BY DEF PosthocSpans
  <2>2. PICK t \in BadTurns(r) :
            s = BadSpan(t, r, turns[t].start, turns[t].end, CountAtRecord(r, t))
    BY <2>1
  <2>3. t \in 1 .. assistant_turns
    BY <1>3, <2>2 DEF Reasons
  <2>4. IsFiniteSet(Span(t)) /\ Cardinality(Span(t)) \in Nat
    BY <1>1, <2>3, SpansFinite
  <2>5. Cardinality(active \cap Span(t)) <= Cardinality(Span(t))
    BY <2>4, FS_Subset
  <2>6. CountAtRecord(r, t) <= Cardinality(Span(t))
    BY <2>4, <2>5 DEF CountAtRecord, ActiveIn
  <2>7. s.turn = t /\ s.token_count = CountAtRecord(r, t)
    BY <2>2 DEF BadSpan
  <2> QED
    BY <2>3, <2>6, <2>7
<1>6. ASSUME NEW t \in 1 .. assistant_turns, Span(t) \subseteq active
      PROVE  \/ Span(t) \subseteq active'
             \/ \E f \in PosthocSpans : f.turn = t /\ f.token_count = Cardinality(Span(t))
  <2>1. CASE t \in ZeroedBy(PosthocReasons)
    <3>1. PICK r \in PosthocReasons : t \in BadTurns(r) /\ t \notin ZeroedBy(Earlier(r))
      BY <2>1, FirstToClear
    <3> DEFINE f == BadSpan(t, r, turns[t].start, turns[t].end, CountAtRecord(r, t))
    <3>2. f \in PosthocSpans
      BY <3>1 DEF PosthocSpans
    <3>3. active \cap Span(t) = Span(t)
      BY <1>6
    <3>4. f.turn = t /\ f.token_count = Cardinality(Span(t))
      BY <3>1, <3>3 DEF BadSpan, CountAtRecord, ActiveIn
    <3> QED
      BY <3>2, <3>4
  <2>2. CASE t \notin ZeroedBy(PosthocReasons)
    <3>1. ASSUME NEW u \in ZeroedBy(PosthocReasons)
          PROVE  Span(u) \cap Span(t) = {}
      <4>1. u \in 1 .. assistant_turns /\ u # t
        BY <1>3, <2>2, <3>1 DEF ZeroedBy, Reasons
      <4> QED
        BY <1>1, <4>1, SpansDisjoint
    <3>2. Span(t) \cap ZeroedTokens = {}
      BY <3>1 DEF ZeroedTokens
    <3> QED
      BY <1>1, <1>6, <3>2
  <2> QED
    BY <2>1, <2>2
<1>7. ASSUME NEW t \in 1 .. assistant_turns,
             \/ \E s \in bad_spans : s.turn = t
             \/ \E s \in PosthocSpans : s.turn = t
      PROVE  \/ Span(t) \subseteq active'
             \/ \E f \in bad_spans' : f.turn = t /\ f.token_count = Cardinality(Span(t))
  <2>1. CASE Span(t) \subseteq active
    BY <1>1, <1>6, <2>1
  <2>2. CASE ~(Span(t) \subseteq active)
    <3>1. active = AssistantTokens \ UNION {Span(u) : u \in ZeroedBy({"looping"})}
      BY <1>1 DEF LoopInv, MaskSelectsModelTokens
    <3>2. Span(t) \subseteq AssistantTokens
      BY DEF AssistantTokens
    <3>3. PICK u \in ZeroedBy({"looping"}) : Span(t) \cap Span(u) # {}
      BY <2>2, <3>1, <3>2
    <3>4. u \in BadTurns("looping") /\ u \in 1 .. assistant_turns
      BY <1>3, <3>3 DEF ZeroedBy, Reasons
    <3>5. u = t
      BY <1>1, <3>3, <3>4, SpansDisjoint
    <3>6. PICK s \in bad_spans : s.turn = t
      BY <1>1, <3>4, <3>5 DEF BadTurnsRecorded
    <3>7. PICK f \in bad_spans : f.turn = t /\ f.token_count = Cardinality(Span(t))
      BY <2>2, <3>6 DEF CountsRight
    <3> QED
      BY <1>1, <3>7
  <2> QED
    BY <2>1, <2>2
<1>8. ASSUME NEW s \in bad_spans'
      PROVE  /\ s.token_count <= Cardinality(Span(s.turn))
             /\ \/ Span(s.turn) \subseteq active'
                \/ \E f \in bad_spans' : /\ f.turn = s.turn
                                         /\ f.token_count = Cardinality(Span(f.turn))
  <2>1. s.token_count <= Cardinality(Span(s.turn)) /\ s.turn \in 1 .. assistant_turns
    BY <1>1, <1>4, <1>5 DEF CountsRight
  <2>2. (\E f \in bad_spans : f.turn = s.turn) \/ (\E f \in PosthocSpans : f.turn = s.turn)
    BY <1>1
  <2> QED
    BY <1>7, <2>1, <2>2
<1> QED
  BY <1>2, <1>8 DEF CountsRight

\* Every step of a rollout keeps the counts right.
LEMMA CountsStep ==
    ASSUME LoopInv, BadTurnsRecorded, CountsRight, [LoopNext]_loopVars
    PROVE  CountsRight'
<1>1. CASE Generate
  BY <1>1, CountsGenerate
<1>2. CASE Finish
  BY <1>2, CountsFinish
<1>3. CASE HandlePending \/ GenerateRefused \/ ProcessTools \/ UNCHANGED loopVars
  <2>1. UNCHANGED <<turns, bad_spans, active>>
    BY <1>3 DEF HandlePending, GenerateRefused, ProcessTools, HandleTools, loopVars
  <2> QED
    BY <2>1 DEF CountsRight, Span
<1> QED
  BY <1>1, <1>2, <1>3 DEF LoopNext

\* What the trainer's keys stand for, once the rollout has returned: every key
\* is the span of one bad turn, counted in full.
LEMMA KeyOfTurn ==
    ASSUME LoopInv, BadTurnsRecorded, CountsRight, output # None,
           NEW s \in bad_spans
    PROVE  /\ Tokens(Key(s)) = Span(s.turn) /\ Span(s.turn) # {}
           /\ s.turn \in AllBadTurns /\ s.turn \in 1 .. assistant_turns
           /\ Key(s) \in Candidates
           /\ Key(s) = <<turns[s.turn].start, turns[s.turn].end>>
<1> USE AgentLoopAssumption
<1>1. /\ s.reason \in Reasons /\ s.turn \in BadTurns(s.reason)
      /\ s.start = turns[s.turn].start /\ s.end = turns[s.turn].end
  BY DEF BadTurnsRecorded
<1>2. s.turn \in SpanTurns /\ s.turn \in 1 .. assistant_turns
  BY <1>1, BadTurnsExist
<1>3. turns[s.turn].end \in Nat /\ turns[s.turn].start \in Nat
  BY <1>2, TurnFields DEF LoopInv
<1>4. turns[s.turn].end <= len /\ len <= ResponseLength /\ len \in Nat
  BY <1>2 DEF LoopInv, TurnsSeparated, BudgetsRespected, TypeOK
<1>5. turns[s.turn].end > turns[s.turn].start
  BY <1>2 DEF SpanTurns
<1>6. CutToBudget(s.end) = turns[s.turn].end
  BY <1>1, <1>3, <1>4 DEF CutToBudget
<1>7. Key(s) = <<turns[s.turn].start, turns[s.turn].end>>
  BY <1>1, <1>6 DEF Key
<1>8. turns[s.turn].start \in Span(s.turn)
  BY <1>3, <1>5 DEF Span
<1>9. Tokens(Key(s)) = Span(s.turn)
  BY KeyCoversTurn
<1>10. s.turn \in AllBadTurns
  BY <1>1 DEF AllBadTurns
<1>11. Key(s) \in Keys
  BY <1>1, <1>5, <1>6 DEF Keys
<1>12. Key(s) \in Candidates
  <2>1. CASE active \cap Span(s.turn) # {}
    BY <1>9, <1>11, <2>1 DEF Candidates
  <2>2. CASE active \cap Span(s.turn) = {}
    <3>1. ~(Span(s.turn) \subseteq active)
      BY <1>8, <2>2
    <3>2. PICK f \in bad_spans : /\ f.turn = s.turn
                                 /\ f.token_count = Cardinality(Span(f.turn))
      BY <3>1 DEF CountsRight
    <3>3. f.start = turns[f.turn].start /\ f.end = turns[f.turn].end
      BY DEF BadTurnsRecorded
    <3>4. f \in Merged(Key(s))
      BY <1>1, <3>2, <3>3 DEF Merged, Key
    <3>5. IsFiniteSet(Span(f.turn)) /\ Span(f.turn) # {}
      BY <1>2, <1>8, <3>2, SpansFinite DEF LoopInv
    <3>6. Cardinality(Span(f.turn)) # 0 /\ Cardinality(Span(f.turn)) \in Nat
      BY <3>5, FS_EmptySet, FS_CardinalityType
    <3> QED
      BY <1>11, <3>2, <3>4, <3>6 DEF Candidates
  <2> QED
    BY <2>1, <2>2
<1> QED
  BY <1>2, <1>7, <1>8, <1>9, <1>10, <1>12

\* The count of a candidate is the size of its span.
LEMMA CandidateCount ==
    ASSUME LoopInv, BadTurnsRecorded, CountsRight, output # None,
           NEW s \in bad_spans
    PROVE  CandidateTokens(Key(s)) = Cardinality(Span(s.turn))
<1> DEFINE k == Key(s)
           C == {m.token_count : m \in Merged(k)} \cup {Cardinality(active \cap Tokens(k))}
           N == Cardinality(Span(s.turn))
<1>1. Tokens(k) = Span(s.turn) /\ s.turn \in 1 .. assistant_turns
  BY KeyOfTurn
<1>2. IsFiniteSet(Span(s.turn)) /\ N \in Nat
  BY <1>1, SpansFinite DEF LoopInv
<1>3. ASSUME NEW m \in Merged(k)
      PROVE  m \in bad_spans /\ m.turn = s.turn /\ m.token_count \in Nat
  <2>1. m \in bad_spans /\ Key(m) = k
    BY DEF Merged
  <2>2. /\ Span(m.turn) = Span(s.turn) /\ Span(m.turn) # {}
        /\ m.turn \in 1 .. assistant_turns
    BY <1>1, <2>1, KeyOfTurn
  <2>3. m.turn = s.turn
    BY <1>1, <2>2, SpansDisjoint DEF LoopInv
  <2>4. m.token_count \in Nat
    BY <2>1 DEF LoopInv, TypeOK, BadSpanType
  <2> QED
    BY <2>1, <2>3, <2>4
<1>4. ASSUME NEW c \in C PROVE c \in Nat /\ c <= N
  <2>1. CASE c = Cardinality(active \cap Tokens(k))
    <3>1. IsFiniteSet(active \cap Span(s.turn))
             /\ Cardinality(active \cap Span(s.turn)) <= N
      BY <1>2, FS_Subset
    <3> QED
      BY <1>1, <2>1, <3>1, FS_CardinalityType
  <2>2. ASSUME NEW m \in Merged(k), c = m.token_count PROVE c \in Nat /\ c <= N
    BY <1>3, <2>2 DEF CountsRight
  <2> QED
    BY <2>1, <2>2
<1>5. N \in C
  <2>1. CASE Span(s.turn) \subseteq active
    <3>1. active \cap Span(s.turn) = Span(s.turn)
      BY <2>1
    <3> QED
      BY <1>1, <3>1
  <2>2. CASE ~(Span(s.turn) \subseteq active)
    <3>1. PICK f \in bad_spans : /\ f.turn = s.turn
                                 /\ f.token_count = Cardinality(Span(f.turn))
      BY <2>2 DEF CountsRight
    <3>2. Key(f) = k
      BY <3>1, KeyOfTurn
    <3>3. f \in Merged(k)
      BY <3>2 DEF Merged
    <3> QED
      BY <3>1, <3>3
  <2> QED
    BY <2>1, <2>2
<1>6. CandidateTokens(k) = CHOOSE x \in C : \A y \in C : x >= y
  BY DEF CandidateTokens, Max
<1> HIDE DEF C, N, k
<1>7. N \in C /\ \A y \in C : N >= y
  BY <1>2, <1>4, <1>5
<1>8. PICK x \in C : x = CandidateTokens(k) /\ \A y \in C : x >= y
  BY <1>6, <1>7
<1>9. x = N
  BY <1>2, <1>4, <1>7, <1>8
<1> QED
  BY <1>8, <1>9 DEF k, N

\* The candidates correspond one to one to the bad turns of the trajectory.
LEMMA CandidatesAreTurns ==
    ASSUME LoopInv, BadTurnsRecorded, CountsRight, output # None
    PROVE  /\ IsFiniteSet(Candidates)
           /\ Cardinality(Candidates) = Cardinality(AllBadTurns)
           /\ UNION {Tokens(k) : k \in Candidates} = UNION {Span(t) : t \in AllBadTurns}
           /\ \A k \in Candidates : /\ IsFiniteSet(Tokens(k))
                                    /\ CandidateTokens(k) = Cardinality(Tokens(k))
           /\ \A k, l \in Candidates : k # l => Tokens(k) \cap Tokens(l) = {}
<1>1. ASSUME NEW k \in Candidates
      PROVE  \E s \in bad_spans : k = Key(s)
  BY DEF Candidates, Keys
<1>2. ASSUME NEW t \in AllBadTurns
      PROVE  \E s \in bad_spans : t = s.turn
  <2>1. PICK r \in Reasons : t \in BadTurns(r)
    BY DEF AllBadTurns
  <2>2. PICK s \in bad_spans : s.reason = r /\ s.turn = t
    BY <2>1 DEF BadTurnsRecorded
  <2> QED
    BY <2>2
<1>3. IsFiniteSet(AllBadTurns)
  <2>1. AllBadTurns \subseteq 1 .. assistant_turns
    BY BadTurnsExist DEF AllBadTurns
  <2>2. IsFiniteSet(1 .. assistant_turns)
    BY FS_Interval DEF LoopInv, TypeOK, assistant_turns
  <2> QED
    BY <2>1, <2>2, FS_Subset
<1>4. ASSUME NEW k \in Candidates, NEW l \in Candidates, k # l
      PROVE  Tokens(k) \cap Tokens(l) = {}
  <2>1. PICK r \in bad_spans, s \in bad_spans : k = Key(r) /\ l = Key(s)
    BY <1>1
  <2>2. /\ Tokens(k) = Span(r.turn) /\ r.turn \in 1 .. assistant_turns
        /\ Tokens(l) = Span(s.turn) /\ s.turn \in 1 .. assistant_turns
        /\ k = <<turns[r.turn].start, turns[r.turn].end>>
        /\ l = <<turns[s.turn].start, turns[s.turn].end>>
    BY <2>1, KeyOfTurn
  <2>3. r.turn # s.turn
    BY <1>4, <2>2
  <2> QED
    BY <2>2, <2>3, SpansDisjoint DEF LoopInv
<1>5. ASSUME NEW k \in Candidates
      PROVE  IsFiniteSet(Tokens(k)) /\ CandidateTokens(k) = Cardinality(Tokens(k))
  <2>1. PICK s \in bad_spans : k = Key(s)
    BY <1>1
  <2>2. Tokens(k) = Span(s.turn) /\ s.turn \in 1 .. assistant_turns
    BY <2>1, KeyOfTurn
  <2>3. CandidateTokens(k) = Cardinality(Span(s.turn))
    BY <2>1, CandidateCount
  <2> QED
    BY <2>2, <2>3, SpansFinite DEF LoopInv
<1>6. UNION {Tokens(k) : k \in Candidates} = UNION {Span(t) : t \in AllBadTurns}
  <2>1. ASSUME NEW k \in Candidates
        PROVE  \E t \in AllBadTurns : Tokens(k) = Span(t)
    BY <1>1, KeyOfTurn
  <2>2. ASSUME NEW t \in AllBadTurns
        PROVE  \E k \in Candidates : Tokens(k) = Span(t)
    BY <1>2, KeyOfTurn
  <2> QED
    BY <2>1, <2>2
<1>7. ExistsBijection(AllBadTurns, Candidates)
  <2> DEFINE f == [t \in AllBadTurns |-> <<turns[t].start, turns[t].end>>]
  <2>1. ASSUME NEW t \in AllBadTurns
        PROVE  f[t] \in Candidates /\ Tokens(f[t]) = Span(t) /\ Span(t) # {}
    BY <1>2, KeyOfTurn
  <2>2. ASSUME NEW t \in AllBadTurns, NEW u \in AllBadTurns, f[t] = f[u]
        PROVE  t = u
    <3>1. Span(t) = Span(u) /\ Span(t) # {}
      BY <2>1, <2>2
    <3>2. t \in 1 .. assistant_turns /\ u \in 1 .. assistant_turns
      BY <1>2, KeyOfTurn
    <3> QED
      BY <3>1, <3>2, SpansDisjoint DEF LoopInv
  <2>3. ASSUME NEW k \in Candidates
        PROVE  \E t \in AllBadTurns : f[t] = k
    BY <1>1, KeyOfTurn
  <2> HIDE DEF f
  <2>4. f \in [AllBadTurns -> Candidates]
    BY <2>1 DEF f
  <2> QED
    BY <2>2, <2>3, <2>4 DEF ExistsBijection, Bijection, Injection, Surjection, IsInjective
<1>8. IsFiniteSet(Candidates) /\ Cardinality(Candidates) = Cardinality(AllBadTurns)
  BY <1>3, <1>7, FS_Bijection
<1> QED
  BY <1>4, <1>5, <1>6, <1>8

\* A trainer step computes the metrics from the trajectory alone.
LEMMA CandidatesStep ==
    ASSUME LoopInv, BadTurnsRecorded, CountsRight, TrainerSplits,
           CandidatesIndependentOfSwitches, [AAMNext]_aamVars
    PROVE  CandidatesIndependentOfSwitches'
<1>1. CASE Rollout
  <2>1. trained' = None
    BY <1>1, RolloutOver DEF Rollout, TrainerSplits
  <2> QED
    BY <2>1 DEF CandidatesIndependentOfSwitches
<1>2. CASE Train \/ UNCHANGED aamVars
  <2>1. UNCHANGED loopVars
    BY <1>2 DEF Train, ApplyMask, aamVars
  <2>2. UNCHANGED <<turns, tool_events, termination_reason>>
    BY <2>1 DEF loopVars
  <2>3. AllBadTurns' = AllBadTurns
    <3>1. \A r \in Reasons : BadTurns(r)' = BadTurns(r)
      BY <2>2, BadTurnsStable
    <3> QED
      BY <3>1 DEF AllBadTurns
  <2>4. (UNION {Span(t) : t \in AllBadTurns})' = UNION {Span(t) : t \in AllBadTurns}
    BY <2>2, <2>3 DEF Span
  <2>5. CASE UNCHANGED aamVars
    BY <2>3, <2>4, <2>5 DEF aamVars, CandidatesIndependentOfSwitches
  <2>6. CASE Train
    <3>1. PICK pos \in SUBSET active : ApplyMask(pos)
      BY <2>6 DEF Train
    <3>2. /\ output # None
          /\ trained'.candidate_turns = Cardinality(Candidates)
          /\ trained'.candidate_tokens = MapThenSumSet(CandidateTokens, Candidates)
      BY <3>1 DEF ApplyMask
    <3>3. Cardinality(Candidates) = Cardinality(AllBadTurns)
      BY <3>2, CandidatesAreTurns
    <3>4. MapThenSumSet(CandidateTokens, Candidates)
            = Cardinality(UNION {Tokens(k) : k \in Candidates})
      BY <3>2, CandidatesAreTurns, SumOfSpans
    <3>5. UNION {Tokens(k) : k \in Candidates} = UNION {Span(t) : t \in AllBadTurns}
      BY <3>2, CandidatesAreTurns
    <3> QED
      BY <2>3, <2>4, <3>2, <3>3, <3>4, <3>5, Zenon DEF CandidatesIndependentOfSwitches
  <2> QED
    BY <1>2, <2>5, <2>6
<1> QED
  BY <1>1, <1>2 DEF AAMNext

\* The candidate metrics of the trainer are those of the trajectory for every
\* setting of the masking switches: turns that several reasons name are counted
\* once, and tokens the rollout's masking has already cleared are still counted
\* ("Rollout-side detection always records candidate spans").
THEOREM CandidatesCorrect == AAMSpec => []CandidatesIndependentOfSwitches
<1> DEFINE Inv == /\ LoopInv /\ BadTurnsRecorded /\ CountsRight /\ TrainerSplits
                  /\ CandidatesIndependentOfSwitches
<1>1. AAMInit => Inv
  <2> SUFFICES ASSUME AAMInit PROVE Inv
    OBVIOUS
  <2>1. LoopInv
    BY InvInit DEF AAMInit
  <2>2. BadTurns("looping") = {}
    BY DEF AAMInit, Init, BadTurns, SpanTurns, assistant_turns
  <2>3. BadTurnsRecorded /\ CountsRight
    BY <2>2 DEF AAMInit, Init, BadTurnsRecorded, CountsRight
  <2> QED
    BY <2>1, <2>3 DEF AAMInit, TrainerSplits, CandidatesIndependentOfSwitches
<1>2. Inv /\ [AAMNext]_aamVars => Inv'
  <2> SUFFICES ASSUME Inv, [AAMNext]_aamVars PROVE Inv'
    OBVIOUS
  <2>1. [LoopNext]_loopVars
    BY DEF AAMNext, Rollout, Train, ApplyMask, aamVars
  <2>2. LoopInv' /\ BadTurnsRecorded' /\ CountsRight'
    BY <2>1, InvStep, RecordedStep, CountsStep
  <2>3. TrainerSplits' /\ CandidatesIndependentOfSwitches'
    BY SplitsStep, CandidatesStep
  <2> QED
    BY <2>2, <2>3
<1>3. Inv => CandidatesIndependentOfSwitches
  OBVIOUS
<1> QED
  BY <1>1, <1>2, <1>3, PTL DEF AAMSpec

--------------------------------------------------------------------------------
(* The posthoc loops.  AgentLoop states what the three loops of                *)
(* nanoclaw_apply_posthoc_turn_masks leave behind; here the loops themselves,  *)
(* event after event, are proved to leave exactly that.                        *)

\* What the loops hold after the marks M, pairs of a reason and a turn, and the
\* results `seen' so far.
ClearedBy(M) == {t \in SpanTurns : \E r \in PosthocReasons : <<r, t>> \in M /\ MaskAtOnce(r)}
MaskedBy(M) == {t \in SpanTurns : \E r \in PosthocReasons : <<r, t>> \in M /\ env[r]}
SpansOf(turnset) == UNION {Span(t) : t \in turnset}
SpanOf(r, t) == BadSpan(t, r, turns[t].start, turns[t].end, CountAtRecord(r, t))
Held(M, seen) ==
    [active |-> active \ SpansOf(ClearedBy(M)),
     spans  |-> bad_spans \cup {SpanOf(m[1], m[2]) : m \in M},
     masked |-> MaskedBy(M),
     seen   |-> seen,
     count  |-> Cardinality(active \cap SpansOf(ClearedBy(M)))]

\* The marks a loop may find when it marks turns for reason r: all those of the
\* loops before it, and some of its own.
MarksAt(M, r) ==
    /\ M \subseteq PosthocReasons \X SpanTurns
    /\ \A q \in PosthocReasons, t \in SpanTurns :
            <<q, t>> \in M => q = r \/ q \in Earlier(r)
    /\ \A q \in Earlier(r) : \A t \in SpanTurns : <<q, t>> \in M <=> t \in BadTurns(q)

\* Recording a turn again for the same reason changes nothing.
LEMMA RecordAgain ==
    ASSUME TypeOK, BadTurnsRecorded, output = None, NEW r \in PosthocReasons,
           NEW t \in SpanTurns, NEW M, M \subseteq PosthocReasons \X SpanTurns,
           <<r, t>> \in M, NEW seen
    PROVE  Record(Held(M, seen), t, r) = Held(M, seen)
<1> DEFINE d == Held(M, seen)
           old == {s \in d.spans : s.turn = t /\ s.reason = r}
<1>1. d.spans = bad_spans \cup {SpanOf(m[1], m[2]) : m \in M}
  BY DEF Held
<1>2. ASSUME NEW m \in M
      PROVE  /\ m = <<m[1], m[2]>>
             /\ SpanOf(m[1], m[2]).turn = m[2] /\ SpanOf(m[1], m[2]).reason = m[1]
  BY DEF SpanOf, BadSpan
<1>3. \A s \in bad_spans : s.reason # r
  BY DEF BadTurnsRecorded, PosthocReasons
<1>4. old = {SpanOf(r, t)}
  <2>1. SpanOf(r, t) \in old
    <3>1. SpanOf(r, t).turn = t /\ SpanOf(r, t).reason = r
      BY DEF SpanOf, BadSpan
    <3> QED
      BY <1>1, <3>1
  <2>2. ASSUME NEW s \in old PROVE s = SpanOf(r, t)
    <3>1. PICK m \in M : s = SpanOf(m[1], m[2])
      BY <1>1, <1>3
    <3> QED
      BY <1>2, <3>1
  <2> QED
    BY <2>1, <2>2
<1>5. [SpanOf(r, t) EXCEPT !.mask_enabled = @ \/ env[r]] = SpanOf(r, t)
  <2>1. env[r] \in BOOLEAN
    BY DEF TypeOK, Reasons
  <2> QED
    BY <2>1 DEF SpanOf, BadSpan
<1>6. {[s EXCEPT !.mask_enabled = @ \/ env[r]] : s \in old} = old
  BY <1>4, <1>5
<1>7. (d.spans \ old) \cup old = d.spans
  OBVIOUS
<1>8. Record(d, t, r) = [d EXCEPT !.spans = (d.spans \ old) \cup
            {[s EXCEPT !.mask_enabled = @ \/ env[r]] : s \in old}]
  BY <1>4 DEF Record
<1>9. [d EXCEPT !.spans = d.spans] = d
  BY DEF Held
<1> HIDE DEF d, old
<1> QED
  BY <1>6, <1>7, <1>8, <1>9 DEF d

\* A span of its own is what a turn has left in the mask, unless it is cleared.
LEMMA LeftOfTurn ==
    ASSUME TypeOK, TurnsSeparated, NEW t \in SpanTurns, NEW Z, Z \subseteq SpanTurns
    PROVE  (active \ SpansOf(Z)) \cap Span(t) = IF t \in Z THEN {} ELSE active \cap Span(t)
<1>1. t \in 1 .. assistant_turns /\ Z \subseteq 1 .. assistant_turns
  BY DEF SpanTurns
<1>2. ASSUME NEW u \in Z, u # t PROVE Span(u) \cap Span(t) = {}
  BY <1>1, <1>2, SpansDisjoint
<1> QED
  BY <1>2 DEF SpansOf

\* The turns cleared so far are those of the loops before, when the turn is
\* not yet marked.
LEMMA ClearedBefore ==
    ASSUME NEW r \in PosthocReasons, NEW t \in SpanTurns, NEW M, MarksAt(M, r),
           <<r, t>> \notin M
    PROVE  t \in ClearedBy(M) <=> t \in ZeroedBy(Earlier(r))
<1>1. Earlier(r) \subseteq PosthocReasons
  BY DEF Earlier, PosthocReasons
<1> QED
  BY <1>1 DEF ClearedBy, ZeroedBy, MarksAt

\* Recording a turn for a new reason adds its span, with the tokens it has left.
LEMMA RecordNew ==
    ASSUME TypeOK, TurnsSeparated, BadTurnsRecorded, output = None,
           NEW r \in PosthocReasons, NEW t \in SpanTurns, NEW M, MarksAt(M, r),
           <<r, t>> \notin M, NEW seen
    PROVE  Record(Held(M, seen), t, r)
            = [Held(M, seen) EXCEPT !.spans =
                  bad_spans \cup {SpanOf(m[1], m[2]) : m \in M \cup {<<r, t>>}}]
<1> DEFINE d == Held(M, seen)
           old == {s \in d.spans : s.turn = t /\ s.reason = r}
           S == {SpanOf(m[1], m[2]) : m \in M}
<1>1. d.spans = bad_spans \cup S /\ d.active = active \ SpansOf(ClearedBy(M))
  BY DEF Held
<1>2. ASSUME NEW m \in M
      PROVE  /\ m = <<m[1], m[2]>>
             /\ SpanOf(m[1], m[2]).turn = m[2] /\ SpanOf(m[1], m[2]).reason = m[1]
  BY DEF SpanOf, BadSpan, MarksAt
<1>3. \A s \in bad_spans : s.reason # r
  BY DEF BadTurnsRecorded, PosthocReasons
<1>4. old = {}
  <2> SUFFICES ASSUME NEW s \in old PROVE FALSE
    OBVIOUS
  <2>1. PICK m \in M : s = SpanOf(m[1], m[2])
    BY <1>1, <1>3
  <2> QED
    BY <1>2, <2>1
<1>5. Cardinality(d.active \cap Span(t)) = CountAtRecord(r, t)
  <2>1. ClearedBy(M) \subseteq SpanTurns
    BY DEF ClearedBy
  <2>2. d.active \cap Span(t)
            = IF t \in ClearedBy(M) THEN {} ELSE active \cap Span(t)
    BY <1>1, <2>1, LeftOfTurn
  <2>3. t \in ClearedBy(M) <=> t \in ZeroedBy(Earlier(r))
    BY ClearedBefore
  <2> QED
    BY <2>2, <2>3, FS_EmptySet DEF CountAtRecord, ActiveIn
<1>6. {SpanOf(m[1], m[2]) : m \in M \cup {<<r, t>>}} = S \cup {SpanOf(r, t)}
  OBVIOUS
<1>7. Record(d, t, r) = [d EXCEPT !.spans = d.spans \cup
            {BadSpan(t, r, turns[t].start, turns[t].end,
                     Cardinality(d.active \cap Span(t)))}]
  BY <1>4 DEF Record
<1>8. Record(d, t, r) = [d EXCEPT !.spans = d.spans \cup {SpanOf(r, t)}]
  BY <1>5, <1>7 DEF SpanOf
<1>9. d.spans \cup {SpanOf(r, t)}
        = bad_spans \cup {SpanOf(m[1], m[2]) : m \in M \cup {<<r, t>>}}
  BY <1>1, <1>6
<1> HIDE DEF d, S
<1> QED
  BY <1>8, <1>9 DEF d

\* What another mark changes.
LEMMA AnotherMark ==
    ASSUME NEW r \in PosthocReasons, NEW t \in SpanTurns, NEW M
    PROVE  /\ ClearedBy(M \cup {<<r, t>>})
                = IF MaskAtOnce(r) THEN ClearedBy(M) \cup {t} ELSE ClearedBy(M)
           /\ MaskedBy(M \cup {<<r, t>>})
                = IF env[r] THEN MaskedBy(M) \cup {t} ELSE MaskedBy(M)
  BY DEF ClearedBy, MaskedBy

\* Clearing one more turn.
LEMMA ClearOneMore ==
    ASSUME TypeOK, TurnsSeparated, NEW t \in SpanTurns, NEW Z, Z \subseteq SpanTurns,
           t \notin Z
    PROVE  /\ (active \ SpansOf(Z)) \ Span(t) = active \ SpansOf(Z \cup {t})
           /\ Cardinality(active \cap SpansOf(Z))
                + Cardinality((active \ SpansOf(Z)) \cap Span(t))
                = Cardinality(active \cap SpansOf(Z \cup {t}))
<1> DEFINE A == active \cap SpansOf(Z)
           B == (active \ SpansOf(Z)) \cap Span(t)
<1>1. SpansOf(Z \cup {t}) = SpansOf(Z) \cup Span(t)
  BY DEF SpansOf
<1>2. active \cap SpansOf(Z \cup {t}) = A \cup B /\ A \cap B = {}
  BY <1>1
<1>3. IsFiniteSet(A) /\ IsFiniteSet(B)
  BY ZeroedTokensFinite, FS_Subset
<1> HIDE DEF A, B
<1>4. Cardinality(A \cup B) = Cardinality(A) + Cardinality(B) - Cardinality(A \cap B)
  BY <1>3, FS_Union, Zenon
<1>5. /\ Cardinality(A) \in Nat /\ Cardinality(B) \in Nat
      /\ Cardinality({}) = 0
  BY <1>3, FS_CardinalityType, FS_EmptySet
<1>6. Cardinality(A \cap B) = 0
  BY <1>2, <1>5
<1>7. Cardinality(A \cup B) = Cardinality(A) + Cardinality(B)
  BY <1>4, <1>5, <1>6
<1>8. (active \ SpansOf(Z)) \ Span(t) = active \ SpansOf(Z \cup {t})
  BY <1>1
<1>9. Cardinality(A) + Cardinality(B) = Cardinality(active \cap SpansOf(Z \cup {t}))
  BY <1>2, <1>7
<1> QED
  BY <1>8, <1>9 DEF A, B

\* What zeroing a turn does to an accumulator.
LEMMA ZeroFields ==
    ASSUME NEW a, NEW spans, NEW masked, NEW seen, NEW count, NEW t
    PROVE  Zero([active |-> a, spans |-> spans, masked |-> masked, seen |-> seen,
                 count |-> count], t)
            = [active |-> a \ Span(t), spans |-> spans, masked |-> masked \cup {t},
               seen |-> seen, count |-> count + Cardinality(a \cap Span(t))]
<1> DEFINE d == [active |-> a, spans |-> spans, masked |-> masked, seen |-> seen,
                 count |-> count]
           x == a \ Span(t)
           y == masked \cup {t}
           z == count + Cardinality(a \cap Span(t))
<1>1. Zero(d, t) = [d EXCEPT !.active = x, !.masked = y, !.count = z]
  BY DEF Zero
<1> HIDE DEF x, y, z
<1>2. [d EXCEPT !.active = x] = [active |-> x, spans |-> spans, masked |-> masked,
                                 seen |-> seen, count |-> count]
  OBVIOUS
<1>3. [[active |-> x, spans |-> spans, masked |-> masked, seen |-> seen,
        count |-> count] EXCEPT !.masked = y]
        = [active |-> x, spans |-> spans, masked |-> y, seen |-> seen, count |-> count]
  OBVIOUS
<1>4. [[active |-> x, spans |-> spans, masked |-> y, seen |-> seen,
        count |-> count] EXCEPT !.count = z]
        = [active |-> x, spans |-> spans, masked |-> y, seen |-> seen, count |-> z]
  OBVIOUS
<1> HIDE DEF d
<1>5. [d EXCEPT !.active = x, !.masked = y, !.count = z]
        = [[[d EXCEPT !.active = x] EXCEPT !.masked = y] EXCEPT !.count = z]
  OBVIOUS
<1>6. Zero(d, t) = [active |-> x, spans |-> spans, masked |-> y, seen |-> seen, count |-> z]
  BY <1>1, <1>2, <1>3, <1>4, <1>5, Zenon
<1> QED
  BY <1>6 DEF d, x, y, z

\* nanoclaw_mask_assistant_turn adds exactly the mark of its turn.
LEMMA MaskTurnMarks ==
    ASSUME TypeOK, TurnsSeparated, BadTurnsRecorded, output = None,
           NEW r \in PosthocReasons, NEW t, NEW M, MarksAt(M, r), NEW seen
    PROVE  MaskTurn(Held(M, seen), t, r)
            = Held(IF t \in SpanTurns THEN M \cup {<<r, t>>} ELSE M, seen)
<1> DEFINE d == Held(M, seen)
           N == M \cup {<<r, t>>}
<1>1. CASE t \notin SpanTurns
  BY <1>1 DEF MaskTurn
<1>2. CASE t \in SpanTurns /\ <<r, t>> \in M
  <2>1. N = M
    BY <1>2
  <2>2. Record(d, t, r) = d
    BY <1>2, RecordAgain DEF MarksAt
  <2>3. env[r] => t \in d.masked
    BY <1>2 DEF Held, MaskedBy
  <2>4. MaskTurn(d, t, r) = d
    BY <1>2, <2>2, <2>3 DEF MaskTurn
  <2> QED
    BY <1>2, <2>1, <2>4
<1>3. CASE t \in SpanTurns /\ <<r, t>> \notin M
  <2> DEFINE rec == Record(d, t, r)
             spans == bad_spans \cup {SpanOf(m[1], m[2]) : m \in N}
  <2>1. rec = [d EXCEPT !.spans = spans]
    BY <1>3, RecordNew
  <2>2. rec = [active |-> d.active, spans |-> spans, masked |-> d.masked,
               seen |-> seen, count |-> d.count]
    BY <2>1 DEF Held
  <2>3. d.masked = MaskedBy(M)
    BY DEF Held
  <2>4. /\ ClearedBy(N) = IF MaskAtOnce(r) THEN ClearedBy(M) \cup {t} ELSE ClearedBy(M)
        /\ MaskedBy(N) = IF env[r] THEN d.masked \cup {t} ELSE d.masked
    BY <1>3, <2>3, AnotherMark
  <2>5. Held(N, seen) =
            [active |-> active \ SpansOf(ClearedBy(N)), spans |-> spans,
             masked |-> MaskedBy(N), seen |-> seen,
             count |-> Cardinality(active \cap SpansOf(ClearedBy(N)))]
    BY DEF Held
  <2>6. /\ d.active = active \ SpansOf(ClearedBy(M))
        /\ d.count = Cardinality(active \cap SpansOf(ClearedBy(M)))
        /\ ClearedBy(M) \subseteq SpanTurns
    BY DEF Held, ClearedBy
  <2> HIDE DEF d, rec, spans, N
  <2>7. CASE ~env[r]
    <3>1. MaskTurn(d, t, r) = rec
      BY <1>3, <2>7 DEF MaskTurn, rec
    <3>2. ClearedBy(N) = ClearedBy(M)
      BY <2>4, <2>7 DEF MaskAtOnce
    <3> QED
      BY <1>3, <2>2, <2>4, <2>5, <2>6, <2>7, <3>1, <3>2 DEF d, N
  <2>8. CASE env[r] /\ t \in d.masked
    <3>1. MaskTurn(d, t, r) = rec
      BY <1>3, <2>8 DEF MaskTurn, rec
    <3>2. ClearedBy(N) = ClearedBy(M)
      <4>1. PICK q \in PosthocReasons : <<q, t>> \in M /\ env[q]
        BY <2>3, <2>8 DEF MaskedBy
      <4>2. MaskAtOnce(r) => t \in ClearedBy(M)
        BY <1>3, <4>1 DEF ClearedBy, MaskAtOnce
      <4> QED
        BY <2>4, <4>2
    <3> QED
      BY <1>3, <2>2, <2>4, <2>5, <2>6, <2>8, <3>1, <3>2 DEF d, N
  <2>9. CASE env[r] /\ t \notin d.masked /\ env["only_positive"]
    <3>1. MaskTurn(d, t, r) = [rec EXCEPT !.masked = @ \cup {t}]
      BY <1>3, <2>9 DEF MaskTurn, rec
    <3>2. ClearedBy(N) = ClearedBy(M)
      BY <2>4, <2>9 DEF MaskAtOnce
    <3> QED
      BY <1>3, <2>2, <2>4, <2>5, <2>6, <2>9, <3>1, <3>2 DEF d, N
  <2>10. CASE env[r] /\ t \notin d.masked /\ ~env["only_positive"]
    <3>1. MaskTurn(d, t, r) = Zero(rec, t)
      BY <1>3, <2>10 DEF MaskTurn, rec
    <3>2. Zero(rec, t) = [active |-> d.active \ Span(t), spans |-> spans,
                          masked |-> d.masked \cup {t}, seen |-> seen,
                          count |-> d.count + Cardinality(d.active \cap Span(t))]
      <4>1. Zero(rec, t) = Zero([active |-> d.active, spans |-> spans, masked |-> d.masked,
                                 seen |-> seen, count |-> d.count], t)
        BY <2>2, Zenon
      <4> QED
        BY <4>1, ZeroFields
    <3>3. t \notin ClearedBy(M)
      BY <2>3, <2>10 DEF ClearedBy, MaskedBy, MaskAtOnce
    <3>4. ClearedBy(N) = ClearedBy(M) \cup {t}
      BY <2>4, <2>10 DEF MaskAtOnce
    <3>5. /\ d.active \ Span(t) = active \ SpansOf(ClearedBy(N))
          /\ d.count + Cardinality(d.active \cap Span(t))
                = Cardinality(active \cap SpansOf(ClearedBy(N)))
      BY <1>3, <2>6, <3>3, <3>4, ClearOneMore
    <3> QED
      BY <1>3, <2>4, <2>5, <2>10, <3>1, <3>2, <3>5 DEF d, N
  <2> QED
    BY <2>7, <2>8, <2>9, <2>10
<1> QED
  BY <1>1, <1>2, <1>3

\* The marks with that of a turn, which nanoclaw_mask_assistant_turn leaves
\* out when the turn has no tokens.
WithMark(M, r, t) == IF t \in SpanTurns THEN M \cup {<<r, t>>} ELSE M
LEMMA MaskTurnAdds ==
    ASSUME TypeOK, TurnsSeparated, BadTurnsRecorded, output = None
    PROVE  \A r \in PosthocReasons : \A t, M, seen :
             MarksAt(M, r) => MaskTurn(Held(M, seen), t, r) = Held(WithMark(M, r, t), seen)
<1> SUFFICES ASSUME NEW r \in PosthocReasons, NEW t, NEW M, NEW seen, MarksAt(M, r)
             PROVE  MaskTurn(Held(M, seen), t, r) = Held(WithMark(M, r, t), seen)
  OBVIOUS
<1> QED
  BY MaskTurnMarks DEF WithMark

\* The body of the duplicate and of the error loop, and one step of its fold.
EventBody(r, acc, e) ==
    IF r = "duplicate"
    THEN IF e.result \notin acc.seen
         THEN [acc EXCEPT !.seen = @ \cup {e.result}]
         ELSE MaskTurn(acc, e.turn, "duplicate")
    ELSE IF e.result \in ErrorResults THEN MaskTurn(acc, e.turn, "error") ELSE acc
FoldStep(r, d, g, s) ==
    IF s = {} THEN d ELSE EventBody(r, g[s \ {Max(s)}], tool_events[Max(s)])

\* h goes through the accumulators of the loop for r, from d to e.
GoesThrough(h, n, r, d, e) ==
    /\ h[0] = d /\ h[n] = e
    /\ \A m \in 0 .. (n - 1) : h[m + 1] = EventBody(r, h[m], tool_events[m + 1])

\* The greatest member of a set of positions.
LEMMA GreatestMember ==
    ASSUME NEW n \in Nat, NEW s \in SUBSET (1 .. n), s # {}
    PROVE  Max(s) \in s /\ \A x \in s : x <= Max(s)
<1> DEFINE T == {n - x : x \in s}
<1>1. T \subseteq Nat /\ T # {}
  <2>1. \A x \in s : x \in 1 .. n
    OBVIOUS
  <2>2. \A x \in s : n - x \in Nat
    BY <2>1
  <2> QED
    BY <2>2
<1>2. PICK k \in T : \A m \in T : k <= m
  <2> HIDE DEF T
  <2> QED
    BY <1>1, LeastNatural
<1>3. PICK x \in s : k = n - x
  OBVIOUS
<1>4. ASSUME NEW y \in s PROVE x >= y
  <2>1. n - y \in T
    OBVIOUS
  <2>2. n - x <= n - y
    BY <1>2, <1>3, <2>1
  <2>3. x \in Int /\ y \in Int
    OBVIOUS
  <2> HIDE DEF T
  <2> QED
    BY <2>2, <2>3
<1>5. Max(s) \in s /\ \A y \in s : Max(s) >= y
  BY <1>4 DEF Max
<1> QED
  BY <1>5

\* The recursion of a fold over the events has a solution.
LEMMA FoldSolvable ==
    ASSUME NEW n \in Nat, NEW r, NEW d
    PROVE  \E g : g = [s \in SUBSET (1 .. n) |-> FoldStep(r, d, g, s)]
<1> DEFINE Upto(g, m) == \A s \in SUBSET (1 .. n) :
                            s \subseteq 1 .. m => g[s] = FoldStep(r, d, g, s)
           T == {m \in Nat : \E g : Upto(g, m)}
<1>1. 0 \in T
  <2> DEFINE g == [s \in SUBSET (1 .. n) |-> d]
  <2>1. ASSUME NEW s \in SUBSET (1 .. n), s \subseteq 1 .. 0 PROVE s = {}
    BY <2>1
  <2>2. Upto(g, 0)
    BY <2>1 DEF FoldStep
  <2> QED
    BY <2>2
<1>2. ASSUME NEW m \in Nat, m \in T PROVE m + 1 \in T
  <2>1. PICK g : Upto(g, m)
    BY <1>2
  <2> DEFINE h == [s \in SUBSET (1 .. n) |-> FoldStep(r, d, g, s)]
  <2>2. ASSUME NEW s \in SUBSET (1 .. n), s \subseteq 1 .. (m + 1)
        PROVE  h[s] = FoldStep(r, d, h, s)
    <3>1. h[s] = FoldStep(r, d, g, s)
      OBVIOUS
    <3>2. CASE s = {}
      BY <3>1, <3>2 DEF FoldStep
    <3>3. CASE s # {}
      <4> DEFINE q == s \ {Max(s)}
      <4>1. q \in SUBSET (1 .. n) /\ q \subseteq 1 .. m
        <5>1. Max(s) \in s /\ \A x \in s : x <= Max(s)
          BY <3>3, GreatestMember
        <5>2. q \in SUBSET (1 .. n)
          OBVIOUS
        <5>3. ASSUME NEW x \in q PROVE x \in 1 .. m
          <6>1. x \in s /\ x # Max(s)
            OBVIOUS
          <6>2. x \in 1 .. (m + 1) /\ Max(s) \in 1 .. (m + 1)
            BY <2>2, <5>1, <6>1
          <6>3. x <= Max(s)
            BY <5>1, <6>1
          <6> HIDE DEF q
          <6> QED
            BY <6>1, <6>2, <6>3
        <5> HIDE DEF q
        <5> QED
          BY <5>2, <5>3
      <4>2. g[q] = FoldStep(r, d, g, q) /\ h[q] = FoldStep(r, d, g, q)
        BY <2>1, <4>1
      <4>3. g[q] = h[q]
        BY <4>2
      <4> QED
        BY <3>1, <3>3, <4>3 DEF FoldStep
    <3> QED
      BY <3>2, <3>3
  <2>3. Upto(h, m + 1)
    BY <2>2
  <2>4. m + 1 \in Nat
    OBVIOUS
  <2> HIDE DEF h, Upto
  <2> QED
    BY <2>3, <2>4
<1>3. n \in T
  <2> HIDE DEF T
  <2> QED
    BY <1>1, <1>2, NatSetInduction
<1>4. PICK g : Upto(g, n)
  BY <1>3
<1> DEFINE h == [s \in SUBSET (1 .. n) |-> g[s]]
<1>5. ASSUME NEW s \in SUBSET (1 .. n) PROVE h[s] = FoldStep(r, d, h, s)
  <2>1. g[s] = FoldStep(r, d, g, s) /\ h[s] = g[s]
    BY <1>4
  <2>2. s # {} => h[s \ {Max(s)}] = g[s \ {Max(s)}]
    OBVIOUS
  <2> QED
    BY <2>1, <2>2 DEF FoldStep
<1>6. h = [s \in SUBSET (1 .. n) |-> FoldStep(r, d, h, s)]
  BY <1>5
<1> HIDE DEF h
<1> QED
  BY <1>6

\* A solution goes through the events in their order.
LEMMA FoldInOrder ==
    ASSUME NEW n \in Nat, NEW r, NEW d, NEW g,
           g = [s \in SUBSET (1 .. n) |-> FoldStep(r, d, g, s)]
    PROVE  \E h : GoesThrough(h, n, r, d, g[1 .. n])
<1> DEFINE h == [m \in 0 .. n |-> g[1 .. m]]
<1>1. h[0] = d
  <2>1. 1 .. 0 = {}
    OBVIOUS
  <2>2. g[{}] = FoldStep(r, d, g, {})
    OBVIOUS
  <2> QED
    BY <2>1, <2>2 DEF FoldStep
<1>2. ASSUME NEW m \in 0 .. (n - 1)
      PROVE  h[m + 1] = EventBody(r, h[m], tool_events[m + 1])
  <2> DEFINE s == 1 .. (m + 1)
  <2>1. s \in SUBSET (1 .. n) /\ s # {} /\ m + 1 \in s
    OBVIOUS
  <2>2. Max(s) = m + 1
    <3>1. Max(s) \in s /\ \A x \in s : x <= Max(s)
      BY <2>1, GreatestMember
    <3> QED
      BY <2>1, <3>1
  <2>3. s \ {m + 1} = 1 .. m
    OBVIOUS
  <2>4. g[s] = FoldStep(r, d, g, s)
    BY <2>1
  <2>5. g[s] = EventBody(r, g[1 .. m], tool_events[m + 1])
    BY <2>1, <2>2, <2>3, <2>4 DEF FoldStep
  <2>6. h[m + 1] = g[s] /\ h[m] = g[1 .. m]
    OBVIOUS
  <2> QED
    BY <2>5, <2>6
<1>3. h[n] = g[1 .. n]
  OBVIOUS
<1> HIDE DEF h
<1>4. GoesThrough(h, n, r, d, g[1 .. n])
  BY <1>1, <1>2, <1>3 DEF GoesThrough
<1> QED
  BY <1>4

\* The duplicate loop and the error loop are folds over the tool events.
LEMMA LoopsUnfold ==
    ASSUME NEW n \in Nat, DOMAIN tool_events = 1 .. n, NEW d
    PROVE  /\ \E h : GoesThrough(h, n, "duplicate", d, DuplicateLoop(d))
           /\ \E h : GoesThrough(h, n, "error", d, ErrorLoop(d))
<1>1. DuplicateLoop(d) =
        (CHOOSE g : g = [s \in SUBSET (1 .. n) |-> FoldStep("duplicate", d, g, s)])[1 .. n]
  BY Zenon DEF DuplicateLoop, FoldLeft, MapThenFoldSet, FoldStep, EventBody
<1>2. ErrorLoop(d) =
        (CHOOSE g : g = [s \in SUBSET (1 .. n) |-> FoldStep("error", d, g, s)])[1 .. n]
  BY Zenon DEF ErrorLoop, FoldLeft, MapThenFoldSet, FoldStep, EventBody
<1> DEFINE gd == CHOOSE g : g = [s \in SUBSET (1 .. n) |-> FoldStep("duplicate", d, g, s)]
           ge == CHOOSE g : g = [s \in SUBSET (1 .. n) |-> FoldStep("error", d, g, s)]
<1>3. gd = [s \in SUBSET (1 .. n) |-> FoldStep("duplicate", d, gd, s)]
  BY FoldSolvable, Zenon
<1>4. ge = [s \in SUBSET (1 .. n) |-> FoldStep("error", d, ge, s)]
  BY FoldSolvable, Zenon
<1>5. DuplicateLoop(d) = gd[1 .. n] /\ ErrorLoop(d) = ge[1 .. n]
  BY <1>1, <1>2
<1> HIDE DEF gd, ge
<1>6. \E h : GoesThrough(h, n, "duplicate", d, gd[1 .. n])
  BY <1>3, FoldInOrder
<1>7. \E h : GoesThrough(h, n, "error", d, ge[1 .. n])
  BY <1>4, FoldInOrder
<1> QED
  BY <1>5, <1>6, <1>7

\* The events a loop marks, the turns it has marked after m events and the
\* results the duplicate loop has seen by then.
Caught(r, i) ==
    IF r = "duplicate"
    THEN \E j \in 1 .. (i - 1) : tool_events[j].result = tool_events[i].result
    ELSE tool_events[i].result \in ErrorResults
MarkedAfter(r, m) ==
    {t \in SpanTurns : \E i \in 1 .. m : tool_events[i].turn = t /\ Caught(r, i)}
SeenAfter(r, m, seen) ==
    IF r = "duplicate" THEN {tool_events[i].result : i \in 1 .. m} ELSE seen

\* One event more.
LEMMA MarkedOneMore ==
    ASSUME NEW m \in Nat, NEW r \in {"duplicate", "error"}, NEW seen
    PROVE  /\ MarkedAfter(r, m + 1) =
                IF Caught(r, m + 1) /\ tool_events[m + 1].turn \in SpanTurns
                THEN MarkedAfter(r, m) \cup {tool_events[m + 1].turn}
                ELSE MarkedAfter(r, m)
           /\ SeenAfter("duplicate", m + 1, seen)
                = SeenAfter("duplicate", m, seen) \cup {tool_events[m + 1].result}
           /\ Caught("duplicate", m + 1)
                <=> tool_events[m + 1].result \in SeenAfter("duplicate", m, seen)
<1>1. 1 .. (m + 1) = (1 .. m) \cup {m + 1} /\ (m + 1) - 1 = m
  OBVIOUS
<1>2. MarkedAfter(r, m + 1) =
        IF Caught(r, m + 1) /\ tool_events[m + 1].turn \in SpanTurns
        THEN MarkedAfter(r, m) \cup {tool_events[m + 1].turn}
        ELSE MarkedAfter(r, m)
  BY <1>1, Zenon DEF MarkedAfter
<1>3. SeenAfter("duplicate", m + 1, seen)
        = SeenAfter("duplicate", m, seen) \cup {tool_events[m + 1].result}
  BY <1>1, Zenon DEF SeenAfter
<1>4. Caught("duplicate", m + 1)
        <=> tool_events[m + 1].result \in SeenAfter("duplicate", m, seen)
  BY <1>1 DEF Caught, SeenAfter
<1> QED
  BY <1>2, <1>3, <1>4

\* The whole of trajectory_events marks the bad turns of the reason.
LEMMA MarkedInTheEnd ==
    ASSUME TypeOK
    PROVE  /\ MarkedAfter("duplicate", Len(tool_events)) = BadTurns("duplicate")
           /\ MarkedAfter("error", Len(tool_events)) = BadTurns("error")
<1>1. MarkedAfter("duplicate", Len(tool_events)) = DuplicateTurns
  BY DEF MarkedAfter, Caught, DuplicateTurns
<1>2. MarkedAfter("error", Len(tool_events)) = ErrorTurns
  BY DEF MarkedAfter, Caught, ErrorTurns
<1> QED
  BY <1>1, <1>2 DEF BadTurns

\* The marks of the reasons R.
MarksOf(R) == {m \in R \X SpanTurns : m[2] \in BadTurns(m[1])}

\* The marks within a loop, which starts from those of the loops before it.
LEMMA MarksWithin ==
    ASSUME NEW r \in {"duplicate", "error"}, NEW m
    PROVE  MarksAt(MarksOf(Earlier(r)) \cup ({r} \X MarkedAfter(r, m)), r)
<1> DEFINE M == MarksOf(Earlier(r)) \cup ({r} \X MarkedAfter(r, m))
<1>1. Earlier(r) \subseteq PosthocReasons /\ r \in PosthocReasons /\ r \notin Earlier(r)
  BY DEF Earlier, PosthocReasons
<1>2. MarkedAfter(r, m) \subseteq SpanTurns
  BY DEF MarkedAfter
<1>3. M \subseteq PosthocReasons \X SpanTurns
  BY <1>1, <1>2 DEF MarksOf
<1>4. ASSUME NEW q \in PosthocReasons, NEW t \in SpanTurns, <<q, t>> \in M
      PROVE  q = r \/ q \in Earlier(r)
  BY <1>4 DEF MarksOf
<1>5. ASSUME NEW q \in Earlier(r), NEW t \in SpanTurns
      PROVE  <<q, t>> \in M <=> t \in BadTurns(q)
  BY <1>1 DEF MarksOf
<1> HIDE DEF M
<1> QED
  BY <1>3, <1>4, <1>5 DEF MarksAt, M

\* What a result seen for the first time changes.
LEMMA SeenChanges ==
    ASSUME NEW M, NEW seen, NEW other
    PROVE  [Held(M, seen) EXCEPT !.seen = other] = Held(M, other)
<1> DEFINE a == active \ SpansOf(ClearedBy(M))
           b == bad_spans \cup {SpanOf(m[1], m[2]) : m \in M}
           c == MaskedBy(M)
           d == Cardinality(active \cap SpansOf(ClearedBy(M)))
<1>1. \A x : Held(M, x) = [active |-> a, spans |-> b, masked |-> c, seen |-> x, count |-> d]
  BY DEF Held
<1> HIDE DEF a, b, c, d
<1> QED
  BY <1>1

\* After m events a loop holds the marks of the loops before it and its own.
LEMMA HeldAfter ==
    ASSUME TypeOK, TurnsSeparated, BadTurnsRecorded, output = None,
           NEW r \in {"duplicate", "error"}, NEW seen, r = "duplicate" => seen = {},
           NEW h, NEW e, NEW n \in Nat,
           GoesThrough(h, n, r, Held(MarksOf(Earlier(r)), seen), e)
    PROVE  e = Held(MarksOf(Earlier(r)) \cup ({r} \X MarkedAfter(r, n)),
                    SeenAfter(r, n, seen))
<1> DEFINE M(m) == MarksOf(Earlier(r)) \cup ({r} \X MarkedAfter(r, m))
           T == {m \in Nat : m <= n => h[m] = Held(M(m), SeenAfter(r, m, seen))}
<1>1. 0 \in T
  <2>1. MarkedAfter(r, 0) = {} /\ SeenAfter(r, 0, seen) = seen
    BY DEF MarkedAfter, SeenAfter
  <2>2. M(0) = MarksOf(Earlier(r))
    BY <2>1
  <2>3. h[0] = Held(MarksOf(Earlier(r)), seen)
    BY DEF GoesThrough
  <2> HIDE DEF M
  <2> QED
    BY <2>1, <2>2, <2>3
<1>2. ASSUME NEW m \in Nat, m \in T PROVE m + 1 \in T
  <2> SUFFICES ASSUME m + 1 <= n
               PROVE  h[m + 1] = Held(M(m + 1), SeenAfter(r, m + 1, seen))
    OBVIOUS
  <2> DEFINE ev == tool_events[m + 1]
             s == SeenAfter(r, m, seen)
  <2>1. h[m] = Held(M(m), s)
    BY <1>2
  <2>2. h[m + 1] = EventBody(r, Held(M(m), s), ev)
    BY <2>1 DEF GoesThrough
  <2>3. MarksAt(M(m), r)
    BY MarksWithin
  <2>4. M(m + 1) = IF Caught(r, m + 1) /\ ev.turn \in SpanTurns
                   THEN M(m) \cup {<<r, ev.turn>>} ELSE M(m)
    <3>1. MarkedAfter(r, m + 1) = IF Caught(r, m + 1) /\ ev.turn \in SpanTurns
                                  THEN MarkedAfter(r, m) \cup {ev.turn}
                                  ELSE MarkedAfter(r, m)
      BY MarkedOneMore
    <3>2. {r} \X (MarkedAfter(r, m) \cup {ev.turn})
            = ({r} \X MarkedAfter(r, m)) \cup {<<r, ev.turn>>}
      OBVIOUS
    <3> HIDE DEF ev
    <3> QED
      BY <3>1, <3>2
  <2>5. MaskTurn(Held(M(m), s), ev.turn, r)
          = Held(IF ev.turn \in SpanTurns THEN M(m) \cup {<<r, ev.turn>>} ELSE M(m), s)
    <3> DEFINE K == M(m)
               t == ev.turn
    <3>1. r \in PosthocReasons
      BY DEF PosthocReasons
    <3>2. MarksAt(K, r)
      BY <2>3
    <3> HIDE DEF K, M, s, t, ev
    <3>3. MaskTurn(Held(K, s), t, r) = Held(WithMark(K, r, t), s)
      BY <3>1, <3>2, MaskTurnAdds
    <3> QED
      BY <3>3 DEF K, t, WithMark
  <2>6. CASE r = "duplicate" /\ ~Caught(r, m + 1)
    <3>1. ev.result \notin s /\ SeenAfter(r, m + 1, seen) = s \cup {ev.result}
      BY <2>6, MarkedOneMore
    <3>2. M(m + 1) = M(m)
      BY <2>4, <2>6
    <3>3. Held(M(m), s).seen = s
      BY DEF Held
    <3>4. EventBody(r, Held(M(m), s), ev)
            = [Held(M(m), s) EXCEPT !.seen = s \cup {ev.result}]
      BY <2>6, <3>1, <3>3 DEF EventBody
    <3>5. [Held(M(m), s) EXCEPT !.seen = s \cup {ev.result}]
            = Held(M(m), s \cup {ev.result})
      BY SeenChanges
    <3> HIDE DEF M, s, ev
    <3> QED
      BY <2>2, <3>1, <3>2, <3>4, <3>5
  <2>7. CASE r = "duplicate" /\ Caught(r, m + 1)
    <3>1. ev.result \in s /\ SeenAfter(r, m + 1, seen) = s
      <4>1. ev.result \in s /\ SeenAfter(r, m + 1, seen) = s \cup {ev.result}
        BY <2>7, MarkedOneMore
      <4> HIDE DEF s, ev
      <4>2. s \cup {ev.result} = s
        BY <4>1
      <4> QED
        BY <4>1, <4>2
    <3>2. Held(M(m), s).seen = s
      BY DEF Held
    <3>3. EventBody(r, Held(M(m), s), ev) = MaskTurn(Held(M(m), s), ev.turn, r)
      <4> HIDE DEF M, s, ev
      <4> QED
        BY <2>7, <3>1, <3>2 DEF EventBody
    <3> HIDE DEF M, s, ev
    <3> QED
      BY <2>2, <2>4, <2>5, <2>7, <3>1, <3>3
  <2>8. CASE r = "error"
    <3>1. SeenAfter(r, m + 1, seen) = s /\ (Caught(r, m + 1) <=> ev.result \in ErrorResults)
      BY <2>8 DEF SeenAfter, Caught
    <3>2. EventBody(r, Held(M(m), s), ev)
            = IF ev.result \in ErrorResults
              THEN MaskTurn(Held(M(m), s), ev.turn, r) ELSE Held(M(m), s)
      BY <2>8 DEF EventBody
    <3> HIDE DEF M, s, ev
    <3> QED
      BY <2>2, <2>4, <2>5, <3>1, <3>2
  <2> QED
    BY <2>6, <2>7, <2>8
<1>3. n \in T
  <2> HIDE DEF T
  <2> QED
    BY <1>1, <1>2, NatSetInduction
<1>4. h[n] = e
  BY DEF GoesThrough
<1> QED
  BY <1>3, <1>4

\* Bad turns of a posthoc reason have tokens.
LEMMA BadTurnsHaveTokens ==
    ASSUME NEW r \in PosthocReasons
    PROVE  BadTurns(r) \subseteq SpanTurns
<1>1. /\ BudgetTurns \subseteq SpanTurns
      /\ DuplicateTurns \subseteq SpanTurns
      /\ ErrorTurns \subseteq SpanTurns
  BY DEF BudgetTurns, DuplicateTurns, ErrorTurns
<1> QED
  BY <1>1 DEF BadTurns, PosthocReasons

\* The budget loop.
LEMMA BudgetHeld ==
    ASSUME TypeOK, TurnsSeparated, BadTurnsRecorded, output = None
    PROVE  BudgetLoop([active |-> active, spans |-> bad_spans, masked |-> {},
                       seen |-> {}, count |-> 0])
             = Held(MarksOf({"budget"}), {})
<1> DEFINE d == [active |-> active, spans |-> bad_spans, masked |-> {},
                 seen |-> {}, count |-> 0]
<1>1. d = Held({}, {})
  <2>1. ClearedBy({}) = {} /\ MaskedBy({}) = {} /\ SpansOf({}) = {}
    BY DEF ClearedBy, MaskedBy, SpansOf
  <2>2. active \ SpansOf({}) = active /\ active \cap SpansOf({}) = {}
    BY <2>1
  <2>3. Cardinality({}) = 0
    BY FS_EmptySet
  <2>4. bad_spans \cup {SpanOf(m[1], m[2]) : m \in {}} = bad_spans
    OBVIOUS
  <2> QED
    BY <2>1, <2>2, <2>3, <2>4 DEF Held
<1>2. "budget" \in PosthocReasons /\ BadTurns("budget") = BudgetTurns
  BY DEF PosthocReasons, BadTurns
<1>3. MarksAt({}, "budget")
  BY DEF MarksAt, Earlier
<1>4. CASE termination_reason \in BudgetReasons /\ turns # <<>>
  <2>1. BudgetLoop(d) = MaskTurn(Held({}, {}), assistant_turns, "budget")
    BY <1>1, <1>4 DEF BudgetLoop
  <2>2. BudgetLoop(d) = Held(WithMark({}, "budget", assistant_turns), {})
    BY <1>2, <1>3, <2>1, MaskTurnAdds
  <2>3. BudgetTurns = {assistant_turns} \cap SpanTurns
    BY <1>4 DEF BudgetTurns
  <2>4. WithMark({}, "budget", assistant_turns) = MarksOf({"budget"})
    BY <1>2, <2>3 DEF WithMark, MarksOf
  <2> QED
    BY <2>2, <2>4
<1>5. CASE ~(termination_reason \in BudgetReasons /\ turns # <<>>)
  <2>1. BudgetTurns = {}
    <3>1. turns = <<>> => SpanTurns = {}
      BY DEF SpanTurns, assistant_turns
    <3> QED
      BY <1>5, <3>1 DEF BudgetTurns
  <2>2. MarksOf({"budget"}) = {}
    BY <1>2, <2>1 DEF MarksOf
  <2>3. BudgetLoop(d) = d
    BY <1>5 DEF BudgetLoop
  <2> QED
    BY <1>1, <2>2, <2>3
<1> QED
  BY <1>4, <1>5

\* The marks of one reason more.
LEMMA MarksOfMore ==
    ASSUME NEW R, NEW r \in PosthocReasons
    PROVE  MarksOf(R) \cup ({r} \X BadTurns(r)) = MarksOf(R \cup {r})
<1>1. BadTurns(r) \subseteq SpanTurns
  BY BadTurnsHaveTokens
<1> QED
  BY <1>1 DEF MarksOf

\* The three loops leave the marks of all three reasons.
LEMMA LoopsHeld ==
    ASSUME TypeOK, TurnsSeparated, BadTurnsRecorded, output = None
    PROVE  \E seen : PosthocLoops = Held(MarksOf(PosthocReasons), seen)
<1> DEFINE n == Len(tool_events)
           d == [active |-> active, spans |-> bad_spans, masked |-> {},
                 seen |-> {}, count |-> 0]
           seen == SeenAfter("duplicate", n, {})
<1>1. n \in Nat /\ DOMAIN tool_events = 1 .. n
  BY DEF TypeOK
<1>2. /\ Earlier("duplicate") = {"budget"} /\ Earlier("error") = {"budget", "duplicate"}
      /\ "duplicate" \in PosthocReasons /\ "error" \in PosthocReasons
      /\ PosthocReasons = {"budget", "duplicate"} \cup {"error"}
      /\ {"budget", "duplicate"} = {"budget"} \cup {"duplicate"}
  BY DEF Earlier, PosthocReasons
<1> HIDE DEF n
<1>3. DuplicateLoop(BudgetLoop(d)) = Held(MarksOf({"budget", "duplicate"}), seen)
  <2>1. BudgetLoop(d) = Held(MarksOf(Earlier("duplicate")), {})
    BY <1>2, BudgetHeld
  <2>2. PICK h : GoesThrough(h, n, "duplicate", BudgetLoop(d), DuplicateLoop(BudgetLoop(d)))
    BY <1>1, LoopsUnfold
  <2>3. DuplicateLoop(BudgetLoop(d))
          = Held(MarksOf(Earlier("duplicate"))
                    \cup ({"duplicate"} \X MarkedAfter("duplicate", n)), seen)
    <3> DEFINE b == BudgetLoop(d)
               e == DuplicateLoop(b)
               emp == {}
    <3>1. b = Held(MarksOf(Earlier("duplicate")), emp) /\ emp = {}
      BY <2>1
    <3>2. GoesThrough(h, n, "duplicate", Held(MarksOf(Earlier("duplicate")), emp), e)
      BY <2>2, <3>1
    <3> HIDE DEF b, e, emp
    <3>3. e = Held(MarksOf(Earlier("duplicate"))
                      \cup ({"duplicate"} \X MarkedAfter("duplicate", n)),
                   SeenAfter("duplicate", n, emp))
      BY <1>1, <3>1, <3>2, HeldAfter
    <3> QED
      BY <3>3 DEF b, e, emp
  <2>4. MarkedAfter("duplicate", n) = BadTurns("duplicate")
    BY MarkedInTheEnd DEF n
  <2>5. MarksOf({"budget"}) \cup ({"duplicate"} \X BadTurns("duplicate"))
          = MarksOf({"budget"} \cup {"duplicate"})
    BY <1>2, MarksOfMore
  <2> HIDE DEF d, seen
  <2> QED
    BY <1>2, <2>3, <2>4, <2>5, Zenon
<1> HIDE DEF d, seen
<1>4. ErrorLoop(DuplicateLoop(BudgetLoop(d))) = Held(MarksOf(PosthocReasons), seen)
  <2> DEFINE c == DuplicateLoop(BudgetLoop(d))
  <2>1. c = Held(MarksOf(Earlier("error")), seen)
    BY <1>2, <1>3
  <2>2. PICK h : GoesThrough(h, n, "error", c, ErrorLoop(c))
    BY <1>1, LoopsUnfold
  <2>3. ErrorLoop(c)
          = Held(MarksOf(Earlier("error")) \cup ({"error"} \X MarkedAfter("error", n)),
                 SeenAfter("error", n, seen))
    BY <1>1, <2>1, <2>2, HeldAfter
  <2>4. MarkedAfter("error", n) = BadTurns("error") /\ SeenAfter("error", n, seen) = seen
    BY MarkedInTheEnd DEF n, SeenAfter
  <2> QED
    BY <1>2, <2>3, <2>4, MarksOfMore
<1> QED
  BY <1>4 DEF PosthocLoops, d

\* In every run the loops of nanoclaw_apply_posthoc_turn_masks, event after
\* event, leave the mask, the recorded spans and the masked-token metric that
\* run then hands on (Finish).
THEOREM PosthocCorrect == LoopSpec => []PosthocLoopsAgree
<1>1. LoopInv /\ BadTurnsRecorded => PosthocLoopsAgree
  <2> SUFFICES ASSUME LoopInv, BadTurnsRecorded, output = None
               PROVE  /\ PosthocLoops.active = active \ ZeroedTokens
                      /\ PosthocLoops.spans = bad_spans \cup PosthocSpans
                      /\ PosthocLoops.count = Cardinality(ZeroedTokens)
    BY DEF PosthocLoopsAgree
  <2>1. PICK seen : PosthocLoops = Held(MarksOf(PosthocReasons), seen)
    BY LoopsHeld DEF LoopInv
  <2>2. \A r \in PosthocReasons : BadTurns(r) \subseteq SpanTurns
    BY BadTurnsHaveTokens
  <2>3. ClearedBy(MarksOf(PosthocReasons)) = ZeroedBy(PosthocReasons)
    BY <2>2 DEF ClearedBy, ZeroedBy, MarksOf
  <2>4. active \cap SpansOf(ZeroedBy(PosthocReasons)) = ZeroedTokens
    BY DEF SpansOf, ZeroedTokens
  <2>5. active \ SpansOf(ZeroedBy(PosthocReasons)) = active \ ZeroedTokens
    BY <2>4
  <2>6. {SpanOf(m[1], m[2]) : m \in MarksOf(PosthocReasons)} = PosthocSpans
    <3> DEFINE A == {SpanOf(m[1], m[2]) : m \in MarksOf(PosthocReasons)}
    <3>1. \A s : s \in PosthocSpans <=>
               \E r \in PosthocReasons : \E t \in BadTurns(r) : s = SpanOf(r, t)
      BY DEF SpanOf, PosthocSpans
    <3>2. ASSUME NEW s \in A PROVE s \in PosthocSpans
      <4>1. PICK m \in MarksOf(PosthocReasons) : s = SpanOf(m[1], m[2])
        OBVIOUS
      <4>2. m[1] \in PosthocReasons /\ m[2] \in BadTurns(m[1])
        BY DEF MarksOf
      <4> QED
        BY <3>1, <4>1, <4>2
    <3>3. ASSUME NEW s \in PosthocSpans PROVE s \in A
      <4>1. PICK r \in PosthocReasons : \E t \in BadTurns(r) : s = SpanOf(r, t)
        BY <3>1
      <4>2. PICK t \in BadTurns(r) : s = SpanOf(r, t)
        BY <4>1
      <4>3. <<r, t>> \in MarksOf(PosthocReasons)
        BY <2>2 DEF MarksOf
      <4> QED
        BY <4>2, <4>3
    <3> HIDE DEF A
    <3>4. A = PosthocSpans
      BY <3>2, <3>3
    <3> QED
      BY <3>4 DEF A
  <2> QED
    BY <2>1, <2>3, <2>4, <2>5, <2>6 DEF Held
<1> QED
  BY <1>1, LoopInvariant, RecordsCorrect, PTL
================================================================================

----------------------------- MODULE AdvantageMask -----------------------------
(***************************************************************************)
(* Advantage-Aware Masking end to end: one rollout of AgentLoop followed   *)
(* by the trainer's apply_nanoclaw_positive_advantage_bad_turn_mask on its *)
(* row of the batch.  The rollout decides which turns are bad before any   *)
(* reward exists; the trainer reads the recorded spans after the           *)
(* advantages are computed and clears positive-advantage tokens in them.   *)
(***************************************************************************)
EXTENDS AgentLoop, FiniteSetsExt

VARIABLES
    positive,     \* response positions with advantage > 0
    trained       \* None, or what the trainer step produced for the row

aamVars == <<loopVars, positive, trained>>

--------------------------------------------------------------------------------

\* The key under which the trainer merges spans: (start, end) clipped to the
\* width of the response tensor.  One turn recorded for several reasons is one
\* candidate.
Key(span) == <<span.start, CutToBudget(span.end)>>
Keys == {Key(s) : s \in {s \in bad_spans : CutToBudget(s.end) > s.start}}
Merged(k) == {s \in bad_spans : Key(s) = k}
Tokens(k) == k[1] .. (k[2] - 1)

MergedEnabledByAll(k) == \A s \in Merged(k) : s.mask_enabled

MergedEnabled(k) == \E s \in Merged(k) : s.mask_enabled

CandidateTokensStillActive(k) == Cardinality(active \cap Tokens(k))

\* max(active_tokens, recorded_tokens): the rollout may have zeroed the span.
CandidateTokens(k) ==
    Max({s.token_count : s \in Merged(k)}
        \cup {Cardinality(active \cap Tokens(k))})

\* Spans with a positive candidate count; the others are skipped.
Candidates ==
    {k \in Keys : \/ active \cap Tokens(k) # {}
                  \/ \E s \in Merged(k) : s.token_count > 0}

ClearedInAnyMode(pos) ==
    {p \in UNION {Tokens(k) : k \in Keys} :
        \E k \in Candidates : MergedEnabled(k) /\ p \in Tokens(k)}

\* Tokens whose mask the trainer clears in the row.
Cleared(pos) ==
    IF env["only_positive"]
    THEN {p \in active \cap pos :
            \E k \in Candidates : MergedEnabled(k) /\ p \in Tokens(k)}
    ELSE {}

AAMInit == Init /\ positive = {} /\ trained = None

\* The trainer step.  Advantages are zero wherever the mask is.
ApplyMask(pos) ==
    /\ output # None
    /\ trained = None
    /\ positive' = pos
    /\ trained' = [mask             |-> active \ Cleared(pos),
                   candidate_turns  |-> Cardinality(Candidates),
                   candidate_tokens |->
                        MapThenSumSet(CandidateTokens, Candidates),
                   masked_tokens    |-> Cardinality(Cleared(pos))]
    /\ UNCHANGED loopVars

Rollout == LoopNext /\ UNCHANGED <<positive, trained>>
Train == \E pos \in SUBSET active : ApplyMask(pos)

AAMNext == Rollout \/ Train
AAMSpec == AAMInit /\ [][AAMNext]_aamVars /\ WF_aamVars(AAMNext)

--------------------------------------------------------------------------------
(* Properties. *)

\* Turns the trajectory itself shows to be bad, whatever the switches say.
AllBadTurns == UNION {BadTurns(r) : r \in Reasons}
EnabledBadTurns == UNION {BadTurns(r) : r \in {r \in Reasons : env[r]}}

\* The mask the actor loss uses is exactly the masking rule of the recipe: a
\* model token is dropped iff it lies in a turn that is bad for some enabled
\* reason and, in positive-advantage mode, its advantage is positive.  In
\* particular negative-advantage tokens of bad turns stay, and no token of a
\* good turn is lost through the span records, their merging or clipping.
TrainedMaskExact ==
    trained # None =>
        trained.mask =
            {p \in AssistantTokens :
                ~ \E t \in EnabledBadTurns :
                    p \in Span(t) /\ (env["only_positive"] => p \in positive)}

\* "Rollout-side detection always records candidate spans, independently of
\* whether masking is enabled": the candidate metrics are a function of the
\* trajectory alone, equal for every setting of the switches.
CandidatesIndependentOfSwitches ==
    trained # None =>
        /\ trained.candidate_turns = Cardinality(AllBadTurns)
        /\ trained.candidate_tokens =
                Cardinality(UNION {Span(t) : t \in AllBadTurns})

\* Every model token is trained on, was zeroed by the rollout's masking, or
\* was cleared by the trainer's, and the metrics count it exactly once.
TokensConserved ==
    trained # None =>
        Cardinality(trained.mask) + trained.masked_tokens + masked_tokens
            = assistant_response_tokens
================================================================================

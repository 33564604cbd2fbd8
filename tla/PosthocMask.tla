------------------------------ MODULE PosthocMask ------------------------------
(***************************************************************************)
(* nanoclaw_apply_posthoc_turn_masks as the code runs it: three loops over *)
(* trajectory_events that thread the mask, the recorded spans, the set     *)
(* masked_turns and the metrics through nanoclaw_mask_assistant_turn.      *)
(* AgentLoop states the outcome of the loops with sets; PosthocLoopsAgree  *)
(* says that the two agree in every state in which run applies them.       *)
(***************************************************************************)
EXTENDS AgentLoop, SequencesExt

\* nanoclaw_record_bad_turn_span on an accumulator d.
Record(d, t, reason) ==
    LET old == {s \in d.spans : s.turn = t /\ s.reason = reason}
    IN  IF old # {}
        THEN [d EXCEPT !.spans = (@ \ old) \cup
                {[s EXCEPT !.mask_enabled = @ \/ env[reason]] : s \in old}]
        ELSE [d EXCEPT !.spans = @ \cup
                {BadSpan(t, reason, turns[t].start, turns[t].end,
                         Cardinality(d.active \cap Span(t)))}]

Zero(d, t) == [d EXCEPT !.active = @ \ Span(t), !.masked = @ \cup {t},
                        !.count = @ + Cardinality(d.active \cap Span(t))]

MaskTurnRecordLast(d, t, reason) ==
    IF t \notin SpanTurns THEN d
    ELSE IF ~env[reason] \/ t \in d.masked \/ env["only_positive"]
    THEN Record(d, t, reason) ELSE Record(Zero(d, t), t, reason)

\* nanoclaw_mask_assistant_turn: record, then zero unless the switch is off,
\* the turn is already masked or the mask waits for the advantage.
MaskTurn(d, t, reason) ==
    IF t \notin SpanTurns THEN d
    ELSE LET rec == Record(d, t, reason)
         IN  IF ~env[reason] \/ t \in d.masked THEN rec
             ELSE IF env["only_positive"]
             THEN [rec EXCEPT !.masked = @ \cup {t}]
             ELSE Zero(rec, t)

BudgetLoop(d) ==
    IF termination_reason \in BudgetReasons /\ turns # <<>>
    THEN MaskTurn(d, assistant_turns, "budget") ELSE d

DuplicateLoop(d) ==
    FoldLeft(LAMBDA acc, e :
                IF e.result \notin acc.seen
                THEN [acc EXCEPT !.seen = @ \cup {e.result}]
                ELSE MaskTurn(acc, e.turn, "duplicate"), d, tool_events)

ErrorLoop(d) ==
    FoldLeft(LAMBDA acc, e :
                IF e.result \in ErrorResults
                THEN MaskTurn(acc, e.turn, "error") ELSE acc, d, tool_events)

PosthocLoops ==
    ErrorLoop(DuplicateLoop(BudgetLoop(
        [active |-> active, spans |-> bad_spans, masked |-> {},
         seen |-> {}, count |-> 0])))

\* Applying the loops one event after the other gives the mask, the recorded
\* spans with their token counts, and the masked-token metric that AgentLoop
\* states in closed form.
PosthocLoopsAgree ==
    Done /\ output = None =>
        /\ PosthocLoops.active = active \ ZeroedTokens
        /\ PosthocLoops.spans = bad_spans \cup PosthocSpans
        /\ PosthocLoops.count = Cardinality(ZeroedTokens)
================================================================================

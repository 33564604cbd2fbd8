----------------------------- MODULE StalenessBudget -----------------------------
(* What asynchronous training promises about stale samples, whoever generates and  *)
(* queues them: between two publications of the weights no more samples are        *)
(* admitted than a budget less those left from before; a version is trained on     *)
(* Step samples exactly; only a published version that the generators were told    *)
(* of is kept, and a restart goes on from the kept one.                            *)
EXTENDS Integers

CONSTANTS
    Budget,     \* samples open and used between two publications, at most
    Step        \* samples of one version

VARIABLES
    open,       \* samples admitted, neither used nor lost
    used,       \* samples used since the last renewal
    version,    \* the version of the weights
    phase,      \* "use", or "published" until the budget is renewed
    closed,     \* no sample is admitted any more
    kept        \* the version a restart begins with

vars == <<open, used, version, phase, closed, kept>>

Init ==
    open = 0 /\ used = 0 /\ version = 0 /\ phase = "use" /\ closed = FALSE /\ kept = 0

Admit ==
    /\ ~closed /\ open + used < Budget
    /\ open' = open + 1
    /\ UNCHANGED <<used, version, phase, closed, kept>>

(* A generation fails, or a full queue drops its oldest sample. *)
Lose ==
    /\ open > 0 /\ open' = open - 1
    /\ UNCHANGED <<used, version, phase, closed, kept>>

Use ==
    /\ phase = "use" /\ open > 0 /\ used < Step
    /\ open' = open - 1 /\ used' = used + 1
    /\ UNCHANGED <<version, phase, closed, kept>>

Publish ==
    /\ phase = "use" /\ used = Step
    /\ phase' = "published" /\ version' = version + 1
    /\ UNCHANGED <<open, used, closed, kept>>

Renew ==
    /\ phase = "published"
    /\ phase' = "use" /\ used' = 0
    /\ UNCHANGED <<open, version, closed, kept>>

Keep ==
    /\ phase = "use" /\ kept' = version
    /\ UNCHANGED <<open, used, version, phase, closed>>

(* The end of the samples, and of an incomplete step with them. *)
Close ==
    /\ ~closed /\ closed' = TRUE
    /\ open' \in {open, open - 1} /\ open' >= 0
    /\ UNCHANGED <<used, version, phase, kept>>

Discard ==
    /\ closed /\ phase = "use" /\ used' = 0
    /\ UNCHANGED <<open, version, phase, closed, kept>>

Restart ==
    /\ open' = 0 /\ used' = 0 /\ version' = kept /\ phase' = "use" /\ closed' = FALSE
    /\ UNCHANGED kept

Next ==
    \/ Admit \/ Lose \/ Use \/ Publish \/ Renew \/ Keep \/ Close \/ Discard \/ Restart

Spec == Init /\ [][Next]_vars
================================================================================

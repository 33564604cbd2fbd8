------------------------------ MODULE MCWorkspace ------------------------------
(* Instances of Workspace for TLC. *)
EXTENDS Workspace, TLC

(* The defaults of compute_score and of the data set, for an assignment of names. *)
Base(names) ==
    [name |-> names, strict |-> FALSE, cleanup |-> TRUE, keep_failed |-> FALSE,
     require_final |-> FALSE, score_uninitialized |-> TRUE, has_verifier |-> TRUE,
     writes_cwd |-> FALSE, only_positive |-> FALSE, mode |-> "ratio"]
Shared(name) == Base([r \in Rollouts |-> name])

(* The base with one name for all rollouts, several departures from it at a time,  *)
(* and all assignments of names for a task without a verifier.                     *)
Options ==
    UNION {{Shared(n),
            [Shared(n) EXCEPT !.writes_cwd = TRUE, !.mode = "binary",
                              !.require_final = TRUE, !.score_uninitialized = FALSE],
            [Shared(n) EXCEPT !.keep_failed = TRUE, !.only_positive = TRUE, !.mode = "raw",
                              !.strict = TRUE],
            [Shared(n) EXCEPT !.cleanup = FALSE]}
           : n \in Names}
    \cup {[Base(names) EXCEPT !.has_verifier = FALSE] : names \in [Rollouts -> Names]}
    \cup {[Base(names) EXCEPT !.has_verifier = FALSE, !.strict = TRUE] :
              names \in [Rollouts -> Names]}

Symmetry == Permutations(Rollouts) \cup Permutations(Names)
================================================================================

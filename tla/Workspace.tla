------------------------------- MODULE Workspace -------------------------------
(* The result directories of rollouts and the reward computed from them: the      *)
(* workspace tools make a rollout's directory at its first call, compute_score     *)
(* verifies it after the rollout, on a thread of a reward worker, and removes it.  *)
(*                                                                                 *)
(* A tool call runs to its end in its worker's event loop, but the workers, the    *)
(* reward threads and the subprocesses share one temp_root, so the check for a     *)
(* directory, its creation, its build and its verification are separate steps.     *)
(* Rollouts may have the same canonical name: the validation of a task in the step *)
(* that trains on it, a task twice in a batch, or a rollout repeated after a crash.*)
(*                                                                                 *)
(* Scores are integers in units of 1/MaxScore of the ratio.                        *)
EXTENDS Integers, FiniteSets

CONSTANTS
    Rollouts,           \* the rollouts of one task
    Names,              \* canonical directories step_S/TASK_sample_N
    Digits,             \* first hex digit of a reward request: "reward_" + digit
    Configs,            \* configurations explored, a set of configuration records
    MaxTurns,           \* bound on the assistant turns of a rollout
    MaxScore,           \* score of a passed verification
    Bonus,              \* final_answer_bonus_score
    FallbackScore,      \* setup_failure_score
    MissingScore,       \* missing_verifier_score
    TurnPenalty,        \* assistant_turn_penalty
    RepeatPenalty,      \* duplicate_tool_call_penalty, repeated_response_penalty
    MaxRepeats,         \* bound on the repetitions found in a conversation
    None

ASSUME RolloutAssumption ==
    /\ Rollouts # {} /\ IsFiniteSet(Rollouts) /\ None \notin Rollouts
    /\ Rollouts \cap Digits = {} /\ None \notin Digits
ASSUME ScoreAssumption ==
    /\ MaxTurns \in Nat /\ MaxScore \in Nat \ {0} /\ Bonus \in Nat
    /\ FallbackScore \in Int /\ MissingScore \in Int
    /\ TurnPenalty \in Nat /\ RepeatPenalty \in Nat /\ MaxRepeats \in Nat

Configurations ==
    [name : [Rollouts -> Names],        \* canonical name of each rollout
     strict : BOOLEAN,                  \* strict_result_dir
     cleanup : BOOLEAN,                 \* cleanup_workspaces
     keep_failed : BOOLEAN,             \* keep_failed_workspaces
     require_final : BOOLEAN,           \* require_final_answer
     score_uninitialized : BOOLEAN,     \* score_uninitialized_workspace
     has_verifier : BOOLEAN,            \* the task has a verifier_path
     writes_cwd : BOOLEAN,              \* its verifier writes to its own directory
     only_positive : BOOLEAN,           \* turn_penalty_only_positive_score
     mode : {"ratio", "binary", "raw"}] \* reward_score_mode
ASSUME ConfigAssumption == Configs \subseteq Configurations

(* A directory is a canonical name, plain or with the first characters of the id   *)
(* of the request that found it taken: a rollout's uuid, or "reward_" and a digit. *)
Dirs == Names \X ({None} \cup Rollouts \cup Digits)

(* A workplace_score.json: who left it, a tool call or a verifier, and its score,  *)
(* None when the file does not parse or holds none.                                *)
ScoreFiles ==
    [by : Rollouts, from : {"call", "verifier"}, value : (0..MaxScore) \cup {None}]
FilesOf(r, origin) == {file \in ScoreFiles : file.by = r /\ file.from = origin}

Verdicts == [ok : BOOLEAN, changes : Nat, wrote : ScoreFiles \cup {None}]
Endings == [reason : {"completed_no_tool_call", "limit"}, answer : BOOLEAN]
Results ==
    [status : {"missing_final_answer", "setup_failed", "no_workspace",
               "missing_verifier", "verified"},
     score : Int, charged : Nat, cleanup_error : BOOLEAN, used : ScoreFiles \cup {None}]
ASSUME NoneAssumption ==
    None \notin ScoreFiles /\ None \notin Verdicts /\ None \notin Results

VARIABLES
    conf,       \* the configuration
    pc,         \* where a rollout is
    source,     \* who prepares or prepared its workspace: "tool" or "reward"
    status,     \* status of the runtime state, "none" without one
    dir,        \* result_dir: chosen, then kept in the runtime state
    turns,      \* assistant turns
    edits,      \* tool calls dispatched into a workspace
    final,      \* how the rollout ended: [reason, answer], or None
    result,     \* what compute_score returned, or None
    owner,      \* who made a directory, None when it does not exist
    changes,    \* tool calls dispatched into a directory
    score,      \* workspace_after/workplace_score.json, or None
    cwd_score,  \* workplace_score.json beside the task's verifier, or None
    verified,   \* the verifier's run of a rollout: its exit, the calls it found in
                \* the directory and the score file it wrote, or None
    stranded    \* directories whose preparation failed outside its handler

rollout == <<source, status, dir, turns, edits, final>>
files == <<owner, changes, score>>
vars == <<conf, pc, rollout, result, files, cwd_score, verified, stranded>>

Init ==
    /\ conf \in Configs
    /\ pc = [r \in Rollouts |-> "run"]
    /\ source = [r \in Rollouts |-> "tool"]
    /\ status = [r \in Rollouts |-> "none"]
    /\ dir = [r \in Rollouts |-> None]
    /\ turns = [r \in Rollouts |-> 0]
    /\ edits = [r \in Rollouts |-> 0]
    /\ final = [r \in Rollouts |-> None]
    /\ result = [r \in Rollouts |-> None]
    /\ owner = [d \in Dirs |-> None]
    /\ changes = [d \in Dirs |-> 0]
    /\ score = [d \in Dirs |-> None]
    /\ cwd_score = None
    /\ verified = [r \in Rollouts |-> None]
    /\ stranded = {}

Goto(r, place) == pc' = [pc EXCEPT ![r] = place]
Exists(d) == owner[d] # None
Canonical(r) == <<conf.name[r], None>>

-------------------------------------------------------------------------------
(* prepare_workspace, called by the first tool call or by compute_score. An        *)
(* exception that is not a WorkspaceSetupError leaves no runtime state: a tool     *)
(* call answers with an error and a later one starts again, compute_score raises   *)
(* and its rollout has no reward.                                                  *)

(* make_result_dir looks for the canonical directory. *)
Choose(r, from, suffix) ==
    /\ source' = [source EXCEPT ![r] = from]
    /\ IF Exists(Canonical(r)) /\ conf.strict
       THEN /\ dir' = [dir EXCEPT ![r] = None]
            /\ Goto(r, IF from = "tool" THEN "run" ELSE "raised")
       ELSE /\ dir' = [dir EXCEPT ![r] =
                    IF Exists(Canonical(r)) THEN <<conf.name[r], suffix>> ELSE Canonical(r)]
            /\ Goto(r, "mkdir")

(* A creation that takes a directory that is already there. *)
MakeDirShared(r) ==
    /\ pc[r] = "mkdir"
    /\ Goto(r, "build")
    /\ owner' = [owner EXCEPT ![dir[r]] = r]
    /\ UNCHANGED <<conf, rollout, result, changes, score, cwd_score,
                   verified, stranded>>

(* mkdir(exist_ok=False): the directory may have appeared since, or be left from   *)
(* an earlier attempt of the same request.                                         *)
MakeDir(r) ==
    /\ pc[r] = "mkdir"
    /\ IF Exists(dir[r])
       THEN /\ Goto(r, IF source[r] = "tool" THEN "run" ELSE "raised")
            /\ dir' = [dir EXCEPT ![r] = None]
            /\ UNCHANGED owner
       ELSE /\ Goto(r, "build")
            /\ owner' = [owner EXCEPT ![dir[r]] = r]
            /\ UNCHANGED dir
    /\ UNCHANGED <<conf, source, status, turns, edits, final, result,
                   changes, score, cwd_score, verified, stranded>>

(* A call dispatched into a directory may leave any file in it, a score file too,  *)
(* or remove one.                                                                  *)
Called(r, d) ==
    /\ edits' = [edits EXCEPT ![r] = @ + 1]
    /\ changes' = [changes EXCEPT ![d] = @ + 1]
    /\ \E file \in FilesOf(r, "call") \cup {score[d], None} :
          score' = [score EXCEPT ![d] = file]

(* The task bundle is copied and env_builder.py run: the workspace is ready. The   *)
(* tool call that asked for it is then dispatched into it.                         *)
BuildOk(r) ==
    /\ pc[r] = "build"
    /\ status' = [status EXCEPT ![r] = "ready"]
    /\ IF source[r] = "tool"
       THEN /\ Goto(r, "run")
            /\ Called(r, dir[r])
       ELSE Goto(r, "verify") /\ UNCHANGED <<edits, changes, score>>
    /\ UNCHANGED <<conf, source, dir, turns, final, result, owner, cwd_score,
                   verified, stranded>>

(* A failure that compute_score does not take for one of the setup. *)
BuildFailsRaises(r) ==
    /\ pc[r] = "build"
    /\ status' = [status EXCEPT ![r] = "setup_failed"]
    /\ Goto(r, IF source[r] = "tool" THEN "run" ELSE "raised")
    /\ UNCHANGED <<conf, source, dir, turns, edits, final, result,
                   files, cwd_score, verified, stranded>>

(* It fails or times out: WorkspaceSetupError carries the state to the caller. *)
BuildFails(r) ==
    /\ pc[r] = "build"
    /\ status' = [status EXCEPT ![r] = "setup_failed"]
    /\ Goto(r, IF source[r] = "tool" THEN "run" ELSE "unprepared")
    /\ UNCHANGED <<conf, source, dir, turns, edits, final, result,
                   files, cwd_score, verified, stranded>>

(* A file operation outside the try block, or the metadata write of its handler,   *)
(* fails: the directory stays and nothing refers to it.                            *)
BuildBreaks(r) ==
    /\ pc[r] = "build"
    /\ stranded' = stranded \cup {dir[r]}
    /\ dir' = [dir EXCEPT ![r] = None]
    /\ Goto(r, IF source[r] = "tool" THEN "run" ELSE "raised")
    /\ UNCHANGED <<conf, source, status, turns, edits, final, result,
                   files, cwd_score, verified>>

-------------------------------------------------------------------------------
(* The rollout. *)

(* An assistant turn with a tool call. *)
ToolTurn(r) ==
    /\ pc[r] = "run" /\ turns[r] + 1 < MaxTurns
    /\ turns' = [turns EXCEPT ![r] = @ + 1]

(* The first call of a workspace tool makes the workspace. *)
FirstCall(r) ==
    /\ ToolTurn(r) /\ status[r] = "none"
    /\ Choose(r, "tool", r)
    /\ UNCHANGED <<conf, status, edits, final, result, files, cwd_score,
                   verified, stranded>>

(* Calls that work in the directory of the canonical name. *)
WorkspaceCallCanonical(r) ==
    /\ ToolTurn(r) /\ status[r] = "ready"
    /\ Called(r, Canonical(r))
    /\ UNCHANGED <<conf, pc, source, status, dir, final, result, owner, cwd_score,
                   verified, stranded>>

(* Later ones work in it. *)
WorkspaceCall(r) ==
    /\ ToolTurn(r) /\ status[r] = "ready"
    /\ Called(r, dir[r])
    /\ UNCHANGED <<conf, pc, source, status, dir, final, result, owner, cwd_score,
                   verified, stranded>>

(* A call answered with an error: the workspace is not ready, the tool is unknown  *)
(* or its arguments do not parse.                                                  *)
ErrorCall(r) ==
    /\ ToolTurn(r)
    /\ UNCHANGED <<conf, pc, source, status, dir, edits, final, result, files,
                   cwd_score, verified, stranded>>

(* The rollout ends with an answer or at a limit. Its conversation is written into *)
(* the result directory it has, if that works.                                     *)
Finish(r) ==
    /\ pc[r] = "run"
    /\ \/ /\ turns[r] < MaxTurns
          /\ turns' = [turns EXCEPT ![r] = @ + 1]
          /\ \E answer \in BOOLEAN :
                final' = [final EXCEPT ![r] =
                    [reason |-> "completed_no_tool_call", answer |-> answer]]
       \/ /\ final' = [final EXCEPT ![r] = [reason |-> "limit", answer |-> FALSE]]
          /\ UNCHANGED turns
    /\ Goto(r, "score")
    /\ UNCHANGED <<conf, source, status, dir, edits, result, files, cwd_score,
                   verified, stranded>>

(* The worker dies: nothing is scored, and only the files of the rollout remain. *)
Die(r) ==
    /\ pc[r] \notin {"done", "raised", "dead"}
    /\ Goto(r, "dead")
    /\ source' = [source EXCEPT ![r] = "tool"]
    /\ status' = [status EXCEPT ![r] = "none"]
    /\ dir' = [dir EXCEPT ![r] = None]
    /\ turns' = [turns EXCEPT ![r] = 0]
    /\ edits' = [edits EXCEPT ![r] = 0]
    /\ final' = [final EXCEPT ![r] = None]
    /\ verified' = [verified EXCEPT ![r] = None]
    /\ UNCHANGED <<conf, result, files, cwd_score, stranded>>

-------------------------------------------------------------------------------
(* compute_score. *)

HasFinalAnswer(r) == final[r].reason = "completed_no_tool_call" /\ final[r].answer
AwardedBonus(r) == IF HasFinalAnswer(r) THEN Bonus ELSE 0

(* Turns and conversation come from the runtime state: one made for the reward     *)
(* knows of no turns, and its directory holds no conversation. How often calls and *)
(* texts were repeated in a conversation is left open; it may not have been written*)
(* or may not parse.                                                               *)
KnownTurns(r) == IF source[r] = "reward" THEN 0 ELSE turns[r]
KnownRepeats(r) ==
    IF status[r] = "none" \/ source[r] = "reward" THEN {0} ELSE 0..MaxRepeats
ChargedTurns(r, base) ==
    IF conf.only_positive /\ base <= 0 THEN 0 ELSE TurnPenalty * KnownTurns(r)
BehaviorPenalties(r, base) ==
    {ChargedTurns(r, base) + RepeatPenalty * n : n \in KnownRepeats(r)}

(* cleanup_workspace removes the tree, or reports that it could not. *)
Cleanup(r, wanted, error) ==
    IF wanted /\ status[r] # "none" /\ ~error
    THEN /\ owner' = [owner EXCEPT ![dir[r]] = None]
         /\ changes' = [changes EXCEPT ![dir[r]] = 0]
         /\ score' = [score EXCEPT ![dir[r]] = None]
    ELSE UNCHANGED files

(* Every return of compute_score: clean up and report the score and the turns it   *)
(* was charged for.                                                                *)
Return(r, outcome, value, charged, wanted, used) ==
    /\ \E error \in BOOLEAN :
          /\ error => wanted /\ status[r] # "none"
          /\ Cleanup(r, wanted, error)
          /\ result' = [result EXCEPT ![r] =
                [status |-> outcome, score |-> value, charged |-> charged,
                 cleanup_error |-> error, used |-> used]]
    /\ Goto(r, "done")
    /\ UNCHANGED <<conf, rollout, cwd_score, verified, stranded>>

MissingFinal(r) == conf.require_final /\ final[r].reason # "completed_no_tool_call"

ScoreMissingFinal(r) ==
    /\ pc[r] = "score" /\ MissingFinal(r)
    /\ \E penalties \in BehaviorPenalties(r, 0) :
          Return(r, "missing_final_answer", 0 - penalties, KnownTurns(r), conf.cleanup, None)

(* A failed setup scored without removing its directory. *)
ScoreSetupFailedKeeps(r) ==
    /\ pc[r] = "score" /\ ~MissingFinal(r) /\ status[r] = "setup_failed"
    /\ Return(r, "setup_failed", FallbackScore + AwardedBonus(r), 0, FALSE, None)

ScoreSetupFailed(r) ==
    /\ pc[r] = "score" /\ ~MissingFinal(r) /\ status[r] = "setup_failed"
    /\ Return(r, "setup_failed", FallbackScore + AwardedBonus(r), 0, conf.cleanup, None)

ScoreNoWorkspace(r) ==
    /\ pc[r] = "score" /\ ~MissingFinal(r) /\ status[r] = "none"
    /\ ~conf.score_uninitialized
    /\ Return(r, "no_workspace", FallbackScore + AwardedBonus(r), 0, FALSE, None)

(* A rollout without a workspace is scored on a fresh one. *)
PrepareForReward(r) ==
    /\ pc[r] = "score" /\ ~MissingFinal(r) /\ status[r] = "none"
    /\ conf.score_uninitialized
    /\ \E digit \in Digits : Choose(r, "reward", digit)
    /\ UNCHANGED <<conf, status, turns, edits, final, result, files,
                   cwd_score, verified, stranded>>

(* Its preparation failed: the directory is removed whatever the configuration. *)
ScoreUnprepared(r) ==
    /\ pc[r] = "unprepared"
    /\ Return(r, "setup_failed", FallbackScore + AwardedBonus(r), 0, TRUE, None)

Verifiable(r) ==
    \/ pc[r] = "verify"
    \/ pc[r] = "score" /\ ~MissingFinal(r) /\ status[r] = "ready"

ScoreMissingVerifier(r) ==
    /\ Verifiable(r) /\ ~conf.has_verifier
    /\ Return(r, "missing_verifier", MissingScore + AwardedBonus(r), 0, conf.cleanup, None)

(* The file a verifier's run leaves, if it leaves one: in the workspace, or in the *)
(* verifier's own directory, which all rollouts of the task share. A file that was *)
(* there before is only overwritten.                                               *)
Leaves(r, file) ==
    /\ cwd_score' = IF file # None /\ conf.writes_cwd THEN file ELSE cwd_score
    /\ score' = IF file # None /\ ~conf.writes_cwd
                THEN [score EXCEPT ![dir[r]] = file] ELSE score
Written(r) == FilesOf(r, "verifier") \cup {None}

(* run_verifier: the subprocess exits, fails or is killed by its timeout. *)
RunVerifier(r) ==
    /\ Verifiable(r) /\ conf.has_verifier
    /\ \E file \in Written(r), ok \in BOOLEAN :
          /\ Leaves(r, file)
          /\ verified' = [verified EXCEPT ![r] =
                 [ok |-> ok, changes |-> changes[dir[r]], wrote |-> file]]
    /\ Goto(r, "read")
    /\ UNCHANGED <<conf, rollout, result, owner, changes, stranded>>

(* The verifier is not where it should be, or its output or the score file cannot  *)
(* be decoded: the exception leaves compute_score, and the directory stays.        *)
VerifierRaises(r) ==
    /\ Verifiable(r) /\ conf.has_verifier
    /\ \E file \in Written(r) : Leaves(r, file)
    /\ Goto(r, "raised")
    /\ UNCHANGED <<conf, rollout, result, owner, changes, verified, stranded>>

(* The score file looked up under the canonical name. *)
ScoreFileCanonical(r) ==
    IF score[Canonical(r)] # None THEN score[Canonical(r)] ELSE cwd_score

(* The score file that is read, whatever the verifier's exit: the workspace's, be  *)
(* it the verifier's or a call's and even if it does not parse, before the one     *)
(* beside the verifier.                                                            *)
ScoreFile(r) == IF score[dir[r]] # None THEN score[dir[r]] ELSE cwd_score

Legible(file) == file # None /\ file.value # None
Passed(file) == Legible(file) /\ file.value = MaxScore

(* The raw score is that of the file, not divided by its maximum. *)
ChooseRewardScore(r, file) ==
    IF Legible(file)
    THEN CASE conf.mode = "ratio"  -> file.value
           [] conf.mode = "raw"    -> file.value * MaxScore
           [] conf.mode = "binary" -> IF Passed(file) THEN MaxScore ELSE 0
    ELSE IF conf.mode = "binary" /\ verified[r].ok THEN MaxScore ELSE FallbackScore

ScoreVerified(r) ==
    /\ pc[r] = "read"
    /\ LET file == ScoreFile(r)
           base == ChooseRewardScore(r, file) + AwardedBonus(r)
       IN  \E penalties \in BehaviorPenalties(r, base) :
              Return(r, "verified", base - penalties, KnownTurns(r),
                     conf.cleanup /\ ~(conf.keep_failed /\ ~Passed(file)), file)

-------------------------------------------------------------------------------
Ended(r) == pc[r] \in {"done", "raised", "dead"}

RolloutStep(r) ==
    \/ FirstCall(r) \/ WorkspaceCall(r) \/ ErrorCall(r) \/ Finish(r)
ServiceStep(r) ==
    \/ MakeDir(r) \/ BuildOk(r) \/ BuildFails(r) \/ BuildBreaks(r)
    \/ ScoreMissingFinal(r) \/ ScoreSetupFailed(r) \/ ScoreNoWorkspace(r)
    \/ PrepareForReward(r) \/ ScoreUnprepared(r)
    \/ ScoreMissingVerifier(r) \/ RunVerifier(r) \/ VerifierRaises(r) \/ ScoreVerified(r)
AllEnded == (\A r \in Rollouts : Ended(r)) /\ UNCHANGED vars

Next ==
    \/ \E r \in Rollouts : RolloutStep(r) \/ ServiceStep(r) \/ Die(r)
    \/ AllEnded

Spec == Init /\ [][Next]_vars
-------------------------------------------------------------------------------
(* Where the rollouts are and what they hold. *)
Places == {"run", "mkdir", "build", "score", "unprepared", "verify", "read",
           "done", "raised", "dead"}
TypeOK ==
    /\ conf \in Configs
    /\ pc \in [Rollouts -> Places]
    /\ source \in [Rollouts -> {"tool", "reward"}]
    /\ status \in [Rollouts -> {"none", "ready", "setup_failed"}]
    /\ dir \in [Rollouts -> Dirs \cup {None}]
    /\ turns \in [Rollouts -> 0..MaxTurns]
    /\ edits \in [Rollouts -> Nat]
    /\ final \in [Rollouts -> Endings \cup {None}]
    /\ result \in [Rollouts -> Results \cup {None}]
    /\ owner \in [Dirs -> Rollouts \cup {None}]
    /\ changes \in [Dirs -> Nat]
    /\ score \in [Dirs -> ScoreFiles \cup {None}]
    /\ cwd_score \in ScoreFiles \cup {None}
    /\ verified \in [Rollouts -> Verdicts \cup {None}]
    /\ stranded \subseteq Dirs

Holding(r) == pc[r] = "build" \/ (status[r] # "none" /\ ~Ended(r))

(* The directory a rollout works in, or is being scored on, exists and was made by *)
(* that rollout, whoever else has its name: the README's reason for making         *)
(* workspaces at the first tool call.                                              *)
WorkspaceIsolated == \A r \in Rollouts : Holding(r) => owner[dir[r]] = r

(* The verifier judges all the work of its rollout and nothing else: the directory *)
(* it ran on had exactly the tool calls of that rollout, and the reward is charged *)
(* for the turn of each of them. Only a rollout that dispatched no call can have   *)
(* the state that counts its turns replaced by one made for the reward.            *)
WorkVerified ==
    \A r \in Rollouts : verified[r] # None =>
        /\ verified[r].changes = edits[r]
        /\ result[r] # None => result[r].charged >= verified[r].changes

(* Where the score file of a reward comes from. It was left by the same rollout,   *)
(* unless the task's verifier writes into its working directory, where the file    *)
(* may be that of another rollout's verifier. What the rollout's own verifier wrote*)
(* into the workspace is what is read, so that a file left there by a tool call    *)
(* only counts when the verifier wrote none; and a verdict written is never missed.*)
ScoreOrigin ==
    \A r \in Rollouts : result[r] # None /\ result[r].status = "verified" =>
        LET used == result[r].used
            wrote == verified[r].wrote
        IN  /\ used # None =>
                   used.by = r \/ (conf.writes_cwd /\ used.from = "verifier")
            /\ wrote # None => IF conf.writes_cwd THEN used # None ELSE used = wrote

(* Why a scored rollout's directory may still be there. *)
Kept(r) ==
    \/ ~conf.cleanup
    \/ result[r].cleanup_error
    \/ conf.keep_failed /\ result[r].status = "verified" /\ ~Passed(result[r].used)

(* Scoring deletes the rollout's whole directory on every path, unless the         *)
(* configuration keeps it, the deletion failed and said so, or a preparation       *)
(* failed outside its handler.                                                     *)
Reclaimed ==
    \A r \in Rollouts : \A d \in Dirs :
        pc[r] = "done" /\ owner[d] = r => d \in stranded \/ Kept(r)

(* What can cost a live rollout its reward: an exception in its verifier's run; or,*)
(* when it dispatched no call and a workspace is made for the reward, a preparation*)
(* for its name that failed outside its handler, or another rollout with its name. *)
(* A setup that fails, a limit or a missing verifier never does.                   *)
RewardsLost ==
    \A r \in Rollouts : pc[r] = "raised" =>
        \/ status[r] = "ready"
        \/ /\ edits[r] = 0
           /\ \/ \E d \in stranded : d[1] = conf.name[r]
              \/ \E q \in Rollouts \ {r} : conf.name[q] = conf.name[r]
================================================================================

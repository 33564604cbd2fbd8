---------------------------- MODULE WorkspaceProofs ----------------------------
(* Proofs about Workspace: for any rollouts, names, configurations and scores, a  *)
(* rollout's directory is its own, the verifier judges exactly its work, what it   *)
(* wrote is what is read, scoring removes what was made, and what costs a rollout  *)
(* its reward is known.                                                            *)
EXTENDS Workspace, TLAPS

(* What the place of a rollout says about its runtime state. *)
PlaceInv ==
    \A r \in Rollouts :
        /\ pc[r] \in {"mkdir", "build"} => status[r] = "none" /\ dir[r] \in Dirs
        /\ status[r] # "none" => dir[r] \in Dirs
        /\ pc[r] = "unprepared" => status[r] = "setup_failed"
        /\ pc[r] \in {"verify", "read"} => status[r] = "ready"
        /\ pc[r] = "read" => verified[r] # None
        /\ verified[r] # None => pc[r] \in {"read", "done"}
        /\ result[r] # None <=> pc[r] = "done"

(* A directory is held by its maker, or stranded, or left by a death or by an      *)
(* exception of the verifier, or kept.                                             *)
Accounted(r, d) ==
    \/ Holding(r) /\ dir[r] = d
    \/ d \in stranded
    \/ pc[r] = "dead"
    \/ pc[r] = "raised" /\ status[r] = "ready"
    \/ pc[r] = "done" /\ Kept(r)
HeldInv == \A r \in Rollouts : \A d \in Dirs : owner[d] = r => Accounted(r, d)

(* A missing directory is empty, a new one still is, and a ready one has exactly   *)
(* the calls of its rollout.                                                       *)
WorkInv ==
    /\ \A d \in Dirs : owner[d] = None => changes[d] = 0 /\ score[d] = None
    /\ \A r \in Rollouts :
          /\ pc[r] = "build" => changes[dir[r]] = 0
          /\ status[r] # "ready" => edits[r] = 0
          /\ status[r] = "ready" /\ ~Ended(r) => changes[dir[r]] = edits[r]

(* Every call dispatched was a turn, and a state made for the reward has none. *)
CountInv ==
    \A r \in Rollouts :
        /\ edits[r] <= turns[r]
        /\ pc[r] \in {"mkdir", "build"} /\ source[r] = "tool" => edits[r] < turns[r]
        /\ pc[r] = "run" => source[r] = "tool"
        /\ source[r] = "reward" => edits[r] = 0

(* The score file of a directory is its maker's, only verifiers that write into    *)
(* their own directory leave one there, and what a verifier wrote is still there   *)
(* when it is read.                                                                *)
ScoreInv ==
    /\ \A d \in Dirs : score[d] # None => score[d].by = owner[d]
    /\ cwd_score # None => conf.writes_cwd /\ cwd_score.from = "verifier"
    /\ \A r \in Rollouts : pc[r] = "read" /\ verified[r].wrote # None =>
          IF conf.writes_cwd THEN cwd_score # None ELSE score[dir[r]] = verified[r].wrote

(* A directory bears the name of its maker, and of the rollout about to make it. *)
NameInv ==
    /\ \A d \in Dirs : owner[d] # None => conf.name[owner[d]] = d[1]
    /\ \A r \in Rollouts : pc[r] \in {"mkdir", "build"} => dir[r][1] = conf.name[r]

IInv ==
    /\ TypeOK /\ PlaceInv
    /\ WorkspaceIsolated /\ HeldInv
    /\ WorkInv /\ CountInv /\ WorkVerified
    /\ ScoreInv /\ ScoreOrigin
    /\ NameInv /\ RewardsLost

-------------------------------------------------------------------------------
LEMMA ProductNat == \A a, b \in Nat : a * b \in Nat
BY SMT

(* The directories a request may choose. *)
LEMMA ChosenDirs ==
    ASSUME conf \in Configs, NEW r \in Rollouts, NEW x \in Rollouts \cup Digits
    PROVE  /\ Canonical(r) \in Dirs /\ <<conf.name[r], x>> \in Dirs
           /\ Canonical(r)[1] = conf.name[r] /\ <<conf.name[r], x>>[1] = conf.name[r]
<1>1. conf.name[r] \in Names
    BY ConfigAssumption DEF Configurations
<1> QED
    BY <1>1 DEF Canonical, Dirs

LEMMA InitInv == Init => IInv
<1> SUFFICES ASSUME Init PROVE IInv
    OBVIOUS
<1> USE RolloutAssumption, ScoreAssumption, ConfigAssumption
<1>1. TypeOK
    BY DEF Init, TypeOK, Places, Dirs
<1>2. PlaceInv
    BY DEF Init, PlaceInv
<1>3. WorkspaceIsolated
    BY DEF Init, WorkspaceIsolated, Holding
<1>4. HeldInv
    BY DEF Init, HeldInv
<1>5. WorkInv /\ WorkVerified
    BY DEF Init, WorkInv, WorkVerified
<1>6. ScoreInv /\ ScoreOrigin
    BY DEF Init, ScoreInv, ScoreOrigin
<1>7. CountInv /\ NameInv /\ RewardsLost
    BY DEF Init, CountInv, NameInv, RewardsLost
<1> QED
    BY <1>1, <1>2, <1>3, <1>4, <1>5, <1>6, <1>7 DEF IInv

(* A creation succeeds only where there is nothing. *)
LEMMA MakeDirInv ==
    ASSUME IInv, NEW r \in Rollouts, MakeDir(r)
    PROVE  IInv'
<1> USE RolloutAssumption, ScoreAssumption, ConfigAssumption
<1> USE DEF MakeDir, Goto, Exists, files
<1>1. TypeOK'
    BY DEF IInv, TypeOK, Places, PlaceInv
<1>2. PlaceInv'
    BY DEF IInv, TypeOK, PlaceInv
<1>3. WorkspaceIsolated'
    BY DEF IInv, TypeOK, PlaceInv, WorkspaceIsolated, Holding, Ended
<1>4. HeldInv'
    BY DEF IInv, TypeOK, PlaceInv, HeldInv, Accounted, Holding, Ended, Kept, WorkspaceIsolated
<1>5. WorkInv'
    BY DEF IInv, TypeOK, PlaceInv, WorkInv, WorkspaceIsolated, Holding, Ended
<1>6. WorkVerified'
    BY DEF IInv, TypeOK, PlaceInv, WorkVerified, WorkInv, Ended
<1>7. ScoreInv'
    BY DEF IInv, TypeOK, PlaceInv, ScoreInv, WorkInv, WorkspaceIsolated, Holding, Ended, ScoreFiles
<1>8. ScoreOrigin'
    BY DEF IInv, TypeOK, PlaceInv, ScoreOrigin
<1>9. CountInv'
    BY DEF IInv, TypeOK, PlaceInv, CountInv, WorkInv
<1>10. NameInv'
    BY DEF IInv, TypeOK, PlaceInv, NameInv
<1>11. RewardsLost'
  <2>1. edits[r] = 0 /\ ~Holding(r) /\ status[r] = "none" /\ pc[r] \notin {"done", "raised", "dead"}
      BY DEF IInv, PlaceInv, WorkInv, Holding, Ended
  <2>2. ASSUME Exists(dir[r])
        PROVE  \/ \E d \in stranded : d[1] = conf.name[r]
               \/ \E q \in Rollouts \ {r} : conf.name[q] = conf.name[r]
    <3>1. dir[r] \in Dirs /\ dir[r][1] = conf.name[r]
        BY DEF IInv, PlaceInv, NameInv
    <3>2. owner[dir[r]] \in Rollouts /\ conf.name[owner[dir[r]]] = conf.name[r]
        BY <2>2, <3>1 DEF IInv, TypeOK, NameInv
    <3>3. CASE owner[dir[r]] = r
        BY <2>1, <3>1, <3>3 DEF IInv, HeldInv, Accounted
    <3> QED
        BY <3>1, <3>2, <3>3
  <2>3. pc'[r] = "raised" => Exists(dir[r])
      BY <2>1 DEF IInv, TypeOK
  <2> QED
      BY <2>1, <2>2, <2>3 DEF IInv, TypeOK, RewardsLost
<1> QED
    BY <1>1, <1>2, <1>3, <1>4, <1>5, <1>6, <1>7, <1>8, <1>9, <1>10, <1>11 DEF IInv

(* A call leaves what files it likes in the directory it works in, and nowhere else. *)
LEMMA CalledFile ==
    ASSUME IInv, NEW r \in Rollouts, NEW d \in Dirs, owner[d] = r, Called(r, d)
    PROVE  /\ edits' = [edits EXCEPT ![r] = @ + 1]
           /\ changes' = [changes EXCEPT ![d] = @ + 1]
           /\ score' \in [Dirs -> ScoreFiles \cup {None}]
           /\ \A e \in Dirs : e # d => score'[e] = score[e]
           /\ score'[d] # None => score'[d].by = r
<1>1. PICK file \in FilesOf(r, "call") \cup {score[d], None} : score' = [score EXCEPT ![d] = file]
    BY DEF Called
<1>2. file \in ScoreFiles \cup {None} /\ (file # None => file.by = r)
    BY <1>1 DEF FilesOf, IInv, TypeOK, ScoreInv
<1> QED
    BY <1>1, <1>2 DEF Called, IInv, TypeOK

(* A built workspace is that of the rollout. *)
LEMMA BuildOkInv ==
    ASSUME IInv, NEW r \in Rollouts, BuildOk(r)
    PROVE  IInv'
<1> USE RolloutAssumption, ScoreAssumption, ConfigAssumption
<1> USE DEF BuildOk, Goto
<1>a. dir[r] \in Dirs /\ owner[dir[r]] = r
    BY DEF IInv, PlaceInv, WorkspaceIsolated, Holding
<1>b. source[r] = "tool" =>
        /\ edits' = [edits EXCEPT ![r] = @ + 1]
        /\ changes' = [changes EXCEPT ![dir[r]] = @ + 1]
        /\ score' \in [Dirs -> ScoreFiles \cup {None}]
        /\ \A e \in Dirs : e # dir[r] => score'[e] = score[e]
        /\ score'[dir[r]] # None => score'[dir[r]].by = r
    BY <1>a, CalledFile
<1>1. TypeOK'
    BY <1>a, <1>b DEF IInv, TypeOK, Places, PlaceInv
<1>2. PlaceInv'
    BY DEF IInv, TypeOK, PlaceInv
<1>3. WorkspaceIsolated'
    BY DEF IInv, TypeOK, PlaceInv, WorkspaceIsolated, Holding, Ended
<1>4. HeldInv'
    BY DEF IInv, TypeOK, PlaceInv, HeldInv, Accounted, Holding, Ended, Kept, WorkspaceIsolated
<1>5. WorkInv'
    BY <1>a, <1>b DEF IInv, TypeOK, PlaceInv, WorkInv, WorkspaceIsolated, Holding, Ended
<1>6. WorkVerified'
    BY <1>a, <1>b DEF IInv, TypeOK, PlaceInv, WorkVerified, WorkInv, Ended
<1>7. ScoreInv'
  <2>1. CASE source[r] = "tool"
    <3>1. /\ UNCHANGED <<conf, dir, owner, cwd_score, verified>>
          /\ \A q \in Rollouts : pc'[q] = "read" => pc[q] = "read" /\ q # r
        BY <2>1 DEF IInv, TypeOK
    <3>2. \A q \in Rollouts : pc[q] = "read" => dir[q] \in Dirs /\ dir[q] # dir[r]
        BY <1>a DEF IInv, PlaceInv, WorkspaceIsolated, Holding, Ended
    <3> QED
        BY <1>a, <1>b, <2>1, <3>1, <3>2 DEF IInv, ScoreInv
  <2>2. CASE source[r] # "tool"
      BY <2>2 DEF IInv, TypeOK, ScoreInv
  <2> QED
      BY <2>1, <2>2
<1>8. ScoreOrigin'
    BY DEF IInv, TypeOK, PlaceInv, ScoreOrigin
<1>9. CountInv'
    BY <1>a, <1>b DEF IInv, TypeOK, PlaceInv, CountInv, WorkInv
<1>10. NameInv'
    BY DEF IInv, TypeOK, PlaceInv, NameInv
<1>11. RewardsLost'
    BY <1>a, <1>b DEF IInv, TypeOK, PlaceInv, RewardsLost, WorkInv
<1> QED
    BY <1>1, <1>2, <1>3, <1>4, <1>5, <1>6, <1>7, <1>8, <1>9, <1>10, <1>11 DEF IInv

(* A failed build keeps the directory for the reward to remove. *)
LEMMA BuildFailsInv ==
    ASSUME IInv, NEW r \in Rollouts, BuildFails(r)
    PROVE  IInv'
<1> USE RolloutAssumption, ScoreAssumption, ConfigAssumption
<1> USE DEF BuildFails, Goto, files
<1>1. TypeOK'
    BY DEF IInv, TypeOK, Places, PlaceInv
<1>2. PlaceInv'
    BY DEF IInv, TypeOK, PlaceInv
<1>3. WorkspaceIsolated'
    BY DEF IInv, TypeOK, PlaceInv, WorkspaceIsolated, Holding, Ended
<1>4. HeldInv'
    BY DEF IInv, TypeOK, PlaceInv, HeldInv, Accounted, Holding, Ended, Kept, WorkspaceIsolated
<1>5. WorkInv'
    BY DEF IInv, TypeOK, PlaceInv, WorkInv, WorkspaceIsolated, Holding, Ended
<1>6. WorkVerified'
    BY DEF IInv, TypeOK, PlaceInv, WorkVerified, WorkInv, Ended
<1>7. ScoreInv'
    BY DEF IInv, TypeOK, PlaceInv, ScoreInv, WorkInv, WorkspaceIsolated, Holding, Ended, ScoreFiles
<1>8. ScoreOrigin'
    BY DEF IInv, TypeOK, PlaceInv, ScoreOrigin
<1>9. CountInv'
    BY DEF IInv, TypeOK, PlaceInv, CountInv, WorkInv
<1>10. NameInv'
    BY DEF IInv, TypeOK, PlaceInv, NameInv
<1>11. RewardsLost'
    BY DEF IInv, TypeOK, PlaceInv, RewardsLost, WorkInv
<1> QED
    BY <1>1, <1>2, <1>3, <1>4, <1>5, <1>6, <1>7, <1>8, <1>9, <1>10, <1>11 DEF IInv

(* A broken preparation strands its directory. *)
LEMMA BuildBreaksInv ==
    ASSUME IInv, NEW r \in Rollouts, BuildBreaks(r)
    PROVE  IInv'
<1> USE RolloutAssumption, ScoreAssumption, ConfigAssumption
<1> USE DEF BuildBreaks, Goto, files
<1>1. TypeOK'
    BY DEF IInv, TypeOK, Places, PlaceInv
<1>2. PlaceInv'
    BY DEF IInv, TypeOK, PlaceInv
<1>3. WorkspaceIsolated'
    BY DEF IInv, TypeOK, PlaceInv, WorkspaceIsolated, Holding, Ended
<1>4. HeldInv'
    BY DEF IInv, TypeOK, PlaceInv, HeldInv, Accounted, Holding, Ended, Kept, WorkspaceIsolated
<1>5. WorkInv'
    BY DEF IInv, TypeOK, PlaceInv, WorkInv, WorkspaceIsolated, Holding, Ended
<1>6. WorkVerified'
    BY DEF IInv, TypeOK, PlaceInv, WorkVerified, WorkInv, Ended
<1>7. ScoreInv'
    BY DEF IInv, TypeOK, PlaceInv, ScoreInv, WorkInv, WorkspaceIsolated, Holding, Ended, ScoreFiles
<1>8. ScoreOrigin'
    BY DEF IInv, TypeOK, PlaceInv, ScoreOrigin
<1>9. CountInv'
    BY DEF IInv, TypeOK, PlaceInv, CountInv, WorkInv
<1>10. NameInv'
    BY DEF IInv, TypeOK, PlaceInv, NameInv
<1>11. RewardsLost'
  <2>1. edits[r] = 0 /\ dir[r] \in stranded' /\ dir[r][1] = conf.name[r]
      BY DEF IInv, PlaceInv, WorkInv, NameInv
  <2>2. stranded \subseteq stranded'
      OBVIOUS
  <2> QED
      BY <2>1, <2>2 DEF IInv, TypeOK, RewardsLost
<1> QED
    BY <1>1, <1>2, <1>3, <1>4, <1>5, <1>6, <1>7, <1>8, <1>9, <1>10, <1>11 DEF IInv

(* Choosing a directory makes none. *)
LEMMA FirstCallInv ==
    ASSUME IInv, NEW r \in Rollouts, FirstCall(r)
    PROVE  IInv'
<1> USE RolloutAssumption, ScoreAssumption, ConfigAssumption
<1> USE DEF FirstCall, ToolTurn, Choose, Exists, Goto, files
<1>0. /\ Canonical(r) \in Dirs /\ <<conf.name[r], r>> \in Dirs
      /\ Canonical(r)[1] = conf.name[r] /\ <<conf.name[r], r>>[1] = conf.name[r]
    BY ChosenDirs DEF IInv, TypeOK
<1>1. TypeOK'
    BY <1>0 DEF IInv, TypeOK, Places, PlaceInv
<1>2. PlaceInv'
    BY <1>0 DEF IInv, TypeOK, PlaceInv
<1>3. WorkspaceIsolated'
    BY DEF IInv, TypeOK, PlaceInv, WorkspaceIsolated, Holding, Ended
<1>4. HeldInv'
    BY DEF IInv, TypeOK, PlaceInv, HeldInv, Accounted, Holding, Ended, Kept, WorkspaceIsolated
<1>5. WorkInv'
    BY DEF IInv, TypeOK, PlaceInv, WorkInv, WorkspaceIsolated, Holding, Ended
<1>6. WorkVerified'
    BY DEF IInv, TypeOK, PlaceInv, WorkVerified, WorkInv, Ended
<1>7. ScoreInv'
    BY DEF IInv, TypeOK, PlaceInv, ScoreInv, WorkInv, WorkspaceIsolated, Holding, Ended, ScoreFiles
<1>8. ScoreOrigin'
    BY DEF IInv, TypeOK, PlaceInv, ScoreOrigin
<1>9. CountInv'
    BY DEF IInv, TypeOK, PlaceInv, CountInv, WorkInv
<1>10. NameInv'
  <2>1. dir'[r] = None \/ dir'[r] = Canonical(r) \/ dir'[r] = <<conf.name[r], r>>
      BY DEF IInv, TypeOK
  <2>2. pc'[r] \in {"mkdir", "build"} => dir'[r][1] = conf.name[r]
    <3>1. CASE Exists(Canonical(r)) /\ conf.strict
        BY <3>1 DEF IInv, TypeOK
    <3>2. CASE ~(Exists(Canonical(r)) /\ conf.strict)
        BY <3>2, <1>0 DEF IInv, TypeOK
    <3> QED
        BY <3>1, <3>2
  <2> QED
      BY <2>2 DEF IInv, TypeOK, NameInv
<1>11. RewardsLost'
    BY DEF IInv, TypeOK, PlaceInv, RewardsLost, WorkInv
<1> QED
    BY <1>1, <1>2, <1>3, <1>4, <1>5, <1>6, <1>7, <1>8, <1>9, <1>10, <1>11 DEF IInv

(* A call works in the rollout's own directory. *)
LEMMA WorkspaceCallInv ==
    ASSUME IInv, NEW r \in Rollouts, WorkspaceCall(r)
    PROVE  IInv'
<1> USE RolloutAssumption, ScoreAssumption, ConfigAssumption
<1> USE DEF WorkspaceCall, ToolTurn
<1>a. dir[r] \in Dirs /\ owner[dir[r]] = r
    BY DEF IInv, PlaceInv, WorkspaceIsolated, Holding, Ended
<1>b. /\ edits' = [edits EXCEPT ![r] = @ + 1]
      /\ changes' = [changes EXCEPT ![dir[r]] = @ + 1]
      /\ score' \in [Dirs -> ScoreFiles \cup {None}]
      /\ \A e \in Dirs : e # dir[r] => score'[e] = score[e]
      /\ score'[dir[r]] # None => score'[dir[r]].by = r
    BY <1>a, CalledFile
<1>1. TypeOK'
    BY <1>a, <1>b DEF IInv, TypeOK, Places, PlaceInv
<1>2. PlaceInv'
    BY DEF IInv, TypeOK, PlaceInv
<1>3. WorkspaceIsolated'
    BY DEF IInv, TypeOK, PlaceInv, WorkspaceIsolated, Holding, Ended
<1>4. HeldInv'
    BY DEF IInv, TypeOK, PlaceInv, HeldInv, Accounted, Holding, Ended, Kept, WorkspaceIsolated
<1>5. WorkInv'
    BY <1>a, <1>b DEF IInv, TypeOK, PlaceInv, WorkInv, WorkspaceIsolated, Holding, Ended
<1>6. WorkVerified'
    BY <1>a, <1>b DEF IInv, TypeOK, PlaceInv, WorkVerified, WorkInv, Ended
<1>7. ScoreInv'
    BY <1>a, <1>b DEF IInv, TypeOK, PlaceInv, ScoreInv, WorkInv, WorkspaceIsolated, Holding, Ended, ScoreFiles
<1>8. ScoreOrigin'
    BY DEF IInv, TypeOK, PlaceInv, ScoreOrigin
<1>9. CountInv'
    BY <1>a, <1>b DEF IInv, TypeOK, PlaceInv, CountInv, WorkInv
<1>10. NameInv'
    BY DEF IInv, TypeOK, PlaceInv, NameInv
<1>11. RewardsLost'
    BY <1>a, <1>b DEF IInv, TypeOK, PlaceInv, RewardsLost, WorkInv
<1> QED
    BY <1>1, <1>2, <1>3, <1>4, <1>5, <1>6, <1>7, <1>8, <1>9, <1>10, <1>11 DEF IInv

(* A call answered with an error touches nothing. *)
LEMMA ErrorCallInv ==
    ASSUME IInv, NEW r \in Rollouts, ErrorCall(r)
    PROVE  IInv'
<1> USE RolloutAssumption, ScoreAssumption, ConfigAssumption
<1> USE DEF ErrorCall, ToolTurn, files
<1>1. TypeOK'
    BY DEF IInv, TypeOK, Places, PlaceInv
<1>2. PlaceInv'
    BY DEF IInv, TypeOK, PlaceInv
<1>3. WorkspaceIsolated'
    BY DEF IInv, TypeOK, PlaceInv, WorkspaceIsolated, Holding, Ended
<1>4. HeldInv'
    BY DEF IInv, TypeOK, PlaceInv, HeldInv, Accounted, Holding, Ended, Kept, WorkspaceIsolated
<1>5. WorkInv'
    BY DEF IInv, TypeOK, PlaceInv, WorkInv, WorkspaceIsolated, Holding, Ended
<1>6. WorkVerified'
    BY DEF IInv, TypeOK, PlaceInv, WorkVerified, WorkInv, Ended
<1>7. ScoreInv'
    BY DEF IInv, TypeOK, PlaceInv, ScoreInv, WorkInv, WorkspaceIsolated, Holding, Ended, ScoreFiles
<1>8. ScoreOrigin'
    BY DEF IInv, TypeOK, PlaceInv, ScoreOrigin
<1>9. CountInv'
    BY DEF IInv, TypeOK, PlaceInv, CountInv, WorkInv
<1>10. NameInv'
    BY DEF IInv, TypeOK, PlaceInv, NameInv
<1>11. RewardsLost'
    BY DEF IInv, TypeOK, PlaceInv, RewardsLost, WorkInv
<1> QED
    BY <1>1, <1>2, <1>3, <1>4, <1>5, <1>6, <1>7, <1>8, <1>9, <1>10, <1>11 DEF IInv

(* The end of a rollout only writes its conversation. *)
LEMMA FinishInv ==
    ASSUME IInv, NEW r \in Rollouts, Finish(r)
    PROVE  IInv'
<1> USE RolloutAssumption, ScoreAssumption, ConfigAssumption
<1> USE DEF Finish, Goto, files
<1>1. TypeOK'
  <2>1. final' \in [Rollouts -> Endings \cup {None}] /\ turns' \in [Rollouts -> 0..MaxTurns]
    <3>1. \A answer \in BOOLEAN :
              /\ [reason |-> "completed_no_tool_call", answer |-> answer] \in Endings
              /\ [reason |-> "limit", answer |-> FALSE] \in Endings
        BY DEF Endings
    <3>2. PICK ending \in Endings : final' = [final EXCEPT ![r] = ending]
        BY <3>1
    <3>3. turns' \in [Rollouts -> 0..MaxTurns]
        BY DEF IInv, TypeOK
    <3> QED
        BY <3>2, <3>3 DEF IInv, TypeOK
  <2> QED
      BY <2>1 DEF IInv, TypeOK, Places, files
<1>2. PlaceInv'
    BY DEF IInv, TypeOK, PlaceInv
<1>3. WorkspaceIsolated'
    BY DEF IInv, TypeOK, PlaceInv, WorkspaceIsolated, Holding, Ended
<1>4. HeldInv'
    BY DEF IInv, TypeOK, PlaceInv, HeldInv, Accounted, Holding, Ended, Kept, WorkspaceIsolated
<1>5. WorkInv'
    BY DEF IInv, TypeOK, PlaceInv, WorkInv, WorkspaceIsolated, Holding, Ended
<1>6. WorkVerified'
    BY DEF IInv, TypeOK, PlaceInv, WorkVerified, WorkInv, Ended
<1>7. ScoreInv'
    BY DEF IInv, TypeOK, PlaceInv, ScoreInv, WorkInv, WorkspaceIsolated, Holding, Ended, ScoreFiles
<1>8. ScoreOrigin'
    BY DEF IInv, TypeOK, PlaceInv, ScoreOrigin
<1>9. CountInv'
    BY DEF IInv, TypeOK, PlaceInv, CountInv, WorkInv
<1>10. NameInv'
    BY DEF IInv, TypeOK, PlaceInv, NameInv
<1>11. RewardsLost'
    BY DEF IInv, TypeOK, PlaceInv, RewardsLost, WorkInv
<1> QED
    BY <1>1, <1>2, <1>3, <1>4, <1>5, <1>6, <1>7, <1>8, <1>9, <1>10, <1>11 DEF IInv

(* A death leaves the directories as they are. *)
LEMMA DieInv ==
    ASSUME IInv, NEW r \in Rollouts, Die(r)
    PROVE  IInv'
<1> USE RolloutAssumption, ScoreAssumption, ConfigAssumption
<1> USE DEF Die, Goto, files
<1>1. TypeOK'
    BY DEF IInv, TypeOK, Places, PlaceInv
<1>2. PlaceInv'
    BY DEF IInv, TypeOK, PlaceInv
<1>3. WorkspaceIsolated'
    BY DEF IInv, TypeOK, PlaceInv, WorkspaceIsolated, Holding, Ended
<1>4. HeldInv'
    BY DEF IInv, TypeOK, PlaceInv, HeldInv, Accounted, Holding, Ended, Kept, WorkspaceIsolated
<1>5. WorkInv'
    BY DEF IInv, TypeOK, PlaceInv, WorkInv, WorkspaceIsolated, Holding, Ended
<1>6. WorkVerified'
    BY DEF IInv, TypeOK, PlaceInv, WorkVerified, WorkInv, Ended
<1>7. ScoreInv'
    BY DEF IInv, TypeOK, PlaceInv, ScoreInv, WorkInv, WorkspaceIsolated, Holding, Ended, ScoreFiles
<1>8. ScoreOrigin'
    BY DEF IInv, TypeOK, PlaceInv, ScoreOrigin
<1>9. CountInv'
    BY DEF IInv, TypeOK, PlaceInv, CountInv, WorkInv
<1>10. NameInv'
    BY DEF IInv, TypeOK, PlaceInv, NameInv
<1>11. RewardsLost'
    BY DEF IInv, TypeOK, PlaceInv, RewardsLost, WorkInv
<1> QED
    BY <1>1, <1>2, <1>3, <1>4, <1>5, <1>6, <1>7, <1>8, <1>9, <1>10, <1>11 DEF IInv

(* Choosing a directory for the reward makes none. *)
LEMMA PrepareForRewardInv ==
    ASSUME IInv, NEW r \in Rollouts, PrepareForReward(r)
    PROVE  IInv'
<1> USE RolloutAssumption, ScoreAssumption, ConfigAssumption
<1> USE DEF PrepareForReward, Choose, Exists, Goto, files
<1>0. /\ Canonical(r) \in Dirs /\ Canonical(r)[1] = conf.name[r]
      /\ \A x \in Digits : <<conf.name[r], x>> \in Dirs /\ <<conf.name[r], x>>[1] = conf.name[r]
    BY ChosenDirs DEF IInv, TypeOK
<1>1. TypeOK'
    BY <1>0 DEF IInv, TypeOK, Places, PlaceInv
<1>2. PlaceInv'
    BY <1>0 DEF IInv, TypeOK, PlaceInv
<1>3. WorkspaceIsolated'
    BY DEF IInv, TypeOK, PlaceInv, WorkspaceIsolated, Holding, Ended
<1>4. HeldInv'
    BY DEF IInv, TypeOK, PlaceInv, HeldInv, Accounted, Holding, Ended, Kept, WorkspaceIsolated
<1>5. WorkInv'
    BY DEF IInv, TypeOK, PlaceInv, WorkInv, WorkspaceIsolated, Holding, Ended
<1>6. WorkVerified'
    BY DEF IInv, TypeOK, PlaceInv, WorkVerified, WorkInv, Ended
<1>7. ScoreInv'
    BY DEF IInv, TypeOK, PlaceInv, ScoreInv, WorkInv, WorkspaceIsolated, Holding, Ended, ScoreFiles
<1>8. ScoreOrigin'
    BY DEF IInv, TypeOK, PlaceInv, ScoreOrigin
<1>9. CountInv'
    BY DEF IInv, TypeOK, PlaceInv, CountInv, WorkInv
<1>10. NameInv'
  <2>1. pc'[r] \in {"mkdir", "build"} => dir'[r][1] = conf.name[r]
    <3>1. CASE Exists(Canonical(r)) /\ conf.strict
        BY <3>1 DEF IInv, TypeOK
    <3>2. CASE ~(Exists(Canonical(r)) /\ conf.strict)
        BY <3>2, <1>0 DEF IInv, TypeOK
    <3> QED
        BY <3>1, <3>2
  <2> QED
      BY <2>1 DEF IInv, TypeOK, NameInv
<1>11. RewardsLost'
  <2>1. edits[r] = 0 /\ ~Holding(r) /\ status[r] = "none" /\ pc[r] \notin {"done", "raised", "dead"}
      BY DEF IInv, PlaceInv, WorkInv, Holding, Ended
  <2>2. ASSUME Exists(Canonical(r))
        PROVE  \/ \E d \in stranded : d[1] = conf.name[r]
               \/ \E q \in Rollouts \ {r} : conf.name[q] = conf.name[r]
    <3>1. Canonical(r) \in Dirs /\ Canonical(r)[1] = conf.name[r]
        BY <1>0
    <3>2. owner[Canonical(r)] \in Rollouts /\ conf.name[owner[Canonical(r)]] = conf.name[r]
        BY <2>2, <3>1 DEF IInv, TypeOK, NameInv
    <3>3. CASE owner[Canonical(r)] = r
        BY <2>1, <3>1, <3>3 DEF IInv, HeldInv, Accounted
    <3> QED
        BY <3>1, <3>2, <3>3
  <2>3. pc'[r] = "raised" => Exists(Canonical(r))
      BY <2>1 DEF IInv, TypeOK
  <2> QED
      BY <2>1, <2>2, <2>3 DEF IInv, TypeOK, RewardsLost
<1> QED
    BY <1>1, <1>2, <1>3, <1>4, <1>5, <1>6, <1>7, <1>8, <1>9, <1>10, <1>11 DEF IInv

(* What a verifier leaves is a score file of its rollout, in the workspace or in   *)
(* the verifier's directory.                                                       *)
LEMMA LeavesFile ==
    ASSUME IInv, NEW r \in Rollouts, Verifiable(r), NEW file \in Written(r), Leaves(r, file)
    PROVE  /\ dir[r] \in Dirs /\ owner[dir[r]] = r /\ changes[dir[r]] \in Nat
           /\ status[r] = "ready" /\ pc[r] \in {"verify", "score"}
           /\ file # None => file \in ScoreFiles /\ file.by = r /\ file.from = "verifier"
           /\ score' \in [Dirs -> ScoreFiles \cup {None}]
           /\ cwd_score' \in ScoreFiles \cup {None}
           /\ \A d \in Dirs : d # dir[r] => score'[d] = score[d]
           /\ score'[dir[r]] # None => score'[dir[r]].by = r
           /\ cwd_score' # None => conf.writes_cwd /\ cwd_score'.from = "verifier"
           /\ cwd_score # None => cwd_score' # None
           /\ file # None => IF conf.writes_cwd THEN cwd_score' # None
                             ELSE score'[dir[r]] = file
<1>1. status[r] = "ready" /\ pc[r] \in {"verify", "score"}
    BY DEF Verifiable, IInv, PlaceInv
<1>2. dir[r] \in Dirs /\ owner[dir[r]] = r
    BY <1>1 DEF IInv, PlaceInv, WorkspaceIsolated, Holding, Ended
<1>3. file # None => file \in ScoreFiles /\ file.by = r /\ file.from = "verifier"
    BY DEF Written, FilesOf
<1>4. changes[dir[r]] \in Nat /\ score \in [Dirs -> ScoreFiles \cup {None}]
      /\ cwd_score \in ScoreFiles \cup {None}
    BY <1>2 DEF IInv, TypeOK
<1>5. CASE file = None
    BY <1>1, <1>2, <1>4, <1>5 DEF Leaves, IInv, ScoreInv
<1>6. CASE file # None /\ conf.writes_cwd
    BY <1>1, <1>2, <1>3, <1>4, <1>6 DEF Leaves, IInv, ScoreInv
<1>7. CASE file # None /\ ~conf.writes_cwd
    BY <1>1, <1>2, <1>3, <1>4, <1>7 DEF Leaves, IInv, ScoreInv
<1> QED
    BY <1>5, <1>6, <1>7

(* The verifier runs on the rollout's own directory. *)
LEMMA RunVerifierInv ==
    ASSUME IInv, NEW r \in Rollouts, RunVerifier(r)
    PROVE  IInv'
<1> USE RolloutAssumption, ScoreAssumption, ConfigAssumption
<1> USE DEF Goto, rollout
<1>a. PICK file \in Written(r), ok \in BOOLEAN :
          /\ Leaves(r, file)
          /\ verified' = [verified EXCEPT ![r] =
                 [ok |-> ok, changes |-> changes[dir[r]], wrote |-> file]]
    BY DEF RunVerifier
<1>b. /\ Verifiable(r) /\ pc' = [pc EXCEPT ![r] = "read"]
      /\ UNCHANGED <<conf, rollout, result, owner, changes, stranded>>
    BY DEF RunVerifier
<1> USE <1>b
<1>c. /\ dir[r] \in Dirs /\ owner[dir[r]] = r /\ changes[dir[r]] \in Nat
      /\ status[r] = "ready" /\ pc[r] \in {"verify", "score"}
      /\ score' \in [Dirs -> ScoreFiles \cup {None}]
      /\ cwd_score' \in ScoreFiles \cup {None}
      /\ \A d \in Dirs : d # dir[r] => score'[d] = score[d]
      /\ score'[dir[r]] # None => score'[dir[r]].by = r
      /\ cwd_score' # None => conf.writes_cwd /\ cwd_score'.from = "verifier"
      /\ cwd_score # None => cwd_score' # None
      /\ file # None => IF conf.writes_cwd THEN cwd_score' # None ELSE score'[dir[r]] = file
    BY <1>a, LeavesFile
<1>d. [ok |-> ok, changes |-> changes[dir[r]], wrote |-> file] \in Verdicts
    BY <1>a, <1>c, LeavesFile DEF Verdicts, Written, FilesOf
<1>e. /\ verified'[r] \in Verdicts /\ verified'[r] # None
      /\ verified'[r].changes = changes[dir[r]] /\ verified'[r].wrote = file
      /\ \A q \in Rollouts \ {r} : verified'[q] = verified[q]
      /\ verified' \in [Rollouts -> Verdicts \cup {None}]
    BY <1>a, <1>d, NoneAssumption DEF IInv, TypeOK
<1>1. TypeOK'
    BY <1>c, <1>e DEF IInv, TypeOK, Places
<1>2. PlaceInv'
    BY <1>c, <1>e DEF IInv, TypeOK, PlaceInv
<1>3. WorkspaceIsolated'
    BY <1>c DEF IInv, TypeOK, PlaceInv, WorkspaceIsolated, Holding, Ended
<1>4. HeldInv'
    BY <1>c DEF IInv, TypeOK, PlaceInv, HeldInv, Accounted, Holding, Ended, Kept, WorkspaceIsolated
<1>5. WorkInv'
    BY <1>c DEF IInv, TypeOK, PlaceInv, WorkInv, WorkspaceIsolated, Holding, Ended
<1>6. WorkVerified'
    BY <1>c, <1>e DEF IInv, TypeOK, PlaceInv, WorkVerified, WorkInv, Ended
<1>7. ScoreInv'
    BY <1>c, <1>e DEF IInv, TypeOK, PlaceInv, ScoreInv, WorkspaceIsolated, Holding, Ended
<1>8. ScoreOrigin'
    BY <1>c, <1>e DEF IInv, TypeOK, PlaceInv, ScoreOrigin
<1>9. CountInv'
    BY DEF IInv, TypeOK, PlaceInv, CountInv, WorkInv
<1>10. NameInv'
    BY DEF IInv, TypeOK, PlaceInv, NameInv
<1>11. RewardsLost'
    BY DEF IInv, TypeOK, PlaceInv, RewardsLost, WorkInv
<1> QED
    BY <1>1, <1>2, <1>3, <1>4, <1>5, <1>6, <1>7, <1>8, <1>9, <1>10, <1>11 DEF IInv

(* A verifier that cannot be run or read leaves the directory with its rollout. *)
LEMMA VerifierRaisesInv ==
    ASSUME IInv, NEW r \in Rollouts, VerifierRaises(r)
    PROVE  IInv'
<1> USE RolloutAssumption, ScoreAssumption, ConfigAssumption
<1> USE DEF Goto, rollout
<1>a. PICK file \in Written(r) : Leaves(r, file)
    BY DEF VerifierRaises
<1>b. /\ Verifiable(r) /\ pc' = [pc EXCEPT ![r] = "raised"]
      /\ UNCHANGED <<conf, rollout, result, owner, changes, verified, stranded>>
    BY DEF VerifierRaises
<1> USE <1>b
<1>c. /\ dir[r] \in Dirs /\ owner[dir[r]] = r
      /\ status[r] = "ready" /\ pc[r] \in {"verify", "score"}
      /\ score' \in [Dirs -> ScoreFiles \cup {None}]
      /\ cwd_score' \in ScoreFiles \cup {None}
      /\ \A d \in Dirs : d # dir[r] => score'[d] = score[d]
      /\ score'[dir[r]] # None => score'[dir[r]].by = r
      /\ cwd_score' # None => conf.writes_cwd /\ cwd_score'.from = "verifier"
      /\ cwd_score # None => cwd_score' # None
    BY <1>a, LeavesFile
<1>1. TypeOK'
    BY <1>c DEF IInv, TypeOK, Places
<1>2. PlaceInv'
    BY <1>c DEF IInv, TypeOK, PlaceInv
<1>3. WorkspaceIsolated'
    BY <1>c DEF IInv, TypeOK, PlaceInv, WorkspaceIsolated, Holding, Ended
<1>4. HeldInv'
    BY <1>c DEF IInv, TypeOK, PlaceInv, HeldInv, Accounted, Holding, Ended, Kept, WorkspaceIsolated
<1>5. WorkInv'
    BY <1>c DEF IInv, TypeOK, PlaceInv, WorkInv, WorkspaceIsolated, Holding, Ended
<1>6. WorkVerified'
    BY DEF IInv, TypeOK, PlaceInv, WorkVerified, WorkInv, Ended
<1>7. ScoreInv'
    BY <1>c DEF IInv, TypeOK, PlaceInv, ScoreInv, WorkspaceIsolated, Holding, Ended
<1>8. ScoreOrigin'
    BY DEF IInv, TypeOK, PlaceInv, ScoreOrigin
<1>9. CountInv'
    BY DEF IInv, TypeOK, PlaceInv, CountInv, WorkInv
<1>10. NameInv'
    BY DEF IInv, TypeOK, PlaceInv, NameInv
<1>11. RewardsLost'
    BY <1>c DEF IInv, TypeOK, PlaceInv, RewardsLost, WorkInv
<1> QED
    BY <1>1, <1>2, <1>3, <1>4, <1>5, <1>6, <1>7, <1>8, <1>9, <1>10, <1>11 DEF IInv

-------------------------------------------------------------------------------
(* The penalties and the scores are integers. *)
LEMMA PenaltyInt ==
    ASSUME TypeOK, NEW r \in Rollouts, NEW base \in Int
    PROVE  BehaviorPenalties(r, base) \subseteq Nat /\ AwardedBonus(r) \in Nat
           /\ KnownTurns(r) \in Nat
<1>1. KnownTurns(r) \in Nat /\ KnownRepeats(r) \subseteq Nat
    BY ScoreAssumption DEF TypeOK, KnownTurns, KnownRepeats
<1>2. TurnPenalty * KnownTurns(r) \in Nat /\ (\A n \in KnownRepeats(r) : RepeatPenalty * n \in Nat)
    BY <1>1, ProductNat, ScoreAssumption
<1>3. ChargedTurns(r, base) \in Nat
    BY <1>2 DEF ChargedTurns
<1> QED
    BY <1>1, <1>2, <1>3, ScoreAssumption DEF BehaviorPenalties, AwardedBonus

(* What every return of compute_score does, whichever path led to it: the result   *)
(* is filed, the rollout ends, and its directory goes unless it is to be kept.     *)
LEMMA ReturnInv ==
    ASSUME IInv, NEW r \in Rollouts, NEW value \in Int, NEW wanted \in BOOLEAN,
           NEW used \in ScoreFiles \cup {None},
           NEW outcome \in {"missing_final_answer", "setup_failed", "no_workspace",
                            "missing_verifier", "verified"},
           pc[r] \in {"score", "unprepared", "verify", "read"},
           pc[r] = "read" \/ verified[r] = None,
           NEW charged \in Nat, verified[r] # None => charged >= edits[r],
           outcome = "verified" =>
              /\ used # None => used.by = r \/ (conf.writes_cwd /\ used.from = "verifier")
              /\ verified[r].wrote # None =>
                    IF conf.writes_cwd THEN used # None ELSE used = verified[r].wrote,
           \/ wanted \/ status[r] = "none" \/ ~conf.cleanup
           \/ conf.keep_failed /\ outcome = "verified" /\ ~Passed(used),
           Return(r, outcome, value, charged, wanted, used)
    PROVE  IInv'
<1> USE RolloutAssumption, ScoreAssumption, ConfigAssumption
<1>0. PICK error \in BOOLEAN :
          /\ error => wanted /\ status[r] # "none"
          /\ Cleanup(r, wanted, error)
          /\ result' = [result EXCEPT ![r] =
                [status |-> outcome, score |-> value, charged |-> charged,
                 cleanup_error |-> error, used |-> used]]
    BY DEF Return
<1> DEFINE res == [status |-> outcome, score |-> value, charged |-> charged,
                   cleanup_error |-> error, used |-> used]
<1>a. res \in Results /\ res # None
    BY NoneAssumption DEF Results
<1>b. result' = [result EXCEPT ![r] = res]
    BY <1>0
<1> HIDE DEF res
<1>c. /\ pc' = [pc EXCEPT ![r] = "done"]
      /\ UNCHANGED <<conf, rollout, cwd_score, verified, stranded>>
    BY DEF Return, Goto
<1>d. \/ UNCHANGED files
      \/ /\ status[r] # "none" /\ dir[r] \in Dirs
         /\ owner' = [owner EXCEPT ![dir[r]] = None]
         /\ changes' = [changes EXCEPT ![dir[r]] = 0]
         /\ score' = [score EXCEPT ![dir[r]] = None]
    BY <1>0 DEF Cleanup, IInv, PlaceInv
<1>e. UNCHANGED files => status[r] = "none" \/ Kept(r)'
  <2> SUFFICES ASSUME UNCHANGED files, status[r] # "none" PROVE Kept(r)'
      OBVIOUS
  <2>1. result'[r] = res
      BY <1>b DEF IInv, TypeOK
  <2>2. CASE wanted
    <3>1. owner[dir[r]] = r
        BY DEF IInv, WorkspaceIsolated, Holding, Ended
    <3>2. error
        BY <1>0, <2>2, <3>1, <1>d DEF Cleanup, files, IInv, TypeOK, PlaceInv
    <3> QED
        BY <2>1, <3>2 DEF Kept, res
  <2>3. CASE ~wanted
      BY <2>1, <2>3, <1>c DEF Kept, res, Passed, Legible
  <2> QED
      BY <2>2, <2>3
<1>1. TypeOK'
  <2>1. result' \in [Rollouts -> Results \cup {None}]
      BY <1>a, <1>b DEF IInv, TypeOK
  <2>2. pc' \in [Rollouts -> Places]
      BY <1>c DEF IInv, TypeOK, Places
  <2>3. CASE UNCHANGED files
      BY <2>1, <2>2, <2>3, <1>c DEF IInv, TypeOK, rollout, files
  <2>4. CASE ~UNCHANGED files
    <3>1. owner' \in [Dirs -> Rollouts \cup {None}] /\ changes' \in [Dirs -> Nat]
        BY <2>4, <1>d DEF IInv, TypeOK
    <3>2. score' \in [Dirs -> ScoreFiles \cup {None}]
        BY <2>4, <1>d DEF IInv, TypeOK
    <3> QED
        BY <2>1, <2>2, <3>1, <3>2, <1>c DEF IInv, TypeOK, rollout
  <2> QED
      BY <2>3, <2>4
<1>2. PlaceInv'
    BY <1>a, <1>b, <1>c DEF IInv, TypeOK, PlaceInv, rollout
<1>3. WorkspaceIsolated'
    BY <1>c, <1>d DEF IInv, TypeOK, PlaceInv, WorkspaceIsolated, Holding, Ended, rollout, files
<1>4. HeldInv'
    BY <1>b, <1>c, <1>d, <1>e DEF IInv, TypeOK, PlaceInv, HeldInv, Accounted, Holding, Ended, Kept,
       WorkspaceIsolated, rollout, files
<1>5. WorkInv'
    BY <1>c, <1>d DEF IInv, TypeOK, PlaceInv, WorkInv, WorkspaceIsolated, Holding, Ended, rollout, files
<1>f. result'[r] = res /\ (\A q \in Rollouts \ {r} : result'[q] = result[q])
    BY <1>b DEF IInv, TypeOK
<1>6. WorkVerified'
  <2>1. verified[r] # None => charged >= verified[r].changes
      BY DEF IInv, WorkVerified
  <2>2. res.charged = charged
      BY DEF res
  <2> QED
      BY <2>1, <2>2, <1>c, <1>f DEF IInv, WorkVerified, rollout
<1>7. ScoreInv'
  <2>1. \A q \in Rollouts \ {r} : pc[q] = "read" /\ status[r] # "none" => dir[q] # dir[r]
      BY DEF IInv, PlaceInv, WorkspaceIsolated, Holding, Ended
  <2> QED
      BY <2>1, <1>c, <1>d DEF IInv, TypeOK, PlaceInv, ScoreInv, rollout, files
<1>8. ScoreOrigin'
  <2>1. res.used = used /\ res.status = outcome
      BY DEF res
  <2> QED
      BY <2>1, <1>c, <1>f DEF IInv, ScoreOrigin
<1>9. CountInv'
    BY <1>c DEF IInv, TypeOK, CountInv, rollout
<1>10. NameInv'
    BY <1>c, <1>d DEF IInv, TypeOK, NameInv, rollout, files
<1>11. RewardsLost'
    BY <1>c DEF IInv, TypeOK, RewardsLost, rollout
<1> QED
    BY <1>1, <1>2, <1>3, <1>4, <1>5, <1>6, <1>7, <1>8, <1>9, <1>10, <1>11 DEF IInv

(* A rollout without a final answer. *)
LEMMA ScoreMissingFinalInv ==
    ASSUME IInv, NEW r \in Rollouts, ScoreMissingFinal(r)
    PROVE  IInv'
<1>1. pc[r] \in {"score", "unprepared", "verify", "read"} /\ (pc[r] = "read" \/ verified[r] = None)
    BY DEF ScoreMissingFinal, IInv, PlaceInv
<1>2. conf.cleanup \in BOOLEAN
    BY ConfigAssumption DEF IInv, TypeOK, Configurations
<1>3. PICK penalties \in BehaviorPenalties(r, 0) :
          Return(r, "missing_final_answer", 0 - penalties, KnownTurns(r), conf.cleanup, None)
    BY DEF ScoreMissingFinal
<1>4. 0 - penalties \in Int /\ KnownTurns(r) \in Nat
    BY <1>3, PenaltyInt DEF IInv
<1>5. verified[r] = None
    BY DEF ScoreMissingFinal, IInv, PlaceInv
<1> QED
    BY <1>1, <1>2, <1>3, <1>4, <1>5, ReturnInv

(* A workspace that could not be set up. *)
LEMMA ScoreSetupFailedInv ==
    ASSUME IInv, NEW r \in Rollouts, ScoreSetupFailed(r)
    PROVE  IInv'
<1>1. pc[r] \in {"score", "unprepared", "verify", "read"} /\ (pc[r] = "read" \/ verified[r] = None)
    BY DEF ScoreSetupFailed, IInv, PlaceInv
<1>2. conf.cleanup \in BOOLEAN
    BY ConfigAssumption DEF IInv, TypeOK, Configurations
<1>3. FallbackScore + AwardedBonus(r) \in Int
    BY PenaltyInt, ScoreAssumption DEF IInv
<1> QED
    BY <1>1, <1>2, <1>3, ReturnInv DEF ScoreSetupFailed

(* A rollout without a workspace. *)
LEMMA ScoreNoWorkspaceInv ==
    ASSUME IInv, NEW r \in Rollouts, ScoreNoWorkspace(r)
    PROVE  IInv'
<1>1. pc[r] \in {"score", "unprepared", "verify", "read"} /\ (pc[r] = "read" \/ verified[r] = None)
    BY DEF ScoreNoWorkspace, IInv, PlaceInv
<1>2. conf.cleanup \in BOOLEAN
    BY ConfigAssumption DEF IInv, TypeOK, Configurations
<1>3. FallbackScore + AwardedBonus(r) \in Int
    BY PenaltyInt, ScoreAssumption DEF IInv
<1> QED
    BY <1>1, <1>2, <1>3, ReturnInv DEF ScoreNoWorkspace

(* A workspace that could not be set up for the reward. *)
LEMMA ScoreUnpreparedInv ==
    ASSUME IInv, NEW r \in Rollouts, ScoreUnprepared(r)
    PROVE  IInv'
<1>1. pc[r] \in {"score", "unprepared", "verify", "read"} /\ (pc[r] = "read" \/ verified[r] = None)
    BY DEF ScoreUnprepared, IInv, PlaceInv
<1>2. conf.cleanup \in BOOLEAN
    BY ConfigAssumption DEF IInv, TypeOK, Configurations
<1>3. FallbackScore + AwardedBonus(r) \in Int
    BY PenaltyInt, ScoreAssumption DEF IInv
<1> QED
    BY <1>1, <1>2, <1>3, ReturnInv DEF ScoreUnprepared

(* A task without a verifier. *)
LEMMA ScoreMissingVerifierInv ==
    ASSUME IInv, NEW r \in Rollouts, ScoreMissingVerifier(r)
    PROVE  IInv'
<1>1. pc[r] \in {"score", "unprepared", "verify", "read"} /\ verified[r] = None
    BY DEF ScoreMissingVerifier, Verifiable, IInv, PlaceInv
<1>2. conf.cleanup \in BOOLEAN
    BY ConfigAssumption DEF IInv, TypeOK, Configurations
<1>3. MissingScore + AwardedBonus(r) \in Int
    BY PenaltyInt, ScoreAssumption DEF IInv
<1> QED
    BY <1>1, <1>2, <1>3, ReturnInv DEF ScoreMissingVerifier

(* A verified rollout: the file read is the one in its own directory, or the one   *)
(* beside the verifier.                                                            *)
LEMMA ScoreVerifiedInv ==
    ASSUME IInv, NEW r \in Rollouts, ScoreVerified(r)
    PROVE  IInv'
<1> DEFINE file == ScoreFile(r)
           base == ChooseRewardScore(r, file) + AwardedBonus(r)
           wanted == conf.cleanup /\ ~(conf.keep_failed /\ ~Passed(file))
<1>1. pc[r] = "read" /\ dir[r] \in Dirs /\ owner[dir[r]] = r /\ verified[r] # None
    BY DEF ScoreVerified, IInv, PlaceInv, WorkspaceIsolated, Holding, Ended
<1>2. file \in ScoreFiles \cup {None}
    BY <1>1 DEF ScoreFile, IInv, TypeOK
<1>3. /\ file # None => file.by = r \/ (conf.writes_cwd /\ file.from = "verifier")
      /\ verified[r].wrote # None =>
            IF conf.writes_cwd THEN file # None ELSE file = verified[r].wrote
    BY <1>1 DEF ScoreFile, IInv, ScoreInv
<1>4. wanted \in BOOLEAN
    OBVIOUS
<1>5. base \in Int
  <2>1. Legible(file) => file.value \in Nat /\ file.value * MaxScore \in Nat
      BY <1>2, ScoreAssumption, ProductNat DEF Legible, ScoreFiles
  <2>2. conf.mode \in {"ratio", "binary", "raw"}
      BY ConfigAssumption DEF IInv, TypeOK, Configurations
  <2>3. ChooseRewardScore(r, file) \in Int
      BY <2>1, <2>2, ScoreAssumption DEF ChooseRewardScore
  <2> QED
      BY <2>3, PenaltyInt, ScoreAssumption DEF IInv
<1>6. PICK penalties \in BehaviorPenalties(r, base) :
          Return(r, "verified", base - penalties, KnownTurns(r), wanted, file)
    BY DEF ScoreVerified
<1>7. base - penalties \in Int /\ KnownTurns(r) \in Nat
    BY <1>5, <1>6, PenaltyInt DEF IInv
<1>8. KnownTurns(r) >= edits[r]
    BY DEF KnownTurns, IInv, TypeOK, CountInv
<1>9. wanted \/ ~conf.cleanup \/ (conf.keep_failed /\ ~Passed(file))
    BY ConfigAssumption DEF IInv, TypeOK, Configurations
<1> HIDE DEF file, base, wanted
<1> QED
    BY <1>1, <1>2, <1>3, <1>4, <1>6, <1>7, <1>8, <1>9, ReturnInv

-------------------------------------------------------------------------------
LEMMA NextInv == IInv /\ [Next]_vars => IInv'
<1> SUFFICES ASSUME IInv, [Next]_vars PROVE IInv'
    OBVIOUS
<1>1. ASSUME NEW r \in Rollouts, RolloutStep(r) PROVE IInv'
    BY <1>1, FirstCallInv, WorkspaceCallInv, ErrorCallInv, FinishInv DEF RolloutStep
<1>2. ASSUME NEW r \in Rollouts, ServiceStep(r) PROVE IInv'
    BY <1>2, MakeDirInv, BuildOkInv, BuildFailsInv, BuildBreaksInv, PrepareForRewardInv,
       RunVerifierInv, VerifierRaisesInv, ScoreMissingFinalInv, ScoreSetupFailedInv, ScoreNoWorkspaceInv,
       ScoreUnpreparedInv, ScoreMissingVerifierInv, ScoreVerifiedInv DEF ServiceStep
<1>3. ASSUME NEW r \in Rollouts, Die(r) PROVE IInv'
    BY <1>3, DieInv
<1>4. CASE UNCHANGED vars
    BY <1>4 DEF vars, rollout, files, IInv, TypeOK, PlaceInv, WorkspaceIsolated, HeldInv,
       Accounted, Holding, Ended, Kept, WorkInv, CountInv, WorkVerified,
       ScoreInv, ScoreOrigin, NameInv, RewardsLost
<1> QED
    BY <1>1, <1>2, <1>3, <1>4 DEF Next, AllEnded

LEMMA Inductive == Spec => []IInv
    BY InitInv, NextInv, PTL DEF Spec

(* The variables keep their types. *)
THEOREM TypeCorrect == Spec => []TypeOK
<1>1. IInv => TypeOK
    BY DEF IInv
<1> QED
    BY <1>1, Inductive, PTL

(* make_result_dir gives every rollout a directory of its own, however many have   *)
(* its name and however their checks, creations and deletions interleave.          *)
THEOREM IsolationCorrect == Spec => []WorkspaceIsolated
<1>1. IInv => WorkspaceIsolated
    BY DEF IInv
<1> QED
    BY <1>1, Inductive, PTL

(* run_verifier judges a directory with exactly the tool calls of its rollout. *)
THEOREM WorkCorrect == Spec => []WorkVerified
<1>1. IInv => WorkVerified
    BY DEF IInv
<1> QED
    BY <1>1, Inductive, PTL

(* compute_score deletes the directory of the rollout on each of its paths. *)
THEOREM ReclaimCorrect == Spec => []Reclaimed
<1>1. IInv => Reclaimed
    BY DEF IInv, Reclaimed, HeldInv, Accounted, Holding, Ended
<1> QED
    BY <1>1, Inductive, PTL

(* The score file run_verifier reads is the one its own run wrote, or one left in  *)
(* the rollout's directory, or one beside a verifier that writes there.            *)
THEOREM ScoreCorrect == Spec => []ScoreOrigin
<1>1. IInv => ScoreOrigin
    BY DEF IInv
<1> QED
    BY <1>1, Inductive, PTL

(* compute_score raises for nothing but its verifier's run, a stranded preparation *)
(* of its name, or a rollout with its name.                                        *)
THEOREM LostCorrect == Spec => []RewardsLost
<1>1. IInv => RewardsLost
    BY DEF IInv
<1> QED
    BY <1>1, Inductive, PTL
================================================================================

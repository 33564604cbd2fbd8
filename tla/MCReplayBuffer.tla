---------------------------- MODULE MCReplayBuffer ----------------------------
(* Instances of ReplayBuffer for TLC. *)
EXTENDS ReplayBuffer, TLC

Async(strategy, threshold, sync_step) ==
    [mode |-> "async", strategy |-> strategy, threshold |-> threshold,
     warmup |-> 1, batch |-> sync_step, sync_step |-> sync_step]

SyncConfig ==
    [mode |-> "sync", strategy |-> "drop", threshold |-> 1, warmup |-> 0,
     batch |-> 2, sync_step |-> 1]

\* Every mode and strategy, each at the smallest threshold that it can hit within
\* two steps.
CrashConfigs == {Async("drop", 1, 1), Async("wait", 1, 1), SyncConfig}

\* The thresholds three steps can exceed.
StaleConfigs == {Async("drop", 1, 1), Async("drop", 2, 1), Async("wait", 2, 1),
                 Async("wait", 1, 2)}

SessionSymmetry == Permutations(Sessions)

================================================================================

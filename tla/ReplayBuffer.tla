------------------------------ MODULE ReplayBuffer ------------------------------
(* The data flow of the V1 trainer: the training loop feeds prompts to the      *)
(* agent-loop workers, every prompt runs a group of sessions, finished sessions *)
(* put their trajectory into TransferQueue, and ReplayBuffer.sample takes whole *)
(* groups out of it for the next update.  The trainer checkpoints, may crash at *)
(* any point, and resumes from the last checkpoint.                             *)
(*                                                                              *)
(* A prompt is named by its row: the position at which it left the dataloader.  *)
(* A trajectory key "{uid}_{session}_{index}" is the pair <<row, session>>.     *)
EXTENDS Integers, FiniteSets

CONSTANTS
    Configs,        \* the trainer settings to explore, see ConfigType
    Sessions,       \* the sessions of a group (rollout.n)
    TotalSteps,     \* total_training_steps
    SaveFreq,       \* trainer.save_freq, 0 for never
    MaxCrashes,     \* bound on the crashes of a behaviour
    MaxErrors,      \* bound on the groups with a failing session
    MaxRow          \* bound on the rows fetched

\* batch is train_batch_size, sync_step parameter_sync_step, warmup
\* num_warmup_batches; the mode "sync" has neither of the last two, and keeps no
\* TransferQueue state in its checkpoints.
ConfigType ==
    [mode : {"sync", "async"}, strategy : {"drop", "wait"},
     threshold : Nat \ {0}, warmup : Nat, batch : Nat \ {0},
     sync_step : Nat \ {0}]

ASSUME ConfigAssumption ==
    /\ Configs \subseteq ConfigType
    /\ \A c \in Configs :
        /\ c.batch % c.sync_step = 0
        /\ c.mode = "sync" => c.warmup = 0 /\ c.sync_step = 1
ASSUME SizeAssumption ==
    /\ TotalSteps \in Nat /\ SaveFreq \in Nat
    /\ MaxCrashes \in Nat /\ MaxErrors \in Nat /\ MaxRow \in Nat

VARIABLES
    conf,           \* the settings of this behaviour
    pc,             \* where the trainer process is
    global_steps,   \* the step being trained
    updates,        \* local updates of this step still to do
    next_row,       \* the dataloader position
    tags,           \* prompt tags in TransferQueue: row -> [status, steps]
    trajs,          \* trajectory keys in TransferQueue
    chosen,         \* the groups, and their keys, the last poll decided on
    batch,          \* keys sampled in this step
    running,        \* the sessions in progress, as keys
    errors,         \* rows one of whose sessions raised
    consumed,       \* rows whose group was sampled into the current weights
    dropped,        \* rows removed as stale
    leftover,       \* keys the restored queue held for groups sampled before
    saved,          \* the last checkpoint
    crashes

trainer == <<pc, global_steps, updates, next_row, chosen, batch>>
queue == <<tags, trajs>>
workers == <<running, errors>>
history == <<consumed, dropped>>
recovery == <<leftover, saved, crashes>>
vars == <<conf, trainer, queue, workers, history, recovery>>

Statuses == {"pending", "running", "finished", "failure"}
Rows == 1 .. MaxRow
Keys == Rows \X Sessions
NoTags == [r \in {} |-> 0]
Nothing == [rows |-> {}, keys |-> {}]

\* The keys of a set of groups.
KeysOf(rows, keys) == {k \in keys : k[1] \in rows}
Without(t, rows) == [r \in DOMAIN t \ rows |-> t[r]]

-------------------------------------------------------------------------------
(* What the sampler reads out of the prompt tags.                               *)

Terminal == {r \in DOMAIN tags : tags[r].status \in {"finished", "failure"}}
Unfinished == DOMAIN tags \ Terminal

\* The model versions a group spans, counted from the step that submitted it.
Span(r) == (global_steps - tags[r].steps) + 1

SampleableAll == Terminal

\* _sampleable_terminal_keys
Sampleable ==
    {r \in Terminal : conf.strategy = "drop" => Span(r) <= conf.threshold}

\* _drop_stale_finished
Stale == Terminal \ Sampleable

SampleBatch == conf.batch \div conf.sync_step

WaitsForOverdue ==
    /\ conf.strategy = "wait"
    /\ \E r \in Unfinished : Span(r) > conf.threshold

\* The wait strategy holds the sample back for a group that has reached the
\* threshold and is still being generated.
WaitsFor ==
    /\ conf.strategy = "wait"
    /\ \E r \in Unfinished : Span(r) >= conf.threshold

\* _has_enough_samples; while it is false the sampler sleeps and polls again.
HasEnough == ~WaitsFor /\ Cardinality(Sampleable) >= SampleBatch

\* The oldest groups first; rows of one step are in no particular order.
Selections ==
    {S \in SUBSET Sampleable :
        /\ Cardinality(S) = SampleBatch
        /\ \A r \in S, q \in Sampleable \ S : tags[r].steps <= tags[q].steps}

-------------------------------------------------------------------------------
(* Feeding.                                                                     *)

Pending == [status |-> "pending", steps |-> global_steps]

\* _submit_batch_to_rollout of n fresh prompts, on top of the tags t.
Submitted(t, n) ==
    [r \in DOMAIN t \cup next_row .. ((next_row + n) - 1) |->
        IF r \in DOMAIN t THEN t[r] ELSE Pending]

\* _next_train_batch of n prompts.  It refuses an n that is no multiple of
\* gen_batch_size; a refill, the only fetch of an arbitrary n, happens in the drop
\* strategy, for which _init_dataloader sets gen_batch_size to 1.
Fetch(n) ==
    /\ (next_row + n) - 1 <= MaxRow
    /\ next_row' = next_row + n

InitTrainer ==
    /\ pc = "fit"
    /\ global_steps = 0
    /\ updates = 0
    /\ next_row = 1
    /\ chosen = Nothing
    /\ batch = {}

Init ==
    /\ conf \in Configs
    /\ InitTrainer
    /\ tags = NoTags /\ trajs = {}
    /\ running = {} /\ errors = {}
    /\ consumed = {} /\ dropped = {}
    /\ leftover = {} /\ crashes = 0
    /\ saved = [global_steps |-> 0, next_row |-> 1, tags |-> NoTags,
                trajs |-> {}, consumed |-> {}, dropped |-> {}]

\* The restored prompts that are dispatched again.
Reissued(t) == {r \in DOMAIN t : t[r].status \in {"pending", "running"}}

\* fit() up to the training loop: the step counter moves on, restored groups
\* start over under it and lose the trajectories they had, and on_train_begin
\* adds the warm-up batches, whether or not anything was restored.
Fit ==
    LET now == global_steps + 1
        fresh == [status |-> "pending", steps |-> now]
        again == Reissued(tags)
        warm == conf.warmup * conf.batch
    IN  /\ pc = "fit"
        /\ global_steps' = now
        /\ Fetch(warm)
        /\ tags' = [r \in DOMAIN tags \cup next_row .. ((next_row + warm) - 1) |->
                        IF r \in DOMAIN tags \ again THEN tags[r] ELSE fresh]
        /\ trajs' = trajs \ KeysOf(again, trajs)
        /\ pc' = IF now <= TotalSteps THEN "feed" ELSE "done"
        /\ UNCHANGED <<conf, updates, chosen, batch, workers, history, recovery>>

\* PPOTrainer.step: one train batch of prompts is fed, then come the updates.
Feed ==
    /\ pc = "feed"
    /\ Fetch(conf.batch)
    /\ tags' = Submitted(tags, conf.batch)
    /\ updates' = conf.sync_step
    /\ pc' = "poll"
    /\ UNCHANGED <<conf, global_steps, chosen, batch, trajs, workers, history,
                   recovery>>

-------------------------------------------------------------------------------
(* ReplayBuffer.sample.  One poll reads a snapshot of the queue and decides from *)
(* it; the queue moves on between that and the clearing of the chosen keys.      *)

ClearedPromptsOnly(rows) == {}

\* kv_clear does not cascade, so the trajectories of the dropped groups are
\* cleared by name: those the snapshot shows.
ClearedWith(rows) == KeysOf(rows, trajs)

PollDrop ==
    /\ pc = "poll"
    /\ Stale # {}
    /\ chosen' = [rows |-> Stale, keys |-> ClearedWith(Stale)]
    /\ pc' = "drop"
    /\ UNCHANGED <<conf, global_steps, updates, next_row, batch, queue, workers,
                   history, recovery>>

PollSelect ==
    /\ pc = "poll"
    /\ Stale = {}
    /\ HasEnough
    /\ \E S \in Selections : chosen' = [rows |-> S, keys |-> KeysOf(S, trajs)]
    /\ pc' = "select"
    /\ UNCHANGED <<conf, global_steps, updates, next_row, batch, queue, workers,
                   history, recovery>>

RefillNone(n) == 0

\* refill_fn: as many fresh prompts as were dropped.
Refill(n) == n

Drop ==
    LET n == Refill(Cardinality(chosen.rows))
    IN  /\ pc = "drop"
        /\ Fetch(n)
        /\ tags' = Submitted(Without(tags, chosen.rows), n)
        /\ trajs' = trajs \ chosen.keys
        /\ dropped' = dropped \cup chosen.rows
        /\ chosen' = Nothing
        /\ pc' = "poll"
        /\ UNCHANGED <<conf, global_steps, updates, batch, workers, consumed,
                       recovery>>

\* Only the prompt keys are cleared now: the trajectories stay in the queue
\* until the step is over.
Select ==
    /\ pc = "select"
    /\ tags' = Without(tags, chosen.rows)
    /\ batch' = batch \cup chosen.keys
    /\ consumed' = consumed \cup chosen.rows
    /\ chosen' = Nothing
    /\ pc' = "train"
    /\ UNCHANGED <<conf, global_steps, updates, next_row, trajs, workers, dropped,
                   recovery>>

-------------------------------------------------------------------------------
(* The rest of a training step.                                                 *)

Train ==
    /\ pc = "train"
    /\ updates' = updates - 1
    /\ pc' = IF updates > 1 THEN "poll" ELSE "save"
    /\ UNCHANGED <<conf, global_steps, next_row, chosen, batch, queue, workers,
                   history, recovery>>

SavesTerminalOnly == [r \in Terminal |-> tags[r]]

\* What a checkpoint keeps of the prompt tags.
Persisted == IF conf.mode = "sync" THEN NoTags ELSE tags

Saves == SaveFreq > 0 /\ (global_steps >= TotalSteps \/ global_steps % SaveFreq = 0)

\* _save_checkpoint; the tracker file is written last, so a crash inside leaves
\* the previous checkpoint in force.
Save ==
    /\ pc = "save"
    /\ saved' = IF ~Saves THEN saved ELSE
                [global_steps |-> global_steps, next_row |-> next_row,
                 tags |-> Persisted,
                 trajs |-> IF conf.mode = "sync" THEN {} ELSE trajs,
                 consumed |-> consumed, dropped |-> dropped]
    /\ pc' = "clear"
    /\ UNCHANGED <<conf, global_steps, updates, next_row, chosen, batch, queue,
                   workers, history, leftover, crashes>>

\* "cleanup transfer queue", and on to the next step.
Clear ==
    /\ pc = "clear"
    /\ trajs' = trajs \ batch
    /\ batch' = {}
    /\ global_steps' = global_steps + 1
    /\ pc' = IF global_steps < TotalSteps THEN "feed" ELSE "done"
    /\ UNCHANGED <<conf, updates, next_row, chosen, tags, workers, history, recovery>>

\* The job dies and is started again: workers and queue are gone, the trainer
\* loads the last checkpoint and enters fit() again.
Crash ==
    /\ pc # "done"
    /\ crashes < MaxCrashes
    /\ crashes' = crashes + 1
    /\ pc' = "fit"
    /\ global_steps' = saved.global_steps
    /\ next_row' = saved.next_row
    /\ tags' = saved.tags
    /\ trajs' = saved.trajs
    /\ consumed' = saved.consumed
    /\ dropped' = saved.dropped
    /\ leftover' = saved.trajs \ KeysOf(DOMAIN saved.tags, saved.trajs)
    /\ updates' = 0 /\ chosen' = Nothing /\ batch' = {}
    /\ running' = {} /\ errors' = {}
    /\ UNCHANGED <<conf, saved>>

-------------------------------------------------------------------------------
(* AgentLoopWorkerTQ._run_prompt and its sessions.                              *)

Start(r) ==
    /\ r \in DOMAIN tags
    /\ tags[r].status = "pending"
    /\ tags' = [tags EXCEPT ![r].status = "running"]
    /\ running' = running \cup ({r} \X Sessions)
    /\ UNCHANGED <<conf, trainer, trajs, errors, history, recovery>>

\* _agent_loop_postprocess puts the trajectory.
Put(k) ==
    /\ k \in running
    /\ running' = running \ {k}
    /\ trajs' = trajs \cup {k}
    /\ UNCHANGED <<conf, trainer, tags, errors, history, recovery>>

Raise(k) ==
    /\ k \in running
    /\ running' = running \ {k}
    /\ errors' = errors \cup {k[1]}
    /\ Cardinality(errors') <= MaxErrors
    /\ UNCHANGED <<conf, trainer, queue, history, recovery>>

GatheredAny(r) == Cardinality(KeysOf({r}, running)) < Cardinality(Sessions)

\* asyncio.gather returns when every session has returned...
Gathered(r) == KeysOf({r}, running) = {} /\ r \notin errors

Finished(r) ==
    /\ r \in DOMAIN tags
    /\ tags[r].status = "running"
    /\ Gathered(r)
    /\ tags' = [tags EXCEPT ![r].status = "finished"]
    /\ UNCHANGED <<conf, trainer, trajs, workers, history, recovery>>

FailedLogged(r) ==
    /\ r \in DOMAIN tags
    /\ tags[r].status = "running"
    /\ r \in errors
    /\ UNCHANGED vars

\* ...and raises as soon as one of them does; the others keep running.
Failed(r) ==
    /\ r \in DOMAIN tags
    /\ tags[r].status = "running"
    /\ r \in errors
    /\ tags' = [tags EXCEPT ![r].status = "failure"]
    /\ UNCHANGED <<conf, trainer, trajs, workers, history, recovery>>

TrainerStep ==
    \/ Fit \/ Feed \/ PollDrop \/ Drop \/ PollSelect \/ Select
    \/ Train \/ Save \/ Clear
SessionEnds(k) == Put(k) \/ Raise(k)

\* A restored prompt has no task behind it until fit() dispatches it again.
PromptStep(r) == pc # "fit" /\ (Start(r) \/ Finished(r) \/ Failed(r))

Next ==
    \/ TrainerStep
    \/ Crash
    \/ \E r \in Rows : PromptStep(r)
    \/ \E k \in Keys : SessionEnds(k)

\* The trainer process runs, and the event loops of the workers keep running some
\* task that can proceed: a session that is in progress comes to an end.
Fairness ==
    /\ WF_vars(TrainerStep)
    /\ WF_vars(\E r \in Rows : PromptStep(r))
    /\ WF_vars(\E k \in Keys : SessionEnds(k))

Spec == Init /\ [][Next]_vars /\ Fairness

-------------------------------------------------------------------------------
TagType == [status : Statuses, steps : Nat]

\* Tags carry a status the metadata sync knows, and nothing is registered or
\* running that was not fetched.
TypeOK ==
    /\ conf \in Configs
    /\ pc \in {"fit", "feed", "poll", "drop", "select", "train", "save", "clear", "done"}
    /\ global_steps \in 0 .. (TotalSteps + 1)
    /\ updates \in Nat
    /\ next_row \in 1 .. (MaxRow + 1)
    /\ DOMAIN tags \subseteq 1 .. (next_row - 1)
    /\ \A r \in DOMAIN tags : tags[r] \in TagType
    /\ trajs \subseteq Keys /\ batch \subseteq Keys /\ running \subseteq Keys
    /\ \A k \in trajs \cup batch \cup running : k[1] < next_row

\* Every row that left the dataloader is registered in the queue, was trained on
\* or was dropped as stale, exactly one of them, also after a crash: what
\* _save_checkpoint says of the prompts in flight.
PromptsConserved ==
    /\ DOMAIN tags \cup consumed \cup dropped = 1 .. (next_row - 1)
    /\ DOMAIN tags \cap (consumed \cup dropped) = {}
    /\ consumed \cap dropped = {}

\* A group that finished is trained on as a whole: its sessions put their
\* trajectories before the group's status says so, and the snapshot has them.
GroupsWhole ==
    [][\A r \in consumed' \ consumed :
        pc = "select" /\ tags[r].status = "finished" =>
            {r} \X Sessions \subseteq batch']_vars

\* Under the wait strategy a group still being generated spans at most
\* max_off_policy_threshold model versions.
UnfinishedSpanBounded ==
    conf.strategy = "wait" =>
        \A r \in Unfinished : Span(r) <= conf.threshold

\* Under the drop strategy no update uses a group that spans more versions than
\* the threshold, whatever happened between the snapshot and its use.
TrainedSpanBounded ==
    [][\A r \in consumed' \ consumed :
        conf.strategy = "drop" /\ pc = "select" =>
            Span(r) <= conf.threshold]_vars

\* A trajectory stays in the queue without its prompt only while it is in the
\* batch, when a sibling session raised, or when a checkpoint brought it back.
OrphansExplained ==
    \A k \in trajs :
        \/ k[1] \in DOMAIN tags \cup errors
        \/ k \in batch \cup leftover

\* Sampling and feeding keep in step, whatever is dropped and refilled: a step
\* starts and ends with the warm-up batches in flight, no fewer, and no more than
\* one warm-up for each start of the job, and adds one train batch to them.
InFlightBounded ==
    LET warm == conf.warmup * conf.batch
        inflight == Cardinality(DOMAIN tags)
    IN  /\ pc \in {"feed", "save", "clear"} => inflight \in warm .. (warm * (crashes + 1))
        /\ inflight <= warm * (crashes + 1) + conf.batch

\* Every training run comes to its end: no call of sample waits for ever.
TrainingEnds == <>(pc = "done")

================================================================================

------------------------------ MODULE FullyAsync ------------------------------
(* Fully asynchronous training: the FullyAsyncRollouter generates samples without  *)
(* end, the FullyAsyncTrainer trains on them, and a bounded MessageQueue lies      *)
(* between them. After Trigger batches the trainer publishes its weights and       *)
(* resets the rollouter's count of stale samples, on which the rollouter pauses.   *)
(*                                                                                 *)
(* The rollouter is one event loop: the feeder, the processor, the tasks, the      *)
(* monitor and the calls of the trainer interleave where they await, so an action  *)
(* is the code between two awaits that can suspend. Samples differ in nothing      *)
(* the control looks at and are counted; a message queue is the samples ahead of   *)
(* the finish signal and those behind it.                                          *)
EXTENDS Integers

CONSTANTS
    Total,          \* total_rollout_steps: samples of a whole training
    Required,       \* required_samples: samples of one batch
    Trigger,        \* trigger_parameter_sync_step: batches between two syncs
    MaxRequired,    \* max_required_samples, also the size of the message queue
    PendingSize,    \* maxsize of pending_queue
    Standalone,     \* samples the standalone replicas may process at a time
    Hybrid,         \* samples the hybrid replicas add; 0 without dynamic scheduling
    Wait,           \* deactivate_wait_samples of the scheduling policy
    SaveFreq,       \* save_freq
    TestFreq,       \* test_freq
    MaxRestarts     \* bound on the restarts after a crash

Step == Required * Trigger

ASSUME SizeAssumption ==
    /\ Total \in Nat /\ Required \in Nat \ {0} /\ Trigger \in Nat \ {0}
    /\ Step \in Nat /\ MaxRequired \in Nat /\ MaxRequired >= Step
    /\ PendingSize \in Nat \ {0}
    /\ Standalone \in Nat /\ Hybrid \in Nat /\ Standalone + Hybrid \in 1..MaxRequired
    /\ Wait \in Nat /\ SaveFreq \in Nat \ {0} /\ TestFreq \in Nat \ {0}
    /\ MaxRestarts \in Nat

VARIABLES
    \* the rollouter
    fed,        \* samples drawn from the dataset, over all restarts
    steps,      \* global_steps of the rollouter
    pending,    \* samples in pending_queue
    feeder,     \* "feed", "end" before the end signal is put, "done"
    proc,       \* where _processor_worker is
    asked,      \* whether _should_pause_generation was told of a full queue
    staleness,  \* staleness_samples
    paused,     \* paused; _resume_event is set when it is not
    lock,       \* who holds the lock across an await: "free", "proc", "reset"
    running,    \* active_tasks that generate
    finished,   \* active_tasks whose sample is put, not yet taken out of the set
    failed,     \* active_tasks that raised, not yet taken out
    monitor,    \* _async_monitor_loop: "idle", "asks" the queue, "resume" at the lock
    \* the message queue
    queue,      \* [ahead, signal, behind]; all are ahead without a signal
    \* the trainer
    trainer,    \* where fit is
    taken,      \* samples taken since the last reset_staleness
    version,    \* current_param_version
    hybrid,     \* is_hybrid_active
    last,       \* the sync after the loop of fit is under way
    seen,       \* len(active_tasks), read before the await in reset_staleness
    \* what survives a crash
    saved,      \* the latest checkpoint: its version and the dataset position
    restarts

feedVars == <<fed, steps, pending, feeder>>
procVars == <<proc, asked, staleness, paused>>
taskVars == <<running, finished, failed>>
trainVars == <<trainer, taken, version, hybrid, last, seen>>
vars == <<feedVars, procVars, lock, taskVars, monitor, queue, trainVars, saved, restarts>>

(* len(active_tasks) and max_concurrent_samples *)
Active == running + finished + failed
Capacity == Standalone + (IF hybrid THEN Hybrid ELSE 0)

(* The loop of the processor over a full set of no tasks has no await that         *)
(* suspends: once it is entered nothing else runs on the event loop.               *)
Alive == proc # "spin"

Held == IF proc \in {"held", "full"} THEN 1 ELSE 0

(* Whether the policy activates the hybrid replicas after a sync depends on its    *)
(* estimates of time; without standalone replicas it always does.                  *)
Activations ==
    IF Hybrid = 0 THEN {FALSE} ELSE IF Standalone = 0 THEN {TRUE} ELSE BOOLEAN

Empty == [ahead |-> 0, signal |-> FALSE, behind |-> 0]

(* The weights are synced once before fit. *)
Init ==
    /\ fed = 0 /\ steps = 1 /\ pending = 0 /\ feeder = "feed"
    /\ proc = "check" /\ asked = FALSE /\ staleness = 0 /\ paused = FALSE
    /\ lock = "free" /\ running = 0 /\ finished = 0 /\ failed = 0
    /\ monitor = "idle" /\ queue = Empty
    /\ trainer = "step" /\ taken = 0 /\ version = 0 /\ hybrid \in Activations
    /\ last = FALSE /\ seen = 0
    /\ saved = [version |-> 0, position |-> 0] /\ restarts = 0

-------------------------------------------------------------------------------
(* The deque of the MessageQueue, and put_sample, which removes the oldest entry   *)
(* of a full one.                                                                  *)
Size(q) == q.ahead + q.behind + (IF q.signal THEN 1 ELSE 0)

PopLeft(q) ==
    IF q.ahead > 0 THEN [q EXCEPT !.ahead = @ - 1]
    ELSE [ahead |-> q.behind, signal |-> FALSE, behind |-> 0]

Full(q) == Size(q) >= MaxRequired

Room(q) == IF Full(q) THEN PopLeft(q) ELSE q

PutSample(q) ==
    LET r == Room(q)
    IN  IF r.signal THEN [r EXCEPT !.behind = @ + 1] ELSE [r EXCEPT !.ahead = @ + 1]

PutSignal(q) == [Room(q) EXCEPT !.signal = TRUE]

(* _feed_samples draws a sample, puts it and counts it, and ends with a None. *)
Feed ==
    /\ Alive /\ feeder = "feed" /\ pending < PendingSize
    /\ fed' = fed + 1 /\ pending' = pending + 1
    /\ IF steps >= Total THEN feeder' = "end" /\ UNCHANGED steps
                         ELSE steps' = steps + 1 /\ UNCHANGED feeder
    /\ UNCHANGED <<procVars, lock, taskVars, monitor, queue, trainVars, saved, restarts>>

FeedEnd ==
    /\ Alive /\ feeder = "end" /\ pending < PendingSize
    /\ feeder' = "done"
    /\ UNCHANGED <<fed, steps, pending, procVars, lock, taskVars, monitor, queue,
                   trainVars, saved, restarts>>

Available == pending > 0 \/ feeder = "done"

-------------------------------------------------------------------------------
(* _should_pause_generation compares what the queue answered and the count. *)
ShouldPauseQueue(full) == full
ShouldPause(full) == full \/ staleness >= MaxRequired

(* The processor asks the queue for its size. *)
Check ==
    /\ proc = "check"
    /\ IF paused THEN proc' = "pausing" /\ UNCHANGED asked
                 ELSE proc' = "asked" /\ asked' = Full(queue)
    /\ UNCHANGED <<feedVars, staleness, paused, lock, taskVars, monitor, queue,
                   trainVars, saved, restarts>>

(* It pauses; when the lock is held, after reset_staleness has let it go. *)
PauseLater ==
    /\ proc = "asked" /\ ShouldPause(asked) /\ lock # "free"
    /\ proc' = "pausing" /\ asked' = FALSE
    /\ UNCHANGED <<feedVars, staleness, paused, lock, taskVars, monitor,
                   queue, trainVars, saved, restarts>>

Pause ==
    /\ proc = "pausing" \/ (proc = "asked" /\ ShouldPause(asked))
    /\ lock = "free"
    /\ paused' = TRUE /\ proc' = "drain" /\ asked' = FALSE
    /\ UNCHANGED <<feedVars, staleness, lock, taskVars, monitor, queue,
                   trainVars, saved, restarts>>

(* Tasks that ended are taken out of active_tasks and awaited, up to one that      *)
(* raised: that ends the processor.                                                *)
Drain ==
    /\ proc = "drain" /\ lock = "free"
    /\ \E n \in 0..finished, f \in {0, 1} :
          /\ n + f > 0 /\ f <= failed
          /\ finished' = finished - n /\ failed' = failed - f
          /\ proc' = IF f = 1 THEN "broken" ELSE "drain"
    /\ UNCHANGED <<feedVars, asked, staleness, paused, lock, running, monitor,
                   queue, trainVars, saved, restarts>>

Resume ==
    /\ proc = "drain" /\ ~paused
    /\ proc' = "check"
    /\ UNCHANGED <<feedVars, asked, staleness, paused, lock, taskVars, monitor,
                   queue, trainVars, saved, restarts>>

(* Without a pause it takes the next sample, which counts as stale from now on,    *)
(* and submits it at once when the lock is free and a replica is.                  *)
AwaitItem ==
    /\ proc = "asked" /\ ~ShouldPause(asked) /\ ~Available
    /\ proc' = "pull" /\ asked' = FALSE
    /\ UNCHANGED <<feedVars, staleness, paused, lock, taskVars, monitor,
                   queue, trainVars, saved, restarts>>

MaySubmit == lock = "free" /\ Active < Capacity

Pull ==
    /\ proc = "pull" \/ (proc = "asked" /\ ~ShouldPause(asked))
    /\ Available
    /\ staleness' = staleness + 1 /\ asked' = FALSE
    /\ IF pending = 0
       THEN proc' = "ending" /\ UNCHANGED <<pending, running>>
       ELSE /\ pending' = pending - 1
            /\ IF MaySubmit THEN proc' = "check" /\ running' = running + 1
                            ELSE proc' = "held" /\ UNCHANGED running
    /\ UNCHANGED <<fed, steps, feeder, paused, lock, finished, failed,
                   monitor, queue, trainVars, saved, restarts>>

Submit ==
    /\ proc = "held" /\ MaySubmit
    /\ proc' = "check" /\ running' = running + 1
    /\ UNCHANGED <<feedVars, asked, staleness, paused, lock, finished, failed,
                   monitor, queue, trainVars, saved, restarts>>

(* At the limit, and after the end signal, it waits for a task with the lock held. *)
AwaitTask ==
    /\ lock = "free"
    /\ \/ proc = "held" /\ Active >= Capacity
          /\ IF Active = 0 THEN proc' = "spin" /\ UNCHANGED lock
                           ELSE proc' = "full" /\ lock' = "proc"
       \/ proc = "ending" /\ Active > 0 /\ proc' = "last" /\ lock' = "proc"
    /\ UNCHANGED <<feedVars, asked, staleness, paused, taskVars, monitor, queue,
                   trainVars, saved, restarts>>

(* All tasks that ended by then are taken out. *)
TaskEnds ==
    /\ proc \in {"full", "last"} /\ finished + failed > 0
    /\ finished' = 0 /\ failed' = 0 /\ lock' = "free"
    /\ proc' = IF failed > 0 THEN "broken" ELSE IF proc = "full" THEN "held" ELSE "ending"
    /\ UNCHANGED <<feedVars, asked, staleness, paused, running, monitor, queue,
                   trainVars, saved, restarts>>

(* _streaming_generation_main cancels the feeder and sends the finish signal, also *)
(* when the processor raised.                                                      *)
FinishOnSuccess ==
    /\ proc = "broken" \/ (proc = "ending" /\ Active = 0)
    /\ proc' = "stop" /\ feeder' = "done"
    /\ queue' = IF proc = "ending" THEN PutSignal(queue) ELSE queue
    /\ UNCHANGED <<fed, steps, pending, asked, staleness, paused, lock, taskVars,
                   monitor, trainVars, saved, restarts>>

Finish ==
    /\ proc = "broken" \/ (proc = "ending" /\ Active = 0)
    /\ proc' = "stop" /\ feeder' = "done"
    /\ queue' = PutSignal(queue)
    /\ UNCHANGED <<fed, steps, pending, asked, staleness, paused, lock, taskVars,
                   monitor, trainVars, saved, restarts>>

-------------------------------------------------------------------------------
(* _process_single_sample_streaming: the sample is generated and put, or the task  *)
(* raises. Without a server the client keeps trying.                               *)
Generated ==
    /\ Alive /\ running > 0 /\ Capacity > 0
    /\ running' = running - 1 /\ finished' = finished + 1
    /\ queue' = PutSample(queue)
    /\ UNCHANGED <<feedVars, procVars, lock, failed, monitor, trainVars, saved, restarts>>

GenerationFails ==
    /\ Alive /\ running > 0 /\ Capacity > 0
    /\ running' = running - 1 /\ failed' = failed + 1
    /\ UNCHANGED <<feedVars, procVars, lock, finished, monitor, queue, trainVars, saved,
                   restarts>>

(* _async_monitor_loop resumes a rollouter that it saw paused and that, by the     *)
(* answer of the queue, need not pause.                                            *)
MonitorSees ==
    /\ Alive /\ monitor = "idle" /\ proc # "stop" /\ paused
    /\ monitor' = "asks"
    /\ UNCHANGED <<feedVars, procVars, lock, taskVars, queue, trainVars, saved, restarts>>

MonitorOnlyLogs ==
    /\ Alive /\ monitor = "asks" /\ monitor' = "idle"
    /\ UNCHANGED <<feedVars, procVars, lock, taskVars, queue, trainVars, saved, restarts>>

MonitorDecides ==
    /\ Alive /\ monitor = "asks"
    /\ monitor' = IF ShouldPause(Full(queue)) THEN "idle" ELSE "resume"
    /\ UNCHANGED <<feedVars, procVars, lock, taskVars, queue, trainVars, saved, restarts>>

MonitorResumes ==
    /\ Alive /\ monitor = "resume" /\ lock = "free"
    /\ monitor' = "idle" /\ paused' = FALSE
    /\ UNCHANGED <<feedVars, proc, asked, staleness, lock, taskVars, queue, trainVars,
                   saved, restarts>>

-------------------------------------------------------------------------------
(* fit_step: active hybrid replicas are deactivated before anything else, once     *)
(* wait_for_enough_samples has seen enough entries in the queue.                   *)
Begin ==
    /\ trainer = "step"
    /\ trainer' = IF hybrid THEN "enough" ELSE "collect"
    /\ UNCHANGED <<feedVars, procVars, lock, taskVars, monitor, queue, taken, version,
                   hybrid, last, seen, saved, restarts>>

Deactivate ==
    /\ Alive /\ trainer = "enough" /\ Size(queue) >= Wait
    /\ trainer' = "collect" /\ hybrid' = FALSE
    /\ UNCHANGED <<feedVars, procVars, lock, taskVars, monitor, queue, taken, version,
                   last, seen, saved, restarts>>

(* _get_samples_from_queue collects a batch, or gives up on the finish signal. *)
Take ==
    /\ trainer = "collect" /\ queue.ahead > 0
    /\ queue' = PopLeft(queue) /\ taken' = taken + 1
    /\ trainer' = IF taken' % Required = 0 THEN "train" ELSE "collect"
    /\ UNCHANGED <<feedVars, procVars, lock, taskVars, monitor, version, hybrid, last,
                   seen, saved, restarts>>

TakeEnd ==
    /\ trainer = "collect" /\ queue.ahead = 0 /\ queue.signal
    /\ queue' = PopLeft(queue)
    /\ trainer' = "stopping"
    /\ UNCHANGED <<feedVars, procVars, lock, taskVars, monitor, taken, version, hybrid,
                   last, seen, saved, restarts>>

(* The update, _fit_update_local_step, and _fit_update_weights up to its reset. *)
Train ==
    /\ trainer = "train"
    /\ IF taken = Step THEN version' = version + 1 /\ trainer' = "sync"
                       ELSE trainer' = "save" /\ UNCHANGED version
    /\ UNCHANGED <<feedVars, procVars, lock, taskVars, monitor, queue, taken, hybrid,
                   last, seen, saved, restarts>>

Sync ==
    /\ trainer = "sync" /\ trainer' = "reset"
    /\ \E a \in Activations : (a => Alive) /\ hybrid' = a
    /\ UNCHANGED <<feedVars, procVars, lock, taskVars, monitor, queue, taken, version,
                   last, seen, saved, restarts>>

(* reset_staleness holds the lock while it asks the queue for its size. *)
ResetBegins ==
    /\ Alive /\ trainer = "reset" /\ lock = "free"
    /\ trainer' = "resetting" /\ lock' = "reset"
    /\ paused' = FALSE /\ seen' = Active
    /\ UNCHANGED <<feedVars, proc, asked, staleness, taskVars, monitor, queue, taken,
                   version, hybrid, last, saved, restarts>>

ResetTo == seen + Size(queue)

ResetEnds ==
    /\ Alive /\ trainer = "resetting"
    /\ trainer' = IF last THEN "final" ELSE "save"
    /\ lock' = "free" /\ staleness' = ResetTo /\ taken' = 0 /\ seen' = 0
    /\ UNCHANGED <<feedVars, proc, asked, paused, taskVars, monitor, queue,
                   version, hybrid, last, saved, restarts>>

(* The state of the dataset is ahead of the samples fed by the one that a feeder   *)
(* waiting for room has drawn.                                                     *)
CheckpointNoData == saved' = [version |-> version, position |-> 0]
Checkpoint ==
    saved' = [version |-> version,
              position |-> fed + (IF feeder = "feed" /\ pending = PendingSize
                                  THEN 1 ELSE 0)]

(* _fit_save_checkpoint saves a version that is not saved at its frequency, or     *)
(* when the machine is to expire, then also between two syncs.                     *)
Save ==
    /\ Alive /\ trainer = "save" /\ trainer' = "step"
    /\ \/ version # saved.version /\ Checkpoint
       \/ (version = saved.version \/ version % SaveFreq # 0) /\ UNCHANGED saved
    /\ UNCHANGED <<feedVars, procVars, lock, taskVars, monitor, queue, taken, version,
                   hybrid, last, seen, restarts>>

(* After the loop of fit the weights are synced, unless they just were tested or   *)
(* batches were trained since the last sync, and saved if they are not.            *)
Stopping ==
    /\ trainer = "stopping"
    /\ IF version % TestFreq # 0 /\ taken < Required
       THEN trainer' = "sync" /\ last' = TRUE
       ELSE trainer' = "final" /\ UNCHANGED last
    /\ UNCHANGED <<feedVars, procVars, lock, taskVars, monitor, queue, taken, version,
                   hybrid, seen, saved, restarts>>

Final ==
    /\ Alive /\ trainer = "final" /\ trainer' = "stopped"
    /\ IF version # saved.version THEN Checkpoint ELSE UNCHANGED saved
    /\ UNCHANGED <<feedVars, procVars, lock, taskVars, monitor, queue, taken, version,
                   hybrid, last, seen, restarts>>

-------------------------------------------------------------------------------
(* All processes end, by a crash or at their end, and training is started again    *)
(* from the latest checkpoint.                                                     *)
RestoredSteps == saved.version * Step + 1

Restart ==
    /\ restarts < MaxRestarts /\ restarts' = restarts + 1
    /\ fed' = saved.position /\ steps' = RestoredSteps
    /\ pending' = 0 /\ feeder' = "feed"
    /\ proc' = "check" /\ asked' = FALSE /\ staleness' = 0 /\ paused' = FALSE
    /\ lock' = "free" /\ running' = 0 /\ finished' = 0 /\ failed' = 0
    /\ monitor' = "idle" /\ queue' = Empty
    /\ trainer' = "step" /\ taken' = 0 /\ version' = saved.version
    /\ hybrid' \in Activations /\ last' = FALSE /\ seen' = 0
    /\ UNCHANGED saved

Terminated == trainer = "stopped" /\ proc = "stop" /\ UNCHANGED vars

Feeding == Feed \/ FeedEnd
Processing ==
    \/ Check \/ PauseLater \/ Pause \/ Drain \/ Resume \/ AwaitItem \/ Pull \/ Submit
    \/ AwaitTask \/ TaskEnds \/ Finish
Generating == Generated \/ GenerationFails
Monitoring == MonitorSees \/ MonitorDecides \/ MonitorResumes
Training ==
    \/ Begin \/ Deactivate \/ Take \/ TakeEnd \/ Train \/ Sync \/ ResetBegins \/ ResetEnds
    \/ Save \/ Stopping \/ Final

Next == Feeding \/ Processing \/ Generating \/ Monitoring \/ Training \/ Restart \/ Terminated

(* The event loops run, and every generation ends or fails. *)
Fairness ==
    /\ WF_vars(Feeding) /\ WF_vars(Processing) /\ WF_vars(Generating)
    /\ WF_vars(Monitoring) /\ WF_vars(Training)

Spec == Init /\ [][Next]_vars /\ Fairness

-------------------------------------------------------------------------------
ProcStates == {"check", "asked", "pausing", "drain", "pull", "held", "full", "ending",
               "last", "broken", "spin", "stop"}
TrainerStates == {"step", "enough", "collect", "train", "sync", "reset", "resetting",
                  "save", "stopping", "final", "stopped"}

(* The variables keep their types. *)
TypeOK ==
    /\ fed \in Nat /\ steps \in Nat /\ pending \in 0..PendingSize
    /\ feeder \in {"feed", "end", "done"}
    /\ proc \in ProcStates /\ asked \in BOOLEAN /\ staleness \in Nat
    /\ paused \in BOOLEAN /\ lock \in {"free", "proc", "reset"}
    /\ running \in Nat /\ finished \in Nat /\ failed \in Nat
    /\ monitor \in {"idle", "asks", "resume"}
    /\ queue \in [ahead : Nat, signal : BOOLEAN, behind : Nat]
    /\ trainer \in TrainerStates /\ taken \in Nat /\ version \in Nat
    /\ hybrid \in BOOLEAN /\ last \in BOOLEAN /\ seen \in Nat
    /\ saved \in [version : Nat, position : Nat] /\ restarts \in 0..MaxRestarts

(* The samples under way: generated, held by the processor, or queued. *)
Open == running + Held + queue.ahead + queue.behind

(* The samples under way and those the trainer took since the last reset exceed    *)
(* max_required_samples by one at most: the one the processor holds while          *)
(* reset_staleness counts, or takes after it asked.                                *)
AdmissionBounded == Open + taken <= MaxRequired + 1

(* So of the samples trained with one version of the weights, those admitted       *)
(* before it exceed what staleness_threshold allows by one at most.                *)
StaleBounded ==
    [][trainer = "resetting" /\ ~last /\ trainer' # trainer
         => restarts' # restarts \/ Open <= MaxRequired - Step + 1]_vars

(* The rollouter, its queue and the trainer implement the budget of stale samples: *)
(* a race costs one sample more than max_required_samples, never two.              *)
Abstract == INSTANCE StalenessBudget WITH
    Budget <- MaxRequired + 1,
    open <- Open,
    used <- IF last THEN 0 ELSE taken,
    phase <- IF trainer \in {"sync", "reset", "resetting"} /\ ~last THEN "published" ELSE "use",
    closed <- proc = "stop",
    kept <- saved.version
Implements == Abstract!Spec

(* The finish signal is never the entry that a full queue drops for a late sample: *)
(* it stays in the queue until the trainer takes it.                               *)
SignalKept ==
    proc = "stop" /\ trainer \notin {"stopping", "final", "stopped"} /\ ~last => queue.signal

(* The position of the dataset in a checkpoint is behind every sample that its     *)
(* weights were trained on, so a resumed training draws none of them again.        *)
DrawnOnce == saved.position >= saved.version * Step

(* However often it is resumed, training goes no further than it was planned:      *)
(* the feeder that resumes a finished one feeds one sample more, which makes no    *)
(* step of more than one sample. (With steps of one sample a finished training     *)
(* trains one step more each time it is resumed.)                                  *)
ResumedOnce == DrawnOnce /\ version * Step <= Total

(* Training comes to its end, also when a generation fails. *)
TrainingEnds == <>[](trainer = "stopped" /\ proc = "stop")

(* The finish signal stops the trainer. *)
FinishSignalStops == proc = "stop" ~> trainer = "stopped" \/ proc # "stop"
================================================================================

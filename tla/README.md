# A TLA+ model of the clawloop training and evaluation loop

clawloop trains and evaluates tool-using agents. The repository holds a recipe
(`src/verl/nanoclaw_recipe`) and the copy of verl that it drives (`src/verl/verl`). A rollout
alternates model turns with tool calls in a workspace of its own, a verifier scores the final
workspace, and a PPO/GRPO trainer updates the model from the scored token sequences. A separate batch
runtime evaluates a model on the same tasks.

The project models the parts that decide *which tokens are trained on, with which reward, and that
nothing gets lost on the way*: the rollout state machine and its masks, the trainer's masking by
advantage, the detector of looping replies, the queues between rollouts and trainer with their checkpoints
(that of the V1 trainers and that of fully asynchronous training), the routing of model calls, the
workspaces and rewards, and the batch runtime.

## Inventory

| Component | State | Operations | Interacts with | What is hard | What makes it correct |
|---|---|---|---|---|---|
| Tool agent loop (`tool_agent_loop.py`) | token list, response mask, turn counters, trajectory events, termination reason | `run`, `_handle_pending/generating/processing_tools_state` | LLM client, workspace tools, bad-turn detection | two token budgets and two turn limits checked at both ends of a turn; positions derived from a growing list | spans of turns never overlap, budgets hold, the mask selects model tokens only, the stated reason is the true one |
| Bad-turn detection (`nanoclaw_support.py`) | recorded spans, metrics | record a span, mask a turn, `nanoclaw_apply_posthoc_turn_masks` | reads the trajectory events, writes the mask | a turn bad for several reasons; switches; deferral to the trainer | exactly the bad turns are recorded, masked tokens counted once |
| Advantage-aware masking (`ray_trainer.py`) | response mask of a batch row | `apply_nanoclaw_positive_advantage_bad_turn_mask` | reads the spans of the rollout after the advantages exist | merges spans, re-applies switches, clips to the tensor | clears exactly the enabled bad turns with positive advantage |
| Looping-response detector (`nanoclaw_support.py`, copied in `nanoclaw.py` for the reward) | none between calls | `nanoclaw_looping_response_repeat_count` and its four helpers | called for every turn of a rollout and by the reward | three separators and two nested scans with jumps; limits on characters, tokens and repetitions | what is reported repeats itself, what repeats often enough is reported, the count is the true one |
| Replay buffer and V1 training loop (`replay_buffer.py`, `agent_loop_tq.py`, `trainer_base.py`) | prompt tags, trajectories, dataloader position, checkpoint, global step | feed, poll, drop, refill, select, train, save, clear; start, put, finish or fail a group; crash, resume | workers put into TransferQueue, the trainer samples from it | concurrent groups, snapshots, stale data, crash between any two steps | prompts conserved, groups whole, staleness bounded, training ends |
| Load balancer and LLM client (`llm_server.py`, `trainer_separate_async.py`) | sticky LRU cache, in-flight counts, registered servers, tokens generated per call | acquire, release, issue, abort, retry; remove, pause, sleep, resume, add servers | agent loops call it, the trainer reconfigures it | calls in flight while servers come and go | no phantom load, sticky routing, calls return within their limit |
| Fully asynchronous training (`fully_async_rollouter.py`, `fully_async_trainer.py`, `message_queue.py`, `dynamic_schedule/`) | samples pending, running and queued, `staleness_samples`, `paused`, the lock, versions, checkpoint | feed, pause, resume, submit, put, drop the oldest, monitor; collect, train, sync, reset the staleness, save, stop, resume after a crash; activate and deactivate hybrid replicas | the trainer takes samples from the message queue and calls the rollouter between versions | coroutines of one event loop that decide on answers older than their lock; a bounded queue; a finish signal behind late samples | staleness stays within its budget, the signal arrives, no sample is trained on twice, training ends |
| Workspace tools and reward (`nanoclaw.py`) | result directories, setup state, score files | choose, make and build a directory, tool calls, `compute_score` with its cleanup | agent loop, reward workers, verifier processes | processes race for directory names; failures at every step; deaths | every rollout is judged on its own work; directories are reclaimed |
| Batch runtime (`runtime/runner.py`, `runtime/cli.py`) | states in memory, finalized ids, futures, result directories | prepare, batch, finalize, collect, drain, `run_task`, restart | verifier threads | threads, a window, restart over old directories | each sample reported once, what is reported is on disk, the loop ends |

Parts that are not modelled are listed at the end and, with reasons, in `PROJECT.json`.

## Modules

| Module | Models | Composes |
|---|---|---|
| `AgentLoop` | one rollout of `ToolAgentLoop.run` with the rollout side of the masking | |
| `PosthocMask` | the three loops of `nanoclaw_apply_posthoc_turn_masks`, as folds that thread the mask, the spans and the metrics | extends `AgentLoop`, whose set definitions it checks |
| `AdvantageMask` | the trainer's masking of the row | extends `AgentLoop`: rollout, then training |
| `LoopDetector` | the looping-response detector, one step per iteration of its loops | its result is the input `loops` of `AgentLoop` |
| `ReplayBuffer` | fit loop, groups and sessions, sampling, checkpoints and crashes | |
| `StalenessBudget` | what asynchronous training promises about stale samples | |
| `FullyAsync` | rollouter, message queue and trainer of fully asynchronous training | implements `StalenessBudget` |
| `LoadBalancer` | balancer, client calls, trainer's reconfiguration | |
| `Workspace` | directories and rewards of concurrent rollouts | |
| `BatchRunner` | the batch runtime, its sequential loop and its restarts | |
| `AgentLoopProofs`, `AdvantageMaskProofs`, `LoopDetectorProofs`, `ReplayBufferProofs`, `FullyAsyncProofs`, `LoadBalancerProofs`, `WorkspaceProofs`, `BatchRunnerProofs` | theorems and proofs | extend the modules they are about |
| `MC*` | constants, configurations and symmetry for TLC (`LoadBalancer`, `FullyAsync` and `BatchRunner`, whose constants a configuration can give, are run directly) | extend the modules; `MCAgentLoop` joins `PosthocMask` and `AdvantageMask` |

Names follow the source (`HandleGenerating` is `_handle_generating_state`, `Return` is
`log_reward_result`, `Submitted` is `submit_finalize`, and so on); `PROJECT.json` maps every definition
to its lines. Definitions next to a mapped one with a similar name (`MaxTokensAssistantOnly` before
`MaxTokens`) are plausible mistakes in it; each property of a passing run is violated when one of
them takes the place of the original.

### State and atomicity

* **AgentLoop.** A token is its position; the response is `0..len-1`, `active` the positions with mask
  1. The coroutine of a rollout is alone with its data, so one handler is one action. What the model
  answers (length, number of parsed calls, whether the text loops), what tools return and how long
  their rendering is are chosen from small sets; the switches and limits are chosen in `Init`.
* **AdvantageMask** adds the set of positions with positive advantage, chosen freely: the property
  must hold whatever the rewards were.
* **ReplayBuffer.** A prompt is the row at which it left the dataloader. Polling, dropping, selecting,
  training, saving and clearing are separate steps of the trainer because the workers run between
  them; the snapshot taken while polling is a variable. A crash throws away everything but the
  checkpoint and what TransferQueue saved with it.
* **LoopDetector.** A text is a sequence of words and separators, each with a width; chunks, tokens and
  units are places in it. A separator tried, a chunk counted or passed over, a start of the token scan and
  each repetition of a run are steps, in the order of the code. Normalisation is the predicate that
  characterises what `normalized_loop_text` returns.
* **FullyAsync.** Samples differ in nothing the control looks at, so the pending queue, the tasks and the
  message queue are counts; the queue keeps where the finish signal is. The rollouter is one event loop:
  an action is the code between two awaits that can suspend. What `reset_staleness` and
  `_should_pause_generation` were told before they take the lock is kept in variables (`seen`, `asked`),
  because it may be old when it is used. A crash keeps the checkpoint only. When the policy activates the
  hybrid replicas depends on its estimates of time and is left open.
* **LoadBalancer.** The balancer is one Ray actor, so its calls are atomic; an issued call and its
  arrival at the server are two steps, between which the trainer may remove and pause that server. The
  LRU cache is a map from conversations to servers and to ages: the age of a key is the number of keys
  used after it, so that a key falls out when its age reaches the size of the cache.
* **Workspace.** Checking for a directory, making it, building it, verifying and reading the score are
  separate steps of processes that share a file system. Of a workspace's files the model keeps how many
  calls were made in it and its `workplace_score.json`: who left it, by a tool call or as a verifier, and
  its score. A tool call may write or remove one; `run_verifier` does not clear it, and reads whatever is
  there after the verifier has ended, failed or been killed. A verifier may also raise. How often a
  conversation repeats a call or a text is left open, so a reward is one of a set.
* **BatchRunner.** The main thread and the pool share only futures. A state object has an address
  (`id(state)`), free again when no list, future or loop variable refers to it; the model lets the
  allocator choose any free one. Every start of the process may use batches or the sequential loop, where
  nothing is concurrent and a sample is one step.

## Runs

Each run finishes within two and a half minutes with two to four workers. Type invariants are theorems, and are not
checked again.

| Run | States | Checks | Shows |
|---|---|---|---|
| `agent_loop` | 765 582 | `TurnsSeparated`, `BudgetsRespected`, `MaskSelectsModelTokens`, `MaskedTokensAccounted`, `ReasonTruthful`, `BadTurnsRecorded`, `PosthocLoopsAgree`, `TrainedMaskExact`, `CandidatesIndependentOfSwitches`, `TokensConserved`, `RolloutReturns` | the rollout under every combination of limits and switches; the loops of the code compute the sets that `AgentLoop` uses; the trainer clears exactly the right tokens for every set of positive advantages |
| `loop_detector` | 359 992 | `DetectionSound`, `DetectionComplete`, `CountAccurate` | every text of the bounds, thresholds 2 and 3: what is found repeats itself, what repeats once more than required (or twice, for a threshold of 2) is found, and the count is that of the repeating chunks or of the longest run but one |
| `replay_crash` | 458 890 | `PromptsConserved`, `OrphansExplained`, `InFlightBounded`, `GroupsWhole` | sync and async modes with failing sessions and a crash anywhere |
| `replay_stale` | 64 563 | `UnfinishedSpanBounded`, `TrainedSpanBounded`, `TrainingEnds` | both off-policy strategies over three steps |
| `fully_async` | 492 510 | `SignalKept`, `ResumedOnce`, `Implements`, `TrainingEnds` | three versions of two batches with failing generations and a restart: the staleness budget is implemented, and training ends |
| `balancer` | 403 837 | `NoPhantomLoad`, `CallWithinLimit`, `StickyRouting`, `CallsReturn` | servers removed and added under conversations whose calls are aborted and issued again or raise, with a validation after each step |
| `workspaces` | 4 399 538 | `WorkspaceIsolated`, `WorkVerified`, `ScoreOrigin`, `Reclaimed`, `RewardsLost` | two rollouts of equal or different names, all options of the reward; score files left by calls, by verifiers or by nobody; verifiers that raise |
| `batch_runner` | 1 007 426 | `SamplesAccounted`, `ReportMatchesDisk`, `FinalizerOwns`, `WindowRespected`, `ResultsKept`, `RunEnds` | four samples through a window of two or one after the other, with a restart; the main loop neither blocks nor spins |

Four further runs (`output_alignment`, `balancer_no_validation`, `reused_state_id`, `finish_signal`) each
end in a violation; they are the findings below.

### Bounds and why they are enough

* AgentLoop: a response of 5 tokens holds two full turns with tool tokens between them and a third
  that is cut; limits of 0 (none), 1 and 2 turns and assistant budgets below and at the response length
  make each limit the first one to bind; two parallel calls give duplicates within and across turns. All
  subsets of positions are tried as positive advantages.
* LoopDetector: all texts of five symbols with any separators, all lists of four words with a separator
  after each, and all texts of up to nine words. Two words are as wide as the limit of characters and one is
  narrower, so that units of one, two and three words can be the first that is long enough; nine words hold
  a unit of two four times and one of three three times, at shifted starts.
* ReplayBuffer: groups of two sessions, so that one may fail while the other runs; two or three
  training steps, which reach a threshold of 1 or 2 versions; one crash; one failing group. `MaxRow`
  never limits a behaviour within these.
* FullyAsync: two batches to a version and a queue of two versions, so that samples of one version are
  trained in the next; a pending queue of one, which makes the feeder wait; one task on the standalone
  replica and one on the hybrid one; a checkpoint and a validation every other version; one restart of all
  processes. A larger instance (`Total = 7`, two samples to a batch, one batch to a version) shows
  that the one sample more than `max_required_samples` of the budget is really reached, and one with
  `Total = 8` that an ordinary sample can make the queue drop its oldest one.
* LoadBalancer: one server that stays and one that comes and goes; two conversations against a cache of
  one force an eviction, and the theorem covers every other size; a call of three tokens can be aborted
  after each.
* Workspace: two rollouts are enough for every race over a name, and one suffix digit makes
  the second collision of reward directories happen. The switches that change each other's effect are
  combined (`MCWorkspace!Options`): a verifier that writes into its own directory with binary scores,
  required final answers and no reward directories; strict directories with kept failures, raw scores and
  penalties of positive scores only; no cleanup. `MaxRepeats = 0` in the run, as no property looks at the size of a penalty; the
  theorems hold for every bound.
* BatchRunner: with four samples and a window of two the first freed address can be given to the
  fourth; two steps allow a sample to outlive its batch.

Symmetry is used over sessions, rollouts and names, only in runs without liveness
properties. Addresses need none: they are numbered in the order of their first use.

### Fairness

Only weak fairness is assumed, of steps that the code takes by itself: the coroutine of a rollout, the
training loop, worker tasks (model calls end by themselves and tools and verifiers have time limits),
the balancer's calls, the main loop of the batch runtime, and in fully asynchronous training the feeder,
the processor, the monitor, the generations (which end or raise) and the trainer's loop. Crashes, kills, failing sessions, aborts and
restarts are never forced, and are bounded by constants. `CallsReturn` needs the trainer to run
on: it is the trainer that resumes paused servers. `TrainingEnds` of `FullyAsync` needs the monitor: the
processor may pause on an answer that a reset has overtaken, and only the monitor's next look wakes it (the
mutant of this property is a monitor that only logs). `RunEnds` assumes that the environment builders return: `run_env_builder`
has no time limit (`runner.py:528-535`), and one that hangs holds up the main loop for ever. An exception of the
engine (`Raises`) may come but is never waited for. `Workspace` states no fairness and no liveness. The runs of modules whose processes end say
`CHECK_DEADLOCK FALSE`, or have an explicit final step.

## Proofs

Proved with TLAPS for every value of the constants that satisfies the modules' assumptions:

* **AgentLoopProofs.** `LoopInv` conjoins the type invariant, `TurnsSeparated`, `BudgetsRespected`,
  `TurnsAlternate`, `MaskSelectsModelTokens`, `MaskedTokensAccounted` and `ReasonTruthful` with
  `LoopFacts`. The latter says what each state knows: in `generating` every earlier turn ends strictly
  before the current length (tool tokens were appended), in `processing_tools` no budget is spent and a
  call is outstanding. Without it none of the others is inductive: that a turn begins only within
  budget is decided at the end of the turn before. `HistoryKept` follows from the same steps.
* **AdvantageMaskProofs.** `RecordsCorrect`: the spans are exactly the bad turns, as a second invariant
  over `LoopInv` (bad turns of the past stay bad as the trajectory grows). `TrainedMaskCorrect`: for
  every set of positive advantages the trainer's mask is the rollout's mask without the positive tokens
  of enabled bad turns; it uses that merged span keys and turns correspond, which needs
  `TurnsSeparated`. `TokensCorrect`: what is trained on, what the trainer cleared and what the rollout
  had cleared add up to the model's tokens: a trainer step splits the mask it is given
  (`TrainerSplits`), and the mask and `masked_tokens` of the rollout are its tokens.
  `CandidatesCorrect`: the trainer recovers the candidate turns from the spans alone. A span recorded
  after an enabled reason has already cleared its turn counts no token, so the proof needs `CountsRight`:
  a recorded turn has its whole span in the mask, or another record of it counted the whole span. The sum
  over the merged spans (`MapThenSumSet`) is the size of their union because the spans of different turns
  share no token. `PosthocCorrect`: the three loops of `nanoclaw_apply_posthoc_turn_masks`, event after
  event, leave what `AgentLoop` states with sets: `MaskTurnMarks` says what masking one turn does to an
  accumulator that holds given marks (`Held`), and `HeldAfter` carries it over any number of events.
* **ReplayBufferProofs.** `TypeCorrect`; `FlightCorrect`, from an account of what is due: between feeding
  and the last update of a step, the prompts in flight exceed the warm-up by what the updates still to come
  will take (`FlightInv`); `PromptsCorrect` in every mode, from a copy of the conservation law for the
  checkpointed state (the synchronous mode saves no queue, and by `FlightInv` has nothing in flight when it
  saves); `OrphansCorrect`, from the invariant that a session in progress belongs to a group that is being
  generated or has failed, and that a poll which chose a group chose all its trajectories or the group had
  failed; `GroupsCorrect`, from the invariant that a session
  of a registered group is running, has put its trajectory or belongs to a failed group, in the queue
  and in the snapshot alike; `UnfinishedSpanCorrect` and `TrainedSpanCorrect`, from what polling has
  established at each later point of the step.
* **LoopDetectorProofs.** `DetectionCorrect`: for any text and any bounds a reported turn repeats itself.
  The invariant says what a step of the scans has established: the chunks counted so far contain a
  repeated one when `extra` is positive, a run of `run` equal units begins at `start`, and `best` is the
  repetitions of some run. `CompleteCorrect` and `CountCorrect` are the converse, that nothing escapes the
  scan and the count is right. Their invariant (`CompleteInv`) says what is behind the scan: all units
  shorter than `unit` are done at every start, and of this unit all starts before `start`, except for
  those less than a unit before it when a run has just been skipped; such a run goes on through `start`,
  where the scan sees all of it but for one occurrence. `extra` is the number of chunks counted before
  `chunk`. Two lemmas about texts carry the proof: equal units in a row are a sequence with the unit's
  length as period, and the characters of a stretch of text are a difference of prefix sums, so that a
  unit with its separators has at least the characters the code counts. The latter rests on the
  assumption that a separator has a positive width: they are `"\n"`, `"\n\n"` and the like.
* **FullyAsyncProofs.** `Refinement`: `FullyAsync` implements `StalenessBudget` under the mapping that
  counts running, held and queued samples as open, those the trainer took since the last reset as used, and
  a version as published until `reset_staleness` returns. The invariant relates `staleness`, which the
  code computes, to what is really open (`Counted`): between the answer of the queue and the assignment
  exactly one sample can be missed, the one the processor holds. Hence the budget of
  `max_required_samples + 1`. `FinishSignalSafe`, `AdmissionSafe`, `StaleSafe`, `DrawnSafe` and
  `TypeCorrect` follow from the same invariant; that the signal is never dropped needs that the tasks which
  outlive a broken processor and the samples behind the signal are together fewer than the queue holds.
  `ResumedSafe`: a resumed training goes no further than its plan. The work done and under way never exceeds
  what was fed, and that is at most `Total` or, once a feeder has been resumed at its end, one sample more
  than a number of whole steps within `Total` (`Planned`): no whole step if `Step > 1`. The assumption is needed: with `Step = 1` TLC finds that
  training resumed after its end trains one step more. `BeyondPlan` bounds this for every `Step`, by one
  sample for each restart.
* **LoadBalancerProofs.** `LoadCorrect`: a count never exceeds the calls that hold the server, and is
  exact for a server that is never removed, for any number of servers and calls; the invariant adds
  that a call holds a server exactly between its acquire and its release. `LimitCorrect`: however often
  a call is aborted, what it returns is finished or the exception of its last request, and within
  `max_tokens`. `StickyCorrect`: for every number
  of conversations and every size of the cache. Its invariant (`CacheInv`) orders the cache: what was used
  after a key that is in it is in it too and younger, so a key's age is at most the number of conversations
  since, and one that fell out was followed by as many as the cache holds. `TypeCorrect` includes the bound
  on the cache, because ages are distinct.
* **BatchRunnerProofs.** Every request is unprepared, kept, or reported once (`PlaceInv`); a finalizer
  belongs to a kept sample that has ended (`FutureInv`); kept states have different addresses, and an ended
  one without a finalizer has the address of an earlier one (`AddressInv`); a directory of a kept sample
  says "started" until its finalizer is done (`DiskInv`). From these: `AccountingCorrect` (nothing but a
  reused address loses a sample), `ReportCorrect`, `OwnershipCorrect`, `WindowCorrect`, `ResultsCorrect`
  and `TypeCorrect`, for any number of samples, any window and batch size and any restarts.
* **WorkspaceProofs.** `IInv` adds to the properties that every directory a rollout made is the one it
  holds, is stranded by a failed preparation, was left by a death or a raising verifier, or was kept for a
  reason (`HeldInv`); that the number of changes in it is the number of its calls (`WorkInv`); that every
  call was a turn of a state that the tools made (`CountInv`); that a score file in it is its maker's, and
  that what a verifier wrote is still there when it is read (`ScoreInv`); and that it bears its maker's name
  (`NameInv`). It gives `TypeCorrect`, `IsolationCorrect`, `WorkCorrect`, `ReclaimCorrect`, `ScoreCorrect`,
  for verifiers that write into the workspace or into their own directory, and `LostCorrect`: a rollout
  that did work loses its reward by nothing but an exception in its verifier's run.

Folds and the recursive function that adds up characters are reasoned about by induction without the
library's induction theorems, which take an operator as a parameter: a set of numbers that has 0, and with
each number the next, has all of them, since the rest would have a least one (`NatSetInduction`, from
`NatLessThanWellFounded` and `WFMin` of `WellFoundedInduction`).

Every invariant, action property and refinement that a passing run checks is a theorem (`ResumedOnce` for
steps of more than one sample). Only model-checked: the liveness properties `RolloutReturns`, `TrainingEnds`,
`CallsReturn` and `RunEnds`, since the prover treats neither fairness nor `ENABLED`.

## Findings

* `OutputAligned`: a rollout whose first model call returns no token returns its whole prompt as the
  response, with an empty mask.
* `CallsReturn` without validation: a call that arrives at a paused hybrid server is stranded when no
  later step resumes it.
* `FinishSignalStops`: with hybrid replicas only, the trainer waits for a batch of samples in front of the
  finish signal after the last version, and never stops (`fully_async_rollouter.py:1377`).
* `SamplesReported`: a reused `id(state)` makes the batch runtime forget a sample, which is then neither
  verified nor counted. `SamplesAccounted` shows that nothing else loses one.

Where the code falls short of what one may expect, but a property states what does hold:

* a group is marked `failure` while sibling sessions still run (`agent_loop_tq.py:132`), so a
  trajectory may be put for a prompt that is already cleared: the second case of `OrphansExplained`;
* the repetitions of different chunks are added up (`nanoclaw_support.py:382`): with a threshold of 3, two
  words twice each on lines of their own are reported though neither occurs three times;
* the token scan goes on behind the run it found (`nanoclaw_support.py:426`): with a threshold of 3 the text
  `v w v w x w x w x` is not reported, because the three `w x` begin inside the two `v w`.
  `DetectionComplete` promises detection from one occurrence more than required;
* more samples than `max_required_samples` are under way when `reset_staleness` counts before the
  processor submits the sample it holds (`fully_async_rollouter.py:605`), so the bound on stale samples in
  `docs/advance/fully_async.md:127` is exceeded by one: the budget of `Implements` has that one more;
* the processor may pause after a reset has told it to go on (`fully_async_rollouter.py:912`), and then stays
  paused until the monitor looks;
* adding a server back sets its count to 0 while calls still hold it (`llm_server.py:131`):
  `NoPhantomLoad` is exact only for servers that stay;
* a rollout without a workspace is scored on one made for the reward, whose state knows of no turns
  (`nanoclaw.py:2320`), so the penalties for its turns are lost: `WorkVerified` shows that this only happens
  to rollouts that dispatched no tool call;
* rollouts of one task whose verifier writes its score into its working directory may read each other's
  score (`nanoclaw.py:1643`): the first case of `ScoreOrigin`;
* a score file that a tool call left in the workspace is taken for the verdict when the verifier writes none,
  also when it failed or ran out of time (`nanoclaw.py:1641`): `ScoreOrigin` says that it never replaces one
  that the verifier wrote there;
* a directory left by a preparation that broke, or the directory of another rollout of the same name, may take
  both names a reward directory can have, and the rollout then ends without a reward
  (`nanoclaw.py:337`): the second case of `RewardsLost`;
* `--resume` reports the samples that an interrupted run had begun as failed, with a message that asks
  for `--resume` (`runner.py:135`): `ResultsKept` only says that nothing is lost;
* samples that wait for their verifier are not counted by the prepare window (`runner.py:252`):
  `WindowRespected` bounds the running ones only;
* an exception in one reply fails its whole batch, samples that had given their final answer included
  (`runner.py:338`), and an exception while their history is written ends the run (`runner.py:343`,
  `BatchRaises`).

## Not modelled

* verl's core: model execution, tokenisation, loss and advantage computation, weight transfer, device
  placement and checkpoint formats (`verl/workers`, `verl/models`, `verl/utils`, `trainer/ppo/core_algos.py`,
  the megatron and FSDP engines, the kernels). This is a vendored framework of tensor and device code
  and by far the larger part of the repository's lines, which is why the map covers only a few percent of
  them: nothing in it is control that a state machine would show. What it promises to the modelled parts
  (a training step ends, weights are published) is a step of their models.
* The text of prompts, replies and tool results, the parsing of model text, and the file operations of the
  tools: abstracted to what the properties distinguish.
* Data preparation, selection and release scripts, and `score_results_with_verifier.py`: one-shot
  conversions and a sequential loop over directories. `inference.py`: one sequential pass whose rollouts and
  directories are those of `AgentLoop` and `Workspace`.
* The one-step-off and separation trainers of verl, which the recipe does not use.
* Inside modelled components: the mkdtemp branch of `make_result_dir` (data without `rollout_step` or
  `rollout_n`), failing TransferQueue calls, rebalancing of requests between replicas, and how the dynamic
  policy estimates times. In `AgentLoop` the continuous-token mode (`data.continuous_token.enable`, off by
  default: `tool_agent_loop.py:280`, `379`, `482` and `575-593`), whose merge may trim a token of the turn
  before. In `FullyAsync` a validation only takes its place in the trainer's loop: the adding and removing of
  hybrid replicas around it (`fully_async_trainer.py:832-871`) is left out, and so are configurations with
  a frequency of saving or testing of 0 or less. In `ReplayBuffer` the configurations that `_next_train_batch`
  refuses (`trainer_base.py:1271`): they fail at the first fetch, as a refill of any other size occurs only with the
  strategy for which `gen_batch_size` is forced to 1 (`trainer_base.py:610-623`). In `Workspace` verifiers that
  delete a score file, and processes a killed verifier leaves behind. The arithmetic of the reward (verdict,
  bonus, penalties) is translated, but a property of it would only restate it, so none is checked.

Four hazards in `PROJECT.json` have no property, with the reason in their notes: a failing put of the
running tag (`agent_loop_tq.py:112`), a training step over an empty batch (`replay_buffer.py:177`), a loop
of the processor that blocks the event loop (`fully_async_rollouter.py:969`, reachable only in the
configuration of `finish_signal`), and batches trained after the last sync (`fully_async_trainer.py:529`).

## Plan

The order of the work was by what the training result depends on most: masks, then queues, then routing,
then rewards, then evaluation. What is left:

1. A prompt's life (queued, consumed or dropped, exactly once) as an abstract specification that
   `ReplayBuffer` implements, and a sample's life (requested, answered, reported) for `BatchRunner`.
2. Compositions: `AgentLoop` with `Workspace` (the penalties from the same events as the masks), and
   model versions in `LoadBalancer` against the spans that `ReplayBuffer` bounds.
3. Failing TransferQueue calls.

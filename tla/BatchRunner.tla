------------------------------ MODULE BatchRunner ------------------------------
(* The standalone batch runtime: run_tasks_batched prepares samples in a window,   *)
(* advances them turn by turn in batches, hands the finished ones to a pool of     *)
(* verifier threads and collects their results; with a batch size of 1 the samples *)
(* are run one after the other. A process that was killed or has ended is run      *)
(* again over the directories it left, with --resume, with --overwrite or with     *)
(* neither, and with any batch size.                                               *)
(*                                                                                 *)
(* The main thread and the pool share only the futures: a sample is touched by one *)
(* of them at a time, so a pass of the main loop is a few steps and finalizing a   *)
(* sample is one. The runner tells samples apart by id(state), the address of the  *)
(* object, which is free again once nothing refers to the object. The lists of     *)
(* states keep the order of preparation, so that they are sets of requests here.   *)
EXTENDS Integers, Sequences, FiniteSets

CONSTANTS
    Samples,        \* number of requests: tasks times --n
    Window,         \* --prepare-window-size
    BatchSize,      \* --agent-batch-size, if it is not 1
    MaxSteps,       \* --max-steps
    MaxRestarts,    \* bound on the restarts of the process
    None

ASSUME SizeAssumption ==
    /\ Samples \in Nat \ {0, 1} /\ BatchSize \in Nat \ {0, 1}
    /\ Window \in Nat \ {0} /\ MaxSteps \in Nat \ {0} /\ MaxRestarts \in Nat
ASSUME NoneAssumption == None \notin Nat /\ None \notin {"completed", "failed"}

Requests == 1..Samples
Addresses == 1..Samples

VARIABLES
    mode,       \* "fresh", "resume" or "overwrite"
    at,         \* where the main thread is
    next,       \* request_index: the next request to prepare
    states,     \* the requests whose states are kept
    address,    \* id(state) of a request's state, None without one
    status,     \* its status
    steps,      \* steps_used, while it runs
    batch,      \* current_batch, referred to until the next one
    active,     \* active_states, likewise
    finalized,  \* finalized_state_ids
    future,     \* its finalizer: "none", "pending" or "done"
    outcome,    \* what the finalizer returned: a status, or None
    results,    \* results: the statuses reported for a request
    disk,       \* result directory: "absent", "started", or the metadata's status
    restarts    \* restarts so far

memory == <<next, states, address, status, steps, batch, active, finalized,
            future, outcome, results>>
vars == <<mode, at, memory, disk, restarts>>

Starts == {"collect", "task"}       \* run_tasks_batched, or run_task for each

Nothing == [q \in Requests |-> None]

Init ==
    /\ mode = "fresh"
    /\ at \in Starts /\ next = 1
    /\ states = {} /\ batch = {} /\ active = {}
    /\ address = Nothing
    /\ status = [q \in Requests |-> "running"]
    /\ steps = [q \in Requests |-> 0]
    /\ finalized = {}
    /\ future = [q \in Requests |-> "none"]
    /\ outcome = Nothing
    /\ results = [q \in Requests |-> <<>>]
    /\ disk = [q \in Requests |-> "absent"]
    /\ restarts = 0

Seen(q) == address[q] \in finalized
Futures == {q \in Requests : future[q] # "none"}

(* The objects something still refers to: those kept or submitted, and the lists   *)
(* the last pass left behind. A new object gets the address of one that is gone,   *)
(* or one never used before; addresses are numbered in the order of first use.     *)
Referred == states \cup batch \cup active \cup Futures
UsedAddresses == {address[q] : q \in Requests} \ {None}
NeverUsed == Addresses \ UsedAddresses
FreeAddresses ==
    (UsedAddresses \ {address[q] : q \in Referred})
        \cup {a \in NeverUsed : \A b \in NeverUsed : a <= b}

-------------------------------------------------------------------------------
(* collect_finished_finalizers reports the futures that are done. *)
CollectedKept(done) ==
    /\ results' = [q \in Requests |->
                     IF q \in done THEN Append(results[q], outcome[q]) ELSE results[q]]
    /\ states' = states \ done
    /\ UNCHANGED <<future, outcome>>
Collected(done) ==
    /\ results' = [q \in Requests |->
                     IF q \in done THEN Append(results[q], outcome[q]) ELSE results[q]]
    /\ future' = [q \in Requests |-> IF q \in done THEN "none" ELSE future[q]]
    /\ outcome' = [q \in Requests |-> IF q \in done THEN None ELSE outcome[q]]
    /\ states' = states \ done

Collect ==
    /\ at = "collect" /\ at' = "fill"
    /\ Collected({q \in Requests : future[q] = "done"})
    /\ UNCHANGED <<mode, next, address, status, steps, batch, active, finalized,
                   disk, restarts>>

(* fill_prepare_window counts the samples that are running or not yet submitted. *)
InWindow == {q \in states : status[q] = "running" \/ ~Seen(q)}
MayPreparePast == next <= Samples /\ Cardinality(InWindow) <= Window
MayPrepare == next <= Samples /\ Cardinality(InWindow) < Window

Report(q, what) == results' = [results EXCEPT ![q] = Append(@, what)]

(* What is_completed_result reads from the metadata a directory holds. *)
CompletedEver(q) == disk[q] # "absent"
Completed(q) == disk[q] = "completed"

(* A directory that exists is replaced with --overwrite and skipped with --resume  *)
(* when its metadata says completed; otherwise preparing the sample fails.         *)
RefusedFresh(q) == disk[q] # "absent" /\ mode = "fresh"
Refused(q) ==
    /\ disk[q] # "absent" /\ mode # "overwrite"
    /\ ~(mode = "resume" /\ Completed(q))
Skipped(q) == mode = "resume" /\ Completed(q)

Prepare ==
    /\ at = "fill" /\ MayPrepare
    /\ ~Refused(next) /\ ~Skipped(next)
    /\ \E a \in FreeAddresses :
          address' = [address EXCEPT ![next] = a]
    /\ states' = states \cup {next}
    /\ disk' = [disk EXCEPT ![next] = "started"]
    /\ next' = next + 1
    /\ UNCHANGED <<mode, at, status, steps, batch, active, finalized, future, outcome,
                   results, restarts>>

(* The builder of its environment fails: the directory stays. *)
PrepareFails ==
    /\ at = "fill" /\ MayPrepare
    /\ ~Refused(next) /\ ~Skipped(next)
    /\ disk' = [disk EXCEPT ![next] = "started"]
    /\ Report(next, "failed")
    /\ next' = next + 1
    /\ UNCHANGED <<mode, at, states, address, status, steps, batch, active, finalized,
                   future, outcome, restarts>>

PrepareRefused ==
    /\ at = "fill" /\ MayPrepare /\ Refused(next)
    /\ Report(next, "exists")
    /\ next' = next + 1
    /\ UNCHANGED <<mode, at, states, address, status, steps, batch, active, finalized,
                   future, outcome, disk, restarts>>

PrepareSkipped ==
    /\ at = "fill" /\ MayPrepare /\ Skipped(next)
    /\ Report(next, "skipped")
    /\ next' = next + 1
    /\ UNCHANGED <<mode, at, states, address, status, steps, batch, active, finalized,
                   future, outcome, disk, restarts>>

RunningAll == states
Running == {q \in states : status[q] = "running"}

ExhaustedAndEmpty == next > Samples /\ states = {}
Exhausted == next > Samples

(* The first agent_batch_size of them. *)
FirstOf(those) == {q \in those : Cardinality({p \in those : p < q}) < BatchSize}

(* The window is full or the requests are exhausted: choose the next batch, or     *)
(* without a running sample wait for the finalizers, or stop.                      *)
Select ==
    /\ at = "fill" /\ ~MayPrepare
    /\ active' = Running
    /\ IF Running # {}
       THEN batch' = FirstOf(Running) /\ at' = "batch"
       ELSE /\ UNCHANGED batch
            /\ at' = IF Futures # {} THEN "wait"
                     ELSE IF Exhausted THEN "drain" ELSE "collect"
    /\ UNCHANGED <<mode, next, states, address, status, steps, finalized, future,
                   outcome, results, disk, restarts>>

(* collect_finished_finalizers(done_only=False) blocks on every future. *)
Wait ==
    /\ at \in {"wait", "last"}
    /\ at' = IF at = "wait" THEN "collect" ELSE "end"
    /\ \A q \in Futures : future[q] = "done"
    /\ Collected(Futures)
    /\ UNCHANGED <<mode, next, address, status, steps, batch, active, finalized,
                   disk, restarts>>

-------------------------------------------------------------------------------
(* process_task_reply: a reply is a final answer, or its calls and errors are      *)
(* observed and the sample goes on until its steps are used up.                    *)
Replied(q, final) ==
    IF final THEN "completed" ELSE IF steps[q] + 1 >= MaxSteps THEN "failed" ELSE "running"

(* submit_finalize, for the samples of the batch that ended, unless their id was   *)
(* submitted before.                                                               *)
Submitted(ended) ==
    /\ finalized' = finalized \cup {address[q] : q \in ended}
    /\ future' = [q \in Requests |->
                    IF q \in ended /\ ~Seen(q) THEN "pending" ELSE future[q]]

(* A batch of replies. When generating them or processing one of them raises, all  *)
(* samples of the batch become failed, those just completed too. The steps of a    *)
(* sample that ended are not read again.                                           *)
Batch ==
    /\ at = "batch" /\ at' = "collect"
    /\ \E finals \in SUBSET batch, raised \in BOOLEAN :
          status' = [q \in Requests |->
                       IF q \notin batch THEN status[q]
                       ELSE IF raised THEN "failed" ELSE Replied(q, q \in finals)]
    /\ steps' = [q \in Requests |->
                   IF q \notin batch THEN steps[q]
                   ELSE IF status'[q] = "running" THEN steps[q] + 1 ELSE 0]
    /\ Submitted({q \in batch : status'[q] # "running"})
    /\ UNCHANGED <<mode, next, states, address, batch, active, outcome, results,
                   disk, restarts>>

(* Writing the history of a failed sample raises in its turn: the exception leaves *)
(* run_tasks_batched once the pool has finished what was submitted to it. What the *)
(* handler did to the statuses is not read again.                                  *)
BatchRaises ==
    /\ at = "batch" /\ at' = "raised"
    /\ UNCHANGED <<mode, memory, disk, restarts>>

(* finalize_task_state on a pool thread: the verifier runs, the metadata and then  *)
(* the trajectory are written and the status is returned, or one of them raises.   *)
Finalize(q) ==
    /\ future[q] = "pending"
    /\ future' = [future EXCEPT ![q] = "done"]
    /\ LET final == IF status[q] = "running" THEN "failed" ELSE status[q]
       IN  \/ /\ outcome' = [outcome EXCEPT ![q] = final]
              /\ disk' = [disk EXCEPT ![q] = final]
           \/ /\ outcome' = [outcome EXCEPT ![q] = "failed"]
              /\ disk' \in {disk, [disk EXCEPT ![q] = final]}
    /\ UNCHANGED <<mode, at, next, states, address, status, steps, batch, active,
                   finalized, results, restarts>>

(* After the loop, whatever was not submitted is, and its result is awaited. *)
Drain ==
    /\ at = "drain" /\ at' = "last"
    /\ UNCHANGED <<mode, next, states, address, status, steps, batch, active, outcome,
                   results, disk, restarts>>
    /\ Submitted(states)

-------------------------------------------------------------------------------
(* run_task: what is reported of a sample and what its directory says then. The    *)
(* preparation, a reply or the verifier raises before the metadata is written, the *)
(* trajectory after it.                                                            *)
TaskEnds(q) ==
    CASE Refused(q) -> {<<"exists", disk[q]>>}
      [] Skipped(q) -> {<<"skipped", disk[q]>>}
      [] OTHER      -> ({"failed"} \X {"started", "failed", "completed"})
                           \cup {<<"completed", "completed">>}

RunTask ==
    /\ at = "task" /\ next <= Samples
    /\ \E end \in TaskEnds(next) :
          Report(next, end[1]) /\ disk' = [disk EXCEPT ![next] = end[2]]
    /\ next' = next + 1
    /\ UNCHANGED <<mode, at, states, address, status, steps, batch, active, finalized,
                   future, outcome, restarts>>

TasksEnd ==
    /\ at = "task" /\ Exhausted /\ at' = "end"
    /\ UNCHANGED <<mode, memory, disk, restarts>>

(* The process is killed, or has ended, and is run again over what it left. *)
Restart ==
    /\ restarts < MaxRestarts /\ restarts' = restarts + 1
    /\ mode' \in {"fresh", "resume", "overwrite"}
    /\ at' \in Starts /\ next' = 1
    /\ states' = {} /\ batch' = {} /\ active' = {}
    /\ address' = Nothing
    /\ status' = [q \in Requests |-> "running"]
    /\ steps' = [q \in Requests |-> 0]
    /\ finalized' = {}
    /\ future' = [q \in Requests |-> "none"]
    /\ outcome' = Nothing
    /\ results' = [q \in Requests |-> <<>>]
    /\ UNCHANGED disk

Ended == at \in {"end", "raised"} /\ UNCHANGED vars

MainStep ==
    \/ Collect \/ Prepare \/ PrepareFails \/ PrepareRefused \/ PrepareSkipped
    \/ Select \/ Wait \/ Batch \/ BatchRaises \/ Drain
    \/ RunTask \/ TasksEnd

Next == MainStep \/ (\E q \in Requests : Finalize(q)) \/ Restart \/ Ended

(* The main loop runs, its model calls and the environment builders return, and    *)
(* the verifiers have a time limit.                                                *)
Fairness == WF_vars(MainStep) /\ \A q \in Requests : WF_vars(Finalize(q))

Spec == Init /\ [][Next]_vars /\ Fairness

-------------------------------------------------------------------------------
Statuses == {"running", "completed", "failed"}

(* The variables keep their types. *)
TypeOK ==
    /\ mode \in {"fresh", "resume", "overwrite"}
    /\ at \in {"collect", "fill", "batch", "wait", "drain", "last", "task", "end",
               "raised"}
    /\ next \in 1..(Samples + 1)
    /\ {states, batch, active} \subseteq SUBSET Requests
    /\ address \in [Requests -> Addresses \cup {None}]
    /\ status \in [Requests -> Statuses]
    /\ steps \in [Requests -> 0..MaxSteps]
    /\ finalized \subseteq Addresses
    /\ future \in [Requests -> {"none", "pending", "done"}]
    /\ outcome \in [Requests -> {"completed", "failed", None}]
    /\ results \in [Requests -> Seq({"completed", "failed", "exists", "skipped"})]
    /\ disk \in [Requests -> {"absent", "started", "completed", "failed"}]
    /\ restarts \in 0..MaxRestarts

(* No request is reported twice, and when the run ends each is reported, but for   *)
(* one whose state got the address of the state of an earlier one. A request that  *)
(* never had a state, as in the sequential loop, or when its directory is refused  *)
(* or skipped or its builder fails, has no such excuse.                            *)
SamplesAccounted ==
    \A q \in Requests :
       /\ Len(results[q]) <= 1
       /\ at = "end" /\ results[q] = <<>> =>
             address[q] # None /\ \E p \in 1..(q - 1) : address[p] = address[q]

(* A sample reported as completed or skipped has metadata that says completed,     *)
(* which a later --resume relies on.                                               *)
ReportMatchesDisk ==
    \A q \in Requests : \A i \in DOMAIN results[q] :
       results[q][i] \in {"completed", "skipped"} => disk[q] = "completed"

(* The main thread never advances a sample that a verifier thread may be reading:  *)
(* no lock protects the state object, only the order of the passes.                *)
FinalizerOwns ==
    at = "batch" => \A q \in batch : future[q] = "none" /\ results[q] = <<>>

(* No more samples are under way than the window allows. *)
WindowRespected ==
    Cardinality({q \in states : status[q] = "running"}) <= Window

(* Without --overwrite the result that a directory records is never lost. *)
ResultsKept ==
    [][\A q \in Requests : mode # "overwrite" /\ disk[q] \in {"completed", "failed"}
          => disk'[q] = disk[q]]_vars

(* Every run of the process comes to its end, unless it is run again. *)
RunEnds == <>[](at \in {"end", "raised"})

(* Every sample is reported: summary.json and results.jsonl count them all. *)
SamplesReported == at = "end" => \A q \in Requests : results[q] # <<>>
================================================================================

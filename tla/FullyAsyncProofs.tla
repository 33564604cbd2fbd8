--------------------------- MODULE FullyAsyncProofs ---------------------------
(* Fully asynchronous training implements the budget of stale samples, and its     *)
(* finish signal is never dropped, for every size of the batches, the queue and    *)
(* the pool of replicas.                                                           *)
EXTENDS FullyAsync, TLAPS

Queues == [ahead : Nat, signal : BOOLEAN, behind : Nat]

(* Required and Trigger are positive, so a step is, and so is the queue's size. *)
LEMMA StepPositive == Step \in Nat \ {0} /\ MaxRequired \in Nat \ {0} /\ MaxRequired >= Step
<1>1. \A a, b \in Nat \ {0} : a * b \in Nat \ {0}
  OBVIOUS
<1> QED BY <1>1, SizeAssumption DEF Step

(* A step is a whole number of batches. *)
LEMMA StepWhole == Step % Required = 0
<1>1. \A a, b \in Nat \ {0} : (a * b) % a = 0
  OBVIOUS
<1> QED BY <1>1, SizeAssumption DEF Step

(* popleft takes one sample, or the signal when no sample is ahead of it. *)
LEMMA PopLeftFacts ==
    ASSUME NEW q \in Queues
    PROVE  /\ PopLeft(q) \in Queues
           /\ q.ahead > 0 => /\ PopLeft(q).ahead = q.ahead - 1
                             /\ PopLeft(q).behind = q.behind
                             /\ PopLeft(q).signal = q.signal
           /\ q.ahead = 0 => /\ PopLeft(q).ahead = q.behind
                             /\ PopLeft(q).behind = 0
                             /\ PopLeft(q).signal = FALSE
<1>1. CASE q.ahead > 0
  <2>1. PopLeft(q) = [q EXCEPT !.ahead = q.ahead - 1]
    BY <1>1 DEF PopLeft
  <2> QED BY <1>1, <2>1 DEF Queues
<1>2. CASE ~(q.ahead > 0)
  <2>1. PopLeft(q) = [ahead |-> q.behind, signal |-> FALSE, behind |-> 0]
    BY <1>2 DEF PopLeft
  <2>2. q.ahead = 0
    BY <1>2 DEF Queues
  <2> QED BY <2>1, <2>2 DEF Queues
<1> QED BY <1>1, <1>2

(* put_sample adds a sample, and drops the oldest one of a full queue; the signal  *)
(* is dropped only when no sample is ahead of it.                                  *)
LEMMA PutSampleFacts ==
    ASSUME NEW q \in Queues, ~q.signal => q.behind = 0,
           q.signal /\ q.ahead = 0 => q.behind + 1 < MaxRequired
    PROVE  /\ PutSample(q) \in Queues
           /\ PutSample(q).signal = q.signal
           /\ ~q.signal => PutSample(q).behind = 0
           /\ PutSample(q).behind <= q.behind + 1
           /\ PutSample(q).ahead + PutSample(q).behind
                 \in {q.ahead + q.behind + 1, q.ahead + q.behind}
           /\ PutSample(q).ahead + PutSample(q).behind = q.ahead + q.behind
                 => q.ahead > 0
<1>1. CASE Full(q)
  <2>1. q.ahead > 0
    BY <1>1, StepPositive DEF Full, Size, Queues
  <2>2. Room(q) \in Queues /\ Room(q).ahead = q.ahead - 1
        /\ Room(q).behind = q.behind /\ Room(q).signal = q.signal
    BY <1>1, <2>1, PopLeftFacts DEF Room
  <2> QED BY <2>1, <2>2 DEF PutSample, Queues
<1>2. CASE ~Full(q)
  <2>1. Room(q) = q
    BY <1>2 DEF Room
  <2> QED BY <2>1 DEF PutSample, Queues
<1> QED BY <1>1, <1>2

(* The finish signal takes the place of a sample in a full queue. *)
LEMMA PutSignalFacts ==
    ASSUME NEW q \in Queues, ~q.signal, q.behind = 0
    PROVE  /\ PutSignal(q) \in Queues
           /\ PutSignal(q).signal /\ PutSignal(q).behind = 0
           /\ PutSignal(q).ahead \in {q.ahead, q.ahead - 1}
<1>1. CASE Full(q)
  <2>1. q.ahead > 0
    BY <1>1, StepPositive DEF Full, Size, Queues
  <2>2. Room(q) \in Queues /\ Room(q).ahead = q.ahead - 1
        /\ Room(q).behind = q.behind /\ Room(q).signal = q.signal
    BY <1>1, <2>1, PopLeftFacts DEF Room
  <2> QED BY <2>1, <2>2 DEF PutSignal, Queues
<1>2. CASE ~Full(q)
  <2>1. Room(q) = q
    BY <1>2 DEF Room
  <2> QED BY <2>1 DEF PutSignal, Queues
<1> QED BY <1>1, <1>2

(* Each operation on the queue returns a queue. *)
LEMMA QueueTypes ==
    ASSUME NEW q \in Queues
    PROVE  PopLeft(q) \in Queues /\ PutSample(q) \in Queues /\ PutSignal(q) \in Queues
<1>1. Room(q) \in Queues
  BY PopLeftFacts DEF Room
<1>2. PutSample(q) \in Queues
  BY <1>1 DEF PutSample, Queues
<1>3. PutSignal(q) \in Queues
  BY <1>1 DEF PutSignal, Queues
<1> QED BY <1>2, <1>3, PopLeftFacts

-------------------------------------------------------------------------------
(* The processor's lock, the end and the step of the trainer, and the count of the *)
(* samples are in step; the last is what bounds the stale samples.                 *)
Locks ==
    /\ lock = "reset" <=> trainer = "resetting"
    /\ lock = "proc" <=> proc \in {"full", "last"}

Ended ==
    /\ queue.signal \/ last \/ trainer \in {"stopping", "final", "stopped"} => proc = "stop"
    /\ ~queue.signal => queue.behind = 0

Stepping ==
    /\ taken <= Step
    /\ trainer \in {"step", "enough", "collect", "save"} => taken < Step
    /\ trainer \in {"sync", "reset", "resetting"} /\ ~last => taken = Step
    /\ last => trainer \in {"sync", "reset", "resetting", "final", "stopped"}

Counted ==
    /\ proc # "stop" => Open + taken <= staleness + 1
    /\ Open + taken <= MaxRequired + 1
    /\ proc = "pull" => Open + taken <= MaxRequired
    /\ trainer = "resetting" => running <= seen

Signalled ==
    /\ Active <= MaxRequired
    /\ proc = "broken" => Active < MaxRequired
    /\ queue.signal => running + queue.behind < MaxRequired
    /\ SignalKept

IInv == TypeOK /\ Locks /\ Ended /\ Stepping /\ Counted /\ Signalled

(* The variables keep their types. *)
LEMMA TypeStep == TypeOK /\ [Next]_vars => TypeOK'
<1> SUFFICES ASSUME TypeOK, [Next]_vars PROVE TypeOK'
  OBVIOUS
<1> USE SizeAssumption, StepPositive
<1>q. queue \in Queues
  BY DEF TypeOK, Queues
<1>h. \A b \in Activations : b \in BOOLEAN
  BY DEF Activations
<1>1. CASE Feed
  BY <1>1 DEF Feed, TypeOK, ProcStates, TrainerStates, feedVars, procVars, taskVars, trainVars
<1>2. CASE FeedEnd
  BY <1>2 DEF FeedEnd, TypeOK, ProcStates, TrainerStates, feedVars, procVars, taskVars, trainVars
<1>3. CASE Check
  <2>3. Full(queue) \in BOOLEAN
    BY DEF Full
  <2>1. asked' \in BOOLEAN /\ paused' \in BOOLEAN
    BY <1>3, <2>3, Zenon DEF Check, TypeOK, procVars
  <2>2. hybrid' \in BOOLEAN /\ last' \in BOOLEAN
    BY <1>3, Zenon DEF Check, TypeOK, trainVars
  <2> QED BY <2>1, <2>2, <1>3 DEF Check, TypeOK, ProcStates, TrainerStates, feedVars, procVars, taskVars, trainVars, Full
<1>4. CASE PauseLater
  <2>1. asked' \in BOOLEAN /\ paused' \in BOOLEAN
    BY <1>4, Zenon DEF PauseLater, TypeOK, procVars
  <2>2. hybrid' \in BOOLEAN /\ last' \in BOOLEAN
    BY <1>4, Zenon DEF PauseLater, TypeOK, trainVars
  <2> QED BY <2>1, <2>2, <1>4 DEF PauseLater, TypeOK, ProcStates, TrainerStates, feedVars, procVars, taskVars, trainVars
<1>5. CASE Pause
  BY <1>5 DEF Pause, TypeOK, ProcStates, TrainerStates, feedVars, procVars, taskVars, trainVars
<1>6. CASE Drain
  BY <1>6 DEF Drain, TypeOK, ProcStates, TrainerStates, feedVars, procVars, taskVars, trainVars
<1>7. CASE Resume
  BY <1>7 DEF Resume, TypeOK, ProcStates, TrainerStates, feedVars, procVars, taskVars, trainVars
<1>8. CASE AwaitItem
  <2>1. asked' \in BOOLEAN /\ paused' \in BOOLEAN
    BY <1>8, Zenon DEF AwaitItem, TypeOK, procVars
  <2>2. hybrid' \in BOOLEAN /\ last' \in BOOLEAN
    BY <1>8, Zenon DEF AwaitItem, TypeOK, trainVars
  <2> QED BY <2>1, <2>2, <1>8 DEF AwaitItem, TypeOK, ProcStates, TrainerStates, feedVars, procVars, taskVars, trainVars
<1>9. CASE Pull
  <2>1. asked' \in BOOLEAN /\ paused' \in BOOLEAN
    BY <1>9, Zenon DEF Pull, TypeOK, procVars
  <2>2. hybrid' \in BOOLEAN /\ last' \in BOOLEAN
    BY <1>9, Zenon DEF Pull, TypeOK, trainVars
  <2> QED BY <2>1, <2>2, <1>9 DEF Pull, TypeOK, ProcStates, TrainerStates, feedVars, procVars, taskVars, trainVars
<1>10. CASE Submit
  BY <1>10 DEF Submit, TypeOK, ProcStates, TrainerStates, feedVars, procVars, taskVars, trainVars
<1>11. CASE AwaitTask
  BY <1>11 DEF AwaitTask, TypeOK, ProcStates, TrainerStates, feedVars, procVars, taskVars, trainVars
<1>12. CASE TaskEnds
  BY <1>12 DEF TaskEnds, TypeOK, ProcStates, TrainerStates, feedVars, procVars, taskVars, trainVars
<1>13. CASE Finish
  <2>1. queue' \in [ahead : Nat, signal : BOOLEAN, behind : Nat]
    BY <1>13, <1>q, QueueTypes DEF Finish, Queues
  <2> QED BY <1>13, <2>1 DEF Finish, TypeOK, ProcStates, TrainerStates, feedVars, procVars, taskVars, trainVars
<1>14. CASE Generated
  <2>1. queue' \in [ahead : Nat, signal : BOOLEAN, behind : Nat]
    BY <1>14, <1>q, QueueTypes DEF Generated, Queues
  <2> QED BY <1>14, <2>1 DEF Generated, TypeOK, ProcStates, TrainerStates, feedVars, procVars, taskVars, trainVars
<1>15. CASE GenerationFails
  BY <1>15 DEF GenerationFails, TypeOK, ProcStates, TrainerStates, feedVars, procVars, taskVars, trainVars
<1>16. CASE MonitorSees
  BY <1>16 DEF MonitorSees, TypeOK, ProcStates, TrainerStates, feedVars, procVars, taskVars, trainVars
<1>17. CASE MonitorDecides
  BY <1>17 DEF MonitorDecides, TypeOK, ProcStates, TrainerStates, feedVars, procVars, taskVars, trainVars
<1>18. CASE MonitorResumes
  <2>1. asked' \in BOOLEAN /\ paused' \in BOOLEAN
    BY <1>18, Zenon DEF MonitorResumes, TypeOK, procVars
  <2>2. hybrid' \in BOOLEAN /\ last' \in BOOLEAN
    BY <1>18, Zenon DEF MonitorResumes, TypeOK, trainVars
  <2> QED BY <2>1, <2>2, <1>18 DEF MonitorResumes, TypeOK, ProcStates, TrainerStates, feedVars, procVars, taskVars, trainVars
<1>19. CASE Begin
  BY <1>19 DEF Begin, TypeOK, ProcStates, TrainerStates, feedVars, procVars, taskVars, trainVars
<1>20. CASE Deactivate
  <2>1. asked' \in BOOLEAN /\ paused' \in BOOLEAN
    BY <1>20, Zenon DEF Deactivate, TypeOK, procVars
  <2>2. hybrid' \in BOOLEAN /\ last' \in BOOLEAN
    BY <1>20, Zenon DEF Deactivate, TypeOK, trainVars
  <2> QED BY <2>1, <2>2, <1>20 DEF Deactivate, TypeOK, ProcStates, TrainerStates, feedVars, procVars, taskVars, trainVars
<1>21. CASE Take
  <2>1. queue' \in [ahead : Nat, signal : BOOLEAN, behind : Nat]
    BY <1>21, <1>q, QueueTypes DEF Take, Queues
  <2> QED BY <1>21, <2>1 DEF Take, TypeOK, ProcStates, TrainerStates, feedVars, procVars, taskVars, trainVars
<1>22. CASE TakeEnd
  <2>1. queue' \in [ahead : Nat, signal : BOOLEAN, behind : Nat]
    BY <1>22, <1>q, QueueTypes DEF TakeEnd, Queues
  <2> QED BY <1>22, <2>1 DEF TakeEnd, TypeOK, ProcStates, TrainerStates, feedVars, procVars, taskVars, trainVars
<1>23. CASE Train
  BY <1>23 DEF Train, TypeOK, ProcStates, TrainerStates, feedVars, procVars, taskVars, trainVars
<1>24. CASE Sync
  BY <1>24, <1>h DEF Sync, TypeOK, ProcStates, TrainerStates, feedVars, procVars, taskVars, trainVars
<1>25. CASE ResetBegins
  <2>1. asked' \in BOOLEAN /\ paused' \in BOOLEAN
    BY <1>25, Zenon DEF ResetBegins, TypeOK, procVars
  <2>2. hybrid' \in BOOLEAN /\ last' \in BOOLEAN
    BY <1>25, Zenon DEF ResetBegins, TypeOK, trainVars
  <2> QED BY <2>1, <2>2, <1>25 DEF ResetBegins, TypeOK, ProcStates, TrainerStates, feedVars, procVars, taskVars, trainVars, Active
<1>26. CASE ResetEnds
  BY <1>26, <1>q DEF ResetEnds, TypeOK, ProcStates, TrainerStates, feedVars, procVars, taskVars, trainVars, ResetTo, Size, Queues
<1>27. CASE Save
  <2>1. saved' \in [version : Nat, position : Nat]
    BY <1>27 DEF Save, Checkpoint, TypeOK
  <2> QED BY <1>27, <2>1 DEF Save, TypeOK, ProcStates, TrainerStates, feedVars, procVars, taskVars, trainVars
<1>28. CASE Stopping
  <2>1. asked' \in BOOLEAN /\ paused' \in BOOLEAN
    BY <1>28, Zenon DEF Stopping, TypeOK, procVars
  <2>2. hybrid' \in BOOLEAN /\ last' \in BOOLEAN
    BY <1>28, Zenon DEF Stopping, TypeOK, trainVars
  <2> QED BY <2>1, <2>2, <1>28 DEF Stopping, TypeOK, ProcStates, TrainerStates, feedVars, procVars, taskVars, trainVars
<1>29. CASE Final
  <2>1. saved' \in [version : Nat, position : Nat]
    BY <1>29 DEF Final, Checkpoint, TypeOK
  <2> QED BY <1>29, <2>1 DEF Final, TypeOK, ProcStates, TrainerStates, feedVars, procVars, taskVars, trainVars
<1>30. CASE Restart
  <2>1. asked' \in BOOLEAN /\ paused' \in BOOLEAN
    BY <1>30, Zenon DEF Restart, TypeOK, procVars
  <2>2. hybrid' \in BOOLEAN /\ last' \in BOOLEAN
    BY <1>30, <1>h, Zenon DEF Restart, TypeOK, trainVars
  <2> QED BY <2>1, <2>2, <1>30, <1>h DEF Restart, TypeOK, ProcStates, TrainerStates, feedVars, procVars, taskVars, trainVars, Empty, RestoredSteps
<1>31. CASE Terminated
  BY <1>31 DEF Terminated, TypeOK, ProcStates, TrainerStates, feedVars, procVars, taskVars, trainVars, vars
<1>32. CASE UNCHANGED vars
  BY <1>32 DEF TypeOK, vars, feedVars, procVars, taskVars, trainVars
<1> QED BY <1>1, <1>2, <1>3, <1>4, <1>5, <1>6, <1>7, <1>8, <1>9, <1>10, <1>11, <1>12, <1>13, <1>14, <1>15, <1>16, <1>17, <1>18, <1>19, <1>20, <1>21, <1>22, <1>23, <1>24, <1>25, <1>26, <1>27, <1>28, <1>29, <1>30, <1>31, <1>32 DEF Next, Feeding, Processing, Generating, Monitoring, Training

(* Frames: what no step of a process changes. *)
LEMMA Frames ==
    /\ Feeding \/ Monitoring =>
          UNCHANGED <<proc, staleness, lock, taskVars, queue, trainVars, saved, restarts>>
    /\ Processing \/ Generating => UNCHANGED <<trainVars, saved, restarts>>
    /\ Training => UNCHANGED <<feedVars, proc, taskVars, restarts>>
<1>1. Feeding \/ Monitoring =>
          UNCHANGED <<proc, staleness, lock, taskVars, queue, trainVars, saved, restarts>>
  BY DEF Feeding, Monitoring, Feed, FeedEnd, MonitorSees, MonitorDecides, MonitorResumes, procVars
<1>2. Processing \/ Generating => UNCHANGED <<trainVars, saved, restarts>>
  BY DEF Processing, Generating, Check, PauseLater, Pause, Drain, Resume, AwaitItem, Pull, Submit, AwaitTask, TaskEnds, Finish, Generated, GenerationFails
<1>3. Training => UNCHANGED <<feedVars, proc, taskVars, restarts>>
  BY DEF Training, Begin, Deactivate, Take, TakeEnd, Train, Sync, ResetBegins, ResetEnds, Save, Stopping, Final, procVars
<1> QED BY <1>1, <1>2, <1>3

(* The lock is the processor's or reset_staleness's. *)
LEMMA LocksStep == IInv /\ TypeOK' /\ [Next]_vars => Locks'
<1> SUFFICES ASSUME IInv, TypeOK', [Next]_vars PROVE Locks'
  OBVIOUS
<1> USE SizeAssumption, StepPositive
<1>t. TypeOK /\ queue \in Queues
  BY DEF IInv, TypeOK, Queues
<1>1. CASE Check
  BY <1>1, <1>t DEF Check, IInv, Locks, TypeOK, Ended, trainVars, ProcStates
<1>2. CASE PauseLater
  BY <1>2, <1>t DEF PauseLater, IInv, Locks, TypeOK, Ended, trainVars, ProcStates
<1>3. CASE Pause
  BY <1>3, <1>t DEF Pause, IInv, Locks, TypeOK, Ended, trainVars, ProcStates
<1>4. CASE Drain
  BY <1>4, <1>t DEF Drain, IInv, Locks, TypeOK, Ended, trainVars, ProcStates
<1>5. CASE Resume
  BY <1>5, <1>t DEF Resume, IInv, Locks, TypeOK, Ended, trainVars, ProcStates
<1>6. CASE AwaitItem
  BY <1>6, <1>t DEF AwaitItem, IInv, Locks, TypeOK, Ended, trainVars, ProcStates
<1>7. CASE Pull
  BY <1>7, <1>t DEF Pull, IInv, Locks, TypeOK, Ended, trainVars, ProcStates
<1>8. CASE Submit
  BY <1>8, <1>t DEF Submit, IInv, Locks, TypeOK, Ended, trainVars, ProcStates
<1>9. CASE TaskEnds
  BY <1>9, <1>t DEF TaskEnds, IInv, Locks, TypeOK, Ended, trainVars, ProcStates
<1>10. CASE Finish
  BY <1>10, <1>t DEF Finish, IInv, Locks, TypeOK, Ended, trainVars, ProcStates
<1>11. CASE AwaitTask
  BY <1>11, <1>t DEF AwaitTask, IInv, Locks, TypeOK, trainVars, ProcStates
<1>12. CASE Begin
  BY <1>12, <1>t, Frames DEF Begin, IInv, Locks, TypeOK, Training, procVars, taskVars, TrainerStates
<1>13. CASE Deactivate
  BY <1>13, <1>t, Frames DEF Deactivate, IInv, Locks, TypeOK, Training, procVars, taskVars, TrainerStates
<1>14. CASE Take
  BY <1>14, <1>t, Frames DEF Take, IInv, Locks, TypeOK, Training, procVars, taskVars, TrainerStates
<1>15. CASE TakeEnd
  BY <1>15, <1>t, Frames DEF TakeEnd, IInv, Locks, TypeOK, Training, procVars, taskVars, TrainerStates
<1>16. CASE Train
  BY <1>16, <1>t, Frames DEF Train, IInv, Locks, TypeOK, Training, procVars, taskVars, TrainerStates
<1>17. CASE Sync
  BY <1>17, <1>t, Frames DEF Sync, IInv, Locks, TypeOK, Training, procVars, taskVars, TrainerStates
<1>18. CASE ResetBegins
  BY <1>18, <1>t, Frames DEF ResetBegins, IInv, Locks, TypeOK, Training, procVars, taskVars, TrainerStates
<1>19. CASE ResetEnds
  BY <1>19, <1>t, Frames DEF ResetEnds, IInv, Locks, TypeOK, Training, procVars, taskVars, TrainerStates
<1>20. CASE Save
  BY <1>20, <1>t, Frames DEF Save, IInv, Locks, TypeOK, Training, procVars, taskVars, TrainerStates
<1>21. CASE Stopping
  BY <1>21, <1>t, Frames DEF Stopping, IInv, Locks, TypeOK, Training, procVars, taskVars, TrainerStates
<1>22. CASE Final
  BY <1>22, <1>t, Frames DEF Final, IInv, Locks, TypeOK, Training, procVars, taskVars, TrainerStates
<1>23. CASE Restart
  BY <1>23, <1>t DEF Restart, IInv, Locks
<1>24. CASE Feeding \/ Monitoring
  BY <1>24, <1>t, Frames DEF IInv, Locks, trainVars
<1>25. CASE Generating
  BY <1>25, <1>t DEF Generating, Generated, GenerationFails, IInv, Locks, procVars, trainVars
<1>26. CASE UNCHANGED vars \/ Terminated
  BY <1>26, <1>t DEF Terminated, IInv, Locks, vars, procVars, trainVars
<1> QED BY <1>1, <1>2, <1>3, <1>4, <1>5, <1>6, <1>7, <1>8, <1>9, <1>10, <1>11, <1>12, <1>13, <1>14, <1>15, <1>16, <1>17, <1>18, <1>19, <1>20, <1>21, <1>22, <1>23, <1>24, <1>25, <1>26 DEF Next, Feeding, Processing, Generating, Monitoring, Training

(* Only a processor that has stopped leaves the finish signal. *)
LEMMA EndedStep == IInv /\ TypeOK' /\ [Next]_vars => Ended'
<1> SUFFICES ASSUME IInv, TypeOK', [Next]_vars PROVE Ended'
  OBVIOUS
<1> USE SizeAssumption, StepPositive
<1>t. TypeOK /\ queue \in Queues
  BY DEF IInv, TypeOK, Queues
<1>1. CASE Finish
  <2>1. ~queue.signal /\ queue.behind = 0
    BY <1>1 DEF Finish, IInv, Ended
  <2>2. queue' = PutSignal(queue) /\ PutSignal(queue).signal
    BY <1>1, <1>t, <2>1, PutSignalFacts DEF Finish
  <2> QED BY <1>1, <2>2 DEF Finish, Ended
<1>2. CASE Generated
  <2>1. queue.signal => running + queue.behind < MaxRequired
    BY DEF IInv, Signalled
  <2>2. PutSample(queue).signal = queue.signal /\ (~queue.signal => PutSample(queue).behind = 0)
    BY <1>2, <1>t, <2>1, PutSampleFacts DEF Generated, IInv, Ended, TypeOK, Queues
  <2> QED BY <1>2, <2>2 DEF Generated, IInv, Ended, procVars, trainVars
<1>3. CASE Check
  BY <1>3, <1>t DEF Check, IInv, Ended, trainVars
<1>4. CASE PauseLater
  BY <1>4, <1>t DEF PauseLater, IInv, Ended, trainVars
<1>5. CASE Pause
  BY <1>5, <1>t DEF Pause, IInv, Ended, trainVars
<1>6. CASE Drain
  BY <1>6, <1>t DEF Drain, IInv, Ended, trainVars
<1>7. CASE Resume
  BY <1>7, <1>t DEF Resume, IInv, Ended, trainVars
<1>8. CASE AwaitItem
  BY <1>8, <1>t DEF AwaitItem, IInv, Ended, trainVars
<1>9. CASE Pull
  BY <1>9, <1>t DEF Pull, IInv, Ended, trainVars
<1>10. CASE Submit
  BY <1>10, <1>t DEF Submit, IInv, Ended, trainVars
<1>11. CASE AwaitTask
  BY <1>11, <1>t DEF AwaitTask, IInv, Ended, trainVars
<1>12. CASE TaskEnds
  BY <1>12, <1>t DEF TaskEnds, IInv, Ended, trainVars
<1>13. CASE GenerationFails
  BY <1>13, <1>t DEF GenerationFails, IInv, Ended, procVars, trainVars
<1>14. CASE Take
  BY <1>14, <1>t, PopLeftFacts, Frames DEF Take, IInv, Ended, Queues, Training
<1>15. CASE TakeEnd
  BY <1>15, <1>t, PopLeftFacts, Frames DEF TakeEnd, IInv, Ended, Queues, Training
<1>16. CASE Begin
  BY <1>16, <1>t, Frames DEF Begin, IInv, Ended, Training
<1>17. CASE Deactivate
  BY <1>17, <1>t, Frames DEF Deactivate, IInv, Ended, Training
<1>18. CASE Train
  BY <1>18, <1>t, Frames DEF Train, IInv, Ended, Training
<1>19. CASE Sync
  BY <1>19, <1>t, Frames DEF Sync, IInv, Ended, Training
<1>20. CASE ResetBegins
  BY <1>20, <1>t, Frames DEF ResetBegins, IInv, Ended, Training
<1>21. CASE ResetEnds
  BY <1>21, <1>t, Frames DEF ResetEnds, IInv, Ended, Training
<1>22. CASE Save
  BY <1>22, <1>t, Frames DEF Save, IInv, Ended, Training
<1>23. CASE Stopping
  BY <1>23, <1>t, Frames DEF Stopping, IInv, Ended, Training
<1>24. CASE Final
  BY <1>24, <1>t, Frames DEF Final, IInv, Ended, Training
<1>25. CASE Restart
  BY <1>25, <1>t DEF Restart, Ended, Empty
<1>26. CASE Feeding \/ Monitoring
  BY <1>26, <1>t, Frames DEF IInv, Ended, trainVars
<1>27. CASE UNCHANGED vars \/ Terminated
  BY <1>27, <1>t DEF Terminated, IInv, Ended, vars, procVars, trainVars
<1> QED BY <1>1, <1>2, <1>3, <1>4, <1>5, <1>6, <1>7, <1>8, <1>9, <1>10, <1>11, <1>12, <1>13, <1>14, <1>15, <1>16, <1>17, <1>18, <1>19, <1>20, <1>21, <1>22, <1>23, <1>24, <1>25, <1>26, <1>27 DEF Next, Feeding, Processing, Generating, Monitoring, Training

(* A version is published after Step samples. *)
LEMMA SteppingStep == IInv /\ TypeOK' /\ [Next]_vars => Stepping'
<1> SUFFICES ASSUME IInv, TypeOK', [Next]_vars PROVE Stepping'
  OBVIOUS
<1> USE SizeAssumption, StepPositive
<1>t. TypeOK /\ queue \in Queues
  BY DEF IInv, TypeOK, Queues
<1>1. CASE Take
  <2>1. taken < Step /\ taken' = taken + 1 /\ ~last /\ ~last'
    BY <1>1 DEF Take, IInv, Stepping
  <2>2. taken' <= Step /\ (trainer' = "collect" => taken' < Step)
    BY <1>1, <1>t, <2>1, StepWhole DEF Take, TypeOK
  <2> QED BY <1>1, <2>1, <2>2 DEF Take, Stepping
<1>2. CASE Begin
  BY <1>2, <1>t DEF Begin, IInv, Stepping, TypeOK
<1>3. CASE Deactivate
  BY <1>3, <1>t DEF Deactivate, IInv, Stepping, TypeOK
<1>4. CASE TakeEnd
  BY <1>4, <1>t DEF TakeEnd, IInv, Stepping, TypeOK
<1>5. CASE Train
  BY <1>5, <1>t DEF Train, IInv, Stepping, TypeOK
<1>6. CASE Sync
  BY <1>6, <1>t DEF Sync, IInv, Stepping, TypeOK
<1>7. CASE ResetBegins
  BY <1>7, <1>t DEF ResetBegins, IInv, Stepping, TypeOK
<1>8. CASE ResetEnds
  BY <1>8, <1>t DEF ResetEnds, IInv, Stepping, TypeOK
<1>9. CASE Save
  BY <1>9, <1>t DEF Save, IInv, Stepping, TypeOK
<1>10. CASE Stopping
  BY <1>10, <1>t DEF Stopping, IInv, Stepping, TypeOK
<1>11. CASE Final
  BY <1>11, <1>t DEF Final, IInv, Stepping, TypeOK
<1>12. CASE Restart
  BY <1>12, <1>t DEF Restart, Stepping
<1>13. CASE Feeding \/ Monitoring
  BY <1>13, <1>t, Frames DEF IInv, Stepping, trainVars
<1>14. CASE Processing \/ Generating
  BY <1>14, <1>t, Frames DEF IInv, Stepping, trainVars
<1>15. CASE UNCHANGED vars \/ Terminated
  BY <1>15, <1>t DEF Terminated, IInv, Stepping, vars, trainVars
<1> QED BY <1>1, <1>2, <1>3, <1>4, <1>5, <1>6, <1>7, <1>8, <1>9, <1>10, <1>11, <1>12, <1>13, <1>14, <1>15 DEF Next, Feeding, Processing, Generating, Monitoring, Training

(* staleness_samples counts the open and the taken samples but one. *)
LEMMA CountedStep == IInv /\ TypeOK' /\ [Next]_vars => Counted'
<1> SUFFICES ASSUME IInv, TypeOK', [Next]_vars PROVE Counted'
  OBVIOUS
<1> USE SizeAssumption, StepPositive
<1>t. TypeOK /\ queue \in Queues
  BY DEF IInv, TypeOK, Queues
<1>1. CASE Check
  BY <1>1, <1>t DEF Check, IInv, Counted, TypeOK, Open, Held, trainVars, taskVars, Queues
<1>2. CASE PauseLater
  BY <1>2, <1>t DEF PauseLater, IInv, Counted, TypeOK, Open, Held, trainVars, taskVars, Queues
<1>3. CASE Pause
  BY <1>3, <1>t DEF Pause, IInv, Counted, TypeOK, Open, Held, trainVars, taskVars, Queues
<1>4. CASE Drain
  BY <1>4, <1>t DEF Drain, IInv, Counted, TypeOK, Open, Held, trainVars, taskVars, Queues
<1>5. CASE Resume
  BY <1>5, <1>t DEF Resume, IInv, Counted, TypeOK, Open, Held, trainVars, taskVars, Queues
<1>6. CASE AwaitTask
  BY <1>6, <1>t DEF AwaitTask, IInv, Counted, TypeOK, Open, Held, trainVars, taskVars, Queues
<1>7. CASE TaskEnds
  BY <1>7, <1>t DEF TaskEnds, IInv, Counted, TypeOK, Open, Held, trainVars, taskVars, Queues
<1>8. CASE Submit
  BY <1>8, <1>t DEF Submit, IInv, Counted, TypeOK, Open, Held, trainVars, taskVars, Queues, MaySubmit, Locks
<1>9. CASE AwaitItem
  BY <1>9, <1>t DEF AwaitItem, IInv, Counted, TypeOK, Open, Held, trainVars, taskVars, Queues, ShouldPause
<1>10. CASE Pull
  BY <1>10, <1>t DEF Pull, IInv, Counted, TypeOK, Open, Held, trainVars, taskVars, Queues, ShouldPause, MaySubmit, Locks
<1>11. CASE Finish
  <2>1. ~queue.signal /\ queue.behind = 0
    BY <1>11 DEF Finish, IInv, Ended
  <2>2. queue'.behind = 0 /\ queue'.ahead <= queue.ahead
    BY <1>11, <1>t, <2>1, PutSignalFacts DEF Finish, Queues
  <2> QED BY <1>11, <1>t, <2>1, <2>2 DEF Finish, IInv, Counted, TypeOK, Open, Held, trainVars, taskVars, Queues
<1>12. CASE Generated
  <2>1. queue.signal => running + queue.behind < MaxRequired
    BY DEF IInv, Signalled
  <2>2. queue'.ahead + queue'.behind <= queue.ahead + queue.behind + 1
    BY <1>12, <1>t, <2>1, PutSampleFacts DEF Generated, IInv, Ended, TypeOK, Queues
  <2> QED BY <1>12, <1>t, <2>2 DEF Generated, IInv, Counted, TypeOK, Open, Held, trainVars, taskVars, Queues, procVars
<1>13. CASE GenerationFails
  BY <1>13, <1>t DEF GenerationFails, IInv, Counted, TypeOK, Open, Held, trainVars, taskVars, Queues, procVars
<1>14. CASE Take
  <2>1. queue'.ahead = queue.ahead - 1 /\ queue'.behind = queue.behind
    BY <1>14, <1>t, PopLeftFacts DEF Take, Queues
  <2> QED BY <1>14, <1>t, <2>1 DEF Take, procVars, IInv, Counted, TypeOK, Open, Held, trainVars, taskVars, Queues
<1>15. CASE TakeEnd
  <2>2. queue.ahead = 0 /\ queue'.ahead = queue.behind /\ queue'.behind = 0
    BY <1>15, <1>t, PopLeftFacts DEF TakeEnd
  <2>1. queue'.ahead + queue'.behind = queue.ahead + queue.behind
    BY <1>t, <2>2 DEF Queues
  <2> QED BY <1>15, <1>t, <2>1 DEF TakeEnd, procVars, IInv, Counted, TypeOK, Open, Held, trainVars, taskVars, Queues
<1>16. CASE ResetEnds
  <2>1. ~queue.signal => Size(queue) = queue.ahead + queue.behind
    BY <1>t DEF Size, Queues
  <2> QED BY <1>16, <1>t, <2>1 DEF ResetEnds, ResetTo, Ended, procVars, IInv, Counted, TypeOK, Open, Held, trainVars, taskVars, Queues
<1>17. CASE ResetBegins
  BY <1>17, <1>t DEF ResetBegins, IInv, Counted, TypeOK, Open, Held, trainVars, taskVars, Queues, Active
<1>18. CASE Begin
  BY <1>18, <1>t, Frames DEF Begin, IInv, Counted, TypeOK, Open, Held, trainVars, taskVars, Queues, procVars, Training
<1>19. CASE Deactivate
  BY <1>19, <1>t, Frames DEF Deactivate, IInv, Counted, TypeOK, Open, Held, trainVars, taskVars, Queues, procVars, Training
<1>20. CASE Train
  BY <1>20, <1>t, Frames DEF Train, IInv, Counted, TypeOK, Open, Held, trainVars, taskVars, Queues, procVars, Training
<1>21. CASE Sync
  BY <1>21, <1>t, Frames DEF Sync, IInv, Counted, TypeOK, Open, Held, trainVars, taskVars, Queues, procVars, Training
<1>22. CASE Save
  BY <1>22, <1>t, Frames DEF Save, IInv, Counted, TypeOK, Open, Held, trainVars, taskVars, Queues, procVars, Training
<1>23. CASE Stopping
  BY <1>23, <1>t, Frames DEF Stopping, IInv, Counted, TypeOK, Open, Held, trainVars, taskVars, Queues, procVars, Training
<1>24. CASE Final
  BY <1>24, <1>t, Frames DEF Final, IInv, Counted, TypeOK, Open, Held, trainVars, taskVars, Queues, procVars, Training
<1>25. CASE Restart
  BY <1>25, <1>t DEF Restart, IInv, Counted, TypeOK, Open, Held, trainVars, taskVars, Queues, Empty
<1>26. CASE Feeding \/ Monitoring
  BY <1>26, <1>t, Frames DEF IInv, Counted, TypeOK, Open, Held, trainVars, taskVars, Queues
<1>27. CASE UNCHANGED vars \/ Terminated
  BY <1>27, <1>t DEF Terminated, vars, procVars, IInv, Counted, TypeOK, Open, Held, trainVars, taskVars, Queues
<1> QED BY <1>1, <1>2, <1>3, <1>4, <1>5, <1>6, <1>7, <1>8, <1>9, <1>10, <1>11, <1>12, <1>13, <1>14, <1>15, <1>16, <1>17, <1>18, <1>19, <1>20, <1>21, <1>22, <1>23, <1>24, <1>25, <1>26, <1>27 DEF Next, Feeding, Processing, Generating, Monitoring, Training

(* A full set of tasks cannot push the finish signal out of the queue. *)
LEMMA SignalledStep == IInv /\ TypeOK' /\ [Next]_vars => Signalled'
<1> SUFFICES ASSUME IInv, TypeOK', [Next]_vars PROVE Signalled'
  OBVIOUS
<1> USE SizeAssumption, StepPositive
<1>t. TypeOK /\ queue \in Queues
  BY DEF IInv, TypeOK, Queues
<1>1. CASE Check
  BY <1>1, <1>t DEF Check, IInv, Signalled, SignalKept, TypeOK, Active, Queues, trainVars, taskVars
<1>2. CASE PauseLater
  BY <1>2, <1>t DEF PauseLater, IInv, Signalled, SignalKept, TypeOK, Active, Queues, trainVars, taskVars
<1>3. CASE Pause
  BY <1>3, <1>t DEF Pause, IInv, Signalled, SignalKept, TypeOK, Active, Queues, trainVars, taskVars
<1>4. CASE Drain
  BY <1>4, <1>t DEF Drain, IInv, Signalled, SignalKept, TypeOK, Active, Queues, trainVars, taskVars
<1>5. CASE Resume
  BY <1>5, <1>t DEF Resume, IInv, Signalled, SignalKept, TypeOK, Active, Queues, trainVars, taskVars
<1>6. CASE AwaitItem
  BY <1>6, <1>t DEF AwaitItem, IInv, Signalled, SignalKept, TypeOK, Active, Queues, trainVars, taskVars
<1>7. CASE AwaitTask
  BY <1>7, <1>t DEF AwaitTask, IInv, Signalled, SignalKept, TypeOK, Active, Queues, trainVars, taskVars
<1>8. CASE TaskEnds
  BY <1>8, <1>t DEF TaskEnds, IInv, Signalled, SignalKept, TypeOK, Active, Queues, trainVars, taskVars
<1>9. CASE Submit
  <2>1. Capacity <= MaxRequired /\ Capacity \in Nat
    BY <1>t DEF Capacity, TypeOK
  <2> QED BY <1>9, <1>t, <2>1 DEF Submit, MaySubmit, Ended, IInv, Signalled, SignalKept, TypeOK, Active, Queues, trainVars, taskVars
<1>10. CASE Pull
  <2>1. Capacity <= MaxRequired /\ Capacity \in Nat
    BY <1>t DEF Capacity, TypeOK
  <2>2. ~queue.signal /\ queue' = queue /\ proc # "stop" /\ proc' \notin {"broken", "stop"}
    BY <1>10 DEF Pull, IInv, Ended
  <2>3. finished' = finished /\ failed' = failed /\ (running' = running \/ (running' = running + 1 /\ Active < Capacity))
    BY <1>10 DEF Pull, MaySubmit
  <2>5. Active \in Nat /\ Active <= MaxRequired
    BY <1>t DEF IInv, Signalled, Active, TypeOK
  <2>6. Active' = Active \/ (Active' = Active + 1 /\ Active < Capacity)
    <3>1. CASE running' = running
      BY <3>1, <2>3 DEF Active
    <3>2. CASE running' = running + 1 /\ Active < Capacity
      <4>1. Active' = Active + 1
        BY <3>2, <2>3, <1>t DEF Active, TypeOK
      <4> QED BY <4>1, <3>2
    <3> QED BY <3>1, <3>2, <2>3
  <2>4. Active' <= MaxRequired
    BY <2>1, <2>5, <2>6
  <2> QED BY <2>2, <2>4 DEF Signalled, SignalKept
<1>11. CASE Finish
  <2>1. ~queue.signal /\ queue.behind = 0
    BY <1>11 DEF Finish, IInv, Ended
  <2>2. queue'.behind = 0 /\ queue'.signal
    BY <1>11, <1>t, <2>1, PutSignalFacts DEF Finish
  <2> QED BY <1>11, <1>t, <2>2 DEF Finish, IInv, Signalled, SignalKept, TypeOK, Active, Queues, trainVars, taskVars
<1>12. CASE Generated
  <2>1. queue.signal => running + queue.behind < MaxRequired
    BY DEF IInv, Signalled
  <2>2. queue'.signal = queue.signal /\ queue'.behind <= queue.behind + 1
    BY <1>12, <1>t, <2>1, PutSampleFacts DEF Generated, IInv, Ended, TypeOK, Queues
  <2> QED BY <1>12, <1>t, <2>2 DEF Generated, procVars, IInv, Signalled, SignalKept, TypeOK, Active, Queues, trainVars, taskVars
<1>13. CASE GenerationFails
  BY <1>13, <1>t DEF GenerationFails, IInv, Signalled, SignalKept, TypeOK, Active, Queues, trainVars, taskVars, procVars
<1>14. CASE Take
  BY <1>14, <1>t, PopLeftFacts, Frames DEF Take, IInv, Signalled, SignalKept, TypeOK, Active, Queues, trainVars, taskVars, procVars, Training, Ended
<1>15. CASE TakeEnd
  BY <1>15, <1>t, PopLeftFacts, Frames DEF TakeEnd, IInv, Signalled, SignalKept, TypeOK, Active, Queues, trainVars, taskVars, procVars, Training, Ended
<1>16. CASE Begin
  BY <1>16, <1>t, Frames DEF Begin, IInv, Signalled, SignalKept, TypeOK, Active, Queues, trainVars, taskVars, procVars, Training, Stepping
<1>17. CASE Deactivate
  BY <1>17, <1>t, Frames DEF Deactivate, IInv, Signalled, SignalKept, TypeOK, Active, Queues, trainVars, taskVars, procVars, Training, Stepping
<1>18. CASE Train
  BY <1>18, <1>t, Frames DEF Train, IInv, Signalled, SignalKept, TypeOK, Active, Queues, trainVars, taskVars, procVars, Training, Stepping
<1>19. CASE Sync
  BY <1>19, <1>t, Frames DEF Sync, IInv, Signalled, SignalKept, TypeOK, Active, Queues, trainVars, taskVars, procVars, Training, Stepping
<1>20. CASE ResetBegins
  BY <1>20, <1>t, Frames DEF ResetBegins, IInv, Signalled, SignalKept, TypeOK, Active, Queues, trainVars, taskVars, procVars, Training, Stepping
<1>21. CASE ResetEnds
  BY <1>21, <1>t, Frames DEF ResetEnds, IInv, Signalled, SignalKept, TypeOK, Active, Queues, trainVars, taskVars, procVars, Training, Stepping
<1>22. CASE Save
  BY <1>22, <1>t, Frames DEF Save, IInv, Signalled, SignalKept, TypeOK, Active, Queues, trainVars, taskVars, procVars, Training, Stepping
<1>23. CASE Stopping
  BY <1>23, <1>t, Frames DEF Stopping, IInv, Signalled, SignalKept, TypeOK, Active, Queues, trainVars, taskVars, procVars, Training, Stepping
<1>24. CASE Final
  BY <1>24, <1>t, Frames DEF Final, IInv, Signalled, SignalKept, TypeOK, Active, Queues, trainVars, taskVars, procVars, Training, Stepping
<1>25. CASE Restart
  BY <1>25, <1>t DEF Restart, IInv, Signalled, SignalKept, TypeOK, Active, Queues, trainVars, taskVars, Empty
<1>26. CASE Feeding \/ Monitoring
  BY <1>26, <1>t, Frames DEF IInv, Signalled, SignalKept, Active, taskVars, trainVars
<1>27. CASE UNCHANGED vars \/ Terminated
  BY <1>27, <1>t DEF Terminated, vars, procVars, IInv, Signalled, SignalKept, TypeOK, Active, Queues, trainVars, taskVars
<1> QED BY <1>1, <1>2, <1>3, <1>4, <1>5, <1>6, <1>7, <1>8, <1>9, <1>10, <1>11, <1>12, <1>13, <1>14, <1>15, <1>16, <1>17, <1>18, <1>19, <1>20, <1>21, <1>22, <1>23, <1>24, <1>25, <1>26, <1>27 DEF Next, Feeding, Processing, Generating, Monitoring, Training

(* The initial state has the invariant. *)
LEMMA InitInv == Init => IInv
<1> SUFFICES ASSUME Init PROVE IInv
  OBVIOUS
<1> USE SizeAssumption, StepPositive DEF Init
<1>1. TypeOK
  <2>1. hybrid \in BOOLEAN
    BY DEF Activations
  <2>2. queue \in [ahead : Nat, signal : BOOLEAN, behind : Nat]
    BY DEF Empty
  <2>3. asked \in BOOLEAN /\ paused \in BOOLEAN /\ last \in BOOLEAN
    BY Zenon
  <2>4. saved \in [version : Nat, position : Nat]
    OBVIOUS
  <2> QED BY <2>1, <2>2, <2>3, <2>4 DEF TypeOK, ProcStates, TrainerStates
<1>2. Locks /\ Ended /\ Stepping
  BY DEF Locks, Ended, Stepping, Empty
<1>3. Counted /\ Signalled
  BY DEF Counted, Signalled, SignalKept, Open, Held, Active, Empty
<1> QED BY <1>1, <1>2, <1>3 DEF IInv

(* Every step keeps it. *)
THEOREM Invariance == Spec => []IInv
<1>1. IInv /\ [Next]_vars => IInv'
  BY TypeStep, LocksStep, EndedStep, SteppingStep, CountedStep, SignalledStep DEF IInv
<1> QED BY <1>1, InitInv, PTL DEF Spec

(* The variables of the rollouter, the queue and the trainer keep their types. *)
THEOREM TypeCorrect == Spec => []TypeOK
<1>1. IInv => TypeOK
  BY DEF IInv
<1> QED BY <1>1, Invariance, PTL

(* The finish signal, put by _streaming_generation_main, stays in the queue until  *)
(* the trainer takes it, however many tasks of a broken processor still put.       *)
THEOREM FinishSignalSafe == Spec => []SignalKept
<1>1. IInv => SignalKept
  BY DEF IInv, Signalled
<1> QED BY <1>1, Invariance, PTL

(* The samples open and taken never exceed max_required_samples by more than one.  *)
THEOREM AdmissionSafe == Spec => []AdmissionBounded
<1>1. IInv => AdmissionBounded
  BY DEF IInv, Counted, AdmissionBounded
<1> QED BY <1>1, Invariance, PTL

(* At most max_required_samples - Step + 1 samples are stale when the weights have *)
(* been published and reset_staleness returns.                                     *)
THEOREM StaleSafe == Spec => StaleBounded
<1>1. IInv /\ [Next]_vars =>
        [trainer = "resetting" /\ ~last /\ trainer' # trainer
           => restarts' # restarts \/ Open <= MaxRequired - Step + 1]_vars
  <2> SUFFICES ASSUME IInv, trainer = "resetting", ~last
               PROVE  Open <= MaxRequired - Step + 1
    OBVIOUS
  <2>1. taken = Step /\ Open + taken <= MaxRequired + 1
    BY DEF IInv, Stepping, Counted
  <2>2. Open \in Int
    BY DEF IInv, TypeOK, Open, Held
  <2> QED BY <2>1, <2>2, StepPositive
<1> QED BY <1>1, Invariance, PTL DEF Spec, StaleBounded

-------------------------------------------------------------------------------
(* The values of the budget's variables, by name. *)
phase == IF trainer \in {"sync", "reset", "resetting"} /\ ~last THEN "published" ELSE "use"

(* Each step of the rollouter, the queue or the trainer is a step of the budget or *)
(* leaves it as it was.                                                            *)
LEMMA BudgetStep == IInv /\ IInv' /\ [Next]_vars => [Abstract!Next]_(Abstract!vars)
<1> SUFFICES ASSUME IInv, IInv', [Next]_vars PROVE [Abstract!Next]_(Abstract!vars)
  OBVIOUS
<1> USE SizeAssumption, StepPositive
<1>t. TypeOK /\ TypeOK' /\ queue \in Queues /\ queue' \in Queues
  BY DEF IInv, TypeOK, Queues
<1>o. Open \in Nat /\ Open' \in Nat
  BY <1>t DEF Open, Held, TypeOK
<1>1. CASE Check
  <2>1. Open' = Open
    BY <1>1, <1>t DEF Check, Open, Held, TypeOK, taskVars, procVars, Queues
  <2>2. UNCHANGED <<trainer, taken, last, version, saved>> /\ (proc' = "stop") = (proc = "stop")
    BY <1>1 DEF Check, trainVars
  <2> QED BY <2>1, <2>2 DEF Abstract!vars
<1>2. CASE PauseLater
  <2>1. Open' = Open
    BY <1>2, <1>t DEF PauseLater, Open, Held, TypeOK, taskVars, procVars, Queues
  <2>2. UNCHANGED <<trainer, taken, last, version, saved>> /\ (proc' = "stop") = (proc = "stop")
    BY <1>2 DEF PauseLater, trainVars
  <2> QED BY <2>1, <2>2 DEF Abstract!vars
<1>3. CASE Pause
  <2>1. Open' = Open
    BY <1>3, <1>t DEF Pause, Open, Held, TypeOK, taskVars, procVars, Queues
  <2>2. UNCHANGED <<trainer, taken, last, version, saved>> /\ (proc' = "stop") = (proc = "stop")
    BY <1>3 DEF Pause, trainVars
  <2> QED BY <2>1, <2>2 DEF Abstract!vars
<1>4. CASE Drain
  <2>1. Open' = Open
    BY <1>4, <1>t DEF Drain, Open, Held, TypeOK, taskVars, procVars, Queues
  <2>2. UNCHANGED <<trainer, taken, last, version, saved>> /\ (proc' = "stop") = (proc = "stop")
    BY <1>4 DEF Drain, trainVars
  <2> QED BY <2>1, <2>2 DEF Abstract!vars
<1>5. CASE Resume
  <2>1. Open' = Open
    BY <1>5, <1>t DEF Resume, Open, Held, TypeOK, taskVars, procVars, Queues
  <2>2. UNCHANGED <<trainer, taken, last, version, saved>> /\ (proc' = "stop") = (proc = "stop")
    BY <1>5 DEF Resume, trainVars
  <2> QED BY <2>1, <2>2 DEF Abstract!vars
<1>6. CASE AwaitItem
  <2>1. Open' = Open
    BY <1>6, <1>t DEF AwaitItem, Open, Held, TypeOK, taskVars, procVars, Queues
  <2>2. UNCHANGED <<trainer, taken, last, version, saved>> /\ (proc' = "stop") = (proc = "stop")
    BY <1>6 DEF AwaitItem, trainVars
  <2> QED BY <2>1, <2>2 DEF Abstract!vars
<1>7. CASE Submit
  <2>1. Open' = Open
    BY <1>7, <1>t DEF Submit, Open, Held, TypeOK, taskVars, procVars, Queues
  <2>2. UNCHANGED <<trainer, taken, last, version, saved>> /\ (proc' = "stop") = (proc = "stop")
    BY <1>7 DEF Submit, trainVars
  <2> QED BY <2>1, <2>2 DEF Abstract!vars
<1>8. CASE Feeding \/ Monitoring
  <2>1. Open' = Open
    BY <1>8, Frames DEF Open, Held, taskVars
  <2>2. UNCHANGED <<trainer, taken, last, version, saved>> /\ proc' = proc
    BY <1>8, Frames DEF trainVars
  <2> QED BY <2>1, <2>2 DEF Abstract!vars
<1>9. CASE Pull
  <2>1. Open' = Open \/ (Open' = Open + 1 /\ Open + taken < MaxRequired + 1)
    BY <1>9, <1>t, <1>o DEF Pull, IInv, Counted, ShouldPause, Open, Held, TypeOK
  <2>2. UNCHANGED <<trainer, taken, last, version, saved>> /\ proc # "stop" /\ proc' # "stop" /\ ~last
    BY <1>9 DEF Pull, trainVars, IInv, Ended
  <2>3. CASE Open' = Open
    BY <2>2, <2>3 DEF Abstract!vars
  <2>4. CASE Open' = Open + 1 /\ Open + taken < MaxRequired + 1
    BY <2>2, <2>4 DEF Abstract!Next, Abstract!Admit
  <2> QED BY <2>1, <2>3, <2>4
<1>10. CASE AwaitTask
  <2>1. Open' = Open \/ (Open > 0 /\ Open' = Open - 1)
    BY <1>10, <1>t DEF AwaitTask, Open, Held, TypeOK, taskVars, procVars, Queues
  <2>2. UNCHANGED <<trainer, taken, last, version, saved>> /\ (proc' = "stop") = (proc = "stop")
    BY <1>10 DEF AwaitTask, trainVars, procVars
  <2>3. CASE Open' = Open
    BY <2>2, <2>3 DEF Abstract!vars
  <2>4. CASE Open > 0 /\ Open' = Open - 1
    BY <2>2, <2>4 DEF Abstract!Next, Abstract!Lose
  <2> QED BY <2>1, <2>3, <2>4
<1>11. CASE TaskEnds
  <2>1. Open' = Open \/ (Open > 0 /\ Open' = Open - 1)
    BY <1>11, <1>t DEF TaskEnds, Open, Held, TypeOK, taskVars, procVars, Queues
  <2>2. UNCHANGED <<trainer, taken, last, version, saved>> /\ (proc' = "stop") = (proc = "stop")
    BY <1>11 DEF TaskEnds, trainVars, procVars
  <2>3. CASE Open' = Open
    BY <2>2, <2>3 DEF Abstract!vars
  <2>4. CASE Open > 0 /\ Open' = Open - 1
    BY <2>2, <2>4 DEF Abstract!Next, Abstract!Lose
  <2> QED BY <2>1, <2>3, <2>4
<1>12. CASE GenerationFails
  <2>1. Open' = Open \/ (Open > 0 /\ Open' = Open - 1)
    BY <1>12, <1>t DEF GenerationFails, Open, Held, TypeOK, taskVars, procVars, Queues
  <2>2. UNCHANGED <<trainer, taken, last, version, saved>> /\ (proc' = "stop") = (proc = "stop")
    BY <1>12 DEF GenerationFails, trainVars, procVars
  <2>3. CASE Open' = Open
    BY <2>2, <2>3 DEF Abstract!vars
  <2>4. CASE Open > 0 /\ Open' = Open - 1
    BY <2>2, <2>4 DEF Abstract!Next, Abstract!Lose
  <2> QED BY <2>1, <2>3, <2>4
<1>13. CASE Generated
  <2>1. Open' = Open \/ (Open > 0 /\ Open' = Open - 1)
    <3>1. queue.signal => running + queue.behind < MaxRequired
      BY DEF IInv, Signalled
    <3>2. queue'.ahead + queue'.behind \in {queue.ahead + queue.behind + 1, queue.ahead + queue.behind}
      BY <1>13, <1>t, <3>1, PutSampleFacts DEF Generated, IInv, Ended, TypeOK, Queues
    <3> QED BY <1>13, <1>t, <3>2 DEF Generated, Open, Held, TypeOK, taskVars, procVars, Queues
  <2>2. UNCHANGED <<trainer, taken, last, version, saved>> /\ (proc' = "stop") = (proc = "stop")
    BY <1>13 DEF Generated, trainVars, procVars
  <2>3. CASE Open' = Open
    BY <2>2, <2>3 DEF Abstract!vars
  <2>4. CASE Open > 0 /\ Open' = Open - 1
    BY <2>2, <2>4 DEF Abstract!Next, Abstract!Lose
  <2> QED BY <2>1, <2>3, <2>4
<1>14. CASE Finish
  <2>1. Open' \in {Open, Open - 1}
    <3>1. ~queue.signal /\ queue.behind = 0
      BY <1>14 DEF Finish, IInv, Ended
    <3>2. queue'.behind = 0 /\ queue'.ahead \in {queue.ahead, queue.ahead - 1}
      BY <1>14, <1>t, <3>1, PutSignalFacts DEF Finish
    <3> QED BY <1>14, <1>t, <3>1, <3>2 DEF Finish, Open, Held, TypeOK, taskVars, procVars, Queues
  <2>2. UNCHANGED <<trainer, taken, last, version, saved>> /\ proc # "stop" /\ proc' = "stop"
    BY <1>14 DEF Finish, trainVars
  <2> QED BY <1>o, <2>1, <2>2 DEF Abstract!Next, Abstract!Close
<1>15. CASE Begin
  <2>1. Open' = Open
    BY <1>15 DEF Begin, Open, Held, taskVars, procVars
  <2>2. UNCHANGED <<taken, last, version, saved, proc>>
    BY <1>15 DEF Begin, procVars
  <2>3. phase' = phase
    BY <1>15 DEF Begin, phase
  <2> QED BY <2>1, <2>2, <2>3 DEF Abstract!vars, phase
<1>16. CASE Deactivate
  <2>1. Open' = Open
    BY <1>16 DEF Deactivate, Open, Held, taskVars, procVars
  <2>2. UNCHANGED <<taken, last, version, saved, proc>>
    BY <1>16 DEF Deactivate, procVars
  <2>3. phase' = phase
    BY <1>16 DEF Deactivate, phase
  <2> QED BY <2>1, <2>2, <2>3 DEF Abstract!vars, phase
<1>17. CASE Sync
  <2>1. Open' = Open
    BY <1>17 DEF Sync, Open, Held, taskVars, procVars
  <2>2. UNCHANGED <<taken, last, version, saved, proc>>
    BY <1>17 DEF Sync, procVars
  <2>3. phase' = phase
    BY <1>17 DEF Sync, phase
  <2> QED BY <2>1, <2>2, <2>3 DEF Abstract!vars, phase
<1>18. CASE ResetBegins
  <2>1. Open' = Open
    BY <1>18 DEF ResetBegins, Open, Held, taskVars, procVars
  <2>2. UNCHANGED <<taken, last, version, saved, proc>>
    BY <1>18 DEF ResetBegins, procVars
  <2>3. phase' = phase
    BY <1>18 DEF ResetBegins, phase
  <2> QED BY <2>1, <2>2, <2>3 DEF Abstract!vars, phase
<1>19. CASE Take
  <2>1. Open' = Open - 1 /\ Open > 0
    <3>1. queue'.ahead = queue.ahead - 1 /\ queue'.behind = queue.behind
      BY <1>19, <1>t, PopLeftFacts DEF Take, Queues
    <3> QED BY <1>19, <1>t, <3>1 DEF Take, Open, Held, TypeOK, taskVars, procVars, Queues
  <2>2. UNCHANGED <<last, version, saved, proc>> /\ ~last /\ taken < Step /\ taken' = taken + 1
    BY <1>19 DEF Take, procVars, IInv, Stepping
  <2>3. phase = "use" /\ phase' = "use"
    BY <1>19 DEF Take, phase
  <2> QED BY <2>1, <2>2, <2>3 DEF Abstract!Next, Abstract!Use, phase
<1>20. CASE TakeEnd
  <2>1. Open' = Open
    <3>1. queue.ahead = 0 /\ queue'.ahead = queue.behind /\ queue'.behind = 0
      BY <1>20, <1>t, PopLeftFacts DEF TakeEnd
    <3> QED BY <1>20, <1>t, <3>1 DEF TakeEnd, Open, Held, TypeOK, taskVars, procVars, Queues
  <2>2. UNCHANGED <<taken, last, version, saved, proc>>
    BY <1>20 DEF TakeEnd, procVars
  <2>3. phase' = phase
    BY <1>20 DEF TakeEnd, phase
  <2> QED BY <2>1, <2>2, <2>3 DEF Abstract!vars, phase
<1>21. CASE Train
  <2>1. Open' = Open /\ UNCHANGED <<taken, last, saved, proc>> /\ ~last
    BY <1>21 DEF Train, Open, Held, taskVars, procVars, IInv, Stepping
  <2>2. phase = "use"
    BY <1>21 DEF Train, phase
  <2>3. CASE taken = Step
    <3>1. phase' = "published" /\ version' = version + 1
      BY <1>21, <2>1, <2>3 DEF Train, phase
    <3> QED BY <2>1, <2>2, <2>3, <3>1 DEF Abstract!Next, Abstract!Publish, phase
  <2>4. CASE taken # Step
    <3>1. phase' = "use" /\ version' = version
      BY <1>21, <2>1, <2>4 DEF Train, phase
    <3> QED BY <2>1, <2>2, <3>1 DEF Abstract!vars, phase
  <2> QED BY <2>3, <2>4
<1>22. CASE ResetEnds
  <2>1. Open' = Open /\ UNCHANGED <<last, version, saved, proc>> /\ taken' = 0
    BY <1>22 DEF ResetEnds, Open, Held, taskVars
  <2>2. phase' = "use" /\ (~last => phase = "published") /\ (last => phase = "use")
    BY <1>22 DEF ResetEnds, phase
  <2>3. CASE last
    BY <2>1, <2>2, <2>3 DEF Abstract!vars, phase
  <2>4. CASE ~last
    BY <2>1, <2>2, <2>4 DEF Abstract!Next, Abstract!Renew, phase
  <2> QED BY <2>3, <2>4
<1>23. CASE Save
  <2>1. Open' = Open /\ UNCHANGED <<taken, last, version, proc>>
    BY <1>23 DEF Save, Open, Held, taskVars, procVars
  <2>2. phase = "use" /\ phase' = "use"
    BY <1>23 DEF Save, phase
  <2>3. saved' = saved \/ saved'.version = version
    BY <1>23 DEF Save, Checkpoint
  <2>4. CASE saved' = saved
    BY <2>1, <2>2, <2>4 DEF Abstract!vars, phase
  <2>5. CASE saved'.version = version
    BY <2>1, <2>2, <2>5 DEF Abstract!Next, Abstract!Keep, phase
  <2> QED BY <2>3, <2>4, <2>5
<1>24. CASE Final
  <2>1. Open' = Open /\ UNCHANGED <<taken, last, version, proc>>
    BY <1>24 DEF Final, Open, Held, taskVars, procVars
  <2>2. phase = "use" /\ phase' = "use"
    BY <1>24 DEF Final, phase
  <2>3. saved' = saved \/ saved'.version = version
    BY <1>24 DEF Final, Checkpoint
  <2>4. CASE saved' = saved
    BY <2>1, <2>2, <2>4 DEF Abstract!vars, phase
  <2>5. CASE saved'.version = version
    BY <2>1, <2>2, <2>5 DEF Abstract!Next, Abstract!Keep, phase
  <2> QED BY <2>3, <2>4, <2>5
<1>25. CASE Stopping
  <2>1. Open' = Open /\ UNCHANGED <<taken, version, saved, proc>> /\ proc = "stop" /\ ~last
    BY <1>25 DEF Stopping, Open, Held, taskVars, procVars, IInv, Ended, Stepping
  <2>2. phase = "use" /\ phase' = "use"
    BY <1>25 DEF Stopping, phase
  <2>3. CASE last'
    BY <2>1, <2>2, <2>3 DEF Abstract!Next, Abstract!Discard, phase
  <2>4. CASE ~last'
    BY <2>1, <2>2, <2>4 DEF Abstract!vars, phase
  <2> QED BY <2>3, <2>4
<1>26. CASE Restart
  <2>1. Open' = 0 /\ taken' = 0 /\ version' = saved.version /\ proc' = "check" /\ saved' = saved
    BY <1>26 DEF Restart, Open, Held, Empty
  <2>2. phase' = "use" /\ ~last'
    BY <1>26 DEF Restart, phase
  <2> QED BY <2>1, <2>2 DEF Abstract!Next, Abstract!Restart, phase
<1>27. CASE UNCHANGED vars \/ Terminated
  <2>1. UNCHANGED <<trainer, taken, last, version, saved, proc, queue, running>>
    BY <1>27 DEF Terminated, vars, trainVars, procVars, taskVars
  <2> QED BY <2>1 DEF Abstract!vars, Open, Held
<1> QED BY <1>1, <1>2, <1>3, <1>4, <1>5, <1>6, <1>7, <1>8, <1>9, <1>10, <1>11, <1>12, <1>13, <1>14, <1>15, <1>16, <1>17, <1>18, <1>19, <1>20, <1>21, <1>22, <1>23, <1>24, <1>25, <1>26, <1>27 DEF Next, Processing, Generating, Training

(* The rollouter, its message queue and the trainer implement the budget of stale  *)
(* samples with one sample more than max_required_samples.                         *)
THEOREM Refinement == Spec => Implements
<1>1. Init => Abstract!Init
  <2> SUFFICES ASSUME Init PROVE Abstract!Init
    OBVIOUS
  <2>1. Open = 0 /\ ~last /\ taken = 0 /\ trainer = "step" /\ proc = "check"
        /\ version = 0 /\ saved.version = 0
    BY DEF Init, Open, Held, Empty
  <2> QED BY <2>1 DEF Abstract!Init
<1> QED BY <1>1, Invariance, BudgetStep, PTL DEF Spec, Implements, Abstract!Spec

-------------------------------------------------------------------------------
(* What training is at work on: the samples of the versions, those taken since the *)
(* last one, the open and the pending ones.                                        *)
used == IF last THEN 0 ELSE taken
Trained == version * Step
Rest == IF phase = "published" THEN 0 ELSE used
Work == Trained + Rest + Open + pending

LEMMA NextVersion == \A v, s \in Nat : v * s \in Nat /\ (v + 1) * s = v * s + s
OBVIOUS

LEMMA WorkType ==
    IInv => /\ Open \in Nat /\ Rest \in Nat /\ Trained \in Nat /\ pending \in Nat
            /\ fed \in Nat
<1> SUFFICES ASSUME IInv
             PROVE  /\ Open \in Nat /\ Rest \in Nat /\ Trained \in Nat
                    /\ pending \in Nat /\ fed \in Nat
  OBVIOUS
<1>t. TypeOK
  BY DEF IInv
<1>1. Open \in Nat
  BY <1>t DEF Open, Held, TypeOK
<1>2. Rest \in Nat
  BY <1>t DEF Rest, used, TypeOK
<1>3. Trained \in Nat
  BY <1>t, StepPositive, NextVersion DEF Trained, TypeOK
<1> QED BY <1>t, <1>1, <1>2, <1>3, SizeAssumption DEF TypeOK

LEMMA WorkNat == IInv => Work \in Nat /\ fed \in Nat /\ Trained \in Nat /\ Trained <= Work
BY WorkType DEF Work

(* Between two restarts no step trains on, opens or queues more samples than it    *)
(* draws.                                                                          *)
LEMMA WorkStep == IInv /\ IInv' /\ [Next]_vars => Restart \/ Work' + fed <= Work + fed'
<1> SUFFICES ASSUME IInv, IInv', [Next]_vars, ~Restart PROVE Work' + fed <= Work + fed'
  OBVIOUS
<1>t. TypeOK /\ TypeOK' /\ queue \in Queues /\ queue' \in Queues
  BY DEF IInv, TypeOK, Queues
<1>n. /\ Open \in Nat /\ Open' \in Nat /\ Rest \in Nat /\ Rest' \in Nat
      /\ Trained \in Nat /\ Trained' \in Nat /\ pending \in Nat /\ pending' \in Nat
      /\ fed \in Nat /\ fed' \in Nat
  <2>1. (Open \in Nat /\ Rest \in Nat /\ Trained \in Nat /\ pending \in Nat /\ fed \in Nat)'
    BY WorkType, PTL
  <2> QED BY <2>1, WorkType
<1>p. PICK t, t2, r, r2, o, o2, p, p2, f, f2 \in Nat :
           /\ t = Trained /\ t2 = Trained' /\ r = Rest /\ r2 = Rest' /\ o = Open /\ o2 = Open'
           /\ p = pending /\ p2 = pending' /\ f = fed /\ f2 = fed'
  BY <1>n, Zenon
<1> SUFFICES t2 + r2 + o2 + p2 + f <= t + r + o + p + f2
  BY <1>p DEF Work
<1>1. CASE Feeding
  <2>1. Rest' = Rest /\ Trained' = Trained
    BY <1>1, Frames DEF Rest, Rest, used, phase, Trained, trainVars
  <2>2. Open' = Open /\ fed' - fed = pending' - pending
    BY <1>1, <1>t, Frames DEF Feeding, Feed, FeedEnd, Open, Held, taskVars, TypeOK
  <2>3. r2 = r /\ o2 = o /\ t2 = t /\ f2 - f = p2 - p
    BY <1>p, <2>1, <2>2, Zenon
  <2> QED BY <2>3
<1>2. CASE Monitoring
  <2>1. Rest' = Rest /\ Trained' = Trained
    BY <1>2, Frames DEF Rest, Rest, used, phase, Trained, trainVars
  <2>2. Open' = Open /\ fed' = fed /\ pending' = pending
    BY <1>2, Frames DEF Monitoring, MonitorSees, MonitorDecides, MonitorResumes, Open, Held, taskVars, feedVars
  <2>3. r2 = r /\ o2 = o /\ t2 = t /\ f2 = f /\ p2 = p
    BY <1>p, <2>1, <2>2, Zenon
  <2> QED BY <2>3
<1>3. CASE Check
  <2>1. Rest' = Rest /\ Trained' = Trained
    BY <1>3 DEF Check, Rest, used, phase, Trained, trainVars
  <2>2. Open' <= Open /\ fed' = fed /\ pending' = pending
    BY <1>3, <1>t DEF Check, Open, Held, TypeOK, taskVars, procVars, feedVars, Queues
  <2>3. r2 = r /\ o2 <= o /\ t2 = t /\ f2 = f /\ p2 = p
    BY <1>p, <2>1, <2>2, Zenon
  <2> QED BY <2>3
<1>4. CASE PauseLater
  <2>1. Rest' = Rest /\ Trained' = Trained
    BY <1>4 DEF PauseLater, Rest, used, phase, Trained, trainVars
  <2>2. Open' <= Open /\ fed' = fed /\ pending' = pending
    BY <1>4, <1>t DEF PauseLater, Open, Held, TypeOK, taskVars, procVars, feedVars, Queues
  <2>3. r2 = r /\ o2 <= o /\ t2 = t /\ f2 = f /\ p2 = p
    BY <1>p, <2>1, <2>2, Zenon
  <2> QED BY <2>3
<1>5. CASE Pause
  <2>1. Rest' = Rest /\ Trained' = Trained
    BY <1>5 DEF Pause, Rest, used, phase, Trained, trainVars
  <2>2. Open' <= Open /\ fed' = fed /\ pending' = pending
    BY <1>5, <1>t DEF Pause, Open, Held, TypeOK, taskVars, procVars, feedVars, Queues
  <2>3. r2 = r /\ o2 <= o /\ t2 = t /\ f2 = f /\ p2 = p
    BY <1>p, <2>1, <2>2, Zenon
  <2> QED BY <2>3
<1>6. CASE Drain
  <2>1. Rest' = Rest /\ Trained' = Trained
    BY <1>6 DEF Drain, Rest, used, phase, Trained, trainVars
  <2>2. Open' <= Open /\ fed' = fed /\ pending' = pending
    BY <1>6, <1>t DEF Drain, Open, Held, TypeOK, taskVars, procVars, feedVars, Queues
  <2>3. r2 = r /\ o2 <= o /\ t2 = t /\ f2 = f /\ p2 = p
    BY <1>p, <2>1, <2>2, Zenon
  <2> QED BY <2>3
<1>7. CASE Resume
  <2>1. Rest' = Rest /\ Trained' = Trained
    BY <1>7 DEF Resume, Rest, used, phase, Trained, trainVars
  <2>2. Open' <= Open /\ fed' = fed /\ pending' = pending
    BY <1>7, <1>t DEF Resume, Open, Held, TypeOK, taskVars, procVars, feedVars, Queues
  <2>3. r2 = r /\ o2 <= o /\ t2 = t /\ f2 = f /\ p2 = p
    BY <1>p, <2>1, <2>2, Zenon
  <2> QED BY <2>3
<1>8. CASE AwaitItem
  <2>1. Rest' = Rest /\ Trained' = Trained
    BY <1>8 DEF AwaitItem, Rest, used, phase, Trained, trainVars
  <2>2. Open' <= Open /\ fed' = fed /\ pending' = pending
    BY <1>8, <1>t DEF AwaitItem, Open, Held, TypeOK, taskVars, procVars, feedVars, Queues
  <2>3. r2 = r /\ o2 <= o /\ t2 = t /\ f2 = f /\ p2 = p
    BY <1>p, <2>1, <2>2, Zenon
  <2> QED BY <2>3
<1>9. CASE Submit
  <2>1. Rest' = Rest /\ Trained' = Trained
    BY <1>9 DEF Submit, Rest, used, phase, Trained, trainVars
  <2>2. Open' <= Open /\ fed' = fed /\ pending' = pending
    BY <1>9, <1>t DEF Submit, Open, Held, TypeOK, taskVars, procVars, feedVars, Queues
  <2>3. r2 = r /\ o2 <= o /\ t2 = t /\ f2 = f /\ p2 = p
    BY <1>p, <2>1, <2>2, Zenon
  <2> QED BY <2>3
<1>10. CASE AwaitTask
  <2>1. Rest' = Rest /\ Trained' = Trained
    BY <1>10 DEF AwaitTask, Rest, used, phase, Trained, trainVars
  <2>2. Open' <= Open /\ fed' = fed /\ pending' = pending
    BY <1>10, <1>t DEF AwaitTask, Open, Held, TypeOK, taskVars, procVars, feedVars, Queues
  <2>3. r2 = r /\ o2 <= o /\ t2 = t /\ f2 = f /\ p2 = p
    BY <1>p, <2>1, <2>2, Zenon
  <2> QED BY <2>3
<1>11. CASE TaskEnds
  <2>1. Rest' = Rest /\ Trained' = Trained
    BY <1>11 DEF TaskEnds, Rest, used, phase, Trained, trainVars
  <2>2. Open' <= Open /\ fed' = fed /\ pending' = pending
    BY <1>11, <1>t DEF TaskEnds, Open, Held, TypeOK, taskVars, procVars, feedVars, Queues
  <2>3. r2 = r /\ o2 <= o /\ t2 = t /\ f2 = f /\ p2 = p
    BY <1>p, <2>1, <2>2, Zenon
  <2> QED BY <2>3
<1>12. CASE GenerationFails
  <2>1. Rest' = Rest /\ Trained' = Trained
    BY <1>12 DEF GenerationFails, Rest, used, phase, Trained, trainVars
  <2>2. Open' <= Open /\ fed' = fed /\ pending' = pending
    BY <1>12, <1>t DEF GenerationFails, Open, Held, TypeOK, taskVars, procVars, feedVars, Queues
  <2>3. r2 = r /\ o2 <= o /\ t2 = t /\ f2 = f /\ p2 = p
    BY <1>p, <2>1, <2>2, Zenon
  <2> QED BY <2>3
<1>13. CASE Pull
  <2>1. Rest' = Rest /\ Trained' = Trained
    BY <1>13 DEF Pull, Rest, used, phase, Trained, trainVars
  <2>2. Open' + pending' <= Open + pending /\ fed' = fed
    BY <1>13, <1>t DEF Pull, Open, Held, TypeOK, taskVars, procVars, feedVars, Queues
  <2>3. r2 = r /\ t2 = t /\ o2 + p2 <= o + p /\ f2 = f
    BY <1>p, <2>1, <2>2, Zenon
  <2> QED BY <2>3
<1>14. CASE Generated
  <2>1. Rest' = Rest /\ Trained' = Trained
    BY <1>14 DEF Generated, Rest, used, phase, Trained, trainVars
  <2>2. Open' <= Open /\ fed' = fed /\ pending' = pending
    <3>1. queue.signal => running + queue.behind < MaxRequired
      BY DEF IInv, Signalled
    <3>2. queue'.ahead + queue'.behind \in {queue.ahead + queue.behind + 1, queue.ahead + queue.behind}
      BY <1>14, <1>t, <3>1, PutSampleFacts, SizeAssumption, StepPositive DEF Generated, IInv, Ended, TypeOK, Queues
    <3> QED BY <1>14, <1>t, <3>2 DEF Generated, Open, Held, TypeOK, taskVars, procVars, feedVars, Queues
  <2>3. r2 = r /\ o2 <= o /\ t2 = t /\ f2 = f /\ p2 = p
    BY <1>p, <2>1, <2>2, Zenon
  <2> QED BY <2>3
<1>15. CASE Finish
  <2>1. Rest' = Rest /\ Trained' = Trained
    BY <1>15 DEF Finish, Rest, used, phase, Trained, trainVars
  <2>2. Open' <= Open /\ fed' = fed /\ pending' = pending
    <3>1. ~queue.signal /\ queue.behind = 0
      BY <1>15 DEF Finish, IInv, Ended
    <3>2. queue'.behind = 0 /\ queue'.ahead \in {queue.ahead, queue.ahead - 1}
      BY <1>15, <1>t, <3>1, PutSignalFacts DEF Finish
    <3> QED BY <1>15, <1>t, <3>1, <3>2 DEF Finish, Open, Held, TypeOK, taskVars, procVars, feedVars, Queues
  <2>3. r2 = r /\ o2 <= o /\ t2 = t /\ f2 = f /\ p2 = p
    BY <1>p, <2>1, <2>2, Zenon
  <2> QED BY <2>3
<1>16. CASE Begin
  <2>1. Rest' = Rest /\ Trained' = Trained
    BY <1>16 DEF Begin, Rest, used, phase, Trained
  <2>2. Open' = Open /\ fed' = fed /\ pending' = pending
    BY <1>16 DEF Begin, Open, Held, taskVars, procVars, feedVars
  <2>3. r2 = r /\ o2 = o /\ t2 = t /\ f2 = f /\ p2 = p
    BY <1>p, <2>1, <2>2, Zenon
  <2> QED BY <2>3
<1>17. CASE Deactivate
  <2>1. Rest' = Rest /\ Trained' = Trained
    BY <1>17 DEF Deactivate, Rest, used, phase, Trained
  <2>2. Open' = Open /\ fed' = fed /\ pending' = pending
    BY <1>17 DEF Deactivate, Open, Held, taskVars, procVars, feedVars
  <2>3. r2 = r /\ o2 = o /\ t2 = t /\ f2 = f /\ p2 = p
    BY <1>p, <2>1, <2>2, Zenon
  <2> QED BY <2>3
<1>18. CASE Sync
  <2>1. Rest' = Rest /\ Trained' = Trained
    BY <1>18 DEF Sync, Rest, used, phase, Trained
  <2>2. Open' = Open /\ fed' = fed /\ pending' = pending
    BY <1>18 DEF Sync, Open, Held, taskVars, procVars, feedVars
  <2>3. r2 = r /\ o2 = o /\ t2 = t /\ f2 = f /\ p2 = p
    BY <1>p, <2>1, <2>2, Zenon
  <2> QED BY <2>3
<1>19. CASE ResetBegins
  <2>1. Rest' = Rest /\ Trained' = Trained
    BY <1>19 DEF ResetBegins, Rest, used, phase, Trained
  <2>2. Open' = Open /\ fed' = fed /\ pending' = pending
    BY <1>19 DEF ResetBegins, Open, Held, taskVars, procVars, feedVars
  <2>3. r2 = r /\ o2 = o /\ t2 = t /\ f2 = f /\ p2 = p
    BY <1>p, <2>1, <2>2, Zenon
  <2> QED BY <2>3
<1>20. CASE Take
  <2>1. Rest' = Rest + 1 /\ Trained' = Trained
    BY <1>20, <1>t DEF Take, Rest, used, phase, Trained, TypeOK, IInv, Stepping
  <2>2. Open' = Open - 1 /\ fed' = fed /\ pending' = pending
    <3>1. queue'.ahead = queue.ahead - 1 /\ queue'.behind = queue.behind
      BY <1>20, <1>t, PopLeftFacts DEF Take, Queues
    <3> QED BY <1>20, <1>t, <3>1 DEF Take, Open, Held, TypeOK, taskVars, procVars, feedVars, Queues
  <2>3. r2 = r + 1 /\ o2 = o - 1 /\ t2 = t /\ f2 = f /\ p2 = p
    BY <1>p, <2>1, <2>2, Zenon
  <2> QED BY <2>3
<1>21. CASE TakeEnd
  <2>1. Rest' = Rest /\ Trained' = Trained
    BY <1>21 DEF TakeEnd, Rest, used, phase, Trained
  <2>2. Open' = Open /\ fed' = fed /\ pending' = pending
    <3>1. queue.ahead = 0 /\ queue'.ahead = queue.behind /\ queue'.behind = 0
      BY <1>21, <1>t, PopLeftFacts DEF TakeEnd
    <3> QED BY <1>21, <1>t, <3>1 DEF TakeEnd, Open, Held, TypeOK, taskVars, procVars, feedVars, Queues
  <2>3. r2 = r /\ o2 = o /\ t2 = t /\ f2 = f /\ p2 = p
    BY <1>p, <2>1, <2>2, Zenon
  <2> QED BY <2>3
<1>22. CASE Train
  <2>1. Open' = Open /\ fed' = fed /\ pending' = pending
    BY <1>22 DEF Train, Open, Held, taskVars, procVars, feedVars
  <2>2. ~last /\ ~last' /\ taken' = taken /\ phase = "use" /\ Rest = taken
    BY <1>22 DEF Train, IInv, Stepping, phase, Rest, used
  <2>4. CASE taken = Step
    <3>1. version' = version + 1 /\ Rest' = 0
      BY <1>22, <2>2, <2>4 DEF Train, Rest, phase
    <3>2. Trained' = Trained + Step
      BY <3>1, <1>t, NextVersion, StepPositive DEF Trained, TypeOK
    <3>3. r = Step /\ r2 = 0 /\ t2 = t + Step /\ o2 = o /\ f2 = f /\ p2 = p
      BY <1>p, <2>1, <2>2, <2>4, <3>1, <3>2, Zenon
    <3> QED BY <3>3, StepPositive
  <2>5. CASE taken # Step
    <3>1. Trained' = Trained /\ Rest' = Rest
      BY <1>22, <2>2, <2>5 DEF Train, Rest, phase, used, Trained
    <3>2. r2 = r /\ t2 = t /\ o2 = o /\ f2 = f /\ p2 = p
      BY <1>p, <2>1, <3>1, Zenon
    <3> QED BY <3>2
  <2> QED BY <2>4, <2>5
<1>23. CASE ResetEnds
  <2>1. Rest' = 0 /\ Trained' = Trained
    BY <1>23 DEF ResetEnds, Rest, used, phase, Trained
  <2>2. Open' = Open /\ fed' = fed /\ pending' = pending
    BY <1>23 DEF ResetEnds, Open, Held, taskVars, feedVars
  <2>3. r2 = 0 /\ o2 = o /\ t2 = t /\ f2 = f /\ p2 = p
    BY <1>p, <2>1, <2>2, Zenon
  <2> QED BY <2>3
<1>24. CASE Save
  <2>1. Rest' = Rest /\ Trained' = Trained
    BY <1>24 DEF Save, Rest, used, phase, Trained
  <2>2. Open' = Open /\ fed' = fed /\ pending' = pending
    BY <1>24 DEF Save, Open, Held, taskVars, procVars, feedVars
  <2>3. r2 = r /\ t2 = t /\ o2 = o /\ f2 = f /\ p2 = p
    BY <1>p, <2>1, <2>2, Zenon
  <2> QED BY <2>3
<1>25. CASE Final
  <2>1. Rest' = Rest /\ Trained' = Trained
    BY <1>25 DEF Final, Rest, used, phase, Trained
  <2>2. Open' = Open /\ fed' = fed /\ pending' = pending
    BY <1>25 DEF Final, Open, Held, taskVars, procVars, feedVars
  <2>3. r2 = r /\ t2 = t /\ o2 = o /\ f2 = f /\ p2 = p
    BY <1>p, <2>1, <2>2, Zenon
  <2> QED BY <2>3
<1>26. CASE Stopping
  <2>1. Rest' <= Rest /\ Trained' = Trained
    BY <1>26, <1>t DEF Stopping, Rest, used, phase, Trained, TypeOK
  <2>2. Open' = Open /\ fed' = fed /\ pending' = pending
    BY <1>26 DEF Stopping, Open, Held, taskVars, procVars, feedVars
  <2>3. r2 <= r /\ o2 = o /\ t2 = t /\ f2 = f /\ p2 = p
    BY <1>p, <2>1, <2>2, Zenon
  <2> QED BY <2>3
<1>27. CASE UNCHANGED vars \/ Terminated
  <2>1. UNCHANGED <<trainer, taken, last, version, proc, queue, running, fed, pending>>
    BY <1>27 DEF Terminated, vars, trainVars, procVars, taskVars, feedVars
  <2>2. Rest' = Rest /\ Trained' = Trained /\ Open' = Open /\ fed' = fed /\ pending' = pending
    BY <2>1 DEF Trained, Rest, used, phase, Open, Held
  <2>3. r2 = r /\ t2 = t /\ o2 = o /\ f2 = f /\ p2 = p
    BY <1>p, <2>2, Zenon
  <2> QED BY <2>3
<1> QED BY <1>1, <1>2, <1>3, <1>4, <1>5, <1>6, <1>7, <1>8, <1>9, <1>10, <1>11, <1>12, <1>13, <1>14, <1>15, <1>16, <1>17, <1>18, <1>19, <1>20, <1>21, <1>22, <1>23, <1>24, <1>25, <1>26, <1>27 DEF Next, Processing, Generating, Training

(* What was drawn from the dataset is that much, at least. *)
Drawn == Work <= fed /\ DrawnOnce

(* A checkpoint is taken of the version and of no less than what was fed. *)
LEMMA SavedStep ==
    IInv /\ [Next]_vars =>
        \/ saved' = saved
        \/ ~Restart /\ saved'.version = version /\ saved'.position \in {fed, fed + 1}
              /\ fed' = fed
<1> SUFFICES ASSUME IInv, [Next]_vars, saved' # saved
             PROVE  /\ saved'.version = version /\ saved'.position \in {fed, fed + 1}
                    /\ fed' = fed /\ ~Restart
  OBVIOUS
<1>1. (Save \/ Final) /\ ~Restart
  <2>1. ~Restart /\ ~Terminated /\ ~Feeding /\ ~Monitoring /\ ~Processing /\ ~Generating
    BY Frames DEF Restart, Terminated, vars
  <2>2. Training /\ ~UNCHANGED vars
    BY <2>1 DEF Next, vars
  <2> QED BY <2>1, <2>2 DEF Training, Begin, Deactivate, Take, TakeEnd, Train, Sync, ResetBegins, ResetEnds, Stopping
<1>2. Checkpoint /\ fed' = fed
  BY <1>1 DEF Save, Final, feedVars
<1> QED BY <1>1, <1>2, WorkType DEF Checkpoint

(* No step trains on, opens or queues a sample that was not drawn. *)
LEMMA DrawnStep == IInv /\ IInv' /\ Drawn /\ [Next]_vars => Drawn'
<1> SUFFICES ASSUME IInv, IInv', Drawn, [Next]_vars PROVE Drawn'
  OBVIOUS
<1>n. /\ Work \in Nat /\ fed \in Nat /\ Trained \in Nat /\ Trained <= Work
  BY WorkNat
<1>m. (Work \in Nat /\ fed \in Nat)'
  BY WorkNat, PTL
<1>d. Work <= fed /\ DrawnOnce
  BY DEF Drawn
<1>1. DrawnOnce'
  <2>1. CASE saved' = saved
    BY <1>d, <2>1 DEF DrawnOnce
  <2>2. CASE saved'.version = version /\ saved'.position \in {fed, fed + 1}
    BY <1>n, <1>d, <2>2 DEF DrawnOnce, Trained
  <2> QED BY <2>1, <2>2, SavedStep
<1>2. Work' <= fed'
  <2>1. CASE Restart
    <3>1. Rest' = 0 /\ Open' = 0 /\ pending' = 0
      BY <2>1 DEF Restart, Rest, used, phase, Open, Held, Empty
    <3>2. Trained' = saved.version * Step /\ fed' = saved.position
      BY <2>1 DEF Restart, Trained
    <3>3. saved.version * Step \in Nat /\ saved.position \in Nat
      BY StepPositive, NextVersion DEF IInv, TypeOK
    <3> QED BY <3>1, <3>2, <3>3, <1>d DEF Work, DrawnOnce
  <2>2. CASE Work' + fed <= Work + fed'
    <3>1. PICK w, w2, f, f2 \in Nat : w = Work /\ w2 = Work' /\ f = fed /\ f2 = fed'
      BY <1>n, <1>m, Zenon
    <3>2. w2 + f <= w + f2 /\ w <= f
      BY <3>1, <2>2, <1>d, Zenon
    <3>3. w2 <= f2
      BY <3>2
    <3> QED BY <3>1, <3>3, Zenon
  <2> QED BY <2>1, <2>2, WorkStep
<1> QED BY <1>1, <1>2 DEF Drawn

(* A checkpoint's position of the dataset is behind every sample that its weights  *)
(* were trained on: a resumed training draws none of them again.                   *)
THEOREM DrawnSafe == Spec => []DrawnOnce
<1>1. Init => Drawn
  BY StepPositive DEF Init, Drawn, Work, DrawnOnce, Trained, Rest, used, phase, Open, Held, Empty
<1>2. Drawn => DrawnOnce
  BY DEF Drawn
<1> QED BY <1>1, <1>2, Invariance, DrawnStep, PTL DEF Spec

-------------------------------------------------------------------------------
(* The plan: what the feeder has fed of it, by its steps, bounds the work.         *)
Reach == IF feeder = "feed" THEN steps - 1 ELSE steps

(* Steps go to Total, or to the one sample that a feeder resumed at its end feeds. *)
Planned ==
    /\ Work <= Reach
    /\ steps <= Total \/ (\E v \in Nat : steps = v * Step + 1 /\ v * Step <= Total)
    /\ saved.version * Step <= Total

(* The same without a reason: each start of the job goes one sample further.       *)
Exceeded ==
    /\ Work <= Reach
    /\ steps <= Total + restarts + 1
    /\ saved.version * Step <= Total + restarts + 1

LEMMA ReachNat == IInv => Reach \in Int /\ Reach <= steps /\ steps \in Nat /\ restarts \in Nat
BY SizeAssumption DEF IInv, TypeOK, Reach

(* Between two restarts the steps count what is fed, as long as there is a plan.   *)
LEMMA FeedStep ==
    IInv /\ [Next]_vars =>
        Restart \/ /\ fed' + Reach <= fed + Reach'
                   /\ steps' = steps \/ (steps < Total /\ steps' = steps + 1)
                   /\ restarts' = restarts
<1> SUFFICES ASSUME IInv, [Next]_vars, ~Restart
             PROVE  /\ fed' + Reach <= fed + Reach'
                    /\ steps' = steps \/ (steps < Total /\ steps' = steps + 1)
                    /\ restarts' = restarts
  OBVIOUS
<1>t. TypeOK
  BY DEF IInv
<1>n. fed \in Nat /\ steps \in Nat /\ Total \in Nat /\ Reach \in Int
  BY ReachNat, SizeAssumption DEF IInv, TypeOK
<1>1. CASE Feed
  <2>1. Reach = steps - 1 /\ fed' = fed + 1 /\ restarts' = restarts
    BY <1>1 DEF Feed, Reach
  <2>2. CASE steps >= Total
    <3>1. Reach' = steps /\ steps' = steps
      BY <1>1, <2>2 DEF Feed, Reach
    <3>2. fed' + (steps - 1) <= fed + steps
      BY <1>n, <2>1
    <3> QED BY <1>n, <2>1, <3>1, <3>2
  <2>3. CASE steps < Total
    <3>1. Reach' = (steps + 1) - 1 /\ steps' = steps + 1
      BY <1>1, <1>n, <2>3 DEF Feed, Reach
    <3>2. fed' + (steps - 1) <= fed + ((steps + 1) - 1)
      BY <1>n, <2>1
    <3> QED BY <1>n, <2>1, <2>3, <3>1, <3>2
  <2> QED BY <1>n, <2>2, <2>3
<1>2. CASE FeedEnd
  <2>1. Reach = steps /\ Reach' = steps /\ UNCHANGED <<fed, steps, restarts>>
    BY <1>2 DEF FeedEnd, Reach
  <2>2. fed' + steps <= fed + steps
    BY <1>n, <2>1
  <2> QED BY <1>n, <2>1, <2>2
<1>3. CASE Finish
  <2>1. Reach \in {steps, steps - 1} /\ Reach' = steps /\ UNCHANGED <<fed, steps, restarts>>
    BY <1>3 DEF Finish, Reach
  <2>2. fed' + Reach <= fed + steps
    BY <1>n, <2>1
  <2> QED BY <1>n, <2>1, <2>2
<1>4. CASE UNCHANGED <<fed, steps, feeder, restarts>>
  <2>1. Reach' = Reach /\ UNCHANGED <<fed, steps, restarts>>
    BY <1>4 DEF Reach
  <2>2. fed' + Reach <= fed + Reach
    BY <1>n, <2>1
  <2> QED BY <1>n, <2>1, <2>2
<1>5. CASE Processing /\ ~Finish
  <2>1. UNCHANGED <<fed, steps, feeder, restarts>>
    BY <1>5 DEF Processing, Check, PauseLater, Pause, Drain, Resume, AwaitItem, Pull, Submit, AwaitTask, TaskEnds, feedVars
  <2> QED BY <2>1, <1>4
<1>6. CASE Generating \/ Monitoring
  <2>1. UNCHANGED <<fed, steps, feeder, restarts>>
    BY <1>6 DEF Generating, Generated, GenerationFails, Monitoring, MonitorSees, MonitorDecides, MonitorResumes, feedVars
  <2> QED BY <2>1, <1>4
<1>7. CASE Training
  <2>1. UNCHANGED <<fed, steps, feeder, restarts>>
    BY <1>7, Frames DEF feedVars
  <2> QED BY <2>1, <1>4
<1>8. CASE Terminated \/ UNCHANGED vars
  <2>1. UNCHANGED <<fed, steps, feeder, restarts>>
    BY <1>8 DEF Terminated, vars, feedVars
  <2> QED BY <2>1, <1>4
<1> QED BY <1>1, <1>2, <1>3, <1>5, <1>6, <1>7, <1>8 DEF Next, Feeding

(* The work stays within the reach of the feeder. *)
LEMMA ReachStep == IInv /\ IInv' /\ Work <= Reach /\ [Next]_vars => (Work <= Reach)'
<1> SUFFICES ASSUME IInv, IInv', Work <= Reach, [Next]_vars PROVE (Work <= Reach)'
  OBVIOUS
<1>n. Work \in Nat /\ fed \in Nat /\ Reach \in Int
  BY WorkNat, ReachNat
<1>m. (Work \in Nat /\ fed \in Nat)' /\ (Reach \in Int)'
  BY WorkNat, ReachNat, PTL
<1>1. CASE Restart
  <2>1. Rest' = 0 /\ Open' = 0 /\ pending' = 0
    BY <1>1 DEF Restart, Rest, used, phase, Open, Held, Empty
  <2>2. Trained' = saved.version * Step /\ Reach' = (saved.version * Step + 1) - 1
    BY <1>1 DEF Restart, Trained, Reach, RestoredSteps
  <2>3. saved.version * Step \in Nat
    BY StepPositive, NextVersion DEF IInv, TypeOK
  <2> QED BY <2>1, <2>2, <2>3 DEF Work
<1>2. CASE Work' + fed <= Work + fed' /\ fed' + Reach <= fed + Reach'
  <2>1. PICK w, w2, f, f2 \in Nat, r, r2 \in Int :
            /\ w = Work /\ w2 = Work' /\ f = fed /\ f2 = fed' /\ r = Reach /\ r2 = Reach'
    BY <1>n, <1>m, Zenon
  <2>2. w2 + f <= w + f2 /\ f2 + r <= f + r2 /\ w <= r
    BY <2>1, <1>2, Zenon
  <2>3. w2 <= r2
    BY <2>2
  <2> QED BY <2>1, <2>3, Zenon
<1> QED BY <1>1, <1>2, WorkStep, FeedStep

(* Whole steps within one sample of another number of steps are no more than it.   *)
LEMMA WholeSteps ==
    ASSUME NEW s \in Nat, s > 1, NEW v \in Nat, NEW w \in Nat, v * s <= w * s + 1
    PROVE  v <= w
<1> SUFFICES ASSUME v >= w + 1 PROVE FALSE
  OBVIOUS
<1>1. (w + 1) * s = w * s + s
  OBVIOUS
<1>2. v * s >= (w + 1) * s
  <2>1. PICK d \in Nat : v = (w + 1) + d
    <3>1. v - (w + 1) \in Nat /\ v = (w + 1) + (v - (w + 1))
      OBVIOUS
    <3> QED BY <3>1
  <2>2. ((w + 1) + d) * s = (w + 1) * s + d * s /\ d * s >= 0 /\ (w + 1) * s \in Nat /\ d * s \in Nat
    OBVIOUS
  <2> QED BY <2>1, <2>2
<1>3. w * s \in Nat /\ v * s \in Nat
  OBVIOUS
<1> QED BY <1>1, <1>2, <1>3

LEMMA MoreSteps == ASSUME NEW s \in Nat, NEW v \in Nat, NEW w \in Nat, v <= w PROVE v * s <= w * s
<1>1. PICK d \in Nat : w = v + d
  <2>1. w - v \in Nat /\ w = v + (w - v)
    OBVIOUS
  <2> QED BY <2>1
<1>2. (v + d) * s = v * s + d * s /\ d * s \in Nat /\ v * s \in Nat
  OBVIOUS
<1> QED BY <1>1, <1>2

(* With more than one sample a step, the extra sample never makes a step. *)
LEMMA VersionPlanned == ASSUME Step > 1, IInv, Planned PROVE version * Step <= Total
<1>1. Trained <= steps /\ Trained = version * Step /\ Trained \in Nat
  <2>1. Trained <= Work /\ Work <= Reach /\ Reach <= steps
    BY WorkNat, ReachNat DEF Planned
  <2>2. Trained \in Nat /\ Work \in Nat /\ Reach \in Int /\ steps \in Nat
    BY WorkNat, ReachNat
  <2> QED BY <2>1, <2>2 DEF Trained
<1>2. version \in Nat /\ steps \in Nat /\ Total \in Nat /\ Step \in Nat
  BY StepPositive, SizeAssumption DEF IInv, TypeOK
<1>3. CASE steps <= Total
  BY <1>1, <1>2, <1>3
<1>4. ASSUME NEW v \in Nat, steps = v * Step + 1, v * Step <= Total PROVE version * Step <= Total
  <2>1. version <= v
    BY <1>1, <1>2, <1>4, WholeSteps
  <2>2. version * Step <= v * Step /\ v * Step \in Nat
    BY <1>2, <2>1, MoreSteps, NextVersion
  <2> QED BY <1>1, <1>2, <1>4, <2>2
<1> QED BY <1>3, <1>4 DEF Planned

LEMMA PlannedStep == Step > 1 /\ IInv /\ IInv' /\ Planned /\ [Next]_vars => Planned'
<1> SUFFICES ASSUME Step > 1, IInv, IInv', Planned, [Next]_vars PROVE Planned'
  OBVIOUS
<1>1. (Work <= Reach)'
  BY ReachStep DEF Planned
<1>2. (saved.version * Step <= Total)'
  BY SavedStep, VersionPlanned DEF Planned
<1>3. (steps <= Total \/ (\E v \in Nat : steps = v * Step + 1 /\ v * Step <= Total))'
  <2>1. CASE Restart
    <3>1. steps' = saved.version * Step + 1 /\ saved.version \in Nat
      BY <2>1 DEF Restart, RestoredSteps, IInv, TypeOK
    <3> QED BY <3>1 DEF Planned
  <2>2. CASE steps' = steps
    BY <2>2 DEF Planned
  <2>3. CASE steps < Total /\ steps' = steps + 1
    BY <2>3, SizeAssumption DEF IInv, TypeOK
  <2> QED BY <2>1, <2>2, <2>3, FeedStep
<1> QED BY <1>1, <1>2, <1>3 DEF Planned

(* However often it is resumed, training goes no further than it was planned: the  *)
(* one sample that the feeder of a finished training feeds again is no whole step, *)
(* unless a step is one sample.                                                    *)
THEOREM ResumedSafe == ASSUME Step > 1 PROVE Spec => []ResumedOnce
<1>1. Init => Planned
  <2> SUFFICES ASSUME Init PROVE Planned
    OBVIOUS
  <2>1. Work = 0 /\ Reach = 0
    BY StepPositive DEF Init, Work, Trained, Rest, used, phase, Open, Held, Empty, Reach
  <2>2. steps = 0 * Step + 1 /\ 0 * Step <= Total /\ saved.version * Step <= Total
    BY StepPositive, SizeAssumption DEF Init
  <2> QED BY <2>1, <2>2 DEF Planned
<1>2. IInv /\ Planned /\ DrawnOnce => ResumedOnce
  BY VersionPlanned DEF ResumedOnce
<1>3. IInv /\ IInv' /\ Planned /\ [Next]_vars => Planned'
  BY PlannedStep
<1> QED BY <1>1, <1>2, <1>3, Invariance, DrawnSafe, PTL DEF Spec

(* In any case every start of the job costs one sample more than planned, at most. *)
LEMMA ExceededStep == IInv /\ IInv' /\ Exceeded /\ [Next]_vars => Exceeded'
<1> SUFFICES ASSUME IInv, IInv', Exceeded, [Next]_vars PROVE Exceeded'
  OBVIOUS
<1>1. (Work <= Reach)'
  BY ReachStep DEF Exceeded
<1>n. /\ steps \in Nat /\ restarts \in Nat /\ Total \in Nat /\ saved.version * Step \in Nat
      /\ version * Step \in Nat
  BY ReachNat, SizeAssumption, StepPositive, NextVersion DEF IInv, TypeOK
<1>r. restarts' \in {restarts, restarts + 1}
  BY FeedStep DEF Restart
<1>2. (saved.version * Step <= Total + restarts + 1)'
  <2>1. CASE saved' = saved
    BY <2>1, <1>n, <1>r DEF Exceeded
  <2>2. CASE saved'.version = version
    <3>1. version * Step <= steps
      <4>1. Trained <= Work /\ Work <= Reach /\ Reach <= steps
        BY WorkNat, ReachNat DEF Exceeded
      <4>2. Trained \in Nat /\ Work \in Nat /\ Reach \in Int /\ steps \in Nat
        BY WorkNat, ReachNat
      <4> QED BY <4>1, <4>2 DEF Trained
    <3> QED BY <2>2, <3>1, <1>n, <1>r DEF Exceeded
  <2> QED BY <2>1, <2>2, SavedStep
<1>3. (steps <= Total + restarts + 1)'
  <2>1. CASE Restart
    BY <2>1, <1>n DEF Restart, RestoredSteps, Exceeded
  <2>2. CASE steps' = steps \/ (steps < Total /\ steps' = steps + 1)
    <3>1. steps <= Total + restarts + 1 /\ steps' <= Total + restarts + 1
      <4>1. steps <= Total + restarts + 1
        BY DEF Exceeded
      <4> QED BY <2>2, <4>1, <1>n
    <3>2. steps' \in Nat
      BY <2>2, <1>n
    <3>3. restarts \in Nat /\ Total \in Nat
      BY <1>n
    <3>4. restarts' \in Nat /\ restarts <= restarts'
      BY <3>3, <1>r
    <3>5. \A s, t, r, r2 \in Nat : s <= t + r + 1 /\ r <= r2 => s <= t + r2 + 1
      OBVIOUS
    <3> QED BY <3>1, <3>2, <3>3, <3>4, <3>5
  <2> QED BY <2>1, <2>2, FeedStep
<1> QED BY <1>1, <1>2, <1>3 DEF Exceeded

(* Without an assumption on the size of a step: each restart lets training go at   *)
(* most one sample beyond its plan, which _feed_samples feeds when it resumes a    *)
(* finished one.                                                                   *)
THEOREM BeyondPlan == Spec => [](version * Step <= Total + restarts + 1)
<1>1. Init => Exceeded
  <2> SUFFICES ASSUME Init PROVE Exceeded
    OBVIOUS
  <2>1. Work = 0 /\ Reach = 0
    BY StepPositive DEF Init, Work, Trained, Rest, used, phase, Open, Held, Empty, Reach
  <2>2. steps = 1 /\ restarts = 0 /\ saved.version * Step <= Total
    BY StepPositive, SizeAssumption DEF Init
  <2> QED BY <2>1, <2>2, StepPositive, SizeAssumption DEF Exceeded, Init
<1>2. IInv /\ Exceeded => version * Step <= Total + restarts + 1
  <2> SUFFICES ASSUME IInv, Exceeded PROVE version * Step <= Total + restarts + 1
    OBVIOUS
  <2>1. Trained <= Work /\ Work <= Reach /\ Reach <= steps
    BY WorkNat, ReachNat DEF Exceeded
  <2>2. /\ Trained \in Nat /\ Work \in Nat /\ Reach \in Int /\ steps \in Nat
        /\ restarts \in Nat /\ Total \in Nat
    BY WorkNat, ReachNat, SizeAssumption
  <2> QED BY <2>1, <2>2 DEF Trained, Exceeded
<1> QED BY <1>1, <1>2, Invariance, ExceededStep, PTL DEF Spec
===============================================================================

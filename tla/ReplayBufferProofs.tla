--------------------------- MODULE ReplayBufferProofs ---------------------------
(* Machine-checked proofs about ReplayBuffer, for every value of its constants. *)
EXTENDS ReplayBuffer, FiniteSetTheorems, TLAPS

InStep == {"feed", "poll", "drop", "select", "train", "save", "clear"}
InUpdate == {"poll", "drop", "select", "train"}

\* The tags t describe rows among the first n - 1.
TagsOK(t, n) ==
    /\ DOMAIN t \subseteq 1 .. (n - 1)
    /\ \A r \in DOMAIN t : t[r] \in TagType

\* The keys K belong to rows among the first n - 1.
KeysOK(K, n) == K \subseteq Keys /\ \A k \in K : k[1] < n

\* The step counters agree with the place in the loop.
CountersOK ==
    /\ pc \in InStep => global_steps \in 1 .. TotalSteps
    /\ pc \in InUpdate => updates >= 1
    /\ pc = "fit" => global_steps \in 0 .. TotalSteps

\* What a poll decided on stays true until it is carried out.
ChosenOK ==
    /\ pc \notin {"drop", "select"} => chosen = Nothing
    /\ chosen.rows \subseteq Terminal
    /\ KeysOK(chosen.keys, next_row)
    /\ \A k \in chosen.keys : k[1] \in chosen.rows

\* The last checkpoint is a state fit() can start from.
SavedOK ==
    /\ saved.global_steps \in 0 .. TotalSteps
    /\ saved.next_row \in 1 .. (MaxRow + 1)
    /\ TagsOK(saved.tags, saved.next_row)
    /\ KeysOK(saved.trajs, saved.next_row)
    /\ saved.consumed \subseteq consumed

TypeInv == TypeOK /\ CountersOK /\ ChosenOK /\ SavedOK

\* The fields of the settings are numbers.
LEMMA ConfFields ==
    ASSUME conf \in Configs
    PROVE  /\ conf.threshold \in Nat /\ conf.threshold >= 1
           /\ conf.warmup \in Nat
           /\ conf.batch \in Nat /\ conf.batch >= 1
           /\ conf.sync_step \in Nat /\ conf.sync_step >= 1
           /\ conf.warmup * conf.batch \in Nat
<1>1. conf \in ConfigType
  BY ConfigAssumption
<1>2. /\ conf.threshold \in Nat \ {0} /\ conf.warmup \in Nat
      /\ conf.batch \in Nat \ {0} /\ conf.sync_step \in Nat \ {0}
  BY <1>1 DEF ConfigType
<1>3. \A i, j \in Nat : i * j \in Nat
  OBVIOUS
<1> QED
  BY <1>2, <1>3

\* The row of a key is a row.
LEMMA KeyRow ==
    ASSUME NEW k \in Keys
    PROVE  k[1] \in Rows /\ k[2] \in Sessions /\ k = <<k[1], k[2]>>
BY DEF Keys

\* Counting a set of rows gives a number.
LEMMA RowsCount ==
    ASSUME NEW S, S \subseteq Rows
    PROVE  Cardinality(S) \in Nat
<1>1. IsFiniteSet(Rows)
  BY SizeAssumption, FS_Interval DEF Rows
<1> QED
  BY <1>1, FS_Subset, FS_CardinalityType

\* Submitting fresh prompts keeps the tags well formed.
LEMMA SubmittedOK ==
    ASSUME TypeOK, NEW t, TagsOK(t, next_row), NEW n \in Nat,
           NEW steps \in Nat, NEW u,
           DOMAIN u = DOMAIN t \cup next_row .. ((next_row + n) - 1),
           \A r \in DOMAIN u :
               \/ u[r] = t[r] /\ r \in DOMAIN t
               \/ u[r] = [status |-> "pending", steps |-> steps]
    PROVE  TagsOK(u, next_row + n)
<1>1. next_row \in Nat /\ next_row >= 1
  BY SizeAssumption DEF TypeOK
<1>2. DOMAIN u \subseteq 1 .. ((next_row + n) - 1)
  BY <1>1 DEF TagsOK
<1>3. ASSUME NEW r \in DOMAIN u
      PROVE  u[r] \in TagType
  BY <1>3 DEF TagsOK, TagType, Statuses
<1> QED
  BY <1>2, <1>3 DEF TagsOK

\* A set of keys stays well formed as the dataloader moves on.
LEMMA KeysGrow ==
    ASSUME NEW K, NEW m \in Int, NEW n \in Int, m <= n, KeysOK(K, m)
    PROVE  KeysOK(K, n)
<1>1. \A k \in K : k[1] \in Int
  BY KeyRow DEF KeysOK, Rows
<1> QED
  BY <1>1 DEF KeysOK

\* The typing invariant, with the queue's part spelled out.
LEMMA TypeParts ==
    TypeOK <=>
        /\ conf \in Configs
        /\ pc \in InStep \cup {"fit", "done"}
        /\ global_steps \in 0 .. (TotalSteps + 1)
        /\ updates \in Nat
        /\ next_row \in 1 .. (MaxRow + 1)
        /\ TagsOK(tags, next_row)
        /\ KeysOK(trajs, next_row) /\ KeysOK(batch, next_row)
        /\ KeysOK(running, next_row)
BY DEF TypeOK, TagsOK, KeysOK, InStep

\* Initially.
LEMMA InitType == Init => TypeInv
<1> SUFFICES ASSUME Init PROVE TypeInv
  OBVIOUS
<1>1. TagsOK(NoTags, 1)
  BY DEF TagsOK, NoTags
<1>2. \A n : KeysOK({}, n)
  BY DEF KeysOK
<1>3. TypeOK
  BY <1>1, <1>2, TypeParts, SizeAssumption DEF Init, InitTrainer, InStep
<1>4. CountersOK
  BY SizeAssumption DEF Init, InitTrainer, CountersOK, InStep, InUpdate
<1>5. ChosenOK
  BY <1>2 DEF Init, InitTrainer, ChosenOK, Nothing
<1>6. SavedOK
  BY <1>1, <1>2, SizeAssumption DEF Init, SavedOK
<1> QED
  BY <1>3, <1>4, <1>5, <1>6 DEF TypeInv

\* fit() up to the loop.
LEMMA FitType == TypeInv /\ Fit => TypeInv'
<1> SUFFICES ASSUME TypeInv, Fit PROVE TypeInv'
  OBVIOUS
<1> DEFINE warm == conf.warmup * conf.batch
           now == global_steps + 1
<1>1. warm \in Nat
  BY ConfFields DEF TypeInv, TypeOK
<1>2. next_row \in Nat /\ next_row' = next_row + warm
      /\ next_row' \in 1 .. (MaxRow + 1) /\ next_row <= next_row'
  <2>1. next_row \in 1 .. (MaxRow + 1)
    BY DEF TypeInv, TypeOK
  <2>2. next_row' = next_row + warm /\ (next_row + warm) - 1 <= MaxRow
    BY DEF Fit, Fetch
  <2> HIDE DEF warm
  <2> QED
    BY <1>1, <2>1, <2>2, SizeAssumption
<1>3. now \in Nat
  BY SizeAssumption DEF TypeInv, TypeOK
<1>4. TagsOK(tags, next_row)
  BY TypeParts DEF TypeInv
<1>5. TagsOK(tags', next_row + warm)
  <2>1. DOMAIN tags' = DOMAIN tags \cup next_row .. ((next_row + warm) - 1)
    BY DEF Fit
  <2>2. \A r \in DOMAIN tags' :
          \/ tags'[r] = tags[r] /\ r \in DOMAIN tags
          \/ tags'[r] = [status |-> "pending", steps |-> now]
    BY DEF Fit
  <2> HIDE DEF warm, now
  <2> QED
    BY <1>1, <1>3, <1>4, <2>1, <2>2, SubmittedOK DEF TypeInv
<1>6. KeysOK(trajs', next_row') /\ KeysOK(batch', next_row')
      /\ KeysOK(running', next_row')
  <2>1. KeysOK(trajs, next_row') /\ KeysOK(batch, next_row')
        /\ KeysOK(running, next_row')
    BY <1>2, TypeParts, KeysGrow DEF TypeInv
  <2> QED
    BY <2>1 DEF Fit, KeysOK, workers
<1>7. TypeOK'
  <2>1. global_steps' \in 1 .. (TotalSteps + 1)
    BY SizeAssumption DEF Fit, TypeInv, CountersOK
  <2>2. /\ conf' \in Configs /\ pc' \in InStep \cup {"fit", "done"}
        /\ updates' \in Nat
    BY DEF Fit, TypeInv, TypeOK, InStep
  <2>3. TagsOK(tags, next_row)'
    BY <1>2, <1>5
  <2>4. KeysOK(trajs, next_row)' /\ KeysOK(batch, next_row)' /\ KeysOK(running, next_row)'
    BY <1>6
  <2>5. global_steps' \in 0 .. (TotalSteps + 1)
    BY <2>1, SizeAssumption
  <2> QED
    BY <1>2, <2>2, <2>3, <2>4, <2>5 DEF TypeOK, TagsOK, KeysOK, InStep
<1>8. CountersOK'
  BY SizeAssumption DEF Fit, TypeInv, CountersOK, InStep, InUpdate
<1>9. ChosenOK'
  BY DEF Fit, TypeInv, ChosenOK, Nothing, KeysOK
<1>10. SavedOK'
  BY DEF Fit, TypeInv, SavedOK, recovery, history
<1> QED
  BY <1>7, <1>8, <1>9, <1>10 DEF TypeInv

\* Feeding one train batch.
LEMMA FeedType == TypeInv /\ Feed => TypeInv'
<1> SUFFICES ASSUME TypeInv, Feed PROVE TypeInv'
  OBVIOUS
<1> DEFINE n == conf.batch
<1>1. n \in Nat /\ conf.sync_step \in Nat /\ conf.sync_step >= 1
  BY ConfFields DEF TypeInv, TypeOK
<1>2. next_row \in Nat /\ next_row' = next_row + n
      /\ next_row' \in 1 .. (MaxRow + 1) /\ next_row <= next_row'
  <2>1. next_row \in 1 .. (MaxRow + 1)
    BY DEF TypeInv, TypeOK
  <2>2. next_row' = next_row + n /\ (next_row + n) - 1 <= MaxRow
    BY DEF Feed, Fetch
  <2> HIDE DEF n
  <2> QED
    BY <1>1, <2>1, <2>2, SizeAssumption
<1>3. global_steps \in Nat
  BY SizeAssumption DEF TypeInv, TypeOK
<1>4. TagsOK(tags, next_row)
  BY TypeParts DEF TypeInv
<1>5. TagsOK(tags', next_row + n)
  <2>1. DOMAIN tags' = DOMAIN tags \cup next_row .. ((next_row + n) - 1)
    BY DEF Feed, Submitted
  <2>2. \A r \in DOMAIN tags' :
          \/ tags'[r] = tags[r] /\ r \in DOMAIN tags
          \/ tags'[r] = [status |-> "pending", steps |-> global_steps]
    BY DEF Feed, Submitted, Pending
  <2> HIDE DEF n
  <2> QED
    BY <1>1, <1>3, <1>4, <2>1, <2>2, SubmittedOK DEF TypeInv
<1>6. KeysOK(trajs', next_row') /\ KeysOK(batch', next_row')
      /\ KeysOK(running', next_row')
  <2>1. KeysOK(trajs, next_row') /\ KeysOK(batch, next_row')
        /\ KeysOK(running, next_row')
    BY <1>2, TypeParts, KeysGrow DEF TypeInv
  <2> QED
    BY <2>1 DEF Feed, workers
<1>7. TypeOK'
  <2>1. /\ conf' \in Configs /\ pc' \in InStep \cup {"fit", "done"}
        /\ updates' \in Nat /\ global_steps' \in 0 .. (TotalSteps + 1)
    BY <1>1 DEF Feed, TypeInv, TypeOK, InStep
  <2>2. TagsOK(tags, next_row)'
    BY <1>2, <1>5
  <2>3. KeysOK(trajs, next_row)' /\ KeysOK(batch, next_row)' /\ KeysOK(running, next_row)'
    BY <1>6
  <2> QED
    BY <1>2, <2>1, <2>2, <2>3 DEF TypeOK, TagsOK, KeysOK, InStep
<1>8. CountersOK'
  BY <1>1 DEF Feed, TypeInv, CountersOK, InStep, InUpdate
<1>9. ChosenOK'
  BY DEF Feed, TypeInv, ChosenOK, Nothing, KeysOK
<1>10. SavedOK'
  BY DEF Feed, TypeInv, SavedOK, recovery, history
<1> QED
  BY <1>7, <1>8, <1>9, <1>10 DEF TypeInv

\* Dropping stale groups and refilling.
LEMMA DropType == TypeInv /\ Drop => TypeInv'
<1> SUFFICES ASSUME TypeInv, Drop PROVE TypeInv'
  OBVIOUS
<1> DEFINE n == Cardinality(chosen.rows)
           kept == Without(tags, chosen.rows)
<1>0. TagsOK(tags, next_row) /\ next_row \in 1 .. (MaxRow + 1)
  BY TypeParts DEF TypeInv
<1>1. n \in Nat
  <2>1. chosen.rows \subseteq Rows
    BY <1>0, SizeAssumption DEF TypeInv, ChosenOK, Terminal, TagsOK, Rows
  <2> QED
    BY <2>1, RowsCount
<1>2. next_row \in Nat /\ next_row' = next_row + n
      /\ next_row' \in 1 .. (MaxRow + 1) /\ next_row <= next_row'
  <2>1. next_row' = next_row + n /\ (next_row + n) - 1 <= MaxRow
    BY DEF Drop, Fetch, Refill
  <2> HIDE DEF n
  <2> QED
    BY <1>0, <1>1, <2>1, SizeAssumption
<1>3. global_steps \in Nat
  BY SizeAssumption DEF TypeInv, TypeOK
<1>4. TagsOK(kept, next_row)
  BY <1>0 DEF TagsOK, Without
<1>5. TagsOK(tags', next_row + n)
  <2>1. DOMAIN tags' = DOMAIN kept \cup next_row .. ((next_row + n) - 1)
    BY DEF Drop, Submitted, Refill
  <2>2. \A r \in DOMAIN tags' :
          \/ tags'[r] = kept[r] /\ r \in DOMAIN kept
          \/ tags'[r] = [status |-> "pending", steps |-> global_steps]
    BY DEF Drop, Submitted, Pending, Refill
  <2> HIDE DEF n, kept
  <2> QED
    BY <1>1, <1>3, <1>4, <2>1, <2>2, SubmittedOK DEF TypeInv
<1>6. KeysOK(trajs', next_row') /\ KeysOK(batch', next_row')
      /\ KeysOK(running', next_row')
  <2>1. KeysOK(trajs, next_row') /\ KeysOK(batch, next_row')
        /\ KeysOK(running, next_row')
    BY <1>2, TypeParts, KeysGrow DEF TypeInv
  <2> QED
    BY <2>1 DEF Drop, workers, KeysOK
<1>7. TypeOK'
  <2>1. /\ conf' \in Configs /\ pc' \in InStep \cup {"fit", "done"}
        /\ updates' \in Nat /\ global_steps' \in 0 .. (TotalSteps + 1)
    BY DEF Drop, TypeInv, TypeOK, InStep
  <2>2. TagsOK(tags, next_row)'
    BY <1>2, <1>5
  <2>3. KeysOK(trajs, next_row)' /\ KeysOK(batch, next_row)' /\ KeysOK(running, next_row)'
    BY <1>6
  <2> QED
    BY <1>2, <2>1, <2>2, <2>3 DEF TypeOK, TagsOK, KeysOK, InStep
<1>8. CountersOK'
  BY DEF Drop, TypeInv, CountersOK, InStep, InUpdate
<1>9. ChosenOK'
  BY DEF Drop, ChosenOK, Nothing, KeysOK
<1>10. SavedOK'
  BY DEF Drop, TypeInv, SavedOK, recovery
<1> QED
  BY <1>7, <1>8, <1>9, <1>10 DEF TypeInv

\* The rest of the trainer's steps: the queue and the dataloader do not grow.
LEMMA TrainerType ==
    TypeInv /\ (PollDrop \/ PollSelect \/ Select \/ Train \/ Save \/ Clear) => TypeInv'
<1> SUFFICES ASSUME TypeInv,
                    PollDrop \/ PollSelect \/ Select \/ Train \/ Save \/ Clear
             PROVE  TypeInv'
  OBVIOUS
<1> USE DEF TypeInv
<1>0. KeysOK(trajs, next_row) /\ TagsOK(tags, next_row)
  BY TypeParts
<1>1. CASE PollDrop
  <2>1. TypeOK'
    BY <1>1 DEF PollDrop, TypeOK, queue, workers
  <2>2. CountersOK'
    BY <1>1 DEF PollDrop, CountersOK, InStep, InUpdate
  <2>3. ChosenOK'
    BY <1>0, <1>1 DEF PollDrop, ChosenOK, KeysOK, ClearedWith, KeysOf, queue, Terminal, Stale
  <2>4. SavedOK'
    BY <1>1 DEF PollDrop, SavedOK, recovery, history
  <2> QED
    BY <2>1, <2>2, <2>3, <2>4
<1>2. CASE PollSelect
  <2>1. TypeOK'
    BY <1>2 DEF PollSelect, TypeOK, queue, workers
  <2>2. CountersOK'
    BY <1>2 DEF PollSelect, CountersOK, InStep, InUpdate
  <2>3. ChosenOK'
    <3>1. PICK S \in Selections : chosen' = [rows |-> S, keys |-> KeysOf(S, trajs)]
      BY <1>2 DEF PollSelect
    <3>2. S \subseteq Terminal
      BY DEF Selections, Sampleable
    <3> QED
      BY <1>0, <1>2, <3>1, <3>2 DEF PollSelect, ChosenOK, KeysOK, KeysOf, queue, Terminal
  <2>4. SavedOK'
    BY <1>2 DEF PollSelect, SavedOK, recovery, history
  <2> QED
    BY <2>1, <2>2, <2>3, <2>4
<1>3. CASE Select
  <2>1. TypeOK'
    BY <1>3 DEF Select, TypeOK, ChosenOK, KeysOK, workers, Without
  <2>2. CountersOK'
    BY <1>3 DEF Select, CountersOK, InStep, InUpdate
  <2>3. ChosenOK'
    BY <1>3 DEF Select, ChosenOK, KeysOK, Nothing
  <2>4. SavedOK'
    BY <1>3 DEF Select, SavedOK, recovery
  <2> QED
    BY <2>1, <2>2, <2>3, <2>4
<1>4. CASE Train
  <2>1. TypeOK'
    BY <1>4 DEF Train, TypeOK, queue, workers, CountersOK, InUpdate
  <2>2. CountersOK'
    BY <1>4 DEF Train, CountersOK, InStep, InUpdate, TypeOK
  <2>3. ChosenOK'
    BY <1>4 DEF Train, ChosenOK, KeysOK, Nothing, Terminal, queue
  <2>4. SavedOK'
    BY <1>4 DEF Train, SavedOK, recovery, history
  <2> QED
    BY <2>1, <2>2, <2>3, <2>4
<1>5. CASE Save
  <2>1. TypeOK'
    BY <1>5 DEF Save, TypeOK, queue, workers
  <2>2. CountersOK'
    BY <1>5 DEF Save, CountersOK, InStep, InUpdate
  <2>3. ChosenOK'
    BY <1>5 DEF Save, ChosenOK, KeysOK, Nothing, Terminal, queue
  <2>4. SavedOK'
    <3>1. CASE ~Saves
      BY <1>5, <3>1 DEF Save, SavedOK, history
    <3>2. CASE Saves
      <4>1. /\ saved'.global_steps = global_steps /\ saved'.next_row = next_row
            /\ saved'.tags = Persisted
            /\ saved'.trajs = IF conf.mode = "sync" THEN {} ELSE trajs
            /\ saved'.consumed = consumed
        BY <1>5, <3>2 DEF Save
      <4>2. TagsOK(Persisted, next_row)
        BY <1>0 DEF Persisted, TagsOK, NoTags
      <4>3. KeysOK(saved'.trajs, next_row)
        BY <1>0, <4>1 DEF KeysOK
      <4>4. global_steps \in 0 .. TotalSteps
        BY <1>5, SizeAssumption DEF Save, CountersOK, InStep
      <4> QED
        BY <1>5, <4>1, <4>2, <4>3, <4>4 DEF SavedOK, TypeOK, Save, history
    <3> QED
      BY <3>1, <3>2
  <2> QED
    BY <2>1, <2>2, <2>3, <2>4
<1>6. CASE Clear
  <2>1. TypeOK'
    <3>1. global_steps' \in 0 .. (TotalSteps + 1)
      BY <1>6, SizeAssumption DEF Clear, CountersOK, InStep
    <3> QED
      BY <1>6, <3>1 DEF Clear, TypeOK, workers
  <2>2. CountersOK'
    BY <1>6, SizeAssumption DEF Clear, CountersOK, InStep, InUpdate
  <2>3. ChosenOK'
    BY <1>6 DEF Clear, ChosenOK, KeysOK, Nothing, Terminal
  <2>4. SavedOK'
    BY <1>6 DEF Clear, SavedOK, recovery, history
  <2> QED
    BY <2>1, <2>2, <2>3, <2>4
<1> QED
  BY <1>1, <1>2, <1>3, <1>4, <1>5, <1>6

\* Coming back from the last checkpoint.
LEMMA CrashType == TypeInv /\ Crash => TypeInv'
<1> SUFFICES ASSUME TypeInv, Crash PROVE TypeInv'
  OBVIOUS
<1> USE DEF TypeInv
<1>1. TypeOK'
  <2>1. TagsOK(tags', next_row') /\ KeysOK(trajs', next_row')
    BY DEF Crash, SavedOK
  <2>2. global_steps' \in 0 .. (TotalSteps + 1)
    BY SizeAssumption DEF Crash, SavedOK
  <2>3. /\ conf' \in Configs /\ pc' = "fit" /\ updates' \in Nat
        /\ next_row' \in 1 .. (MaxRow + 1) /\ batch' = {} /\ running' = {}
    BY DEF Crash, SavedOK, TypeOK
  <2> QED
    BY <2>1, <2>2, <2>3 DEF TypeOK, TagsOK, KeysOK
<1>2. CountersOK'
  BY DEF Crash, CountersOK, InStep, InUpdate, SavedOK
<1>3. ChosenOK'
  BY DEF Crash, ChosenOK, KeysOK, Nothing
<1>4. SavedOK'
  BY DEF Crash, SavedOK
<1> QED
  BY <1>1, <1>2, <1>3, <1>4

\* The steps of a group of sessions.
LEMMA WorkerType ==
    ASSUME TypeInv,
           \/ \E r \in Rows : PromptStep(r)
           \/ \E k \in Keys : SessionEnds(k)
    PROVE  TypeInv'
<1> USE DEF TypeInv
<1>0. KeysOK(trajs, next_row) /\ KeysOK(running, next_row) /\ TagsOK(tags, next_row)
  BY TypeParts
<1>1. ASSUME NEW r \in Rows, Start(r) PROVE TypeInv'
  <2>1. r \in DOMAIN tags /\ r < next_row
    BY <1>0, <1>1 DEF Start, TagsOK, TypeOK
  <2>2. KeysOK({r} \X Sessions, next_row)
    BY <2>1 DEF KeysOK, Keys
  <2>3. KeysOK(running', next_row)
    BY <1>0, <1>1, <2>2 DEF Start, KeysOK
  <2>4. TagsOK(tags', next_row)
    BY <1>0, <1>1 DEF Start, TagsOK, TagType, Statuses
  <2>5. TypeOK'
    BY <1>1, <2>3, <2>4 DEF Start, TypeOK, TagsOK, KeysOK, trainer
  <2>6. CountersOK' /\ SavedOK'
    BY <1>1 DEF Start, CountersOK, SavedOK, trainer, history, recovery
  <2>7. chosen.rows \subseteq Terminal'
    BY <1>1, <2>1 DEF Start, ChosenOK, Terminal
  <2>8. ChosenOK'
    BY <1>1, <2>7 DEF Start, ChosenOK, KeysOK, trainer
  <2> QED
    BY <2>5, <2>6, <2>8
<1>2. ASSUME NEW r \in Rows, Finished(r) \/ Failed(r) PROVE TypeInv'
  <2>1. r \in DOMAIN tags
    BY <1>2 DEF Finished, Failed
  <2>2. DOMAIN tags' = DOMAIN tags /\ \A q \in DOMAIN tags :
          /\ q # r => tags'[q] = tags[q]
          /\ tags'[r].status \in {"finished", "failure"}
          /\ tags'[q] \in TagType
    BY <1>0, <1>2 DEF Finished, Failed, TagsOK, TagType, Statuses
  <2>3. TypeOK'
    BY <1>2, <2>2 DEF Finished, Failed, TypeOK, trainer, workers
  <2>4. CountersOK' /\ SavedOK'
    BY <1>2 DEF Finished, Failed, CountersOK, SavedOK, trainer, history, recovery
  <2>5. chosen.rows \subseteq Terminal'
    BY <2>1, <2>2 DEF ChosenOK, Terminal
  <2>6. ChosenOK'
    BY <1>2, <2>5 DEF Finished, Failed, ChosenOK, KeysOK, trainer
  <2> QED
    BY <2>3, <2>4, <2>6
<1>3. ASSUME NEW k \in Keys, Put(k) \/ Raise(k) PROVE TypeInv'
  <2>1. KeysOK(trajs', next_row) /\ KeysOK(running', next_row)
    BY <1>0, <1>3 DEF Put, Raise, KeysOK, queue
  <2>2. TypeOK'
    BY <1>3, <2>1 DEF Put, Raise, TypeOK, KeysOK, trainer, queue
  <2>3. CountersOK' /\ SavedOK'
    BY <1>3 DEF Put, Raise, CountersOK, SavedOK, trainer, history, recovery
  <2>4. ChosenOK'
    BY <1>3 DEF Put, Raise, ChosenOK, KeysOK, Terminal, trainer, queue
  <2> QED
    BY <2>2, <2>3, <2>4
<1> QED
  BY <1>1, <1>2, <1>3 DEF PromptStep, SessionEnds

\* The typing invariant is inductive.
LEMMA TypeStep == TypeInv /\ [Next]_vars => TypeInv'
<1>1. ASSUME TypeInv, UNCHANGED vars PROVE TypeInv'
  BY <1>1 DEF TypeInv, TypeOK, CountersOK, ChosenOK, SavedOK, Terminal, KeysOK, vars,
              trainer, queue, workers, history, recovery
<1> QED
  BY <1>1, FitType, FeedType, DropType, TrainerType, CrashType, WorkerType
  DEF Next, TrainerStep

\* Every reachable state of the trainer, the queue and the workers is well typed:
\* tags of known statuses only, and nothing in the queue that was not fetched.
THEOREM TypeCorrect == Spec => []TypeOK
<1>1. Spec => []TypeInv
  BY InitType, TypeStep, PTL DEF Spec
<1>2. TypeInv => TypeOK
  BY DEF TypeInv
<1> QED
  BY <1>1, <1>2, PTL

-------------------------------------------------------------------------------
(* The prompts in flight.                                                       *)

Warm == conf.warmup * conf.batch
InFlight == Cardinality(DOMAIN tags)

\* What the updates still to come in this step will take.
Due ==
    IF pc \in {"poll", "drop", "select"} THEN updates * SampleBatch
    ELSE IF pc = "train" THEN (updates - 1) * SampleBatch ELSE 0

\* Between feeding and the last update what is in flight exceeds the warm-up by what
\* is due; every start of the job may bring one warm-up of its own.
FlightInv ==
    /\ TypeInv
    /\ crashes \in Nat
    /\ updates <= conf.sync_step
    /\ pc = "select" => Cardinality(chosen.rows) = SampleBatch
    /\ pc = "fit" => InFlight <= Warm * crashes
    /\ pc # "fit" => InFlight - Due \in Warm .. (Warm * (crashes + 1))
    /\ Cardinality(DOMAIN saved.tags) <= Warm * (crashes + 1)

\* A product of numbers is a number, and one factor more adds the other.
LEMMA Products ==
    \A i, j \in Nat : /\ i * j \in Nat /\ i * (j + 1) = i * j + i
                      /\ i >= 1 => (i - 1) * j = i * j - j
OBVIOUS

\* A step samples the train batch in equal parts.
LEMMA WholeBatch ==
    ASSUME conf \in Configs
    PROVE  /\ SampleBatch \in Nat
           /\ conf.sync_step * SampleBatch = conf.batch
           /\ Warm \in Nat
<1>1. \A b \in Nat, s \in Nat \ {0} : b \div s \in Nat /\ (b % s = 0 => s * (b \div s) = b)
  OBVIOUS
<1>2. /\ conf.batch \in Nat /\ conf.sync_step \in Nat \ {0} /\ conf.batch % conf.sync_step = 0
      /\ Warm \in Nat
  BY ConfFields, ConfigAssumption DEF Warm
<1> QED
  BY <1>1, <1>2 DEF SampleBatch

\* Fewer updates take no more.
LEMMA PartOfBatch ==
    ASSUME NEW s \in Nat, NEW u \in Nat, NEW b \in Nat, u <= s
    PROVE  u * b <= s * b /\ u * b \in Nat
<1>1. PICK d \in Nat : s = u + d
  <2>1. s - u \in Nat /\ s = u + (s - u)
    OBVIOUS
  <2> QED
    BY <2>1
<1>2. (u + d) * b = u * b + d * b /\ d * b \in Nat /\ u * b \in Nat
  OBVIOUS
<1> QED
  BY <1>1, <1>2

\* Rows are finite in number, and rows from the next one on are new.
LEMMA CountRows ==
    ASSUME NEW n \in Nat, NEW i \in Nat, i >= 1, NEW S, S \subseteq 1 .. (i - 1)
    PROVE  /\ IsFiniteSet(S) /\ Cardinality(S) \in Nat
           /\ IsFiniteSet(S \cup i .. ((i + n) - 1))
           /\ Cardinality(S \cup i .. ((i + n) - 1)) = Cardinality(S) + n
<1>1. IsFiniteSet(S) /\ Cardinality(S) \in Nat
  <2>1. IsFiniteSet(1 .. (i - 1))
    BY FS_Interval
  <2> QED
    BY <2>1, FS_Subset, FS_CardinalityType
<1>2. IsFiniteSet(i .. ((i + n) - 1)) /\ Cardinality(i .. ((i + n) - 1)) = n
  BY FS_Interval
<1>3. S \cap i .. ((i + n) - 1) = {}
  OBVIOUS
<1> DEFINE T == i .. ((i + n) - 1)
<1>4. Cardinality(S \cap T) = 0
  BY <1>3, FS_EmptySet
<1>5. IsFiniteSet(T) /\ Cardinality(T) = n
  BY <1>2
<1> HIDE DEF T
<1>6. /\ IsFiniteSet(S \cup T)
      /\ Cardinality(S \cup T) = Cardinality(S) + Cardinality(T) - Cardinality(S \cap T)
  BY <1>1, <1>5, FS_Union, Zenon
<1>7. Cardinality(S \cup T) = Cardinality(S) + n
  BY <1>1, <1>4, <1>5, <1>6
<1> QED
  BY <1>1, <1>6, <1>7 DEF T

\* Rows that leave the queue are subtracted.
LEMMA CountWithout ==
    ASSUME NEW S, IsFiniteSet(S), NEW T, T \subseteq S
    PROVE  /\ IsFiniteSet(T) /\ Cardinality(T) \in Nat /\ Cardinality(S) \in Nat
           /\ Cardinality(S \ T) = Cardinality(S) - Cardinality(T)
<1>1. S \cap T = T
  OBVIOUS
<1> QED
  BY <1>1, FS_Difference, FS_Subset, FS_CardinalityType

\* Steps that leave the tags, the counters of the step and the checkpoint alone.
LEMMA FlightFrame ==
    ASSUME FlightInv, TypeInv', conf' = conf, DOMAIN tags' = DOMAIN tags,
           UNCHANGED <<pc, updates, chosen, saved, crashes>>
    PROVE  FlightInv'
<1>1. Due' = Due /\ Warm' = Warm /\ InFlight' = InFlight /\ SampleBatch' = SampleBatch
  BY DEF Due, Warm, InFlight, SampleBatch
<1> QED
  BY <1>1 DEF FlightInv

\* The numbers the invariant speaks of.
LEMMA FlightTypes ==
    ASSUME FlightInv
    PROVE  /\ conf \in Configs /\ SampleBatch \in Nat /\ Warm \in Nat
           /\ conf.batch \in Nat /\ conf.sync_step \in Nat /\ conf.sync_step >= 1
           /\ conf.sync_step * SampleBatch = conf.batch
           /\ crashes \in Nat /\ Warm * crashes \in Nat
           /\ Warm * (crashes + 1) = Warm * crashes + Warm
           /\ updates \in Nat /\ next_row \in Nat /\ next_row >= 1
           /\ DOMAIN tags \subseteq 1 .. (next_row - 1)
           /\ IsFiniteSet(DOMAIN tags) /\ InFlight \in Nat
           /\ chosen.rows \subseteq DOMAIN tags
<1>1. conf \in Configs /\ updates \in Nat /\ next_row \in Nat /\ next_row >= 1
      /\ DOMAIN tags \subseteq 1 .. (next_row - 1) /\ crashes \in Nat
      /\ chosen.rows \subseteq DOMAIN tags
  BY SizeAssumption DEF FlightInv, TypeInv, TypeOK, ChosenOK, Terminal
<1>2. /\ SampleBatch \in Nat /\ Warm \in Nat /\ conf.sync_step * SampleBatch = conf.batch
      /\ conf.batch \in Nat /\ conf.sync_step \in Nat /\ conf.sync_step >= 1
  BY <1>1, WholeBatch, ConfFields
<1>3. IsFiniteSet(DOMAIN tags) /\ InFlight \in Nat
  BY <1>1, CountRows DEF InFlight
<1>4. Warm * crashes \in Nat /\ Warm * (crashes + 1) = Warm * crashes + Warm
  BY <1>1, <1>2, Products
<1> QED
  BY <1>1, <1>2, <1>3, <1>4

\* The invariant of the prompts in flight is inductive.
LEMMA FlightStep == FlightInv /\ [Next]_vars => FlightInv'
<1>a. ASSUME [Next]_vars PROVE conf' = conf
  BY <1>a DEF Next, TrainerStep, Fit, Feed, PollDrop, Drop, PollSelect, Select, Train,
              Save, Clear, Crash, PromptStep, Start, Finished, Failed, SessionEnds,
              Put, Raise, vars
<1> SUFFICES ASSUME FlightInv, [Next]_vars, conf' = conf, TypeInv'
             PROVE  FlightInv'
  BY <1>a, TypeStep DEF FlightInv
<1>b. Warm' = Warm /\ SampleBatch' = SampleBatch
  BY DEF Warm, SampleBatch
<1>n. /\ Warm \in Nat /\ crashes \in Nat /\ SampleBatch \in Nat /\ updates \in Nat
      /\ InFlight \in Nat /\ Warm * crashes \in Nat /\ Warm * (crashes + 1) \in Nat
      /\ Warm * (crashes + 1) = Warm * crashes + Warm
  BY FlightTypes, Products
<1>0. PICK W, C, b, u, n, X, Y \in Nat :
          /\ W = Warm /\ C = crashes /\ b = SampleBatch /\ u = updates /\ n = InFlight
          /\ X = Warm * crashes /\ Y = Warm * (crashes + 1) /\ Y = X + W
  BY <1>n, Zenon
<1>c. crashes' = crashes => (Warm * crashes)' = X /\ (Warm * (crashes + 1))' = Y
  BY <1>b, <1>0
<1>1. CASE Fit
  <2>1. /\ DOMAIN tags' = DOMAIN tags \cup next_row .. ((next_row + Warm) - 1)
        /\ UNCHANGED <<updates, chosen, saved, crashes>> /\ pc = "fit" /\ pc' \in {"feed", "done"}
    BY <1>1 DEF Fit, recovery, Warm
  <2>2. InFlight' = n + W
    <3>1. Cardinality(DOMAIN tags \cup next_row .. ((next_row + Warm) - 1)) = InFlight + Warm
      BY FlightTypes, CountRows, Zenon DEF InFlight
    <3> QED
      BY <1>0, <2>1, <3>1, Zenon DEF InFlight
  <2>3. n <= X /\ Due' = 0
    BY <1>0, <2>1 DEF FlightInv, Due
  <2>4. (InFlight - Due)' \in W .. Y
    <3>1. (n + W) - 0 \in W .. Y
      BY <1>0, <2>3
    <3> QED
      BY <2>2, <2>3, <3>1
  <2> QED
    BY <1>0, <1>b, <1>c, <2>1, <2>4 DEF FlightInv
<1>2. CASE Feed
  <2>1. /\ DOMAIN tags' = DOMAIN tags \cup next_row .. ((next_row + conf.batch) - 1)
        /\ updates' = conf.sync_step /\ pc = "feed" /\ pc' = "poll"
        /\ UNCHANGED <<chosen, saved, crashes>>
    BY <1>2 DEF Feed, Submitted, recovery
  <2>2. InFlight' = n + conf.batch
    <3>1. Cardinality(DOMAIN tags \cup next_row .. ((next_row + conf.batch) - 1))
              = InFlight + conf.batch
      BY FlightTypes, CountRows, Zenon DEF InFlight
    <3> QED
      BY <1>0, <2>1, <3>1, Zenon DEF InFlight
  <2>3. n - 0 \in W .. Y
    BY <1>0, <2>1 DEF FlightInv, Due
  <2>4. Due' = conf.batch
    BY <1>b, <2>1, FlightTypes DEF Due
  <2>5. (InFlight - Due)' \in W .. Y
    <3>1. (n + conf.batch) - conf.batch \in W .. Y
      BY <1>0, <2>3, FlightTypes
    <3> QED
      BY <2>2, <2>4, <3>1
  <2>6. updates' <= conf.sync_step
    BY <2>1, FlightTypes
  <2> QED
    BY <1>0, <1>b, <1>c, <2>1, <2>5, <2>6 DEF FlightInv
<1>3. CASE PollDrop \/ PollSelect
  <2>1. /\ UNCHANGED <<tags, updates, saved, crashes>>
        /\ pc = "poll" /\ pc' \in {"drop", "select"}
    BY <1>3 DEF PollDrop, PollSelect, queue, recovery
  <2>2. pc' = "select" => Cardinality(chosen'.rows) = SampleBatch
    BY <1>3 DEF PollDrop, PollSelect, Selections
  <2>3. Due' = Due /\ InFlight' = InFlight
    BY <1>b, <2>1 DEF Due, InFlight
  <2> QED
    BY <1>0, <1>b, <1>c, <2>1, <2>2, <2>3 DEF FlightInv
<1>4. CASE Drop
  <2> DEFINE d == Cardinality(chosen.rows)
             kept == DOMAIN tags \ chosen.rows
  <2>1. d \in Nat /\ Cardinality(kept) = n - d
    BY <1>0, FlightTypes, CountWithout DEF InFlight
  <2>2. /\ DOMAIN tags' = kept \cup next_row .. ((next_row + d) - 1)
        /\ pc = "drop" /\ pc' = "poll" /\ UNCHANGED <<updates, saved, crashes>>
    BY <1>4 DEF Drop, Submitted, Without, Refill, recovery
  <2>3. Cardinality(DOMAIN tags') = Cardinality(kept) + d
    <3>1. kept \subseteq 1 .. (next_row - 1)
      BY FlightTypes
    <3>2. next_row \in Nat /\ next_row >= 1
      BY FlightTypes
    <3> HIDE DEF d, kept
    <3>3. Cardinality(kept \cup next_row .. ((next_row + d) - 1)) = Cardinality(kept) + d
      BY <2>1, <3>1, <3>2, CountRows, Zenon
    <3> QED
      BY <2>2, <3>3, Zenon
  <2>4. InFlight' = InFlight /\ Due' = Due
    <3>1. (n - d) + d = n
      BY <1>0, <2>1
    <3> HIDE DEF d, kept
    <3> QED
      BY <1>0, <1>b, <2>1, <2>2, <2>3, <3>1 DEF InFlight, Due
  <2> QED
    BY <1>0, <1>b, <1>c, <2>2, <2>4 DEF FlightInv
<1>5. CASE Select
  <2>1. /\ DOMAIN tags' = DOMAIN tags \ chosen.rows
        /\ pc = "select" /\ pc' = "train" /\ UNCHANGED <<updates, saved, crashes>>
    BY <1>5 DEF Select, Without, recovery
  <2>2. InFlight' = n - b
    BY <1>0, <2>1, FlightTypes, CountWithout DEF InFlight, FlightInv
  <2>3. u >= 1 /\ Due = u * b /\ Due' = (u - 1) * b /\ (u - 1) * b = u * b - b /\ u * b \in Nat
    BY <1>0, <1>b, <2>1, Products DEF FlightInv, TypeInv, CountersOK, InUpdate, Due
  <2>4. n - u * b \in W .. Y
    BY <1>0, <2>1, <2>3 DEF FlightInv
  <2>5. (InFlight - Due)' \in W .. Y
    <3>1. (n - b) - (u * b - b) \in W .. Y
      BY <1>0, <2>3, <2>4
    <3> QED
      BY <2>2, <2>3, <3>1
  <2> QED
    BY <1>0, <1>b, <1>c, <2>1, <2>5 DEF FlightInv
<1>6. CASE Train
  <2>1. /\ UNCHANGED <<tags, saved, crashes>> /\ pc = "train" /\ updates' = updates - 1
        /\ pc' = IF updates > 1 THEN "poll" ELSE "save"
    BY <1>6 DEF Train, queue, recovery
  <2>2. u >= 1 /\ u <= conf.sync_step
    BY <1>0, <2>1 DEF FlightInv, TypeInv, CountersOK, InUpdate
  <2>3. InFlight' = InFlight /\ Due' = Due
    <3>1. CASE u > 1
      BY <1>0, <1>b, <2>1, <3>1 DEF Due, InFlight
    <3>2. CASE u = 1
      <4>1. (1 - 1) * b = 0
        BY <1>0
      <4> QED
        BY <1>0, <2>1, <3>2, <4>1 DEF Due, InFlight
    <3> QED
      BY <2>2, <3>1, <3>2
  <2>4. updates' <= conf.sync_step
    BY <1>0, <2>1, <2>2, FlightTypes
  <2> QED
    BY <1>0, <1>b, <1>c, <2>1, <2>3, <2>4 DEF FlightInv
<1>7. CASE Save
  <2>1. /\ UNCHANGED <<tags, updates, chosen, crashes>> /\ pc = "save" /\ pc' = "clear"
        /\ saved' = saved \/ saved'.tags = Persisted
    BY <1>7 DEF Save, queue
  <2>2. Due = 0 /\ Due' = 0 /\ InFlight' = InFlight
    BY <2>1 DEF Due, InFlight
  <2>3. n <= Y
    <3>1. n - 0 \in W .. Y
      BY <1>0, <2>1, <2>2 DEF FlightInv
    <3> QED
      BY <1>0, <3>1
  <2>4. Cardinality(DOMAIN Persisted) <= Y
    <3>1. DOMAIN NoTags = {} /\ Cardinality({}) = 0
      BY FS_EmptySet DEF NoTags
    <3> QED
      BY <1>0, <2>3, <3>1 DEF Persisted, InFlight
  <2> QED
    BY <1>0, <1>b, <1>c, <2>1, <2>2, <2>4 DEF FlightInv
<1>8. CASE Clear
  <2>1. /\ UNCHANGED <<tags, updates, chosen, saved, crashes>>
        /\ pc = "clear" /\ pc' \in {"feed", "done"}
    BY <1>8 DEF Clear, recovery
  <2>2. Due = 0 /\ Due' = 0 /\ InFlight' = InFlight
    BY <2>1 DEF Due, InFlight
  <2> QED
    BY <1>0, <1>b, <1>c, <2>1, <2>2 DEF FlightInv
<1>9. CASE Crash
  <2>1. /\ tags' = saved.tags /\ crashes' = crashes + 1 /\ pc' = "fit" /\ saved' = saved
        /\ updates' = 0
    BY <1>9 DEF Crash
  <2>2. InFlight' <= (Warm * crashes)'
    BY <1>0, <1>b, <2>1 DEF FlightInv, InFlight
  <2>3. /\ Cardinality(DOMAIN saved.tags) \in Nat /\ Cardinality(DOMAIN saved.tags) <= Y
        /\ (Warm * (crashes + 1))' = Y + W
    <3>1. Cardinality(DOMAIN saved.tags) \in Nat
      <4>1. DOMAIN saved.tags \subseteq 1 .. (saved.next_row - 1) /\ saved.next_row \in 1 .. (MaxRow + 1)
        BY DEF FlightInv, TypeInv, SavedOK, TagsOK
      <4> QED
        BY <4>1, CountRows, SizeAssumption
    <3>2. W * ((C + 1) + 1) = W * (C + 1) + W
      BY <1>0, Products
    <3> QED
      BY <1>0, <1>b, <2>1, <3>1, <3>2 DEF FlightInv
  <2>4. Cardinality(DOMAIN saved.tags) <= Y + W
    BY <1>0, <2>3
  <2>5. crashes' \in Nat /\ updates' <= conf.sync_step
    BY <2>1, FlightTypes
  <2> QED
    BY <2>1, <2>2, <2>3, <2>4, <2>5 DEF FlightInv
<1>10. CASE \/ UNCHANGED vars \/ \E r \in Rows : PromptStep(r)
            \/ \E k \in Keys : SessionEnds(k)
  <2>1. DOMAIN tags' = DOMAIN tags /\ UNCHANGED <<pc, updates, chosen, saved, crashes>>
    BY <1>10 DEF vars, PromptStep, Start, Finished, Failed, SessionEnds, Put, Raise,
                 trainer, queue, recovery
  <2> QED
    BY <2>1, FlightFrame
<1> QED
  BY <1>1, <1>2, <1>3, <1>4, <1>5, <1>6, <1>7, <1>8, <1>9, <1>10 DEF Next, TrainerStep

\* Initially nothing is in flight.
LEMMA FlightInit == Init => FlightInv
<1> SUFFICES ASSUME Init PROVE FlightInv
  OBVIOUS
<1>1. TypeInv /\ conf \in Configs
  BY InitType DEF Init
<1>2. Warm \in Nat /\ conf.sync_step \in Nat
  BY <1>1, WholeBatch, ConfFields
<1>3. Warm * 0 \in Nat /\ Warm * (0 + 1) \in Nat
  BY <1>2
<1>4. DOMAIN NoTags = {} /\ Cardinality({}) = 0
  BY FS_EmptySet DEF NoTags
<1> QED
  BY <1>1, <1>2, <1>3, <1>4 DEF Init, InitTrainer, FlightInv, InFlight

LEMMA FlightHolds == Spec => []FlightInv
BY FlightInit, FlightStep, PTL DEF Spec

\* Whatever is dropped and refilled, a step starts and ends with the warm-up
\* batches in flight and adds one train batch: no sample waits for prompts that
\* nobody feeds, and a restart adds one warm-up at most.
THEOREM FlightCorrect == Spec => []InFlightBounded
<1>1. FlightInv => InFlightBounded
  <2> SUFFICES ASSUME FlightInv PROVE InFlightBounded
    OBVIOUS
  <2>n. /\ Warm \in Nat /\ InFlight \in Nat /\ Warm * crashes \in Nat /\ SampleBatch \in Nat
        /\ Warm * (crashes + 1) \in Nat /\ Warm * (crashes + 1) = Warm * crashes + Warm
        /\ conf.batch \in Nat /\ updates \in Nat /\ conf.sync_step \in Nat
        /\ conf.sync_step * SampleBatch = conf.batch
    BY FlightTypes, Products
  <2>0. PICK W, n, X, Y, B, b, u, s \in Nat :
            /\ W = Warm /\ n = InFlight /\ X = Warm * crashes /\ Y = Warm * (crashes + 1)
            /\ Y = X + W /\ B = conf.batch /\ b = SampleBatch /\ u = updates
            /\ s = conf.sync_step /\ s * b = B
    BY <2>n, Zenon
  <2>1. pc \in {"feed", "save", "clear"} => n \in W .. Y
    <3>1. pc \in {"feed", "save", "clear"} => n - 0 \in W .. Y
      BY <2>0 DEF FlightInv, Due
    <3> QED
      BY <2>0, <3>1
  <2>2. n <= Y + B
    <3>1. CASE pc = "fit"
      BY <2>0, <3>1 DEF FlightInv
    <3>2. CASE pc # "fit"
      <4>1. Due \in Nat /\ Due <= B
        <5>1. u * b <= B /\ u * b \in Nat
          BY <2>0, PartOfBatch DEF FlightInv
        <5>2. pc = "train" => (u - 1) * b <= B /\ (u - 1) * b \in Nat
          <6>1. pc = "train" => u - 1 \in Nat /\ u - 1 <= s
            BY <2>0 DEF FlightInv, TypeInv, CountersOK, InUpdate
          <6> QED
            BY <2>0, <6>1, PartOfBatch
        <5> QED
          BY <2>0, <5>1, <5>2 DEF Due
      <4>2. n - Due \in W .. Y
        BY <2>0, <3>2 DEF FlightInv
      <4> QED
        BY <2>0, <4>1, <4>2
    <3> QED
      BY <3>1, <3>2
  <2> QED
    BY <2>0, <2>1, <2>2 DEF InFlightBounded, Warm, InFlight
<1> QED
  BY <1>1, FlightHolds, PTL

-------------------------------------------------------------------------------
(* No prompt is lost.  A checkpoint of the synchronous mode keeps no queue; there  *)
(* the property rests on the count: a step has consumed all that it fed.          *)

\* The rows t, con and drp split the first n - 1.
Split(t, con, drp, n) ==
    /\ DOMAIN t \cup con \cup drp = 1 .. (n - 1)
    /\ DOMAIN t \cap (con \cup drp) = {}
    /\ con \cap drp = {}

ConserveInv ==
    /\ FlightInv
    /\ Split(tags, consumed, dropped, next_row)
    /\ Split(saved.tags, saved.consumed, saved.dropped, saved.next_row)

\* In the synchronous mode nothing is in flight when a checkpoint is taken.
LEMMA SyncEmpty ==
    ASSUME FlightInv, conf.mode = "sync", pc = "save"
    PROVE  DOMAIN tags = {}
<1>1. Warm = 0
  <2>1. conf.warmup = 0 /\ conf.batch \in Nat
    BY FlightTypes, ConfigAssumption
  <2> QED
    BY <2>1 DEF Warm
<1>2. InFlight - 0 \in 0 .. 0
  <2>1. InFlight - 0 \in Warm .. (Warm * (crashes + 1))
    BY DEF FlightInv, Due
  <2> QED
    BY <1>1, <2>1, FlightTypes
<1>3. InFlight = 0
  BY <1>2, FlightTypes
<1>4. IsFiniteSet(DOMAIN tags) /\ Cardinality(DOMAIN tags) = 0
  BY <1>3, FlightTypes DEF InFlight
<1> QED
  BY <1>4, FS_EmptySet, Zenon

\* What a checkpoint keeps of the queue splits the rows as the queue does.
LEMMA PersistedSplits ==
    ASSUME ConserveInv, pc = "save"
    PROVE  Split(Persisted, consumed, dropped, next_row)
<1>1. CASE conf.mode = "sync"
  <2>1. DOMAIN tags = {} /\ DOMAIN Persisted = {}
    BY <1>1, SyncEmpty DEF ConserveInv, Persisted, NoTags
  <2> QED
    BY <2>1 DEF ConserveInv, Split
<1>2. CASE conf.mode # "sync"
  BY <1>2 DEF ConserveInv, Persisted
<1> QED
  BY <1>1, <1>2

\* Rows fetched are rows registered.
LEMMA SplitGrows ==
    ASSUME NEW t, NEW u, NEW con, NEW drp, NEW i \in Nat, NEW n \in Nat, i >= 1,
           Split(t, con, drp, i),
           DOMAIN u = DOMAIN t \cup i .. ((i + n) - 1)
    PROVE  Split(u, con, drp, i + n)
<1>1. 1 .. ((i + n) - 1) = 1 .. (i - 1) \cup i .. ((i + n) - 1)
  OBVIOUS
<1>2. 1 .. (i - 1) \cap i .. ((i + n) - 1) = {}
  OBVIOUS
<1> QED
  BY <1>1, <1>2 DEF Split

\* The invariant of conservation is inductive.
LEMMA ConserveStep == ConserveInv /\ [Next]_vars => ConserveInv'
<1> SUFFICES ASSUME ConserveInv, [Next]_vars
             PROVE  /\ Split(tags', consumed', dropped', next_row')
                    /\ Split(saved'.tags, saved'.consumed, saved'.dropped, saved'.next_row)
  BY FlightStep DEF ConserveInv
<1>0. next_row \in Nat /\ next_row >= 1 /\ conf \in Configs
  BY SizeAssumption DEF ConserveInv, FlightInv, TypeInv, TypeOK
<1> USE DEF ConserveInv
<1>1. CASE Fit
  <2>1. conf.warmup * conf.batch \in Nat
    BY <1>0, ConfFields
  <2>2. /\ DOMAIN tags' = DOMAIN tags \cup next_row .. ((next_row + conf.warmup * conf.batch) - 1)
        /\ next_row' = next_row + conf.warmup * conf.batch
        /\ UNCHANGED <<consumed, dropped, saved>>
    BY <1>1 DEF Fit, Fetch, history, recovery
  <2> QED
    BY <1>0, <2>1, <2>2, SplitGrows
<1>2. CASE Feed
  <2>1. conf.batch \in Nat
    BY <1>0, ConfFields
  <2>2. /\ DOMAIN tags' = DOMAIN tags \cup next_row .. ((next_row + conf.batch) - 1)
        /\ next_row' = next_row + conf.batch
        /\ UNCHANGED <<consumed, dropped, saved>>
    BY <1>2 DEF Feed, Fetch, Submitted, history, recovery
  <2> QED
    BY <1>0, <2>1, <2>2, SplitGrows
<1>3. CASE Drop
  <2> DEFINE n == Cardinality(chosen.rows)
  <2>0. chosen.rows \subseteq DOMAIN tags
    BY DEF FlightInv, TypeInv, ChosenOK, Terminal
  <2>1. n \in Nat
    <3>1. chosen.rows \subseteq Rows
      BY <2>0, SizeAssumption DEF FlightInv, TypeInv, TypeOK, Rows
    <3> QED
      BY <3>1, RowsCount
  <2>2. Split(Without(tags, chosen.rows), consumed, dropped \cup chosen.rows, next_row)
    BY <2>0 DEF Split, Without
  <2>3. /\ DOMAIN tags' = DOMAIN Without(tags, chosen.rows)
                          \cup next_row .. ((next_row + n) - 1)
        /\ next_row' = next_row + n
        /\ dropped' = dropped \cup chosen.rows
        /\ UNCHANGED <<consumed, saved>>
    BY <1>3 DEF Drop, Fetch, Refill, Submitted, recovery
  <2> HIDE DEF n
  <2> QED
    BY <1>0, <2>1, <2>2, <2>3, SplitGrows
<1>4. CASE Select
  <2>0. chosen.rows \subseteq DOMAIN tags
    BY DEF FlightInv, TypeInv, ChosenOK, Terminal
  <2>1. /\ DOMAIN tags' = DOMAIN tags \ chosen.rows
        /\ consumed' = consumed \cup chosen.rows
        /\ UNCHANGED <<dropped, next_row, saved>>
    BY <1>4 DEF Select, Without, recovery
  <2> QED
    BY <2>0, <2>1 DEF Split
<1>5. CASE Save
  <2>1. UNCHANGED <<tags, consumed, dropped, next_row>>
    BY <1>5 DEF Save, queue, history
  <2>2. Split(Persisted, consumed, dropped, next_row)
    BY <1>5, PersistedSplits DEF Save
  <2>3. \/ saved' = saved
        \/ /\ saved'.tags = Persisted /\ saved'.consumed = consumed
           /\ saved'.dropped = dropped /\ saved'.next_row = next_row
    BY <1>5 DEF Save
  <2> QED
    BY <2>1, <2>2, <2>3
<1>6. CASE Crash
  BY <1>6 DEF Crash
<1>7. CASE \/ PollDrop \/ PollSelect \/ Train \/ Clear \/ UNCHANGED vars
           \/ \E k \in Keys : SessionEnds(k)
  <2>1. UNCHANGED <<tags, consumed, dropped, next_row, saved>>
    BY <1>7 DEF PollDrop, PollSelect, Train, Clear, SessionEnds, Put, Raise, vars,
                trainer, queue, history, recovery
  <2> QED
    BY <2>1
<1>8. CASE \E r \in Rows : PromptStep(r)
  <2>1. DOMAIN tags' = DOMAIN tags /\ UNCHANGED <<consumed, dropped, next_row, saved>>
    BY <1>8 DEF PromptStep, Start, Finished, Failed, trainer, history, recovery
  <2> QED
    BY <2>1 DEF Split
<1> QED
  BY <1>1, <1>2, <1>3, <1>4, <1>5, <1>6, <1>7, <1>8 DEF Next, TrainerStep

\* Every row the dataloader gave out is in the queue, was trained on or was
\* dropped, and only one of these, in every mode: neither polling, nor dropping
\* and refilling, nor a crash at any point followed by _load_checkpoint and
\* _reissue_inflight_prompts loses a prompt.
THEOREM PromptsCorrect == Spec => []PromptsConserved
<1>1. Init => ConserveInv
  BY FlightInit DEF Init, InitTrainer, ConserveInv, Split, NoTags
<1>2. ConserveInv /\ [Next]_vars => ConserveInv'
  BY ConserveStep
<1>3. ConserveInv => PromptsConserved
  BY DEF ConserveInv, Split, PromptsConserved
<1> QED
  BY <1>1, <1>2, <1>3, PTL DEF Spec

-------------------------------------------------------------------------------
(* Groups are trained whole.                                                    *)

GroupKeys(r) == {r} \X Sessions

\* Every finished group of t has its trajectories in K.
FinishedIn(t, K) ==
    \A r \in DOMAIN t : t[r].status = "finished" => GroupKeys(r) \subseteq K

\* A group being generated has every session either in progress or put, unless
\* one of them raised.
RunningCovered ==
    \A r \in DOMAIN tags :
        pc # "fit" /\ tags[r].status = "running" /\ r \notin errors =>
            GroupKeys(r) \subseteq trajs \cup running

\* Keys of the batch belong to groups that have left the queue.
BatchGone == \A k \in batch : k[1] \notin DOMAIN tags

ChosenWhole ==
    pc = "select" =>
        \A r \in chosen.rows :
            tags[r].status = "finished" => GroupKeys(r) \subseteq chosen.keys

GroupInv ==
    /\ TypeInv
    /\ FinishedIn(tags, trajs)
    /\ FinishedIn(saved.tags, saved.trajs)
    /\ RunningCovered
    /\ BatchGone
    /\ ChosenWhole

\* The keys of a group have its row.
LEMMA GroupKeyRow ==
    ASSUME NEW r, NEW k \in GroupKeys(r)
    PROVE  k[1] = r
BY DEF GroupKeys

\* The invariant of whole groups is inductive.
LEMMA GroupStep == GroupInv /\ [Next]_vars => GroupInv'
<1> SUFFICES ASSUME GroupInv, [Next]_vars
             PROVE  /\ FinishedIn(tags', trajs')
                    /\ FinishedIn(saved'.tags, saved'.trajs)
                    /\ RunningCovered' /\ BatchGone' /\ ChosenWhole'
  BY TypeStep DEF GroupInv
<1> USE DEF GroupInv
<1>0. /\ next_row \in Nat /\ DOMAIN tags \subseteq 1 .. (next_row - 1)
      /\ \A k \in batch : k[1] \in Int /\ k[1] < next_row
      /\ chosen.rows \subseteq DOMAIN tags
      /\ \A k \in chosen.keys : k[1] \in chosen.rows
  <2>1. \A k \in batch : k[1] \in Int /\ k[1] < next_row
    BY KeyRow DEF TypeInv, TypeOK, Rows
  <2> QED
    BY <2>1, SizeAssumption DEF TypeInv, TypeOK, ChosenOK, Terminal
\* A step that adds pending rows from next_row on.
<1>a. ASSUME DOMAIN tags' \subseteq DOMAIN tags \cup {i \in Int : next_row <= i},
             \A r \in DOMAIN tags' :
                 (r \in DOMAIN tags /\ tags'[r] = tags[r]) \/ tags'[r].status = "pending",
             batch' = batch
      PROVE  BatchGone' /\ (trajs' = trajs => FinishedIn(tags', trajs'))
  BY <1>0, <1>a DEF BatchGone, FinishedIn
<1>1. CASE Fit
  <2>1. /\ DOMAIN tags' \subseteq DOMAIN tags \cup {i \in Int : next_row <= i}
        /\ batch' = batch /\ saved' = saved /\ pc' # "select"
    BY <1>0, <1>1 DEF Fit, recovery
  <2>2. \A r \in DOMAIN tags' :
          \/ r \in DOMAIN tags /\ r \notin Reissued(tags) /\ tags'[r] = tags[r]
          \/ tags'[r].status = "pending"
    BY <1>1 DEF Fit
  <2>3. BatchGone'
    BY <1>a, <2>1, <2>2
  <2>4. FinishedIn(tags', trajs')
    <3>1. trajs' = trajs \ KeysOf(Reissued(tags), trajs)
      BY <1>1 DEF Fit
    <3>2. ASSUME NEW r \in DOMAIN tags', tags'[r].status = "finished",
                 NEW k \in GroupKeys(r)
          PROVE  k \in trajs'
      <4>1. r \in DOMAIN tags /\ r \notin Reissued(tags) /\ tags[r].status = "finished"
        BY <2>2, <3>2
      <4>2. k \in trajs
        BY <4>1, <3>2 DEF FinishedIn
      <4>3. k[1] = r
        BY <3>2, GroupKeyRow
      <4> QED
        BY <3>1, <4>1, <4>2, <4>3 DEF KeysOf
    <3> QED
      BY <3>2 DEF FinishedIn
  <2>5. \A r \in DOMAIN tags' : tags'[r].status # "running"
    BY <2>2 DEF Reissued
  <2> QED
    BY <2>1, <2>3, <2>4, <2>5 DEF RunningCovered, ChosenWhole
<1>2. CASE Feed
  <2>1. conf.batch \in Nat
    BY ConfFields DEF TypeInv, TypeOK
  <2>2. /\ DOMAIN tags' \subseteq DOMAIN tags \cup {i \in Int : next_row <= i}
        /\ UNCHANGED <<batch, trajs, saved, running, errors>> /\ pc' = "poll" /\ pc = "feed"
    BY <1>0, <1>2, <2>1 DEF Feed, Submitted, recovery, workers
  <2>3. \A r \in DOMAIN tags' :
          (r \in DOMAIN tags /\ tags'[r] = tags[r]) \/ tags'[r].status = "pending"
    BY <1>2 DEF Feed, Submitted, Pending
  <2> QED
    BY <1>a, <2>2, <2>3 DEF RunningCovered, ChosenWhole
<1>3. CASE Drop
  <2>1. Cardinality(chosen.rows) \in Nat
    <3>1. chosen.rows \subseteq Rows
      BY <1>0, SizeAssumption DEF TypeInv, TypeOK, Rows
    <3> QED
      BY <3>1, RowsCount
  <2>2. /\ DOMAIN tags' \subseteq (DOMAIN tags \ chosen.rows) \cup {i \in Int : next_row <= i}
        /\ UNCHANGED <<batch, saved, running, errors>> /\ pc' = "poll" /\ pc = "drop"
        /\ trajs' = trajs \ chosen.keys
    BY <1>0, <1>3, <2>1 DEF Drop, Submitted, Without, Refill, recovery, workers
  <2>3. \A r \in DOMAIN tags' :
          \/ r \in DOMAIN tags /\ r \notin chosen.rows /\ tags'[r] = tags[r]
          \/ tags'[r].status = "pending"
    BY <1>3 DEF Drop, Submitted, Pending, Without
  <2>4. BatchGone'
    BY <1>a, <2>2, <2>3
  <2>5. \A r : r \notin chosen.rows => GroupKeys(r) \cap chosen.keys = {}
    BY <1>0, GroupKeyRow
  <2>6. FinishedIn(tags', trajs') /\ RunningCovered'
    BY <2>2, <2>3, <2>5 DEF FinishedIn, RunningCovered
  <2> QED
    BY <2>2, <2>4, <2>6 DEF ChosenWhole
<1>4. CASE Select
  <2>1. /\ DOMAIN tags' = DOMAIN tags \ chosen.rows
        /\ \A r \in DOMAIN tags' : tags'[r] = tags[r]
        /\ batch' = batch \cup chosen.keys
        /\ UNCHANGED <<trajs, saved, running, errors>> /\ pc' = "train" /\ pc = "select"
    BY <1>4 DEF Select, Without, recovery, workers
  <2> QED
    BY <1>0, <2>1 DEF FinishedIn, RunningCovered, BatchGone, ChosenWhole
<1>5. CASE Save
  <2>1. UNCHANGED <<tags, trajs, batch, running, errors>> /\ pc' = "clear" /\ pc = "save"
    BY <1>5 DEF Save, queue, workers
  <2>2. FinishedIn(saved'.tags, saved'.trajs)
    <3>1. CASE ~Saves
      BY <1>5, <3>1 DEF Save
    <3>2. CASE Saves
      <4>1. /\ saved'.tags = IF conf.mode = "sync" THEN NoTags ELSE tags
            /\ saved'.trajs = IF conf.mode = "sync" THEN {} ELSE trajs
        BY <1>5, <3>2 DEF Save, Persisted
      <4> QED
        BY <4>1 DEF FinishedIn, NoTags
    <3> QED
      BY <3>1, <3>2
  <2> QED
    BY <2>1, <2>2 DEF FinishedIn, RunningCovered, BatchGone, ChosenWhole
<1>6. CASE Clear
  <2>1. /\ UNCHANGED <<tags, saved, running, errors>> /\ pc = "clear"
        /\ pc' \in {"feed", "done"}
        /\ trajs' = trajs \ batch /\ batch' = {}
    BY <1>6 DEF Clear, workers, recovery
  <2>2. \A r \in DOMAIN tags : GroupKeys(r) \cap batch = {}
    BY GroupKeyRow DEF BatchGone
  <2> QED
    BY <2>1, <2>2 DEF FinishedIn, RunningCovered, BatchGone, ChosenWhole
<1>7. CASE Crash
  BY <1>7 DEF Crash, FinishedIn, RunningCovered, BatchGone, ChosenWhole
<1>8. CASE PollDrop \/ Train \/ UNCHANGED vars
  <2>1. UNCHANGED <<tags, trajs, batch, saved, running, errors>>
        /\ (pc' = "fit" => pc = "fit")
        /\ (pc' = "select" => pc = "select" /\ chosen' = chosen)
        /\ (pc = "fit" => pc' = "fit")
    BY <1>8 DEF PollDrop, Train, vars, trainer, queue, workers, recovery
  <2> QED
    BY <2>1 DEF FinishedIn, RunningCovered, BatchGone, ChosenWhole
<1>9. CASE PollSelect
  <2>1. UNCHANGED <<tags, trajs, batch, saved, running, errors>> /\ pc = "poll"
    BY <1>9 DEF PollSelect, queue, workers, recovery
  <2>2. PICK S \in Selections : chosen' = [rows |-> S, keys |-> KeysOf(S, trajs)]
    BY <1>9 DEF PollSelect
  <2>3. S \subseteq DOMAIN tags
    BY DEF Selections, Sampleable, Terminal
  <2>4. ChosenWhole'
    <3>1. ASSUME NEW r \in S, tags[r].status = "finished"
          PROVE  GroupKeys(r) \subseteq KeysOf(S, trajs)
      BY <2>3, <3>1, GroupKeyRow DEF FinishedIn, KeysOf
    <3> QED
      BY <2>1, <2>2, <3>1 DEF ChosenWhole
  <2> QED
    BY <2>1, <2>4 DEF FinishedIn, RunningCovered, BatchGone
<1>10. ASSUME NEW r \in Rows, PromptStep(r)
       PROVE  /\ FinishedIn(tags', trajs')
              /\ FinishedIn(saved'.tags, saved'.trajs)
              /\ RunningCovered' /\ BatchGone' /\ ChosenWhole'
  <2>0. /\ UNCHANGED <<pc, chosen, batch, saved, trajs, errors>> /\ pc # "fit"
        /\ r \in DOMAIN tags /\ DOMAIN tags' = DOMAIN tags
        /\ \A q \in DOMAIN tags : q # r => tags'[q] = tags[q]
        /\ tags[r].status \in {"pending", "running"} /\ running \subseteq running'
    BY <1>10 DEF PromptStep, Start, Finished, Failed, trainer, recovery, workers
  <2>1. BatchGone'
    BY <2>0 DEF BatchGone
  <2>2. ChosenWhole'
    <3>1. r \notin chosen.rows
      BY <2>0 DEF TypeInv, ChosenOK, Terminal
    <3> QED
      BY <1>0, <2>0, <3>1 DEF ChosenWhole
  <2>3. CASE Start(r)
    <3>1. GroupKeys(r) \subseteq running' /\ tags'[r].status = "running"
      BY <2>3, <2>0 DEF Start, GroupKeys, TypeInv, TypeOK, TagType
    <3> QED
      BY <2>0, <2>1, <2>2, <3>1 DEF FinishedIn, RunningCovered
  <2>4. CASE Finished(r)
    <3>1. tags'[r].status = "finished" /\ running' = running
          /\ tags[r].status = "running" /\ r \notin errors
      BY <2>4, <2>0 DEF Finished, Gathered, workers, TypeInv, TypeOK, TagType
    <3>2. GroupKeys(r) \cap running = {}
      BY <2>4, GroupKeyRow DEF Finished, Gathered, KeysOf
    <3>3. GroupKeys(r) \subseteq trajs
      BY <2>0, <3>1, <3>2 DEF RunningCovered
    <3> QED
      BY <2>0, <2>1, <2>2, <3>1, <3>3 DEF FinishedIn, RunningCovered
  <2>5. CASE Failed(r)
    <3>1. tags'[r].status = "failure" /\ running' = running
      BY <2>5, <2>0 DEF Failed, workers, TypeInv, TypeOK, TagType
    <3> QED
      BY <2>0, <2>1, <2>2, <3>1 DEF FinishedIn, RunningCovered
  <2> QED
    BY <1>10, <2>3, <2>4, <2>5 DEF PromptStep
<1>11. ASSUME NEW k \in Keys, SessionEnds(k)
       PROVE  /\ FinishedIn(tags', trajs')
              /\ FinishedIn(saved'.tags, saved'.trajs)
              /\ RunningCovered' /\ BatchGone' /\ ChosenWhole'
  <2>0. UNCHANGED <<pc, chosen, batch, saved, tags>>
        /\ trajs \subseteq trajs' /\ running' = running \ {k}
    BY <1>11 DEF SessionEnds, Put, Raise, trainer, queue, recovery
  <2>1. CASE Put(k)
    BY <2>0, <2>1 DEF Put, FinishedIn, RunningCovered, BatchGone, ChosenWhole
  <2>2. CASE Raise(k)
    <3>1. errors' = errors \cup {k[1]} /\ trajs' = trajs
      BY <2>2 DEF Raise, queue
    <3>2. \A r : r \notin errors' => k \notin GroupKeys(r)
      BY <3>1, GroupKeyRow
    <3> QED
      BY <2>0, <3>1, <3>2 DEF FinishedIn, RunningCovered, BatchGone, ChosenWhole
  <2> QED
    BY <1>11, <2>1, <2>2 DEF SessionEnds
<1> QED
  BY <1>1, <1>2, <1>3, <1>4, <1>5, <1>6, <1>7, <1>8, <1>9, <1>10, <1>11
  DEF Next, TrainerStep

\* Only Select trains on a group that was not trained on before.
LEMMA ConsumedBySelect ==
    ASSUME TypeInv, [Next]_vars, NEW r \in consumed' \ consumed
    PROVE  Select /\ r \in chosen.rows
<1>1. ASSUME Crash PROVE FALSE
  BY <1>1 DEF Crash, TypeInv, SavedOK
<1>2. ASSUME ~Select, ~Crash PROVE consumed' = consumed
  BY <1>2 DEF Next, TrainerStep, Fit, Feed, PollDrop, Drop, PollSelect, Train, Save, Clear,
              PromptStep, Start, Finished, Failed, SessionEnds, Put, Raise, vars, history
<1>3. Select
  BY <1>1, <1>2
<1> QED
  BY <1>3 DEF Select

\* A group that finished is trained on as a whole, however its sessions, the
\* status updates, the polls and a restart interleave.
THEOREM GroupsCorrect == Spec => GroupsWhole
<1>1. Init => GroupInv
  BY InitType DEF Init, InitTrainer, GroupInv, FinishedIn, RunningCovered, BatchGone,
                  ChosenWhole, NoTags
<1>2. GroupInv /\ [Next]_vars => GroupInv'
  BY GroupStep
<1>3. GroupInv /\ [Next]_vars =>
        [\A r \in consumed' \ consumed :
            pc = "select" /\ tags[r].status = "finished" =>
                {r} \X Sessions \subseteq batch']_vars
  <2> SUFFICES ASSUME GroupInv, [Next]_vars, NEW r \in consumed' \ consumed,
                      pc = "select", tags[r].status = "finished"
               PROVE  {r} \X Sessions \subseteq batch'
    OBVIOUS
  <2>1. Select /\ r \in chosen.rows
    BY ConsumedBySelect DEF GroupInv
  <2> QED
    BY <2>1 DEF GroupInv, ChosenWhole, GroupKeys, Select
<1> QED
  BY <1>1, <1>2, <1>3, PTL DEF Spec, GroupsWhole

-------------------------------------------------------------------------------
(* Trajectories without a prompt.                                               *)

\* A session in progress belongs to a group being generated, or to one of whose
\* sessions one raised; what a poll decided on includes every trajectory of its
\* groups, up to late ones of the latter kind.
OrphanInv ==
    /\ TypeInv
    /\ pc = "fit" => running = {}
    /\ \A k \in running :
        k[1] \in errors \/ (k[1] \in DOMAIN tags /\ tags[k[1]].status = "running")
    /\ \A k \in trajs : k[1] \in chosen.rows => k \in chosen.keys \/ k[1] \in errors
    /\ OrphansExplained

\* The invariant of orphans is inductive.
LEMMA OrphanStep == OrphanInv /\ [Next]_vars => OrphanInv'
<1> SUFFICES ASSUME OrphanInv, [Next]_vars, TypeInv'
             PROVE  OrphanInv'
  BY TypeStep DEF OrphanInv
<1>0. /\ \A k \in running :
          k[1] \in errors \/ (k[1] \in DOMAIN tags /\ tags[k[1]].status = "running")
      /\ \A k \in trajs : k[1] \in chosen.rows => k \in chosen.keys \/ k[1] \in errors
      /\ \A k \in trajs : k[1] \in DOMAIN tags \cup errors \/ k \in batch \cup leftover
      /\ \A r \in chosen.rows :
          r \in DOMAIN tags /\ tags[r].status \in {"finished", "failure"}
      /\ pc = "fit" => running = {}
  BY DEF OrphanInv, OrphansExplained, TypeInv, ChosenOK, Terminal
<1>1. CASE Fit
  <2>1. /\ UNCHANGED <<running, errors, batch, leftover, chosen>> /\ running = {}
        /\ trajs' \subseteq trajs /\ DOMAIN tags \subseteq DOMAIN tags' /\ pc' # "fit"
    BY <1>0, <1>1 DEF Fit, workers, recovery
  <2> QED
    BY <1>0, <2>1 DEF OrphanInv, OrphansExplained
<1>2. CASE Feed
  <2>1. /\ UNCHANGED <<trajs, running, errors, batch, leftover, chosen>> /\ pc' # "fit"
        /\ DOMAIN tags \subseteq DOMAIN tags' /\ \A r \in DOMAIN tags : tags'[r] = tags[r]
    BY <1>2 DEF Feed, Submitted, workers, recovery
  <2> QED
    BY <1>0, <2>1 DEF OrphanInv, OrphansExplained
<1>3. CASE PollDrop \/ PollSelect
  <2>1. UNCHANGED <<tags, trajs, running, errors, batch, leftover>> /\ pc' # "fit"
    BY <1>3 DEF PollDrop, PollSelect, queue, workers, recovery
  <2>2. \A k \in trajs : k[1] \in chosen'.rows => k \in chosen'.keys
    BY <1>3 DEF PollDrop, PollSelect, ClearedWith, KeysOf
  <2> QED
    BY <1>0, <2>1, <2>2 DEF OrphanInv, OrphansExplained
<1>4. CASE Drop
  <2>1. /\ UNCHANGED <<running, errors, batch, leftover>> /\ pc' # "fit"
        /\ chosen' = Nothing /\ trajs' = trajs \ chosen.keys
        /\ DOMAIN tags \ chosen.rows \subseteq DOMAIN tags'
        /\ \A r \in DOMAIN tags \ chosen.rows : tags'[r] = tags[r]
    BY <1>4 DEF Drop, Submitted, Without, workers, recovery
  <2>2. \A k \in running : k[1] \in errors \/ k[1] \in DOMAIN tags \ chosen.rows
    BY <1>0
  <2> QED
    BY <1>0, <2>1, <2>2 DEF OrphanInv, OrphansExplained, Nothing
<1>5. CASE Select
  <2>1. /\ UNCHANGED <<trajs, running, errors, leftover>> /\ pc' # "fit"
        /\ chosen' = Nothing /\ batch' = batch \cup chosen.keys
        /\ DOMAIN tags' = DOMAIN tags \ chosen.rows
        /\ \A r \in DOMAIN tags' : tags'[r] = tags[r]
    BY <1>5 DEF Select, Without, workers, recovery
  <2>2. \A k \in running : k[1] \in errors \/ k[1] \in DOMAIN tags \ chosen.rows
    BY <1>0
  <2> QED
    BY <1>0, <2>1, <2>2 DEF OrphanInv, OrphansExplained, Nothing
<1>6. CASE Clear
  <2>1. /\ UNCHANGED <<tags, running, errors, leftover, chosen>> /\ pc' # "fit"
        /\ trajs' = trajs \ batch
    BY <1>6 DEF Clear, workers, recovery
  <2> QED
    BY <1>0, <2>1 DEF OrphanInv, OrphansExplained
<1>7. CASE Train \/ Save \/ UNCHANGED vars
  <2>1. /\ UNCHANGED <<tags, trajs, running, errors, batch, leftover, chosen>>
        /\ pc' = "fit" => pc = "fit"
    BY <1>7 DEF Train, Save, vars, trainer, queue, workers, recovery
  <2> QED
    BY <1>0, <2>1 DEF OrphanInv, OrphansExplained
<1>8. CASE Crash
  <2>1. /\ running' = {} /\ chosen' = Nothing /\ tags' = saved.tags /\ trajs' = saved.trajs
        /\ leftover' = saved.trajs \ KeysOf(DOMAIN saved.tags, saved.trajs)
    BY <1>8 DEF Crash
  <2> QED
    BY <2>1 DEF OrphanInv, OrphansExplained, KeysOf, Nothing
<1>9. ASSUME NEW r \in Rows, PromptStep(r) PROVE OrphanInv'
  <2>1. /\ UNCHANGED <<pc, trajs, errors, batch, leftover, chosen>> /\ pc # "fit"
        /\ r \in DOMAIN tags /\ DOMAIN tags' = DOMAIN tags
        /\ \A q \in DOMAIN tags : q # r => tags'[q] = tags[q]
    BY <1>9 DEF PromptStep, Start, Finished, Failed, trainer, recovery, workers
  <2>2. \A k \in running' :
          k[1] \in errors \/ (k[1] \in DOMAIN tags' /\ tags'[k[1]].status = "running")
    <3>1. CASE Start(r)
      <4>1. tags'[r].status = "running" /\ running' = running \cup ({r} \X Sessions)
        BY <3>1, <2>1 DEF Start, OrphanInv, TypeInv, TypeOK, TagType
      <4> QED
        BY <1>0, <2>1, <4>1
    <3>2. CASE Finished(r)
      <4>1. running' = running /\ \A k \in running : k[1] # r
        BY <3>2 DEF Finished, Gathered, KeysOf, workers
      <4> QED
        BY <1>0, <2>1, <4>1
    <3>3. CASE Failed(r)
      <4>1. running' = running /\ r \in errors
        BY <3>3 DEF Failed, workers
      <4> QED
        BY <1>0, <2>1, <4>1
    <3> QED
      BY <1>9, <3>1, <3>2, <3>3 DEF PromptStep
  <2> QED
    BY <1>0, <2>1, <2>2 DEF OrphanInv, OrphansExplained
<1>10. ASSUME NEW k \in Keys, SessionEnds(k) PROVE OrphanInv'
  <2>1. /\ UNCHANGED <<pc, tags, batch, leftover, chosen>> /\ k \in running
        /\ running' = running \ {k} /\ errors \subseteq errors' /\ trajs' \subseteq trajs \cup {k}
    BY <1>10 DEF SessionEnds, Put, Raise, trainer, queue, recovery
  <2>2. k[1] \in chosen.rows => k[1] \in errors
    BY <1>0, <2>1
  <2> QED
    BY <1>0, <2>1, <2>2 DEF OrphanInv, OrphansExplained
<1> QED
  BY <1>1, <1>2, <1>3, <1>4, <1>5, <1>6, <1>7, <1>8, <1>9, <1>10 DEF Next, TrainerStep

\* A trajectory is in the queue without its prompt only while it is in the batch,
\* after a sibling session raised, or when a checkpoint brought it back: no drop and
\* no interleaving of a late session leaves another one behind.
THEOREM OrphansCorrect == Spec => []OrphansExplained
<1>1. Init => OrphanInv
  BY InitType DEF Init, InitTrainer, OrphanInv, OrphansExplained, Nothing
<1>2. OrphanInv => OrphansExplained
  BY DEF OrphanInv
<1> QED
  BY <1>1, <1>2, OrphanStep, PTL DEF Spec

-------------------------------------------------------------------------------
(* The off-policy threshold.                                                    *)

\* The versions a tag of step s spans at step g.
SpanAt(g, s) == (g - s) + 1

\* Under drop, what was selected is within the threshold; under wait, what is
\* still being generated is, and strictly so once a poll has let a sample pass.
SpanInv ==
    /\ TypeInv
    /\ conf.strategy = "drop" /\ pc = "select" =>
        \A r \in chosen.rows : Span(r) <= conf.threshold
    /\ conf.strategy = "wait" =>
        /\ \A r \in Unfinished : Span(r) <= conf.threshold
        /\ pc \in {"select", "train", "save", "clear"} =>
            \A r \in Unfinished : Span(r) < conf.threshold
        /\ \A r \in DOMAIN saved.tags :
            saved.tags[r].status \in {"pending", "running"} =>
                SpanAt(saved.global_steps, saved.tags[r].steps) < conf.threshold

\* Feeding and refilling add pending rows of this step to rows that stay.
LEMMA FreshTags ==
    ASSUME Feed \/ Drop
    PROVE  \A r \in DOMAIN tags' :
               tags'[r] = Pending \/ (r \in DOMAIN tags /\ tags'[r] = tags[r])
<1>1. CASE Feed
  BY <1>1 DEF Feed, Submitted
<1>2. CASE Drop
  BY <1>2 DEF Drop, Submitted, Without
<1> QED
  BY <1>1, <1>2

\* The invariant of spans is inductive.
LEMMA SpanStep == SpanInv /\ [Next]_vars => SpanInv'
<1>a. ASSUME [Next]_vars PROVE conf' = conf
  BY <1>a DEF Next, TrainerStep, Fit, Feed, PollDrop, Drop, PollSelect, Select, Train,
              Save, Clear, Crash, PromptStep, Start, Finished, Failed, SessionEnds,
              Put, Raise, vars
<1> SUFFICES ASSUME SpanInv, [Next]_vars, conf' = conf, TypeInv'
             PROVE  SpanInv'
  BY <1>a, TypeStep DEF SpanInv
<1> USE DEF SpanInv
<1>0. /\ conf.threshold \in Nat /\ conf.threshold >= 1 /\ global_steps \in Nat
      /\ \A r \in DOMAIN tags : tags[r] \in TagType /\ tags[r].steps \in Nat
      /\ \A r \in Unfinished : r \in DOMAIN tags /\ tags[r].status \in {"pending", "running"}
      /\ conf.batch \in Nat /\ next_row \in Nat /\ DOMAIN tags \subseteq 1 .. (next_row - 1)
  BY ConfFields, SizeAssumption DEF TypeInv, TypeOK, TagType, Unfinished, Terminal, Statuses
<1>1. CASE Fit
  <2>1. \A r \in Unfinished' : tags'[r].steps = global_steps'
    BY <1>0, <1>1 DEF Fit, Unfinished, Terminal, Reissued
  <2>2. saved' = saved /\ pc' \in {"feed", "done"} /\ global_steps' \in Nat
    BY <1>0, <1>1 DEF Fit, recovery
  <2> QED
    BY <1>0, <2>1, <2>2 DEF Span
<1>2. CASE Feed
  <2>1. \A r \in Unfinished' :
          tags'[r].steps = global_steps' \/ (r \in Unfinished /\ tags'[r] = tags[r])
    <3>0. global_steps' = global_steps /\ Pending.steps = global_steps
      BY <1>2 DEF Feed, Pending
    <3>1. \A r \in DOMAIN tags' :
            tags'[r] = Pending \/ (r \in DOMAIN tags /\ tags'[r] = tags[r])
      BY <1>2, FreshTags
    <3> QED
      BY <3>0, <3>1 DEF Unfinished, Terminal
  <2>2. saved' = saved /\ pc' = "poll" /\ global_steps' = global_steps
    BY <1>2 DEF Feed, recovery
  <2> QED
    BY <1>0, <2>1, <2>2 DEF Span
<1>3. CASE Drop
  <2>1. \A r \in Unfinished' :
          tags'[r].steps = global_steps' \/ (r \in Unfinished /\ tags'[r] = tags[r])
    <3>0. global_steps' = global_steps /\ Pending.steps = global_steps
      BY <1>3 DEF Drop, Pending
    <3>1. \A r \in DOMAIN tags' :
            tags'[r] = Pending \/ (r \in DOMAIN tags /\ tags'[r] = tags[r])
      BY <1>3, FreshTags
    <3> QED
      BY <3>0, <3>1 DEF Unfinished, Terminal
  <2>2. saved' = saved /\ pc' = "poll" /\ global_steps' = global_steps
    BY <1>3 DEF Drop, recovery
  <2> QED
    BY <1>0, <2>1, <2>2 DEF Span
<1>4. CASE PollSelect
  <2>1. UNCHANGED <<tags, saved, global_steps>> /\ pc' = "select"
    BY <1>4 DEF PollSelect, queue, recovery
  <2>2. PICK S \in Selections : chosen' = [rows |-> S, keys |-> KeysOf(S, trajs)]
    BY <1>4 DEF PollSelect
  <2>3. conf.strategy = "drop" => \A r \in S : Span(r) <= conf.threshold
    BY DEF Selections, Sampleable
  <2>4. conf.strategy = "wait" => \A r \in Unfinished : Span(r) < conf.threshold
    BY <1>0, <1>4 DEF PollSelect, HasEnough, WaitsFor, Span
  <2>5. Unfinished' = Unfinished /\ \A r : Span(r)' = Span(r)
    BY <2>1 DEF Unfinished, Terminal, Span
  <2> QED
    BY <2>1, <2>2, <2>3, <2>4, <2>5
<1>5. CASE Select
  <2>1. \A r \in Unfinished' : r \in Unfinished /\ tags'[r] = tags[r]
    BY <1>5 DEF Select, Without, Unfinished, Terminal
  <2>2. saved' = saved /\ pc' = "train" /\ pc = "select" /\ global_steps' = global_steps
    BY <1>5 DEF Select, recovery
  <2> QED
    BY <2>1, <2>2 DEF Span
<1>6. CASE Save
  <2>1. UNCHANGED <<tags, global_steps>> /\ pc' = "clear" /\ pc = "save"
    BY <1>6 DEF Save, queue
  <2>2. Unfinished' = Unfinished /\ \A r : Span(r)' = Span(r)
    BY <2>1 DEF Unfinished, Terminal, Span
  <2>3. CASE saved' = saved
    BY <2>1, <2>2, <2>3
  <2>4. CASE /\ saved'.tags = IF conf.mode = "sync" THEN NoTags ELSE tags
             /\ saved'.global_steps = global_steps
    <3>1. \A r \in DOMAIN saved'.tags :
            r \in DOMAIN tags /\ saved'.tags[r] = tags[r]
      BY <2>4 DEF NoTags
    <3>2. \A r \in DOMAIN tags :
            tags[r].status \in {"pending", "running"} => r \in Unfinished
      BY DEF Unfinished, Terminal
    <3>3. conf.strategy = "wait" =>
            \A r \in DOMAIN saved'.tags :
                saved'.tags[r].status \in {"pending", "running"} =>
                    SpanAt(saved'.global_steps, saved'.tags[r].steps) < conf.threshold
      BY <2>1, <2>4, <3>1, <3>2 DEF SpanAt, Span
    <3> QED
      BY <2>1, <2>2, <3>3
  <2> QED
    BY <1>6, <2>3, <2>4 DEF Save, Persisted
<1>7. CASE Clear
  <2>1. UNCHANGED <<tags, saved>> /\ pc = "clear" /\ pc' \in {"feed", "done"}
        /\ global_steps' = global_steps + 1
    BY <1>7 DEF Clear, recovery
  <2>2. Unfinished' = Unfinished
    BY <2>1 DEF Unfinished, Terminal
  <2> QED
    BY <1>0, <2>1, <2>2 DEF Span
<1>8. CASE Crash
  <2>1. /\ tags' = saved.tags /\ global_steps' = saved.global_steps
        /\ saved' = saved /\ pc' = "fit"
    BY <1>8 DEF Crash
  <2>2. \A r \in Unfinished' :
          r \in DOMAIN saved.tags /\ saved.tags[r].status \in {"pending", "running"}
    BY <2>1 DEF Unfinished, Terminal, TypeInv, SavedOK, TagsOK, TagType, Statuses
  <2>3. \A r \in DOMAIN saved.tags : saved.tags[r].steps \in Nat
    BY DEF TypeInv, SavedOK, TagsOK, TagType
  <2>4. saved.global_steps \in Nat
    BY SizeAssumption DEF TypeInv, SavedOK
  <2> QED
    BY <1>0, <2>1, <2>2, <2>3, <2>4 DEF Span, SpanAt
<1>9. CASE PollDrop \/ Train \/ UNCHANGED vars \/ \E k \in Keys : SessionEnds(k)
  <2>1. UNCHANGED <<tags, saved, global_steps>>
        /\ (pc' = "select" => pc = "select" /\ chosen' = chosen)
        /\ (pc' \in {"select", "train", "save", "clear"} =>
                pc \in {"select", "train", "save", "clear"})
    BY <1>9 DEF PollDrop, Train, SessionEnds, Put, Raise, vars, trainer, queue, recovery
  <2>2. Unfinished' = Unfinished /\ \A r : Span(r)' = Span(r)
    BY <2>1 DEF Unfinished, Terminal, Span
  <2> QED
    BY <2>1, <2>2
<1>10. CASE \E r \in Rows : PromptStep(r)
  <2>1. PICK r \in Rows : PromptStep(r)
    BY <1>10
  <2>2. /\ UNCHANGED <<pc, chosen, saved, global_steps>>
        /\ r \in Unfinished /\ DOMAIN tags' = DOMAIN tags
        /\ \A q \in DOMAIN tags : tags'[q].steps = tags[q].steps
                                 /\ (q # r => tags'[q] = tags[q])
    <3>1. UNCHANGED <<pc, chosen, saved, global_steps>>
      BY <2>1 DEF PromptStep, Start, Finished, Failed, trainer, recovery
    <3>2. r \in Unfinished
      BY <2>1 DEF PromptStep, Start, Finished, Failed, Unfinished, Terminal
    <3>3. PICK st : tags' = [tags EXCEPT ![r].status = st]
      BY <2>1 DEF PromptStep, Start, Finished, Failed
    <3>4. r \in DOMAIN tags /\ tags[r] \in [status : Statuses, steps : Nat]
      BY <1>0, <3>2 DEF TagType
    <3>5. tags'[r].steps = tags[r].steps
      BY <3>3, <3>4
    <3> QED
      BY <3>1, <3>2, <3>3, <3>5
  <2>3. Unfinished' \subseteq Unfinished /\ Unfinished \subseteq DOMAIN tags
    BY <2>2 DEF Unfinished, Terminal
  <2>4. \A q \in DOMAIN tags : Span(q)' = Span(q)
    BY <2>2 DEF Span
  <2>5. chosen.rows \subseteq DOMAIN tags
    BY DEF TypeInv, ChosenOK, Terminal
  <2> QED
    BY <2>2, <2>3, <2>4, <2>5
<1> QED
  BY <1>1, <1>2, <1>3, <1>4, <1>5, <1>6, <1>7, <1>8, <1>9, <1>10 DEF Next, TrainerStep

\* The invariant of spans holds from the start.
LEMMA SpanHolds == Spec => []SpanInv
<1>1. Init => SpanInv
  BY InitType DEF Init, InitTrainer, SpanInv, NoTags, Unfinished, Terminal
<1> QED
  BY <1>1, SpanStep, PTL DEF Spec

\* Under the wait strategy no group still being generated spans more model
\* versions than max_off_policy_threshold, at any threshold and batch size, also
\* after a restart.
THEOREM UnfinishedSpanCorrect == Spec => []UnfinishedSpanBounded
<1>1. SpanInv => UnfinishedSpanBounded
  BY DEF SpanInv, UnfinishedSpanBounded
<1> QED
  BY <1>1, SpanHolds, PTL

\* Under the drop strategy every group trained on spans at most the threshold:
\* the assertion in ReplayBuffer.sample never fails.
THEOREM TrainedSpanCorrect == Spec => TrainedSpanBounded
<1>1. SpanInv /\ [Next]_vars =>
        [\A r \in consumed' \ consumed :
            conf.strategy = "drop" /\ pc = "select" =>
                Span(r) <= conf.threshold]_vars
  <2> SUFFICES ASSUME SpanInv, [Next]_vars, NEW r \in consumed' \ consumed,
                      conf.strategy = "drop", pc = "select"
               PROVE  Span(r) <= conf.threshold
    OBVIOUS
  <2>1. r \in chosen.rows
    BY ConsumedBySelect DEF SpanInv
  <2> QED
    BY <2>1 DEF SpanInv
<1> QED
  BY <1>1, SpanHolds, PTL DEF Spec, TrainedSpanBounded

================================================================================

--------------------------- MODULE BatchRunnerProofs ----------------------------
(* Machine-checked proofs about BatchRunner, for any number of samples, any window,*)
(* batch size and number of restarts.                                              *)
EXTENDS BatchRunner, FiniteSetTheorems, TLAPS

\* Where a request is: not yet prepared, kept, or reported once.
PlaceInv ==
    /\ \A q \in Requests : q >= next =>
          /\ q \notin states /\ address[q] = None
          /\ status[q] = "running" /\ results[q] = <<>>
    /\ \A q \in states : address[q] # None /\ results[q] = <<>>
    /\ \A q \in Requests : q < next /\ q \notin states => Len(results[q]) = 1

\* A finalizer belongs to a kept sample that has ended, and has an outcome when done.
FutureInv ==
    /\ \A q \in Requests : future[q] # "none" => q \in states /\ status[q] # "running"
    /\ \A q \in Requests : future[q] = "done" => outcome[q] # None
    /\ \A q \in Requests : future[q] # "done" => outcome[q] = None

\* Kept states have addresses of their own, and an ended one is with the pool, done,
\* or hidden behind an earlier one that had its address.
AddressInv ==
    /\ \A p, q \in states : address[p] = address[q] => p = q
    /\ \A a \in finalized : \E p \in Requests : address[p] = a
    /\ \A q \in states : status[q] # "running" => address[q] \in finalized
    /\ \A q \in states : future[q] = "none" /\ address[q] \in finalized =>
          \E p \in 1..(q - 1) : address[p] = address[q]

\* What a directory says of its sample.
DiskInv ==
    /\ \A q \in states : future[q] # "done" => disk[q] = "started"
    /\ \A q \in Requests : outcome[q] = "completed" => disk[q] = "completed"
    /\ ReportMatchesDisk

\* What the main thread knows at each point of its loop.
PhaseInv ==
    /\ at = "batch" => batch \subseteq Running
    /\ at = "task" => states = {} /\ Futures = {}
    /\ at \in {"drain", "last", "end"} => next > Samples /\ Running = {} /\ Futures = {}

IInv == TypeOK /\ PlaceInv /\ FutureInv /\ AddressInv /\ DiskInv /\ PhaseInv /\ WindowRespected

LEMMA RequestFacts ==
    /\ IsFiniteSet(Requests) /\ Requests \subseteq Nat /\ None \notin Requests
    /\ None \notin Addresses
BY FS_Interval, SizeAssumption, NoneAssumption DEF Requests, Addresses

LEMMA FirstReport ==
    ASSUME NEW x
    PROVE  Append(<<>>, x) = <<x>> /\ Len(<<x>>) = 1 /\ DOMAIN <<x>> = {1} /\ <<x>>[1] = x
OBVIOUS

LEMMA InitInv == Init => IInv
<1> SUFFICES ASSUME Init PROVE IInv
  OBVIOUS
<1>1. TypeOK
  BY SizeAssumption DEF Init, Starts, TypeOK, Nothing, Statuses, Requests
<1>2. PlaceInv /\ FutureInv /\ AddressInv /\ PhaseInv
  BY SizeAssumption DEF Init, Starts, PlaceInv, FutureInv, AddressInv, PhaseInv, Futures, Nothing, Requests
<1>3. DiskInv
  BY NoneAssumption DEF Init, DiskInv, ReportMatchesDisk, Nothing, Requests
<1>4. WindowRespected
  <2>1. {q \in states : status[q] = "running"} = {}
    BY DEF Init
  <2> QED BY <2>1, FS_EmptySet, SizeAssumption DEF WindowRespected
<1> QED BY <1>1, <1>2, <1>3, <1>4 DEF IInv

--------------------------------------------------------------------------------
\* The window only matters when a sample joins those that run.
LEMMA WindowKept ==
    ASSUME IInv, TypeOK', {q \in states' : status'[q] = "running"} \subseteq Running
    PROVE  WindowRespected'
<1>1. Running \subseteq Requests
  BY DEF IInv, TypeOK, Running
<1>2. IsFiniteSet(Running) /\ Cardinality(Running) \in Nat
  BY <1>1, RequestFacts, FS_Subset, FS_CardinalityType
<1>3. Cardinality(Running) <= Window
  BY DEF IInv, WindowRespected, Running
<1> DEFINE after == {q \in states' : status'[q] = "running"}
<1>4. Cardinality(after) <= Cardinality(Running) /\ Cardinality(after) \in Nat
  BY <1>2, FS_Subset, FS_CardinalityType
<1>5. Cardinality(after) <= Window
  BY <1>2, <1>3, <1>4, SizeAssumption
<1> QED BY <1>5 DEF WindowRespected

\* Reporting futures that are done ends the stay of their samples.
LEMMA CollectedInv ==
    ASSUME IInv, NEW done \in SUBSET Requests, \A q \in done : future[q] = "done",
           Collected(done), at' \in {"collect", "fill", "end"},
           at' = "end" => at = "last",
           UNCHANGED <<mode, next, address, status, steps, batch, active, finalized,
                       disk, restarts>>
    PROVE  IInv'
<1> USE DEF IInv
<1>1. /\ states' = states \ done
      /\ \A q \in Requests : results'[q] = IF q \in done THEN Append(results[q], outcome[q])
                                          ELSE results[q]
      /\ \A q \in Requests : future'[q] = IF q \in done THEN "none" ELSE future[q]
      /\ \A q \in Requests : outcome'[q] = IF q \in done THEN None ELSE outcome[q]
  BY DEF Collected
<1>2. \A q \in done : /\ q \in states /\ q < next /\ status[q] # "running" /\ results[q] = <<>>
                      /\ outcome[q] \in {"completed", "failed"}
  BY DEF FutureInv, PlaceInv, TypeOK, Requests
<1>3. TypeOK'
  <2>1. results' \in [Requests -> Seq({"completed", "failed", "exists", "skipped"})]
    BY <1>1, <1>2 DEF Collected, TypeOK
  <2>2. future' \in [Requests -> {"none", "pending", "done"}]
    BY <1>1 DEF Collected, TypeOK
  <2>3. outcome' \in [Requests -> {"completed", "failed", None}]
    BY <1>1 DEF Collected, TypeOK
  <2> QED BY <1>1, <2>1, <2>2, <2>3 DEF TypeOK
<1>4. PlaceInv'
  <2>1. \A q \in Requests : q >= next => q \notin done
    BY <1>2, RequestFacts DEF TypeOK
  <2>2. ASSUME NEW q \in done PROVE Len(results'[q]) = 1
    <3>1. results'[q] = Append(<<>>, outcome[q])
      BY <1>1, <1>2
    <3> QED BY <3>1, FirstReport
  <2> QED BY <1>1, <2>1, <2>2 DEF PlaceInv, TypeOK
<1>5. FutureInv'
  BY <1>1 DEF FutureInv
<1>6. AddressInv'
  <2>1. \A q \in states' : q \in states /\ q \notin done /\ q \in Requests
    BY <1>1 DEF TypeOK
  <2>2. \A q \in states' : future'[q] = future[q]
    BY <1>1, <2>1
  <2> QED BY <2>1, <2>2 DEF AddressInv
<1>7. DiskInv'
  <2>1. \A q \in states' : future'[q] # "done" => disk[q] = "started"
    BY <1>1 DEF DiskInv, TypeOK
  <2>2. \A q \in Requests : outcome'[q] = "completed" => disk[q] = "completed"
    BY <1>1, NoneAssumption DEF DiskInv
  <2>3. ASSUME NEW q \in Requests, NEW i \in DOMAIN results'[q],
               results'[q][i] \in {"completed", "skipped"}
        PROVE  disk[q] = "completed"
    <3>1. CASE q \in done
      <4>1. results'[q] = Append(<<>>, outcome[q])
        BY <1>1, <1>2, <3>1
      <4>2. results'[q] = <<outcome[q]>> /\ DOMAIN <<outcome[q]>> = {1}
        BY <4>1, FirstReport
      <4>3. i = 1
        BY <4>2
      <4>4. results'[q][i] = outcome[q]
        BY <4>2, <4>3
      <4> QED BY <4>4, <2>3, <1>2, <3>1 DEF DiskInv
    <3>2. CASE q \notin done
      BY <1>1, <2>3, <3>2 DEF DiskInv, ReportMatchesDisk
    <3> QED BY <3>1, <3>2
  <2> QED BY <2>1, <2>2, <2>3 DEF DiskInv, ReportMatchesDisk
<1>8. PhaseInv'
  BY <1>1 DEF PhaseInv, Running, Futures
<1>9. WindowRespected'
  BY <1>1, <1>3, WindowKept DEF Running
<1> QED BY <1>3, <1>4, <1>5, <1>6, <1>7, <1>8, <1>9

LEMMA CollectInv == IInv /\ Collect => IInv'
<1> SUFFICES ASSUME IInv, Collect PROVE IInv'
  OBVIOUS
<1> DEFINE done == {q \in Requests : future[q] = "done"}
<1>1. done \in SUBSET Requests /\ \A q \in done : future[q] = "done"
  OBVIOUS
<1>2. /\ Collected(done) /\ at' = "fill"
      /\ UNCHANGED <<mode, next, address, status, steps, batch, active, finalized,
                     disk, restarts>>
  BY DEF Collect
<1> HIDE DEF done
<1> QED BY <1>1, <1>2, CollectedInv

LEMMA WaitInv == IInv /\ Wait => IInv'
<1> SUFFICES ASSUME IInv, Wait PROVE IInv'
  OBVIOUS
<1>1. Futures \in SUBSET Requests /\ \A q \in Futures : future[q] = "done"
  BY DEF Wait, Futures
<1>2. /\ Collected(Futures) /\ at' \in {"collect", "end"} /\ (at' = "end" => at = "last")
      /\ UNCHANGED <<mode, next, address, status, steps, batch, active, finalized,
                     disk, restarts>>
  BY DEF Wait
<1> QED BY <1>1, <1>2, CollectedInv

\* The next request is prepared only when there is one, and nothing knows of it yet.
LEMMA NextFacts ==
    ASSUME IInv, next <= Samples
    PROVE  /\ next \in Requests /\ next + 1 \in 1..(Samples + 1)
           /\ next \notin states /\ results[next] = <<>> /\ address[next] = None
           /\ status[next] = "running"
           /\ outcome[next] = None /\ future[next] = "none"
<1>1. next \in Requests /\ next + 1 \in 1..(Samples + 1)
  BY SizeAssumption DEF IInv, TypeOK, Requests
<1>2. /\ next \notin states /\ results[next] = <<>> /\ address[next] = None
      /\ status[next] = "running"
  BY <1>1, RequestFacts DEF IInv, PlaceInv
<1> QED BY <1>1, <1>2 DEF IInv, FutureInv

\* Reporting a request that was not started.
LEMMA ReportedInv ==
    ASSUME IInv, next <= Samples, next' = next + 1,
           NEW what \in {"failed", "exists", "skipped", "completed"}, Report(next, what),
           disk' \in [Requests -> {"absent", "started", "completed", "failed"}],
           \A q \in Requests : q # next => disk'[q] = disk[q],
           what \in {"completed", "skipped"} => disk'[next] = "completed",
           UNCHANGED <<mode, at, states, address, status, steps, batch, active, finalized,
                       future, outcome, restarts>>
    PROVE  IInv'
<1> USE DEF IInv
<1>1. /\ next \in Requests /\ next + 1 \in 1..(Samples + 1)
      /\ next \notin states /\ results[next] = <<>> /\ address[next] = None
      /\ outcome[next] = None /\ future[next] = "none"
  BY NextFacts
<1>2. results'[next] = <<what>> /\ \A q \in Requests : q # next => results'[q] = results[q]
  <2>1. results'[next] = Append(<<>>, what)
    BY <1>1 DEF Report, TypeOK
  <2> QED BY <2>1, <1>1, FirstReport DEF Report, TypeOK
<1>3. TypeOK'
  <2>1. results' \in [Requests -> Seq({"completed", "failed", "exists", "skipped"})]
    BY <1>1 DEF Report, TypeOK
  <2> QED BY <2>1, <1>1 DEF TypeOK
<1>4. PlaceInv'
  <2>1. \A q \in Requests : q >= next' => q >= next /\ q # next
    BY <1>1, RequestFacts
  <2>2. \A q \in Requests : q < next' /\ q # next => q < next
    BY <1>1, RequestFacts
  <2>3. Len(results'[next]) = 1
    BY <1>2, FirstReport
  <2>4. \A q \in states : results'[q] = <<>> /\ address[q] # None
    BY <1>1, <1>2 DEF PlaceInv, TypeOK
  <2>5. \A q \in Requests : q >= next' => /\ q \notin states /\ address[q] = None
                                          /\ status[q] = "running" /\ results'[q] = <<>>
    BY <2>1, <1>2 DEF PlaceInv
  <2>6. \A q \in Requests : q < next' /\ q \notin states => Len(results'[q]) = 1
    BY <2>2, <2>3, <1>2 DEF PlaceInv
  <2> QED BY <2>4, <2>5, <2>6 DEF PlaceInv
<1>5. FutureInv' /\ AddressInv'
  BY DEF FutureInv, AddressInv
<1>6. DiskInv'
  <2>1. \A q \in states : future[q] # "done" => disk'[q] = "started"
    BY <1>1 DEF DiskInv, TypeOK
  <2>2. \A q \in Requests : outcome[q] = "completed" => disk'[q] = "completed"
    BY <1>1, NoneAssumption DEF DiskInv
  <2>3. ASSUME NEW q \in Requests, NEW i \in DOMAIN results'[q],
               results'[q][i] \in {"completed", "skipped"}
        PROVE  disk'[q] = "completed"
    <3>1. CASE q = next
      <4>1. DOMAIN results'[q] = {1} /\ results'[q][1] = what
        BY <1>2, <3>1, FirstReport
      <4>2. results'[q][i] = what
        BY <4>1
      <4> QED BY <4>2, <2>3, <3>1
    <3>2. CASE q # next
      BY <1>2, <2>3, <3>2 DEF DiskInv, ReportMatchesDisk
    <3> QED BY <3>1, <3>2
  <2> QED BY <2>1, <2>2, <2>3 DEF DiskInv, ReportMatchesDisk
<1>7. PhaseInv'
  <2>1. at \notin {"drain", "last", "end"}
    BY <1>1, SizeAssumption DEF PhaseInv, Requests
  <2> QED BY <2>1 DEF PhaseInv, Running, Futures
<1>8. WindowRespected'
  BY <1>3, WindowKept DEF Running
<1> QED BY <1>3, <1>4, <1>5, <1>6, <1>7, <1>8

LEMMA RefusedInv ==
    IInv /\ (PrepareFails \/ PrepareRefused \/ PrepareSkipped) => IInv'
<1> SUFFICES ASSUME IInv, PrepareFails \/ PrepareRefused \/ PrepareSkipped PROVE IInv'
  OBVIOUS
<1>1. next \in Requests /\ disk \in [Requests -> {"absent", "started", "completed", "failed"}]
  BY NextFacts DEF IInv, TypeOK, PrepareFails, PrepareRefused, PrepareSkipped, MayPrepare
<1>2. CASE PrepareFails
  <2>1. /\ disk' \in [Requests -> {"absent", "started", "completed", "failed"}]
        /\ \A q \in Requests : q # next => disk'[q] = disk[q]
    BY <1>1, <1>2 DEF PrepareFails
  <2>2. /\ next <= Samples /\ next' = next + 1 /\ Report(next, "failed")
        /\ UNCHANGED <<mode, at, states, address, status, steps, batch, active, finalized,
                       future, outcome, restarts>>
    BY <1>2 DEF PrepareFails, MayPrepare
  <2> QED BY <2>1, <2>2, ReportedInv
<1>3. CASE PrepareRefused
  <2>1. /\ next <= Samples /\ next' = next + 1 /\ Report(next, "exists")
        /\ disk' = disk
        /\ UNCHANGED <<mode, at, states, address, status, steps, batch, active, finalized,
                       future, outcome, restarts>>
    BY <1>3 DEF PrepareRefused, MayPrepare
  <2> QED BY <1>1, <2>1, ReportedInv
<1>4. CASE PrepareSkipped
  <2>1. /\ next <= Samples /\ next' = next + 1 /\ Report(next, "skipped")
        /\ disk' = disk /\ disk[next] = "completed"
        /\ UNCHANGED <<mode, at, states, address, status, steps, batch, active, finalized,
                       future, outcome, restarts>>
    BY <1>4 DEF PrepareSkipped, Skipped, Completed, MayPrepare
  <2> QED BY <1>1, <2>1, ReportedInv
<1> QED BY <1>2, <1>3, <1>4

\* The samples run one after the other.
LEMMA TaskInv == IInv /\ (RunTask \/ TasksEnd) => IInv'
<1> SUFFICES ASSUME IInv, RunTask \/ TasksEnd PROVE IInv'
  OBVIOUS
<1>1. CASE RunTask
  <2>1. PICK end \in TaskEnds(next) :
          Report(next, end[1]) /\ disk' = [disk EXCEPT ![next] = end[2]]
    BY <1>1 DEF RunTask
  <2>2. next \in Requests /\ disk \in [Requests -> {"absent", "started", "completed", "failed"}]
    BY <1>1, NextFacts DEF RunTask, IInv, TypeOK
  <2>3. /\ end[1] \in {"failed", "exists", "skipped", "completed"}
        /\ end[2] \in {"absent", "started", "completed", "failed"}
        /\ end[1] \in {"completed", "skipped"} => end[2] = "completed"
    BY <2>2 DEF TaskEnds, Skipped, Completed
  <2>4. /\ disk' \in [Requests -> {"absent", "started", "completed", "failed"}]
        /\ \A q \in Requests : q # next => disk'[q] = disk[q]
        /\ disk'[next] = end[2]
    BY <2>1, <2>2, <2>3
  <2>5. /\ next <= Samples /\ next' = next + 1
        /\ UNCHANGED <<mode, at, states, address, status, steps, batch, active, finalized,
                       future, outcome, restarts>>
    BY <1>1 DEF RunTask
  <2> QED BY <2>1, <2>3, <2>4, <2>5, ReportedInv
<1>2. CASE TasksEnd
  <2>1. TypeOK' /\ PlaceInv' /\ FutureInv' /\ AddressInv' /\ DiskInv' /\ WindowRespected'
    BY <1>2 DEF TasksEnd, memory, IInv, TypeOK, PlaceInv, FutureInv, AddressInv, DiskInv,
                ReportMatchesDisk, WindowRespected
  <2>2. PhaseInv'
    BY <1>2 DEF TasksEnd, Exhausted, memory, IInv, PhaseInv, Running, Futures
  <2> QED BY <2>1, <2>2 DEF IInv
<1> QED BY <1>1, <1>2

\* An address given to a new state is one of Samples and belongs to no kept state.
LEMMA FreshAddress ==
    ASSUME IInv, NEW a \in FreeAddresses
    PROVE  a \in Addresses /\ \A q \in states : address[q] # a
<1>1. UsedAddresses \subseteq Addresses
  BY DEF IInv, TypeOK, UsedAddresses
<1>2. \A q \in states : /\ address[q] \in UsedAddresses
                        /\ address[q] \in {address[r] : r \in Referred}
  BY DEF IInv, PlaceInv, TypeOK, UsedAddresses, Referred
<1> QED BY <1>1, <1>2 DEF FreeAddresses, NeverUsed

LEMMA PrepareInv == IInv /\ Prepare => IInv'
<1> SUFFICES ASSUME IInv, Prepare PROVE IInv'
  OBVIOUS
<1> USE DEF IInv
<1>1. /\ next \in Requests /\ next + 1 \in 1..(Samples + 1)
      /\ next \notin states /\ results[next] = <<>> /\ address[next] = None
      /\ status[next] = "running" /\ outcome[next] = None /\ future[next] = "none"
  BY NextFacts DEF Prepare, MayPrepare
<1>2. PICK a \in FreeAddresses : address' = [address EXCEPT ![next] = a]
  BY DEF Prepare
<1>3. a \in Addresses /\ a # None /\ \A q \in states : address[q] # a
  BY <1>2, FreshAddress, RequestFacts
<1>4. /\ states' = states \cup {next} /\ next' = next + 1 /\ at = "fill" /\ at' = "fill"
      /\ disk' = [disk EXCEPT ![next] = "started"]
      /\ UNCHANGED <<mode, status, steps, batch, active, finalized, future, outcome,
                     results, restarts>>
  BY DEF Prepare
<1>5. address'[next] = a /\ \A q \in Requests : q # next => address'[q] = address[q]
  BY <1>1, <1>2 DEF TypeOK
<1>6. disk'[next] = "started" /\ \A q \in Requests : q # next => disk'[q] = disk[q]
  BY <1>1, <1>4 DEF TypeOK
<1>7. states \subseteq Requests
  BY DEF TypeOK
<1>8. TypeOK'
  <2>1. address' \in [Requests -> Addresses \cup {None}]
    BY <1>2, <1>3 DEF TypeOK
  <2>2. disk' \in [Requests -> {"absent", "started", "completed", "failed"}]
    BY <1>4 DEF TypeOK
  <2> QED BY <2>1, <2>2, <1>1, <1>4 DEF TypeOK
<1>9. PlaceInv'
  <2>1. \A q \in Requests : q >= next' => q >= next /\ q # next
    BY <1>1, <1>4, RequestFacts
  <2>2. \A q \in Requests : q < next' /\ q # next => q < next
    BY <1>1, <1>4, RequestFacts
  <2>3. \A q \in states' : address'[q] # None /\ results'[q] = <<>>
    BY <1>1, <1>3, <1>4, <1>5, <1>7 DEF PlaceInv
  <2>4. \A q \in Requests : q >= next' =>
           /\ q \notin states' /\ address'[q] = None
           /\ status'[q] = "running" /\ results'[q] = <<>>
    BY <2>1, <1>4, <1>5 DEF PlaceInv
  <2>5. \A q \in Requests : q < next' /\ q \notin states' => Len(results'[q]) = 1
    BY <2>2, <1>4 DEF PlaceInv
  <2> QED BY <2>3, <2>4, <2>5 DEF PlaceInv
<1>10. FutureInv'
  BY <1>4 DEF FutureInv
<1>11. AddressInv'
  <2>1. \A p, q \in states' : address'[p] = address'[q] => p = q
    BY <1>3, <1>4, <1>5, <1>7 DEF AddressInv
  <2>2. ASSUME NEW b \in finalized PROVE \E p \in Requests : p # next /\ address[p] = b
    <3>1. PICK p \in Requests : address[p] = b
      BY DEF AddressInv
    <3>2. b # None
      BY RequestFacts DEF TypeOK
    <3> QED BY <3>1, <3>2, <1>1
  <2>3. \A b \in finalized' : \E p \in Requests : address'[p] = b
    BY <2>2, <1>4, <1>5
  <2>4. \A q \in states' : status'[q] # "running" => address'[q] \in finalized'
    BY <1>1, <1>4, <1>5, <1>7 DEF AddressInv
  <2>5. ASSUME NEW q \in states', future'[q] = "none", address'[q] \in finalized'
        PROVE  \E p \in 1..(q - 1) : address'[p] = address'[q]
    <3>1. CASE q = next
      <4>1. PICK p \in Requests : p # next /\ address[p] = a
        BY <2>2, <2>5, <3>1, <1>4, <1>5
      <4>2. p < next
        BY <4>1, <1>1, <1>3, RequestFacts DEF PlaceInv
      <4>3. p \in 1..(next - 1)
        BY <4>1, <4>2, <1>1 DEF Requests
      <4>4. address'[p] = address'[q]
        BY <4>1, <1>5, <3>1
      <4> QED BY <4>3, <4>4, <3>1
    <3>2. CASE q # next
      <4>1. q \in states /\ future[q] = "none" /\ address[q] \in finalized
        BY <2>5, <3>2, <1>4, <1>5, <1>7
      <4>2. PICK p \in 1..(q - 1) : address[p] = address[q]
        BY <4>1 DEF AddressInv
      <4>3. q < next /\ q \in Requests
        BY <4>1, <1>7, <1>1, RequestFacts DEF PlaceInv
      <4>4. p # next /\ p \in Requests
        BY <4>3, <1>1, SizeAssumption DEF Requests
      <4>5. address'[p] = address'[q]
        BY <4>2, <4>4, <4>3, <3>2, <1>5
      <4> QED BY <4>5
    <3> QED BY <3>1, <3>2
  <2> QED BY <2>1, <2>3, <2>4, <2>5 DEF AddressInv
<1>12. DiskInv'
  <2>1. \A q \in states' : future'[q] # "done" => disk'[q] = "started"
    BY <1>4, <1>6, <1>7 DEF DiskInv
  <2>2. \A q \in Requests : outcome'[q] = "completed" => disk'[q] = "completed"
    BY <1>1, <1>4, <1>6, NoneAssumption DEF DiskInv
  <2>3. ASSUME NEW q \in Requests, NEW i \in DOMAIN results'[q],
               results'[q][i] \in {"completed", "skipped"}
        PROVE  disk'[q] = "completed"
    <3>1. q # next
      <4>1. CASE q = next
        <5>1. DOMAIN results'[q] = {}
          BY <4>1, <1>1, <1>4
        <5> QED BY <5>1
      <4> QED BY <4>1
    <3> QED BY <3>1, <2>3, <1>4, <1>6 DEF DiskInv, ReportMatchesDisk
  <2> QED BY <2>1, <2>2, <2>3 DEF DiskInv, ReportMatchesDisk
<1>13. PhaseInv'
  BY <1>4 DEF PhaseInv
<1>14. WindowRespected'
  <2>1. Running \subseteq InWindow /\ InWindow \subseteq Requests
    BY <1>7 DEF Running, InWindow
  <2>2. /\ IsFiniteSet(InWindow) /\ IsFiniteSet(Running)
        /\ Cardinality(Running) <= Cardinality(InWindow)
        /\ Cardinality(Running) \in Nat /\ Cardinality(InWindow) \in Nat
    BY <2>1, RequestFacts, FS_Subset, FS_CardinalityType
  <2>3. Cardinality(InWindow) < Window
    BY DEF Prepare, MayPrepare
  <2>4. {q \in states' : status'[q] = "running"} = Running \cup {next}
    BY <1>1, <1>4 DEF Running
  <2>5. Cardinality(Running \cup {next}) = Cardinality(Running) + 1
    <3>1. next \notin Running
      BY <1>1 DEF Running
    <3> QED BY <2>2, <3>1, FS_AddElement
  <2>6. Cardinality(Running \cup {next}) \in Nat
    BY <2>2, FS_AddElement, FS_CardinalityType
  <2>7. Cardinality(Running \cup {next}) <= Window
    BY <2>2, <2>3, <2>5, <2>6, SizeAssumption
  <2> QED BY <2>4, <2>7 DEF WindowRespected
<1> QED BY <1>8, <1>9, <1>10, <1>11, <1>12, <1>13, <1>14

LEMMA SelectInv == IInv /\ Select => IInv'
<1> SUFFICES ASSUME IInv, Select PROVE IInv'
  OBVIOUS
<1> USE DEF IInv
<1>1. UNCHANGED <<mode, next, states, address, status, steps, finalized, future,
                  outcome, results, disk, restarts>>
  BY DEF Select
<1>2. active' = Running /\ Running \subseteq Requests /\ FirstOf(Running) \subseteq Running
  BY DEF Select, Running, FirstOf, TypeOK
<1>3. \/ Running # {} /\ batch' = FirstOf(Running) /\ at' = "batch"
      \/ /\ Running = {} /\ batch' = batch /\ at' \in {"wait", "drain", "collect"}
         /\ at' = "drain" => Futures = {} /\ next > Samples
  BY DEF Select, Exhausted
<1>4. TypeOK'
  BY <1>1, <1>2, <1>3 DEF TypeOK
<1>5. PhaseInv'
  BY <1>1, <1>2, <1>3 DEF PhaseInv, Running, Futures
<1>6. PlaceInv' /\ FutureInv' /\ AddressInv'
  BY <1>1 DEF PlaceInv, FutureInv, AddressInv
<1>7. DiskInv'
  BY <1>1 DEF DiskInv, ReportMatchesDisk
<1>8. WindowRespected'
  BY <1>1 DEF WindowRespected
<1> QED BY <1>4, <1>5, <1>6, <1>7, <1>8

\* Submitting samples that have ended and have no finalizer: those hidden behind a
\* reused address stay so.
LEMMA SubmittedAddresses ==
    ASSUME IInv, NEW ended \in SUBSET states, Submitted(ended),
           \A q \in ended : future[q] = "none",
           UNCHANGED <<states, address>>,
           \A q \in states : status'[q] # "running" => status[q] # "running" \/ q \in ended
    PROVE  AddressInv'
<1> USE DEF IInv
<1>1. /\ finalized' = finalized \cup {address[q] : q \in ended}
      /\ \A q \in Requests : future'[q] = IF q \in ended /\ ~Seen(q) THEN "pending"
                                          ELSE future[q]
  BY DEF Submitted
<1>2. states \subseteq Requests
  BY DEF TypeOK
<1>3. \A a \in finalized' : \E p \in Requests : address[p] = a
  BY <1>1, <1>2 DEF AddressInv
<1>4. \A q \in states : status'[q] # "running" => address[q] \in finalized'
  BY <1>1 DEF AddressInv
<1>5. ASSUME NEW q \in states, future'[q] = "none", address[q] \in finalized'
      PROVE  \E p \in 1..(q - 1) : address[p] = address[q]
  <2>1. CASE address[q] \in finalized
    <3>1. future[q] = "none"
      BY <1>1, <1>2, <1>5
    <3> QED BY <2>1, <3>1 DEF AddressInv
  <2>2. CASE address[q] \notin finalized
    <3>1. PICK r \in ended : address[r] = address[q]
      BY <1>1, <1>5, <2>2
    <3>2. r = q
      BY <3>1 DEF AddressInv
    <3>3. future'[q] = "pending"
      BY <1>1, <1>2, <2>2, <3>1, <3>2 DEF Seen
    <3> QED BY <1>5, <3>3
  <2> QED BY <2>1, <2>2
<1> QED BY <1>3, <1>4, <1>5 DEF AddressInv

LEMMA BatchInv == IInv /\ Batch => IInv'
<1> SUFFICES ASSUME IInv, Batch PROVE IInv'
  OBVIOUS
<1> USE DEF IInv
<1> DEFINE ended == {q \in batch : status'[q] # "running"}
<1>1. /\ at = "batch" /\ at' = "collect"
      /\ UNCHANGED <<mode, next, states, address, batch, active, outcome, results,
                     disk, restarts>>
      /\ Submitted(ended)
  BY DEF Batch
<1>2. batch \subseteq Running /\ Running \subseteq states /\ states \subseteq Requests
  BY <1>1 DEF PhaseInv, Running, TypeOK
<1>3. /\ status' \in [Requests -> Statuses]
      /\ \A q \in Requests : q \notin batch => status'[q] = status[q]
  <2>1. PICK finals \in SUBSET batch, raised \in BOOLEAN :
          status' = [q \in Requests |->
                       IF q \notin batch THEN status[q]
                       ELSE IF raised THEN "failed" ELSE Replied(q, q \in finals)]
    BY DEF Batch
  <2> QED BY <2>1 DEF Replied, Statuses, TypeOK
<1>4. steps' \in [Requests -> 0..MaxSteps]
  <2>1. steps' = [q \in Requests |->
                   IF q \notin batch THEN steps[q]
                   ELSE IF status'[q] = "running" THEN steps[q] + 1 ELSE 0]
    BY DEF Batch
  <2>2. ASSUME NEW q \in batch, status'[q] = "running" PROVE steps[q] + 1 \in 0..MaxSteps
    <3>1. ~(steps[q] + 1 >= MaxSteps)
      BY <2>2, <1>2 DEF Batch, Replied
    <3>2. steps[q] \in 0..MaxSteps
      BY <1>2, <2>2 DEF TypeOK
    <3> QED BY <3>1, <3>2, SizeAssumption
  <2> QED BY <2>1, <2>2, SizeAssumption DEF TypeOK
<1>5. \A q \in batch : status[q] = "running" /\ future[q] = "none"
  BY <1>2 DEF Running, FutureInv, TypeOK
<1>6. /\ finalized' = finalized \cup {address[q] : q \in ended}
      /\ future' = [q \in Requests |-> IF q \in ended /\ ~Seen(q) THEN "pending" ELSE future[q]]
  BY <1>1 DEF Submitted
<1>7. ended \in SUBSET states
  BY <1>2
<1>8. TypeOK'
  <2>1. finalized' \subseteq Addresses
    BY <1>6, <1>2 DEF TypeOK, PlaceInv
  <2>2. future' \in [Requests -> {"none", "pending", "done"}]
    BY <1>6 DEF TypeOK
  <2> QED BY <1>1, <1>3, <1>4, <2>1, <2>2 DEF TypeOK
<1>9. PlaceInv'
  <2>1. \A q \in Requests : q >= next => q \notin batch
    BY <1>2 DEF PlaceInv
  <2> QED BY <1>1, <1>3, <2>1 DEF PlaceInv
<1>10. FutureInv'
  <2>1. \A q \in Requests : future'[q] # "none" => q \in states /\ status'[q] # "running"
    BY <1>2, <1>3, <1>5, <1>6 DEF FutureInv
  <2>2. \A q \in Requests : future'[q] = "done" <=> future[q] = "done"
    BY <1>5, <1>6
  <2> QED BY <1>1, <2>1, <2>2 DEF FutureInv
<1>11. AddressInv'
  <2>1. \A q \in states : status'[q] # "running" => status[q] # "running" \/ q \in ended
    BY <1>2, <1>3
  <2> QED BY <1>1, <1>5, <1>7, <2>1, SubmittedAddresses
<1>12. DiskInv'
  <2>1. \A q \in states : future'[q] # "done" => future[q] # "done"
    BY <1>2, <1>5, <1>6
  <2>2. \A q \in states' : future'[q] # "done" => disk'[q] = "started"
    BY <1>1, <2>1 DEF DiskInv
  <2> QED BY <1>1, <2>2 DEF DiskInv, ReportMatchesDisk
<1>13. PhaseInv'
  BY <1>1 DEF PhaseInv
<1>14. WindowRespected'
  <2>1. {q \in states' : status'[q] = "running"} \subseteq Running
    BY <1>1, <1>2, <1>3 DEF Running
  <2> QED BY <1>8, <2>1, WindowKept
<1> QED BY <1>8, <1>9, <1>10, <1>11, <1>12, <1>13, <1>14

LEMMA FinalizeInv == ASSUME NEW r \in Requests PROVE IInv /\ Finalize(r) => IInv'
<1> SUFFICES ASSUME IInv, Finalize(r) PROVE IInv'
  OBVIOUS
<1> USE DEF IInv
<1>1. /\ future[r] = "pending" /\ future' = [future EXCEPT ![r] = "done"]
      /\ UNCHANGED <<mode, at, next, states, address, status, steps, batch, active,
                     finalized, results, restarts>>
  BY DEF Finalize
<1>2. r \in states /\ status[r] \in {"completed", "failed"} /\ results[r] = <<>> /\ outcome[r] = None
  <2>1. r \in states /\ status[r] # "running" /\ outcome[r] = None
    BY <1>1 DEF FutureInv
  <2> QED BY <2>1 DEF PlaceInv, TypeOK, Statuses
<1>3. /\ \A q \in Requests : q # r => outcome'[q] = outcome[q] /\ disk'[q] = disk[q]
      /\ outcome'[r] \in {"completed", "failed"}
      /\ disk'[r] \in {disk[r], "completed", "failed"}
      /\ outcome'[r] = "completed" => disk'[r] = "completed"
      /\ outcome' \in [Requests -> {"completed", "failed", None}]
      /\ disk' \in [Requests -> {"absent", "started", "completed", "failed"}]
  <2>1. \/ outcome' = [outcome EXCEPT ![r] = status[r]] /\ disk' = [disk EXCEPT ![r] = status[r]]
        \/ /\ outcome' = [outcome EXCEPT ![r] = "failed"]
           /\ disk' \in {disk, [disk EXCEPT ![r] = status[r]]}
    BY <1>2 DEF Finalize
  <2>2. CASE outcome' = [outcome EXCEPT ![r] = status[r]] /\ disk' = [disk EXCEPT ![r] = status[r]]
    BY <1>2, <2>2 DEF TypeOK
  <2>3. CASE outcome' = [outcome EXCEPT ![r] = "failed"] /\ disk' = disk
    BY <1>2, <2>3 DEF TypeOK
  <2>4. CASE outcome' = [outcome EXCEPT ![r] = "failed"] /\ disk' = [disk EXCEPT ![r] = status[r]]
    BY <1>2, <2>4 DEF TypeOK
  <2> QED BY <2>1, <2>2, <2>3, <2>4
<1>4. future'[r] = "done" /\ \A q \in Requests : q # r => future'[q] = future[q]
  BY <1>1 DEF TypeOK
<1>5. states \subseteq Requests
  BY DEF TypeOK
<1>6. TypeOK'
  <2>1. future' \in [Requests -> {"none", "pending", "done"}]
    BY <1>1 DEF TypeOK
  <2> QED BY <1>1, <1>3, <2>1 DEF TypeOK
<1>7. PlaceInv'
  BY <1>1 DEF PlaceInv
<1>8. FutureInv'
  <2>1. \A q \in Requests : future'[q] # "none" => q \in states /\ status[q] # "running"
    BY <1>2, <1>4 DEF FutureInv
  <2>2. \A q \in Requests : future'[q] = "done" => outcome'[q] # None
    BY <1>3, <1>4, NoneAssumption DEF FutureInv
  <2>3. \A q \in Requests : future'[q] # "done" => outcome'[q] = None
    BY <1>3, <1>4 DEF FutureInv
  <2> QED BY <1>1, <2>1, <2>2, <2>3 DEF FutureInv
<1>9. AddressInv'
  <2>1. \A q \in states : future'[q] = "none" => future[q] = "none"
    BY <1>4, <1>5
  <2> QED BY <1>1, <2>1 DEF AddressInv
<1>10. DiskInv'
  <2>1. \A q \in states' : future'[q] # "done" => disk'[q] = "started"
    BY <1>1, <1>3, <1>4, <1>5 DEF DiskInv
  <2>2. \A q \in Requests : outcome'[q] = "completed" => disk'[q] = "completed"
    BY <1>3 DEF DiskInv
  <2>3. ASSUME NEW q \in Requests, NEW i \in DOMAIN results'[q],
               results'[q][i] \in {"completed", "skipped"}
        PROVE  disk'[q] = "completed"
    <3>1. q # r
      <4>1. CASE q = r
        <5>1. DOMAIN results'[q] = {}
          BY <4>1, <1>1, <1>2
        <5> QED BY <5>1
      <4> QED BY <4>1
    <3> QED BY <3>1, <2>3, <1>1, <1>3 DEF DiskInv, ReportMatchesDisk
  <2> QED BY <2>1, <2>2, <2>3 DEF DiskInv, ReportMatchesDisk
<1>11. PhaseInv'
  <2>1. at # "task" /\ at # "drain" /\ at # "last" /\ at # "end"
    BY <1>1 DEF PhaseInv, Futures
  <2> QED BY <1>1, <2>1 DEF PhaseInv, Running
<1>12. WindowRespected'
  BY <1>1 DEF WindowRespected
<1> QED BY <1>6, <1>7, <1>8, <1>9, <1>10, <1>11, <1>12

\* At the end of the loop every kept sample is hidden, so that nothing is submitted.
LEMMA DrainInv == IInv /\ Drain => IInv'
<1> SUFFICES ASSUME IInv, Drain PROVE IInv'
  OBVIOUS
<1> USE DEF IInv
<1>1. /\ at = "drain" /\ at' = "last" /\ Submitted(states)
      /\ UNCHANGED <<mode, next, states, address, status, steps, batch, active, outcome,
                     results, disk, restarts>>
  BY DEF Drain
<1>2. next > Samples /\ Running = {} /\ Futures = {} /\ states \subseteq Requests
  BY <1>1 DEF PhaseInv, TypeOK
<1>3. \A q \in states : address[q] \in finalized
  BY <1>2 DEF AddressInv, Running
<1>4. finalized' = finalized
  BY <1>1, <1>3 DEF Submitted
<1>5. \A q \in Requests : future'[q] = future[q]
  BY <1>1, <1>3 DEF Submitted, Seen
<1>6. future' = future
  BY <1>1, <1>5 DEF Submitted, TypeOK
<1>7. TypeOK' /\ PlaceInv' /\ FutureInv' /\ AddressInv'
  BY <1>1, <1>4, <1>6 DEF TypeOK, PlaceInv, FutureInv, AddressInv
<1>8. DiskInv' /\ WindowRespected'
  BY <1>1, <1>6 DEF DiskInv, ReportMatchesDisk, WindowRespected
<1>9. PhaseInv'
  BY <1>1, <1>2, <1>6 DEF PhaseInv, Running, Futures
<1> QED BY <1>7, <1>8, <1>9

LEMMA RestartInv == IInv /\ Restart => IInv'
<1> SUFFICES ASSUME IInv, Restart PROVE IInv'
  OBVIOUS
<1>1. TypeOK'
  BY SizeAssumption DEF IInv, TypeOK, Restart, Starts, Nothing, Statuses, Requests
<1>2. PlaceInv' /\ FutureInv' /\ AddressInv' /\ PhaseInv'
  BY SizeAssumption DEF Restart, Starts, PlaceInv, FutureInv, AddressInv, PhaseInv, Futures, Nothing, Requests
<1>3. DiskInv'
  BY NoneAssumption DEF Restart, DiskInv, ReportMatchesDisk, Nothing, Requests
<1>4. WindowRespected'
  <2>1. {q \in states' : status'[q] = "running"} = {}
    BY DEF Restart
  <2> QED BY <2>1, FS_EmptySet, SizeAssumption DEF WindowRespected
<1> QED BY <1>1, <1>2, <1>3, <1>4 DEF IInv

\* An exception out of the loop leaves everything where it was.
LEMMA RaisesInv == IInv /\ BatchRaises => IInv'
BY DEF BatchRaises, IInv, TypeOK, PlaceInv, FutureInv, AddressInv, DiskInv, ReportMatchesDisk,
       PhaseInv, Running, Futures, WindowRespected, memory

LEMMA StutterInv == IInv /\ UNCHANGED vars => IInv'
BY DEF IInv, TypeOK, PlaceInv, FutureInv, AddressInv, DiskInv, ReportMatchesDisk, PhaseInv,
       Running, Futures, WindowRespected, vars, memory

LEMMA NextInv == IInv /\ [Next]_vars => IInv'
BY StutterInv, CollectInv, WaitInv, RefusedInv, PrepareInv, SelectInv, BatchInv, RaisesInv, FinalizeInv,
   DrainInv, TaskInv, RestartInv DEF Next, MainStep, Ended

LEMMA Invariance == Spec => []IInv
BY InitInv, NextInv, PTL DEF Spec

--------------------------------------------------------------------------------
\* The values of the runner's variables (runner.py:211-217).
THEOREM TypeCorrect == Spec => []TypeOK
<1>1. IInv => TypeOK
  BY DEF IInv
<1> QED BY <1>1, Invariance, PTL

\* Every sample is reported once by the end (runner.py:219), but for one whose state
\* got the address of an earlier one: nothing else loses a sample, and a request
\* that never had a state is always reported.
THEOREM AccountingCorrect == Spec => []SamplesAccounted
<1>1. ASSUME IInv PROVE SamplesAccounted
  <2>1. ASSUME NEW q \in Requests PROVE Len(results[q]) <= 1
    <3>1. CASE q >= next \/ q \in states
      <4>1. results[q] = <<>>
        BY <1>1, <3>1 DEF IInv, PlaceInv
      <4> QED BY <4>1
    <3>2. CASE q < next /\ q \notin states
      <4>1. Len(results[q]) = 1
        BY <1>1, <3>2 DEF IInv, PlaceInv
      <4> QED BY <4>1
    <3> QED BY <1>1, <3>1, <3>2, RequestFacts DEF IInv, TypeOK
  <2>2. ASSUME NEW q \in Requests, at = "end", results[q] = <<>>
        PROVE  address[q] # None /\ \E p \in 1..(q - 1) : address[p] = address[q]
    <3>1. next > Samples /\ Running = {} /\ Futures = {}
      BY <1>1, <2>2 DEF IInv, PhaseInv
    <3>2. q < next
      BY <1>1, <3>1, SizeAssumption DEF IInv, TypeOK, Requests
    <3>3. q \in states
      BY <1>1, <2>2, <3>2, FirstReport DEF IInv, PlaceInv
    <3>4. status[q] # "running" /\ future[q] = "none"
      BY <3>1, <3>3, <2>2 DEF Running, Futures
    <3>5. address[q] # None
      BY <1>1, <3>3 DEF IInv, PlaceInv
    <3> QED BY <1>1, <3>3, <3>4, <3>5 DEF IInv, AddressInv
  <2> QED BY <2>1, <2>2 DEF SamplesAccounted
<1> QED BY <1>1, Invariance, PTL

\* A reported success is on disk (runner.py:515), whatever restarts came before.
THEOREM ReportCorrect == Spec => []ReportMatchesDisk
<1>1. IInv => ReportMatchesDisk
  BY DEF IInv, DiskInv
<1> QED BY <1>1, Invariance, PTL

\* The main thread and a verifier thread never work on one state (runner.py:345).
THEOREM OwnershipCorrect == Spec => []FinalizerOwns
<1>1. IInv => FinalizerOwns
  BY DEF IInv, PhaseInv, FutureInv, PlaceInv, TypeOK, FinalizerOwns, Running
<1> QED BY <1>1, Invariance, PTL

\* The prepare window bounds the samples that run (runner.py:254).
THEOREM WindowCorrect == Spec => []WindowRespected
<1>1. IInv => WindowRespected
  BY DEF IInv
<1> QED BY <1>1, Invariance, PTL

\* Only --overwrite replaces a recorded result (runner.py:121-135).
THEOREM ResultsCorrect == Spec => ResultsKept
<1>1. ASSUME IInv, [Next]_vars, NEW q \in Requests, mode # "overwrite",
             disk[q] \in {"completed", "failed"}
      PROVE  disk'[q] = disk[q]
  <2> USE DEF IInv
  <2>1. CASE Prepare \/ PrepareFails
    <3>1. next \in Requests
      <4>1. MayPrepare
        BY <2>1 DEF Prepare, PrepareFails
      <4> QED BY <1>1, <4>1, SizeAssumption DEF MayPrepare, TypeOK, Requests
    <3>2. disk[next] = "absent"
      <4>1. ~Refused(next) /\ ~Skipped(next)
        BY <2>1 DEF Prepare, PrepareFails
      <4> QED BY <1>1, <4>1, <3>1 DEF Refused, Skipped, Completed, TypeOK
    <3>3. q # next
      BY <1>1, <3>2
    <3> QED BY <1>1, <2>1, <3>3 DEF Prepare, PrepareFails, TypeOK
  <2>2. CASE RunTask
    <3>1. next \in Requests
      BY <1>1, <2>2, NextFacts DEF RunTask
    <3>2. PICK end \in TaskEnds(next) : disk' = [disk EXCEPT ![next] = end[2]]
      BY <2>2 DEF RunTask
    <3>3. CASE q = next
      <4>1. Refused(next) \/ Skipped(next)
        BY <1>1, <3>1, <3>3 DEF Refused, Skipped, Completed, TypeOK
      <4>2. end[2] = disk[next]
        BY <3>2, <4>1 DEF TaskEnds
      <4> QED BY <1>1, <3>1, <3>2, <3>3, <4>2 DEF TypeOK
    <3> QED BY <1>1, <3>1, <3>2, <3>3 DEF TypeOK
  <2>3. ASSUME NEW r \in Requests, Finalize(r) PROVE disk'[q] = disk[q]
    <3>1. future[r] = "pending" /\ r \in states
      BY <1>1, <2>3 DEF Finalize, FutureInv
    <3>2. disk[r] = "started"
      BY <1>1, <3>1 DEF DiskInv
    <3>3. q # r
      BY <1>1, <3>2
    <3> QED BY <1>1, <2>3, <3>3 DEF Finalize, TypeOK
  <2>4. CASE \/ Collect \/ PrepareRefused \/ PrepareSkipped \/ Select \/ Wait \/ Batch
             \/ BatchRaises \/ Drain \/ TasksEnd \/ Restart \/ UNCHANGED vars
    BY <2>4 DEF Collect, PrepareRefused, PrepareSkipped, Select, Wait, Batch, BatchRaises,
               Drain, TasksEnd, Restart, vars
  <2> QED BY <1>1, <2>1, <2>2, <2>3, <2>4 DEF Next, MainStep, Ended
<1>2. IInv /\ [Next]_vars =>
        [\A q \in Requests : mode # "overwrite" /\ disk[q] \in {"completed", "failed"}
            => disk'[q] = disk[q]]_vars
  BY <1>1
<1> QED BY <1>2, Invariance, PTL DEF Spec, ResultsKept
=============================================================================

--------------------------- MODULE LoadBalancerProofs ---------------------------
(* Machine-checked proofs about LoadBalancer, for every value of its constants. *)
EXTENDS LoadBalancer, FiniteSetTheorems, TLAPS

Busy == {"sent", "running", "release"}

\* The calls and the counts; the order of the cache plays no part in the proofs.
CallsOK ==
    /\ Registered \subseteq Servers
    /\ \A s \in Registered : inflight[s] \in Nat
    /\ at \in [Requests -> Busy \cup {"idle", "acquire"}]
    /\ server \in [Requests -> Servers \cup {None}]
    /\ \A r \in Requests : server[r] # None <=> at[r] \in Busy
    /\ tokens \in [Requests -> Nat]
    /\ stopped \in [Requests -> {"none", "completed", "aborted", "length", "raised"}]
    /\ turns \in [Requests -> Nat]

LoadInv == CallsOK /\ NoPhantomLoad

\* The conversations that hold a server are finitely many.
LEMMA HoldingFinite ==
    ASSUME NEW s
    PROVE  IsFiniteSet(Holding(s)) /\ Cardinality(Holding(s)) \in Nat
BY ServerAssumption, FS_Subset, FS_CardinalityType DEF Holding

\* None is no server.
LEMMA NoneIsNoServer == \A s \in Servers : s # None
BY ServerAssumption DEF Servers

\* At the start nobody holds a server.
LEMMA LoadInit == Init => LoadInv
<1> SUFFICES ASSUME Init PROVE LoadInv
  OBVIOUS
<1>1. CallsOK
  BY DEF Init, CallsOK, Busy, Registered, Servers
<1>2. \A s \in Registered : Holding(s) = {}
  BY <1>1, NoneIsNoServer DEF Init, Holding, CallsOK
<1>3. \A s \in Registered : inflight[s] = 0
  BY DEF Init, Registered
<1>4. NoPhantomLoad
  BY <1>2, <1>3, FS_EmptySet DEF NoPhantomLoad
<1> QED
  BY <1>1, <1>4 DEF LoadInv

\* Taking a server: one more conversation holds it, and it counts one more.
LEMMA TookInv ==
    ASSUME LoadInv, NEW r \in Requests, at[r] = "acquire", NEW s \in Registered, Took(r, s)
    PROVE  LoadInv'
<1>0. server[r] = None /\ s \in Servers /\ s # None
  BY NoneIsNoServer DEF LoadInv, CallsOK, Busy
<1>1. CallsOK'
  <2>1. inflight' = [inflight EXCEPT ![s] = inflight[s] + 1]
        /\ UNCHANGED <<tokens, stopped, turns>>
    BY DEF Took
  <2>2. DOMAIN inflight' = Registered /\ \A q \in Registered : inflight'[q] \in Nat
    BY <2>1 DEF LoadInv, CallsOK, Registered
  <2>3. at' = [at EXCEPT ![r] = "sent"] /\ server' = [server EXCEPT ![r] = s]
    BY DEF Took
  <2>4. /\ at' \in [Requests -> Busy \cup {"idle", "acquire"}]
        /\ server' \in [Requests -> Servers \cup {None}]
        /\ \A q \in Requests : server'[q] # None <=> at'[q] \in Busy
    BY <1>0, <2>3 DEF LoadInv, CallsOK, Busy
  <2> QED
    BY <2>1, <2>2, <2>4 DEF LoadInv, CallsOK, Registered
<1>2. NoPhantomLoad'
  <2>1. Registered' = Registered
    BY DEF Took, Registered
  <2>2. ASSUME NEW q \in Registered
        PROVE  /\ inflight'[q] <= Cardinality(Holding(q)')
               /\ q \in Standalone => inflight'[q] = Cardinality(Holding(q)')
    <3>1. CASE q = s
      <4>1. Holding(s)' = Holding(s) \cup {r} /\ r \notin Holding(s)
        BY <1>0 DEF Holding, Took, LoadInv, CallsOK
      <4>2. Cardinality(Holding(s)') = Cardinality(Holding(s)) + 1
        BY <4>1, HoldingFinite, FS_AddElement
      <4>3. /\ inflight'[s] = inflight[s] + 1 /\ inflight[s] \in Nat
            /\ inflight[s] <= Cardinality(Holding(s))
            /\ s \in Standalone => inflight[s] = Cardinality(Holding(s))
        BY DEF Took, LoadInv, CallsOK, NoPhantomLoad, Registered
      <4>4. /\ inflight'[s] <= Cardinality(Holding(s)')
            /\ s \in Standalone => inflight'[s] = Cardinality(Holding(s)')
        BY <4>2, <4>3, HoldingFinite
      <4> QED
        BY <3>1, <4>4
    <3>2. CASE q # s
      <4>1. Holding(q)' = Holding(q)
        <5>1. q # None
          BY NoneIsNoServer DEF LoadInv, CallsOK
        <5> QED
          BY <1>0, <3>2, <5>1 DEF Holding, Took, LoadInv, CallsOK
      <4>2. inflight'[q] = inflight[q]
        BY <3>2 DEF Took, Registered
      <4> QED
        BY <4>1, <4>2 DEF LoadInv, NoPhantomLoad
    <3> QED
      BY <3>1, <3>2
  <2> QED
    BY <2>1, <2>2 DEF NoPhantomLoad
<1> QED
  BY <1>1, <1>2 DEF LoadInv

\* Releasing a server.
LEMMA ReleaseInv ==
    ASSUME LoadInv, NEW r \in Requests, Release(r)
    PROVE  LoadInv'
<1>s. PICK s : s = server[r]
  OBVIOUS
<1>0. s \in Servers /\ s # None
  BY <1>s DEF Release, LoadInv, CallsOK, Busy
<1>1. /\ DOMAIN inflight' = Registered
      /\ \A q \in Registered : inflight'[q] \in Nat
      /\ \A q \in Registered : q # s => inflight'[q] = inflight[q]
      /\ s \in Registered => inflight'[s] = IF inflight[s] > 0 THEN inflight[s] - 1 ELSE 0
  <2>1. CASE s \in Registered /\ inflight[s] > 0
    <3>1. inflight' = [inflight EXCEPT ![s] = inflight[s] - 1]
      BY <1>s, <2>1 DEF Release, Released
    <3> QED
      BY <2>1, <3>1 DEF LoadInv, CallsOK, Registered
  <2>2. CASE ~(s \in Registered /\ inflight[s] > 0)
    <3>1. inflight' = inflight
      BY <1>s, <2>2 DEF Release, Released
    <3> QED
      BY <2>2, <3>1 DEF LoadInv, CallsOK, Registered
  <2> QED
    BY <2>1, <2>2
<1>2. CallsOK'
  <2>1. /\ server' = [server EXCEPT ![r] = None]
        /\ at' = [at EXCEPT ![r] = IF Retries(r) THEN "acquire" ELSE "idle"]
        /\ UNCHANGED <<tokens, stopped, turns>>
    BY DEF Release
  <2>2. /\ at' \in [Requests -> Busy \cup {"idle", "acquire"}]
        /\ server' \in [Requests -> Servers \cup {None}]
        /\ \A q \in Requests : server'[q] # None <=> at'[q] \in Busy
    BY <2>1 DEF LoadInv, CallsOK, Busy
  <2> QED
    BY <1>1, <2>1, <2>2 DEF LoadInv, CallsOK, Registered
<1>3. NoPhantomLoad'
  <2>1. ASSUME NEW q \in Registered
        PROVE  /\ inflight'[q] <= Cardinality(Holding(q)')
               /\ q \in Standalone => inflight'[q] = Cardinality(Holding(q)')
    <3>0. q # None
      BY NoneIsNoServer DEF LoadInv, CallsOK
    <3>1. CASE q = s
      <4>1. Holding(s)' = Holding(s) \ {r} /\ r \in Holding(s)
        BY <1>s, <1>0 DEF Holding, Release, LoadInv, CallsOK
      <4>2. Cardinality(Holding(s)') = Cardinality(Holding(s)) - 1
            /\ Cardinality(Holding(s)') \in Nat
        BY <4>1, HoldingFinite, FS_RemoveElement, FS_CardinalityType
      <4>3. /\ inflight[s] \in Nat /\ inflight[s] <= Cardinality(Holding(s))
            /\ s \in Standalone => inflight[s] = Cardinality(Holding(s))
        BY <3>1 DEF LoadInv, CallsOK, NoPhantomLoad
      <4>4. inflight'[s] = IF inflight[s] > 0 THEN inflight[s] - 1 ELSE 0
        BY <1>1, <3>1
      <4>5. /\ inflight'[s] <= Cardinality(Holding(s)')
            /\ s \in Standalone => inflight'[s] = Cardinality(Holding(s)')
        BY <4>2, <4>3, <4>4, HoldingFinite
      <4> QED
        BY <3>1, <4>5
    <3>2. CASE q # s
      <4>1. Holding(q)' = Holding(q)
        BY <1>s, <3>0, <3>2 DEF Holding, Release, LoadInv, CallsOK
      <4> QED
        BY <1>1, <3>2, <4>1 DEF LoadInv, NoPhantomLoad
    <3> QED
      BY <3>1, <3>2
  <2> QED
    BY <1>1, <2>1 DEF NoPhantomLoad, Registered
<1> QED
  BY <1>2, <1>3 DEF LoadInv

\* Removing and adding servers.
LEMMA PoolInv ==
    ASSUME LoadInv, RemoveHybrid \/ AddHybrid
    PROVE  LoadInv'
<1>1. UNCHANGED calls
  BY DEF RemoveHybrid, AddHybrid
<1>2. /\ Registered' \subseteq Servers
      /\ \A s \in Registered' : inflight'[s] = 0 \/ (s \in Registered /\ inflight'[s] = inflight[s])
      /\ \A s \in Registered' \cap Standalone :
            s \in Registered /\ inflight'[s] = inflight[s]
  BY ServerAssumption DEF RemoveHybrid, AddHybrid, Added, LoadInv, CallsOK, Registered, Servers
<1>3. \A s : Holding(s)' = Holding(s)
  BY <1>1 DEF Holding, calls
<1>4. CallsOK'
  BY <1>1, <1>2 DEF LoadInv, CallsOK, calls
<1>5. NoPhantomLoad'
  BY <1>2, <1>3, HoldingFinite DEF LoadInv, NoPhantomLoad
<1> QED
  BY <1>4, <1>5 DEF LoadInv

\* Everything else leaves the counts and who holds what alone.
LEMMA QuietInv ==
    ASSUME LoadInv, UNCHANGED <<inflight, server>>, CallsOK'
    PROVE  LoadInv'
<1>1. Registered' = Registered /\ \A s : Holding(s)' = Holding(s)
  BY DEF Registered, Holding
<1> QED
  BY <1>1 DEF LoadInv, NoPhantomLoad

\* The rest of a call.
LEMMA CallQuiet ==
    ASSUME LoadInv, NEW r \in Requests,
           Issue(r) \/ Arrive(r) \/ Complete(r) \/ Abort(r) \/ Raises(r)
    PROVE  CallsOK' /\ UNCHANGED <<inflight, server>>
<1> USE DEF LoadInv
<1>1. CASE Issue(r)
  BY <1>1 DEF Issue, CallsOK, Busy, Registered, balancer
<1>2. CASE Arrive(r)
  BY <1>2 DEF Arrive, CallsOK, Busy, Registered, balancer
<1>3. ASSUME NEW n \in Nat, NEW reason \in {"completed", "aborted"}, at[r] = "running",
             Returned(r, n, reason)
      PROVE  CallsOK' /\ UNCHANGED <<inflight, server>>
  <2>1. tokens' \in [Requests -> Nat]
    BY <1>3 DEF Returned, CallsOK
  <2>2. stopped' \in [Requests -> {"none", "completed", "aborted", "length", "raised"}]
    BY <1>3 DEF Returned, CallsOK
  <2>3. /\ at' \in [Requests -> Busy \cup {"idle", "acquire"}]
        /\ \A q \in Requests : server[q] # None <=> at'[q] \in Busy
    BY <1>3 DEF Returned, CallsOK, Busy
  <2>4. UNCHANGED <<inflight, server, turns>>
    BY <1>3 DEF Returned, balancer
  <2> QED
    BY <2>1, <2>2, <2>3, <2>4 DEF CallsOK, Registered
<1>4. CASE Complete(r)
  <2>1. PICK n \in 1 .. Remaining(r) : Returned(r, n, "completed")
    BY <1>4 DEF Complete
  <2>2. n \in Nat
    BY SizeAssumption DEF Remaining, CallsOK
  <2> QED
    BY <1>3, <1>4, <2>1, <2>2 DEF Complete
<1>5. CASE Abort(r)
  <2>1. PICK n \in 0 .. Remaining(r) : Returned(r, n, "aborted")
    BY <1>5 DEF Abort
  <2>2. n \in Nat
    BY SizeAssumption DEF Remaining, CallsOK
  <2> QED
    BY <1>3, <1>5, <2>1, <2>2 DEF Abort
<1>6. CASE Raises(r)
  BY <1>6, SizeAssumption DEF Raises, CallsOK, Busy, Registered, balancer
<1> QED
  BY <1>1, <1>2, <1>4, <1>5, <1>6

\* The invariant of the counts is inductive.
LEMMA LoadStep == LoadInv /\ [Next]_vars => LoadInv'
<1> SUFFICES ASSUME LoadInv, [Next]_vars PROVE LoadInv'
  OBVIOUS
<1>1. ASSUME NEW r \in Requests, AcquireSticky(r) PROVE LoadInv'
  BY <1>1, TookInv DEF AcquireSticky, IsHit
<1>2. ASSUME NEW r \in Requests, AcquireNew(r) PROVE LoadInv'
  <2>1. PICK s \in LeastLoaded : Took(r, s)
    BY <1>2 DEF AcquireNew
  <2> QED
    BY <1>2, <2>1, TookInv DEF AcquireNew, LeastLoaded
<1>3. ASSUME NEW r \in Requests,
             Issue(r) \/ Arrive(r) \/ Complete(r) \/ Abort(r) \/ Raises(r)
      PROVE  LoadInv'
  BY <1>3, CallQuiet, QuietInv
<1>4. CASE RemoveHybrid \/ AddHybrid
  BY <1>4, PoolInv
<1>5. CASE \/ ClearSticky \/ PauseHybrid \/ SleepHybrid \/ PauseStandalone
           \/ ResumeStandalone \/ ResumeHybrid \/ UNCHANGED vars
  <2>1. UNCHANGED <<inflight, calls>>
    BY <1>5 DEF ClearSticky, PauseHybrid, SleepHybrid, PauseStandalone, ResumeStandalone,
                ResumeHybrid, vars, balancer
  <2>2. CallsOK'
    BY <2>1 DEF LoadInv, CallsOK, calls, Registered
  <2> QED
    BY <2>1, <2>2, QuietInv DEF calls
<1> QED
  BY <1>1, <1>2, <1>3, <1>4, <1>5, ReleaseInv DEF Next, TrainerStep, CallStep

\* The balancer never counts a call that is not there, and counts exactly those of
\* a server that stays, for any number of servers and conversations, whatever is
\* removed and added while calls are outstanding.
THEOREM LoadCorrect == Spec => []NoPhantomLoad
<1>1. LoadInv => NoPhantomLoad
  BY DEF LoadInv
<1> QED
  BY <1>1, LoadInit, LoadStep, PTL DEF Spec

\* A call that was never started, was aborted, or ended has the tokens and the
\* stop reason that say so.
LimitInv ==
    /\ LoadInv
    /\ \A r \in Requests :
        /\ tokens[r] <= MaxTokens
        /\ at[r] = "release" => stopped[r] \in {"completed", "aborted", "length", "raised"}
        /\ at[r] = "idle" /\ turns[r] > 0 => stopped[r] \in {"completed", "length", "raised"}

\* The invariant of the limits is inductive.
LEMMA LimitStep == LimitInv /\ [Next]_vars => LimitInv'
<1> SUFFICES ASSUME LimitInv, [Next]_vars, LoadInv' PROVE LimitInv'
  BY LoadStep DEF LimitInv
<1> USE DEF LimitInv
<1>0. CallsOK /\ MaxTokens \in Nat
  BY SizeAssumption DEF LoadInv
<1>1. ASSUME NEW r \in Requests, AcquireSticky(r) \/ AcquireNew(r) \/ Arrive(r)
      PROVE  LimitInv'
  <2>1. PICK p \in {"sent", "running"} :
          at' = [at EXCEPT ![r] = p] /\ UNCHANGED <<tokens, stopped, turns>>
    BY <1>1 DEF AcquireSticky, AcquireNew, Took, Arrive
  <2> QED
    BY <1>0, <2>1 DEF CallsOK
<1>2. ASSUME NEW r \in Requests, Issue(r) PROVE LimitInv'
  BY <1>0, <1>2 DEF Issue, CallsOK
<1>3. ASSUME NEW r \in Requests, Complete(r) \/ Abort(r) PROVE LimitInv'
  <2>1. PICK n \in 0 .. Remaining(r), reason \in {"completed", "aborted"} :
          Returned(r, n, reason)
    BY <1>3 DEF Complete, Abort
  <2>2. tokens[r] \in Nat /\ n \in Nat /\ tokens[r] + n <= MaxTokens
    BY <1>0, <2>1 DEF Remaining, CallsOK
  <2>3. /\ at' = [at EXCEPT ![r] = "release"]
        /\ tokens' = [tokens EXCEPT ![r] = tokens[r] + n]
        /\ UNCHANGED turns
    BY <2>1 DEF Returned
  <2>4. /\ stopped'[r] \in {"completed", "aborted", "length"}
        /\ \A q \in Requests : q # r => stopped'[q] = stopped[q]
    BY <1>0, <2>1 DEF Returned, CallsOK
  <2> QED
    BY <1>0, <2>2, <2>3, <2>4 DEF CallsOK
<1>4. ASSUME NEW r \in Requests, Release(r) PROVE LimitInv'
  BY <1>0, <1>4 DEF Release, Retries, CallsOK
<1>5. CASE TrainerStep \/ ClearSticky \/ UNCHANGED vars
  <2>1. UNCHANGED calls
    BY <1>5 DEF TrainerStep, RemoveHybrid, AddHybrid, ClearSticky, PauseHybrid, SleepHybrid,
                PauseStandalone, ResumeStandalone, ResumeHybrid, vars
  <2> QED
    BY <2>1 DEF calls
<1>6. ASSUME NEW r \in Requests, Raises(r) PROVE LimitInv'
  BY <1>0, <1>6 DEF Raises, CallsOK
<1> QED
  BY <1>1, <1>2, <1>3, <1>4, <1>5, <1>6 DEF Next, CallStep

\* A call interrupted any number of times returns a finished output or the exception
\* of its last request, never an interrupted output, and at most max_tokens tokens.
THEOREM LimitCorrect == Spec => []CallWithinLimit
<1>1. Init => LimitInv
  BY LoadInit, SizeAssumption DEF LimitInv, Init
<1>2. LimitInv => CallWithinLimit
  BY DEF LimitInv, CallWithinLimit
<1> QED
  BY <1>1, <1>2, LimitStep, PTL DEF Spec

--------------------------------------------------------------------------------
\* The cache is ordered by use: whatever was used after a key in it is in it too and
\* younger, and a key that is not in it was followed by as many others as it holds.
CacheInv ==
    /\ DOMAIN home \subseteq Requests /\ home \in [DOMAIN home -> Servers]
    /\ age \in [DOMAIN home -> 0..(CacheSize - 1)]
    /\ \A p, q \in DOMAIN home : p # q => age[p] # age[q]
    /\ last \in [Requests -> Servers \cup {None}]
    /\ since \in [Requests -> SUBSET Requests]
    /\ \A q \in DOMAIN home :
          /\ home[q] = last[q] /\ age[q] <= Cardinality(since[q])
          /\ \A p \in since[q] : p \in DOMAIN home /\ age[p] < age[q]
    /\ \A q \in Requests : q \notin DOMAIN home /\ last[q] # None =>
          Cardinality(since[q]) >= CacheSize

\* One more conversation since then.
LEMMA SinceFacts ==
    ASSUME CacheInv, NEW q \in Requests, NEW r \in Requests
    PROVE  /\ Cardinality(since[q]) \in Nat
           /\ Cardinality(since[q] \cup {r}) =
                IF r \in since[q] THEN Cardinality(since[q]) ELSE Cardinality(since[q]) + 1
<1>1. IsFiniteSet(since[q])
  BY ServerAssumption, FS_Subset DEF CacheInv
<1> QED BY <1>1, FS_CardinalityType, FS_AddElement

\* Using a key keeps the order of the others, and drops at most the oldest.
LEMMA AgedFacts ==
    ASSUME CacheInv, NEW r \in Requests, NEW q \in DOMAIN home, q # r
    PROVE  /\ Aged(r, q) \in 1..CacheSize
           /\ Aged(r, q) = age[q] \/ (Aged(r, q) = age[q] + 1 /\ r \notin since[q])
           /\ \A p \in DOMAIN home \ {r} :
                 age[p] < age[q] => Aged(r, p) < Aged(r, q)
<1>1. age[q] \in 0..(CacheSize - 1) /\ (r \in DOMAIN home => age[r] \in 0..(CacheSize - 1))
  BY DEF CacheInv
<1>2. r \in DOMAIN home => age[q] # age[r]
  BY DEF CacheInv
<1>3. r \in since[q] => r \in DOMAIN home /\ age[r] < age[q]
  BY DEF CacheInv
<1>4. ASSUME NEW p \in DOMAIN home \ {r}, age[p] < age[q] PROVE Aged(r, p) < Aged(r, q)
  <2>1. age[p] \in 0..(CacheSize - 1) /\ (r \in DOMAIN home => age[p] # age[r])
    BY DEF CacheInv
  <2> QED BY <1>1, <1>2, <1>4, <2>1, SizeAssumption DEF Aged
<1> QED BY <1>1, <1>2, <1>3, <1>4, SizeAssumption DEF Aged

\* A conversation uses the server its entry names from now on.
LEMMA UsedInv ==
    ASSUME CacheInv, NEW r \in Requests, NEW s \in Servers, Took(r, s), age' = Inserted(r),
           home' = [q \in Kept(r) \cup {r} |-> IF q = r THEN s ELSE home[q]]
    PROVE  CacheInv'
<1>1. last' = [last EXCEPT ![r] = s]
      /\ since' = [q \in Requests |-> IF q = r THEN {} ELSE since[q] \cup {r}]
  BY DEF Took
<1>2. Kept(r) \subseteq DOMAIN home /\ r \notin Kept(r)
  BY DEF Kept
<1>3. age' = [q \in Kept(r) \cup {r} |-> IF q = r THEN 0 ELSE Aged(r, q)]
  BY DEF Inserted
<1>4. DOMAIN home' = Kept(r) \cup {r} /\ home'[r] = s /\ \A q \in Kept(r) : home'[q] = home[q]
  BY <1>2
<1>5. age'[r] = 0 /\ \A q \in Kept(r) : age'[q] = Aged(r, q) /\ Aged(r, q) \in 1..(CacheSize - 1)
  BY <1>2, <1>3, AgedFacts, SizeAssumption DEF Kept
<1>6. /\ DOMAIN home' \subseteq Requests /\ home' \in [DOMAIN home' -> Servers]
      /\ age' \in [DOMAIN home' -> 0..(CacheSize - 1)]
      /\ last' \in [Requests -> Servers \cup {None}]
      /\ since' \in [Requests -> SUBSET Requests]
  <2>1. DOMAIN home' \subseteq Requests /\ home' \in [DOMAIN home' -> Servers]
    BY <1>2, <1>4 DEF CacheInv
  <2>2. age' \in [DOMAIN home' -> 0..(CacheSize - 1)]
    BY <1>3, <1>4, <1>5, SizeAssumption
  <2> QED BY <1>1, <2>1, <2>2 DEF CacheInv
<1>7. ASSUME NEW p \in DOMAIN home', NEW q \in DOMAIN home', p # q PROVE age'[p] # age'[q]
  <2>1. CASE p = r \/ q = r
    BY <1>4, <1>5, <1>7, <2>1
  <2>2. CASE p # r /\ q # r
    <3>1. p \in DOMAIN home \ {r} /\ q \in DOMAIN home \ {r}
      BY <1>2, <1>4, <2>2
    <3>2. age[p] # age[q] /\ age[p] \in Nat /\ age[q] \in Nat
      BY <1>7, <3>1, SizeAssumption DEF CacheInv
    <3>3. age[p] < age[q] => Aged(r, p) < Aged(r, q)
      BY <3>1, AgedFacts
    <3>4. age[q] < age[p] => Aged(r, q) < Aged(r, p)
      BY <3>1, AgedFacts
    <3>5. Aged(r, p) \in Nat /\ Aged(r, q) \in Nat
      BY <3>1, AgedFacts, SizeAssumption
    <3>6. Aged(r, p) # Aged(r, q)
      BY <3>2, <3>3, <3>4, <3>5
    <3> QED BY <1>4, <1>5, <2>2, <3>6
  <2> QED BY <2>1, <2>2
<1>8. ASSUME NEW q \in DOMAIN home'
      PROVE  /\ home'[q] = last'[q] /\ age'[q] <= Cardinality(since'[q])
             /\ \A p \in since'[q] : p \in DOMAIN home' /\ age'[p] < age'[q]
  <2>1. CASE q = r
    <3>1. since'[q] = {} /\ last'[q] = s
      BY <1>1, <2>1 DEF CacheInv
    <3> QED BY <1>4, <1>5, <2>1, <3>1, FS_EmptySet
  <2>2. CASE q # r
    <3>1. q \in Kept(r) /\ q \in DOMAIN home /\ q \in Requests
      BY <1>2, <1>4, <2>2 DEF CacheInv
    <3>2. since'[q] = since[q] \cup {r} /\ last'[q] = last[q]
      BY <1>1, <2>2, <3>1 DEF CacheInv
    <3>3. age[q] <= Cardinality(since[q]) /\ home[q] = last[q] /\ age[q] \in Nat
      BY <3>1, SizeAssumption DEF CacheInv
    <3>4. Aged(r, q) = age[q] \/ (Aged(r, q) = age[q] + 1 /\ r \notin since[q])
      BY <2>2, <3>1, AgedFacts
    <3>5. Aged(r, q) <= Cardinality(since'[q])
      BY <3>1, <3>2, <3>3, <3>4, SinceFacts
    <3>6. ASSUME NEW p \in since'[q] PROVE p \in DOMAIN home' /\ age'[p] < age'[q]
      <4>1. CASE p = r
        BY <1>4, <1>5, <3>1, <4>1
      <4>2. CASE p # r
        <5>1. p \in DOMAIN home \ {r} /\ age[p] < age[q]
          BY <3>1, <3>2, <3>6, <4>2 DEF CacheInv
        <5>2. Aged(r, p) < Aged(r, q) /\ Aged(r, p) \in 1..CacheSize
          BY <2>2, <3>1, <5>1, AgedFacts
        <5>3. Aged(r, q) \in 1..(CacheSize - 1)
          BY <1>5, <3>1
        <5>4. Aged(r, p) < CacheSize
          BY <5>2, <5>3, SizeAssumption
        <5>5. p \in Kept(r)
          BY <5>1, <5>4 DEF Kept
        <5> QED BY <1>4, <1>5, <3>1, <5>2, <5>5
      <4> QED BY <4>1, <4>2
    <3> QED BY <1>4, <1>5, <3>1, <3>2, <3>3, <3>5, <3>6
  <2> QED BY <2>1, <2>2
<1>9. ASSUME NEW q \in Requests, q \notin DOMAIN home', last'[q] # None
      PROVE  Cardinality(since'[q]) >= CacheSize
  <2>1. q # r /\ q \notin Kept(r)
    BY <1>4, <1>9
  <2>2. since'[q] = since[q] \cup {r} /\ last'[q] = last[q]
    BY <1>1, <2>1 DEF CacheInv
  <2>3. CASE q \notin DOMAIN home
    <3>1. Cardinality(since[q]) >= CacheSize
      BY <1>9, <2>2, <2>3 DEF CacheInv
    <3> QED BY <2>2, <3>1, SinceFacts, SizeAssumption
  <2>4. CASE q \in DOMAIN home
    <3>1. ~(Aged(r, q) < CacheSize)
      BY <2>1, <2>4 DEF Kept
    <3>2. /\ Aged(r, q) \in 1..CacheSize
          /\ Aged(r, q) = age[q] \/ (Aged(r, q) = age[q] + 1 /\ r \notin since[q])
      BY <2>1, <2>4, AgedFacts
    <3>3. age[q] \in 0..(CacheSize - 1) /\ age[q] <= Cardinality(since[q])
      BY <2>4 DEF CacheInv
    <3>4. age[q] + 1 = CacheSize /\ r \notin since[q]
      BY <3>1, <3>2, <3>3, SizeAssumption
    <3> QED BY <2>2, <3>3, <3>4, SinceFacts, SizeAssumption
  <2> QED BY <2>3, <2>4
<1> QED BY <1>6, <1>7, <1>8, <1>9 DEF CacheInv

\* The cache is cleared.
LEMMA ClearInv == CacheInv /\ ClearSticky => CacheInv'
<1> SUFFICES ASSUME CacheInv, ClearSticky PROVE CacheInv'
  OBVIOUS
<1>1. /\ DOMAIN home' = {} /\ home' = [q \in {} |-> None] /\ age' = [q \in {} |-> None]
      /\ last' = [r \in Requests |-> None] /\ since' = [r \in Requests |-> {}]
  BY DEF ClearSticky, Empty
<1> QED BY <1>1 DEF CacheInv

\* The order of the cache is inductive.
LEMMA CacheStep == LoadInv /\ CacheInv /\ [Next]_vars => CacheInv'
<1> SUFFICES ASSUME LoadInv, CacheInv, [Next]_vars PROVE CacheInv'
  OBVIOUS
<1>1. ASSUME NEW r \in Requests, AcquireSticky(r) PROVE CacheInv'
  <2>1. r \in DOMAIN home /\ home[r] \in Servers /\ Took(r, home[r]) /\ home' = home
        /\ age' = Touched(r)
    BY <1>1 DEF AcquireSticky, IsHit, CacheInv
  <2>2. age[r] \in 0..(CacheSize - 1)
    BY <2>1 DEF CacheInv
  <2>3. ASSUME NEW q \in DOMAIN home \ {r} PROVE Aged(r, q) < CacheSize
    <3>1. age[q] \in 0..(CacheSize - 1) /\ age[q] # age[r]
      BY <2>1, <2>3 DEF CacheInv
    <3> QED BY <2>1, <2>2, <3>1, SizeAssumption DEF Aged
  <2>4. Kept(r) = DOMAIN home \ {r}
    BY <2>3 DEF Kept
  <2>5. age' = Inserted(r)
    BY <2>1, <2>4 DEF Touched, Inserted
  <2>6. home' = [q \in Kept(r) \cup {r} |-> IF q = r THEN home[r] ELSE home[q]]
    BY <2>1, <2>4 DEF CacheInv
  <2> QED BY <2>1, <2>5, <2>6, UsedInv
<1>2. ASSUME NEW r \in Requests, AcquireNew(r) PROVE CacheInv'
  <2>1. PICK s \in LeastLoaded :
          /\ home' = [q \in DOMAIN age' |-> IF q = r THEN s ELSE home[q]]
          /\ Took(r, s)
    BY <1>2 DEF AcquireNew
  <2>2. age' = Inserted(r) /\ DOMAIN age' = Kept(r) \cup {r}
    BY <1>2 DEF AcquireNew, Inserted
  <2>3. s \in Servers
    BY <2>1 DEF LeastLoaded, LoadInv, CallsOK
  <2> QED BY <2>1, <2>2, <2>3, UsedInv
<1>3. CASE \/ TrainerStep \/ UNCHANGED vars
           \/ \E r \in Requests : \/ Issue(r) \/ Arrive(r) \/ Complete(r) \/ Abort(r)
                                  \/ Raises(r) \/ Release(r)
  <2>1. UNCHANGED <<home, age, history>>
    BY <1>3 DEF TrainerStep, RemoveHybrid, AddHybrid, PauseHybrid, SleepHybrid,
                PauseStandalone, ResumeStandalone, ResumeHybrid, Issue, Arrive, Complete,
                Abort, Raises, Returned, Release, vars, balancer
  <2>2. UNCHANGED <<home, age, last, since>>
    BY <2>1 DEF history
  <2> QED BY <2>2 DEF CacheInv
<1> QED BY <1>1, <1>2, <1>3, ClearInv DEF Next, CallStep

LEMMA CacheInit == Init => CacheInv
<1> SUFFICES ASSUME Init PROVE CacheInv
  OBVIOUS
<1>1. /\ DOMAIN home = {} /\ home = [q \in {} |-> None] /\ age = [q \in {} |-> None]
      /\ last = [r \in Requests |-> None] /\ since = [r \in Requests |-> {}]
  BY DEF Init, Empty
<1> QED BY <1>1 DEF CacheInv

\* A conversation goes back to its server, for any number of conversations and any
\* size of the cache, while fewer others than it holds came in between.
THEOREM StickyCorrect == Spec => StickyRouting
<1>2. ASSUME LoadInv, CacheInv, [Next]_vars, NEW r \in Requests, at[r] = "acquire",
             at'[r] = "sent", last[r] \in Registered, Cardinality(since[r]) < CacheSize
      PROVE  server'[r] = last[r]
  <2>1. last[r] # None
    BY <1>2, NoneIsNoServer DEF LoadInv, CallsOK
  <2>2. r \in DOMAIN home /\ home[r] = last[r]
    <3>1. Cardinality(since[r]) \in Nat
      BY <1>2, SinceFacts
    <3>2. r \in DOMAIN home
      BY <1>2, <2>1, <3>1, SizeAssumption DEF CacheInv
    <3> QED BY <1>2, <3>2 DEF CacheInv
  <2>3. IsHit(r)
    BY <1>2, <2>2 DEF IsHit
  <2>4. ASSUME NEW q \in Requests, CallStep(q) \/ Issue(q) \/ Raises(q), q # r
        PROVE  at'[r] = at[r]
    BY <1>2, <2>4 DEF CallStep, Issue, Raises, AcquireSticky, AcquireNew, Took, Arrive, Complete,
                      Abort, Returned, Release, LoadInv, CallsOK
  <2>5. ASSUME CallStep(r) \/ Issue(r) \/ Raises(r) PROVE AcquireSticky(r)
    <3>1. ~Issue(r) /\ ~Raises(r) /\ ~Arrive(r) /\ ~Complete(r) /\ ~Abort(r) /\ ~Release(r)
      BY <1>2 DEF Issue, Raises, Arrive, Complete, Abort, Release
    <3>2. ~AcquireNew(r)
      BY <2>3 DEF AcquireNew
    <3> QED BY <2>5, <3>1, <3>2 DEF CallStep
  <2>6. ASSUME TrainerStep \/ ClearSticky \/ UNCHANGED vars PROVE at'[r] = at[r]
    <3>1. UNCHANGED calls
      BY <2>6 DEF TrainerStep, RemoveHybrid, AddHybrid, ClearSticky, PauseHybrid, SleepHybrid,
                  PauseStandalone, ResumeStandalone, ResumeHybrid, vars
    <3> QED BY <3>1 DEF calls
  <2>7. AcquireSticky(r)
    BY <1>2, <2>4, <2>5, <2>6 DEF Next
  <2> QED BY <1>2, <2>2, <2>7 DEF AcquireSticky, Took, LoadInv, CallsOK
<1>3. LoadInv /\ CacheInv /\ [Next]_vars =>
        [\A r \in Requests :
            /\ at[r] = "acquire" /\ at'[r] = "sent"
            /\ last[r] \in Registered /\ Cardinality(since[r]) < CacheSize
            => server'[r] = last[r]]_vars
  BY <1>2
<1> QED BY <1>3, LoadInit, LoadStep, CacheInit, CacheStep, PTL DEF Spec, StickyRouting

\* The servers in the pool, and where the trainer is in its step.
PoolOK ==
    /\ Standalone \subseteq Registered /\ inflight \in [Registered -> Nat]
    /\ paused \subseteq Servers /\ turns \in [Requests -> 0..MaxTurns]
    /\ steps \in 0..MaxSteps
    /\ trainer # "sampling" /\ steps = MaxSteps => trainer \in {"validating", "resumed"}

LEMMA PoolStep == LoadInv /\ LoadInv' /\ PoolOK /\ [Next]_vars => PoolOK'
<1> SUFFICES ASSUME LoadInv, LoadInv', PoolOK, [Next]_vars PROVE PoolOK'
  OBVIOUS
<1> USE DEF PoolOK
<1>1. ASSUME NEW r \in Requests, AcquireSticky(r) \/ AcquireNew(r) PROVE PoolOK'
  <2>1. PICK s \in Registered : Took(r, s)
    BY <1>1 DEF AcquireSticky, AcquireNew, IsHit, LeastLoaded
  <2>2. inflight' = [inflight EXCEPT ![s] = inflight[s] + 1] /\ UNCHANGED <<turns, control>>
    BY <2>1 DEF Took
  <2> QED BY <2>2 DEF Registered, control
<1>2. ASSUME NEW r \in Requests,
             Issue(r) \/ Arrive(r) \/ Complete(r) \/ Abort(r) \/ Raises(r)
      PROVE  PoolOK'
  <2>1. UNCHANGED <<inflight, control>>
    BY <1>2 DEF Issue, Arrive, Complete, Abort, Raises, Returned, balancer
  <2>2. turns' \in [Requests -> 0..MaxTurns]
    BY <1>2, SizeAssumption DEF Issue, Arrive, Complete, Abort, Raises, Returned
  <2> QED BY <2>1, <2>2 DEF Registered, control
<1>3. ASSUME NEW r \in Requests, Release(r) PROVE PoolOK'
  <2>1. inflight' \in [Registered -> Nat] /\ UNCHANGED <<turns, control>>
    BY <1>3, SizeAssumption DEF Release, Released, LoadInv, CallsOK
  <2> QED BY <2>1 DEF Registered, control
<1>4. CASE RemoveHybrid
  BY <1>4, ServerAssumption, SizeAssumption DEF RemoveHybrid, Registered, calls
<1>5. CASE AddHybrid
  <2>1. inflight' \in [Registered \cup Hybrid -> Nat]
    BY <1>5 DEF AddHybrid, Added, Registered
  <2> QED BY <1>5, <2>1 DEF AddHybrid, Registered, calls
<1>6. CASE \/ ClearSticky \/ PauseHybrid \/ SleepHybrid \/ PauseStandalone
           \/ ResumeStandalone \/ ResumeHybrid \/ UNCHANGED vars
  <2>1. UNCHANGED <<inflight, calls>>
    BY <1>6 DEF ClearSticky, PauseHybrid, SleepHybrid, PauseStandalone, ResumeStandalone,
                ResumeHybrid, vars, balancer
  <2>2. paused' \subseteq Servers
    BY <1>6 DEF ClearSticky, PauseHybrid, SleepHybrid, PauseStandalone, ResumeStandalone,
                ResumeHybrid, vars, control, Servers
  <2>3. /\ steps' \in 0..MaxSteps
        /\ trainer' # "sampling" /\ steps' = MaxSteps => trainer' \in {"validating", "resumed"}
    BY <1>6, SizeAssumption DEF ClearSticky, PauseHybrid, SleepHybrid, PauseStandalone,
                ResumeStandalone, ResumeHybrid, vars, control
  <2> QED BY <2>1, <2>2, <2>3 DEF Registered, calls
<1> QED BY <1>1, <1>2, <1>3, <1>4, <1>5, <1>6 DEF Next, TrainerStep, CallStep

\* The values of the balancer's, the calls' and the trainer's variables, and the bound
\* on the cache (llm_server.py:76).
THEOREM TypeCorrect == Spec => []TypeOK
<1>1. Init => PoolOK
  BY SizeAssumption DEF Init, PoolOK, Registered, Servers
<1>2. ASSUME LoadInv, CacheInv, PoolOK PROVE TypeOK
  <2>1. Cardinality(DOMAIN home) <= CacheSize
    <3>1. age \in Injection(DOMAIN home, 0..(CacheSize - 1))
      BY <1>2 DEF CacheInv, Injection, IsInjective
    <3>2. IsFiniteSet(0..(CacheSize - 1)) /\ Cardinality(0..(CacheSize - 1)) = CacheSize
      BY SizeAssumption, FS_Interval
    <3> QED BY <3>1, <3>2, FS_Injection
  <2>2. /\ at \in [Requests -> {"idle", "acquire", "sent", "running", "release"}]
        /\ \A r \in Requests :
              server[r] # None <=> at[r] \in {"sent", "running", "release"}
    BY <1>2 DEF LoadInv, CallsOK, Busy
  <2> QED BY <1>2, <2>1, <2>2 DEF TypeOK, LoadInv, CallsOK, CacheInv, PoolOK
<1> QED BY <1>1, <1>2, LoadInit, LoadStep, CacheInit, CacheStep, PoolStep, PTL DEF Spec

================================================================================

------------------------------ MODULE LoadBalancer ------------------------------
(* The rollout side of the asynchronous trainers: conversations call the model    *)
(* through FullyAsyncLLMServerClient, GlobalRequestLoadBalancer picks the server,  *)
(* and the trainer aborts, pauses, removes and adds servers around them.           *)
(*                                                                                 *)
(* The balancer is one actor: its calls are atomic, and those of one worker arrive *)
(* in order, so a conversation's release is processed before its next acquire.     *)
EXTENDS Integers, FiniteSets

CONSTANTS
    Standalone,     \* servers with GPUs of their own, always registered
    Hybrid,         \* servers on the trainer's GPUs, removed while it trains
    Requests,       \* the conversations (request_id)
    CacheSize,      \* max_cache_size of the sticky cache
    MaxTokens,      \* max_tokens of a call
    MaxTurns,       \* bound on the calls of a conversation
    MaxSteps,       \* bound on the training steps
    Validates,      \* whether every step is followed by a validation (test_freq)
    None

ASSUME ServerAssumption ==
    /\ Standalone \cap Hybrid = {} /\ Standalone # {}
    /\ IsFiniteSet(Standalone \cup Hybrid) /\ None \notin Standalone \cup Hybrid
    /\ IsFiniteSet(Requests)
ASSUME SizeAssumption ==
    /\ CacheSize \in Nat \ {0} /\ MaxTokens \in Nat \ {0}
    /\ MaxTurns \in Nat /\ MaxSteps \in Nat /\ Validates \in BOOLEAN

Servers == Standalone \cup Hybrid

VARIABLES
    inflight,       \* _inflight_requests: registered server -> count
    home,           \* _request_id_to_server: conversation -> server
    age,            \* key -> how many keys were used after it
    at,             \* where the call of a conversation is
    server,         \* the server it holds, or None
    tokens,         \* tokens of final_output
    stopped,        \* stop_reason of the last output
    turns,          \* calls issued by a conversation
    paused,         \* servers that block new requests
    trainer,        \* where the trainer is
    mode,           \* HybridEngineMode
    steps,          \* training steps done
    last,           \* the server a conversation acquired last, since a clearing
    since           \* the other conversations that acquired since then

balancer == <<inflight, home, age>>
calls == <<at, server, tokens, stopped, turns>>
control == <<paused, trainer, mode, steps>>
history == <<last, since>>
vars == <<balancer, calls, control, history>>

Registered == DOMAIN inflight
Empty == [r \in {} |-> None]        \* the empty cache

Init ==
    /\ inflight = [s \in Servers |-> 0]
    /\ home = Empty /\ age = Empty
    /\ at = [r \in Requests |-> "idle"]
    /\ server = [r \in Requests |-> None]
    /\ tokens = [r \in Requests |-> 0]
    /\ stopped = [r \in Requests |-> "none"]
    /\ turns = [r \in Requests |-> 0]
    /\ paused = {}
    /\ trainer = "sampling" /\ mode = "rollout" /\ steps = 0
    /\ last = [r \in Requests |-> None]
    /\ since = [r \in Requests |-> {}]

-------------------------------------------------------------------------------
(* The balancer.                                                                *)

\* An entry that points to a removed server is stale.
IsHit(r) == r \in DOMAIN home /\ home[r] \in Registered

\* The age of q once r is used: r was used after q already, or is so now.
Aged(r, q) == IF r \in DOMAIN home /\ age[q] > age[r] THEN age[q] ELSE age[q] + 1

\* A look-up moves the entry to the recent end.
Touched(r) == [q \in DOMAIN home |-> IF q = r THEN 0 ELSE Aged(r, q)]

\* Inserting into a full LRUCache evicts the least recently used entry.
Kept(r) == {q \in DOMAIN home \ {r} : Aged(r, q) < CacheSize}
InsertedIfRoom(r) ==
    IF Cardinality(DOMAIN home \ {r}) < CacheSize
    THEN [q \in Kept(r) \cup {r} |-> IF q = r THEN 0 ELSE Aged(r, q)] ELSE age
Inserted(r) == [q \in Kept(r) \cup {r} |-> IF q = r THEN 0 ELSE Aged(r, q)]

LeastLoaded ==
    {s \in Registered : \A q \in Registered : inflight[s] <= inflight[q]}

Took(r, s) ==
    /\ inflight' = [inflight EXCEPT ![s] = @ + 1]
    /\ at' = [at EXCEPT ![r] = "sent"]
    /\ server' = [server EXCEPT ![r] = s]
    /\ last' = [last EXCEPT ![r] = s]
    /\ since' = [q \in Requests |-> IF q = r THEN {} ELSE since[q] \cup {r}]
    /\ UNCHANGED <<tokens, stopped, turns, control>>

AcquireSticky(r) ==
    /\ at[r] = "acquire"
    /\ IsHit(r)
    /\ age' = Touched(r)
    /\ home' = home
    /\ Took(r, home[r])

AcquireNew(r) ==
    /\ at[r] = "acquire"
    /\ ~IsHit(r)
    /\ age' = Inserted(r)
    /\ \E s \in LeastLoaded :
        /\ home' = [q \in DOMAIN age' |-> IF q = r THEN s ELSE home[q]]
        /\ Took(r, s)

ReleasedAboveOne(s) ==
    IF s \in Registered /\ inflight[s] > 1 THEN [inflight EXCEPT ![s] = @ - 1]
    ELSE inflight

\* release_server: of a removed server it is ignored, and it never goes below 0.
Released(s) ==
    IF s \in Registered /\ inflight[s] > 0 THEN [inflight EXCEPT ![s] = @ - 1]
    ELSE inflight

\* add_servers
Added(S) == [s \in Registered \cup S |-> IF s \in S THEN 0 ELSE inflight[s]]

\* clear_sticky_cache
ClearSticky ==
    /\ home # Empty
    /\ home' = Empty /\ age' = Empty
    /\ last' = [r \in Requests |-> None]
    /\ since' = [r \in Requests |-> {}]
    /\ UNCHANGED <<inflight, calls, control>>

-------------------------------------------------------------------------------
(* FullyAsyncLLMServerClient.generate of one conversation.                      *)

Issue(r) ==
    /\ at[r] = "idle"
    /\ turns[r] < MaxTurns
    /\ turns' = [turns EXCEPT ![r] = @ + 1]
    /\ at' = [at EXCEPT ![r] = "acquire"]
    /\ tokens' = [tokens EXCEPT ![r] = 0]
    /\ stopped' = [stopped EXCEPT ![r] = "none"]
    /\ UNCHANGED <<balancer, server, control, history>>

RemainingOriginal(r) == MaxTokens

\* The max_tokens of the next request of the loop.
Remaining(r) == MaxTokens - tokens[r]

\* The request reaches its server; a paused engine blocks it until it resumes.
Arrive(r) ==
    /\ at[r] = "sent"
    /\ server[r] \notin paused
    /\ at' = [at EXCEPT ![r] = "running"]
    /\ UNCHANGED <<balancer, server, tokens, stopped, turns, control, history>>

\* The output of a request is merged into final_output and its server released.
Returned(r, n, reason) ==
    /\ tokens' = [tokens EXCEPT ![r] = @ + n]
    /\ stopped' = [stopped EXCEPT ![r] =
                       IF tokens[r] + n >= MaxTokens THEN "length" ELSE reason]
    /\ at' = [at EXCEPT ![r] = "release"]
    /\ UNCHANGED <<balancer, server, turns, control, history>>

Complete(r) ==
    /\ at[r] = "running"
    /\ server[r] \notin paused
    /\ \E n \in 1 .. Remaining(r) : Returned(r, n, "completed")

\* pause_generation makes the engine return what it has.
Abort(r) ==
    /\ at[r] = "running"
    /\ server[r] \in paused
    /\ \E n \in 0 .. Remaining(r) : Returned(r, n, "aborted")

\* The server refuses a prompt that leaves no room, or its engine fails: the
\* exception releases the server and ends the conversation.
Raises(r) ==
    /\ at[r] \in {"sent", "running"}
    /\ stopped' = [stopped EXCEPT ![r] = "raised"]
    /\ turns' = [turns EXCEPT ![r] = MaxTurns]
    /\ at' = [at EXCEPT ![r] = "release"]
    /\ UNCHANGED <<balancer, server, tokens, control, history>>

\* An aborted call is issued again, until it stops for another reason.
Retries(r) == stopped[r] = "aborted"

Release(r) ==
    /\ at[r] = "release"
    /\ inflight' = Released(server[r])
    /\ server' = [server EXCEPT ![r] = None]
    /\ at' = [at EXCEPT ![r] = IF Retries(r) THEN "acquire" ELSE "idle"]
    /\ UNCHANGED <<home, age, tokens, stopped, turns, control, history>>

-------------------------------------------------------------------------------
(* PPOTrainerSeparateAsync.                                                     *)

Drained(S) == \A r \in Requests : at[r] = "running" => server[r] \notin S

\* on_sample_end: switch_to_trainer first takes the hybrid servers out of the
\* balancer...
RemoveHybrid ==
    /\ trainer = "sampling" /\ steps < MaxSteps
    /\ inflight' = IF mode = "rollout" THEN [s \in Registered \ Hybrid |-> inflight[s]]
                   ELSE inflight
    /\ trainer' = IF mode = "rollout" THEN "removed" ELSE "training"
    /\ UNCHANGED <<home, age, calls, paused, mode, steps, history>>

\* ...then aborts what runs there, which pauses them, and puts them to sleep.
PauseHybrid ==
    /\ trainer = "removed"
    /\ paused' = paused \cup Hybrid
    /\ trainer' = "draining"
    /\ UNCHANGED <<balancer, calls, mode, steps, history>>

SleepHybrid ==
    /\ trainer = "draining"
    /\ Drained(Hybrid)
    /\ mode' = "trainer"
    /\ trainer' = "training"
    /\ UNCHANGED <<balancer, calls, paused, steps, history>>

\* on_step_end: the standalone servers get the new weights.
PauseStandalone ==
    /\ trainer = "training"
    /\ paused' = paused \cup Standalone
    /\ trainer' = "syncing"
    /\ UNCHANGED <<balancer, calls, mode, steps, history>>

ResumeStandalone ==
    /\ trainer = "syncing"
    /\ Drained(Standalone)
    /\ paused' = paused \ Standalone
    /\ steps' = steps + 1
    /\ trainer' = IF Validates /\ mode = "trainer" THEN "validating" ELSE "sampling"
    /\ UNCHANGED <<balancer, calls, mode, history>>

ResumeForgotten ==
    /\ trainer = "validating"
    /\ trainer' = "resumed"
    /\ UNCHANGED <<balancer, calls, paused, mode, steps, history>>

\* on_validate_begin: switch_to_rollout.
ResumeHybrid ==
    /\ trainer = "validating"
    /\ paused' = paused \ Hybrid
    /\ trainer' = "resumed"
    /\ UNCHANGED <<balancer, calls, mode, steps, history>>

AddHybrid ==
    /\ trainer = "resumed"
    /\ inflight' = Added(Hybrid)
    /\ mode' = "rollout"
    /\ trainer' = "sampling"
    /\ UNCHANGED <<home, age, calls, paused, steps, history>>

TrainerStep ==
    \/ RemoveHybrid \/ PauseHybrid \/ SleepHybrid
    \/ PauseStandalone \/ ResumeStandalone
    \/ ResumeHybrid \/ AddHybrid
CallStep(r) ==
    \/ AcquireSticky(r) \/ AcquireNew(r) \/ Arrive(r)
    \/ Complete(r) \/ Abort(r) \/ Release(r)

Next ==
    \/ TrainerStep
    \/ ClearSticky
    \/ \E r \in Requests : Issue(r) \/ CallStep(r) \/ Raises(r)

\* The trainer process, every conversation's coroutine and every engine run; an
\* exception may come, but nothing waits for one.
Fairness ==
    /\ WF_vars(TrainerStep)
    /\ \A r \in Requests : WF_vars(CallStep(r))

Spec == Init /\ [][Next]_vars /\ Fairness

-------------------------------------------------------------------------------
Holding(s) == {r \in Requests : server[r] = s}

\* A server is held exactly between acquire and release, and the cache is ordered
\* and holds no more keys than its size.
TypeOK ==
    /\ Standalone \subseteq Registered /\ Registered \subseteq Servers
    /\ inflight \in [Registered -> Nat]
    /\ DOMAIN home \subseteq Requests /\ home \in [DOMAIN home -> Servers]
    /\ age \in [DOMAIN home -> 0..(CacheSize - 1)]
    /\ \A p, q \in DOMAIN home : p # q => age[p] # age[q]
    /\ Cardinality(DOMAIN home) <= CacheSize
    /\ at \in [Requests -> {"idle", "acquire", "sent", "running", "release"}]
    /\ server \in [Requests -> Servers \cup {None}]
    /\ \A r \in Requests :
          server[r] # None <=> at[r] \in {"sent", "running", "release"}
    /\ turns \in [Requests -> 0..MaxTurns]
    /\ paused \subseteq Servers
    /\ steps \in 0..MaxSteps

\* The count of a server never exceeds the calls that hold it, also when it was
\* removed and added back while calls of its earlier registration are still to be
\* released, and is exactly their number for a server that is never removed: a
\* release that comes late or twice never takes from another call.
NoPhantomLoad ==
    \A s \in Registered :
        /\ inflight[s] <= Cardinality(Holding(s))
        /\ s \in Standalone => inflight[s] = Cardinality(Holding(s))

\* "multi-turn conversations route to the same server": as long as fewer other
\* conversations than the cache holds acquired in between and the server is
\* registered, an acquire returns the server of the one before.
StickyRouting ==
    [][\A r \in Requests :
        /\ at[r] = "acquire" /\ at'[r] = "sent"
        /\ last[r] \in Registered /\ Cardinality(since[r]) < CacheSize
        => server'[r] = last[r]]_vars

\* However often a call is aborted and issued again, it returns at most the
\* tokens it was allowed, and an interruption is invisible: what returns to the
\* agent loop is a finished output, or the exception of its last request.
CallWithinLimit ==
    \A r \in Requests :
        /\ tokens[r] <= MaxTokens
        /\ at[r] = "idle" /\ turns[r] > 0 => stopped[r] \in {"completed", "length", "raised"}

\* Every call of a conversation returns, with an output or an exception.
CallsReturn ==
    \A r \in Requests : at[r] # "idle" ~> at[r] = "idle"

================================================================================

----------------------------- MODULE SaaSDrain -----------------------------
(***************************************************************************)
(* The drain of async_jobs by one worker process (engine/saas_consumer.go, *)
(* engine/scheduler.go): the coordinator consumeSaaSJobs that sweeps the   *)
(* tenants, its goroutines that claim and execute, the two channels in     *)
(* between, the cron ticks and the retry poller that start a drain, and    *)
(* stop, which has to join all of it before the database is closed.        *)
(*                                                                         *)
(* A tenant's queue is a number of available jobs; what a claim and an     *)
(* execution do to a job is the subject of AsyncJobs.  The pages of        *)
(* ListWorkerTenantScopes are one sequence, 1 .. Tenants.  state.mu is     *)
(* held for no longer than one step.  After stopped is set, running,       *)
(* retryRunning and runs only fall, so that waiting for the channel that   *)
(* stop captured is waiting for the flag it goes with.                     *)
(***************************************************************************)
EXTENDS Integers, Sequences, FiniteSets

CONSTANTS
    Tenants,        \* number of tenants
    Workers,        \* the saasConsumerWorkers goroutines
    Ticks,          \* cron goroutines of saas_async_jobs that may overlap
    Retry,          \* the goroutine of launchSaaSRetry
    Nobody,
    MaxJobs         \* bound on the available jobs of a tenant

ASSUME SaaSDrainAssumption ==
    /\ Tenants \in Nat \ {0}
    /\ IsFiniteSet(Workers) /\ Workers # {}
    /\ Retry \notin Ticks /\ Nobody \notin Ticks \cup {Retry}
    /\ MaxJobs \in Nat \ {0}

Scopes == 1 .. Tenants
Runners == Ticks \cup {Retry}

VARIABLES
    stopped, scheduledRunning, retryRunning,    \* saasDrainState
    runner,         \* where each goroutine of runDistributedJob is
    stopper,        \* where stop is
    drainer,        \* the runner inside consumeSaaSJobs (state.running), or Nobody
    pc, at,         \* the coordinator, and the tenant it is at
    inflight,       \* inflight: "no", "probing" (false) or "claimed" (true)
    claimedThisPass,
    results,        \* the buffered channel of results
    worker,         \* the goroutines
    queue,          \* available jobs, by tenant
    late            \* history: jobs came, or a claim failed, since the last claim

state == <<stopped, scheduledRunning, retryRunning, runner, stopper, drainer>>
coordinator == <<pc, at, inflight, claimedThisPass>>
jobs == <<queue, late>>
vars == <<state, coordinator, results, worker, jobs>>

running == drainer # Nobody

\* The context of the drain: state.cancel, or the deferred cancel.
Cancelled == stopped \/ pc = "join"

Gone == [pc |-> "gone", scope |-> 1, claimed |-> FALSE]
Idle == [Gone EXCEPT !.pc = "idle"]

Init ==
    /\ stopped = FALSE /\ scheduledRunning = FALSE /\ retryRunning = FALSE
    /\ runner = [r \in Runners |-> "off"]
    /\ stopper = "off"
    /\ drainer = Nobody
    /\ pc = "off" /\ at = 1
    /\ inflight = [t \in Scopes |-> "no"]
    /\ claimedThisPass = FALSE
    /\ results = <<>>
    /\ worker = [w \in Workers |-> Gone]
    /\ queue = [t \in Scopes |-> 0]
    /\ late = [t \in Scopes |-> FALSE]

-----------------------------------------------------------------------------
(* Who starts a drain, and who stops it.                                   *)

launchSaaSRetry ==
    /\ ~(stopped \/ running \/ retryRunning \/ scheduledRunning)
    /\ retryRunning' = TRUE
    /\ runner' = [runner EXCEPT ![Retry] = "launched"]
    /\ UNCHANGED <<stopped, scheduledRunning, stopper, drainer, coordinator, results, worker, jobs>>

Returned(r) == IF r = Retry THEN "closing" ELSE "off"

\* Mutant: the runs that are admitted are not told that the process stops.
AdmitAfterStop(r) ==
    /\ runner[r] = IF r = Retry THEN "launched" ELSE "off"
    /\ ~(scheduledRunning \/ running)
    /\ scheduledRunning' = TRUE
    /\ runner' = [runner EXCEPT ![r] = "admitted"]
    /\ UNCHANGED <<stopped, retryRunning, stopper, drainer, coordinator, results, worker, jobs>>

\* runDistributedJob up to runs.Add(1).
runDistributedJob(r) ==
    /\ runner[r] = IF r = Retry THEN "launched" ELSE "off"
    /\ LET refused == stopped \/ scheduledRunning \/ running
       IN  /\ runner' = [runner EXCEPT ![r] = IF refused THEN Returned(r) ELSE "admitted"]
           /\ scheduledRunning' = (scheduledRunning \/ ~refused)
    /\ UNCHANGED <<stopped, retryRunning, stopper, drainer, coordinator, results, worker, jobs>>

\* consumeSaaSJobs, up to its goroutines.
StartDrain(r) ==
    /\ runner[r] = "admitted"
    /\ ~(running \/ stopped)
    /\ drainer' = r
    /\ runner' = [runner EXCEPT ![r] = "draining"]
    /\ pc' = "sweep"
    /\ worker' = [w \in Workers |-> Idle]
    /\ UNCHANGED <<stopped, scheduledRunning, retryRunning, stopper, at, inflight,
                   claimedThisPass, results, jobs>>

\* The run's lease is not obtained, or a drain is running, or stop came first.
SkipDrain(r) ==
    /\ runner[r] = "admitted"
    /\ runner' = [runner EXCEPT ![r] = "finalizing"]
    /\ UNCHANGED <<stopped, scheduledRunning, retryRunning, stopper, drainer, coordinator,
                   results, worker, jobs>>

\* The deferred functions of consumeSaaSJobs have run: close(done).
EndDrain ==
    /\ pc = "join"
    /\ \A w \in Workers : worker[w].pc = "gone"
    /\ pc' = "off" /\ at' = 1 /\ claimedThisPass' = FALSE
    /\ inflight' = [t \in Scopes |-> "no"]
    /\ results' = <<>>
    /\ runner' = [runner EXCEPT ![drainer] = "finalizing"]
    /\ drainer' = Nobody
    /\ UNCHANGED <<stopped, scheduledRunning, retryRunning, stopper, worker, jobs>>

\* The run's result is recorded; runs.Done().
FinishRun(r) ==
    /\ runner[r] = "finalizing"
    /\ runner' = [runner EXCEPT ![r] = Returned(r)]
    /\ scheduledRunning' = FALSE
    /\ UNCHANGED <<stopped, retryRunning, stopper, drainer, coordinator, results, worker, jobs>>

\* The deferred function of launchSaaSRetry's goroutine: close(retryDone).
CloseRetry ==
    /\ runner[Retry] = "closing"
    /\ runner' = [runner EXCEPT ![Retry] = "off"]
    /\ retryRunning' = FALSE
    /\ UNCHANGED <<stopped, scheduledRunning, stopper, drainer, coordinator, results, worker, jobs>>

\* Scheduler.Stop: state.stop cancels, then waits for done, retryDone and runs.
stop ==
    /\ \/ stopper = "off" /\ stopper' = "done"
       \/ stopper = "done" /\ ~running /\ stopper' = "retryDone"
       \/ stopper = "retryDone" /\ ~retryRunning /\ stopper' = "runs"
       \/ stopper = "runs" /\ ~scheduledRunning /\ stopper' = "returned"
    /\ stopped' = TRUE
    /\ UNCHANGED <<scheduledRunning, retryRunning, runner, drainer, coordinator, results,
                   worker, jobs>>

-----------------------------------------------------------------------------
(* The coordinator.                                                        *)

\* Mutant: a tenant is free again as soon as its claim is known.
AcceptFrees(goto) ==
    /\ results # <<>>
    /\ results' = Tail(results)
    /\ LET item == Head(results)
       IN  /\ claimedThisPass' = (claimedThisPass \/ item.claimed)
           /\ inflight' = [inflight EXCEPT ![item.scope] = "no"]
    /\ pc' = goto

\* Mutant: the claim of a finished job is not taken for one of this pass.
AcceptForgets(goto) ==
    /\ results # <<>>
    /\ results' = Tail(results)
    /\ LET item == Head(results)
       IN  /\ claimedThisPass' = (claimedThisPass \/ (item.claimed /\ ~item.finished))
           /\ inflight' = [inflight EXCEPT ![item.scope] =
                            IF item.finished THEN "no" ELSE "claimed"]
    /\ pc' = goto

\* accept, for the next result of the channel.
accept(goto) ==
    /\ results # <<>>
    /\ results' = Tail(results)
    /\ LET item == Head(results)
       IN  /\ claimedThisPass' = (claimedThisPass \/ item.claimed)
           /\ inflight' = [inflight EXCEPT ![item.scope] =
                            IF item.finished THEN "no" ELSE "claimed"]
    /\ pc' = goto

Leave == pc' = "join" /\ UNCHANGED <<at, inflight, claimedThisPass, results>>

waitResult(goto) ==
    \/ accept(goto) /\ UNCHANGED at
    \/ Cancelled /\ Leave

Busy == {t \in Scopes : inflight[t] # "no"}

\* A new sweep lists the tenants; the listing may fail.
Sweep ==
    /\ pc = "sweep"
    /\ \/ Leave
       \/ /\ ~Cancelled
          /\ pc' = "drain" /\ at' = 1 /\ claimedThisPass' = FALSE
          /\ UNCHANGED <<inflight, results>>
    /\ UNCHANGED <<state, worker, jobs>>

\* The drain loop accepts what is there, then a tenant that is busy is skipped.
DrainResults ==
    /\ pc = "drain"
    /\ \/ accept("drain") /\ UNCHANGED at
       \/ /\ results = <<>>
          /\ IF inflight[at] = "no"
             THEN pc' = "capacity" /\ UNCHANGED at
             ELSE IF at = Tenants
                  THEN pc' = "resolve" /\ UNCHANGED at
                  ELSE at' = at + 1 /\ UNCHANGED pc
          /\ UNCHANGED <<inflight, claimedThisPass, results>>
    /\ UNCHANGED <<state, worker, jobs>>

\* Mutant: a completion starts a new sweep instead of going on with this one.
AcquireRestarts ==
    /\ pc = "capacity"
    /\ IF Cardinality(Busy) >= Cardinality(Workers)
       THEN waitResult("sweep")
       ELSE /\ inflight' = [inflight EXCEPT ![at] = "probing"]
            /\ pc' = "send"
            /\ UNCHANGED <<at, claimedThisPass, results>>
    /\ UNCHANGED <<state, worker, jobs>>

\* Capacity is acquired before the claim.
AcquireCapacity ==
    /\ pc = "capacity"
    /\ IF Cardinality(Busy) >= Cardinality(Workers)
       THEN waitResult("capacity")
       ELSE /\ inflight' = [inflight EXCEPT ![at] = "probing"]
            /\ pc' = "send"
            /\ UNCHANGED <<at, claimedThisPass, results>>
    /\ UNCHANGED <<state, worker, jobs>>

\* Mutant: the scan goes one tenant too far.
SendPastEnd ==
    /\ pc = "send"
    /\ \E w \in Workers :
            /\ worker[w].pc = "idle"
            /\ worker' = [worker EXCEPT ![w] = [Gone EXCEPT !.pc = "claim", !.scope = at]]
    /\ pc' = IF at > Tenants THEN "resolve" ELSE "drain"
    /\ at' = at + 1
    /\ UNCHANGED <<state, inflight, claimedThisPass, results, jobs>>

\* work is unbuffered: the tenant is handed to a goroutine that is ready.
SendWork ==
    /\ pc = "send"
    /\ \/ /\ \E w \in Workers :
                /\ worker[w].pc = "idle"
                /\ worker' = [worker EXCEPT ![w] = [Gone EXCEPT !.pc = "claim", !.scope = at]]
          /\ pc' = IF at = Tenants THEN "resolve" ELSE "drain"
          /\ at' = IF at = Tenants THEN at ELSE at + 1
          /\ UNCHANGED <<inflight, claimedThisPass, results>>
       \/ Cancelled /\ Leave /\ UNCHANGED worker
    /\ UNCHANGED <<state, jobs>>

\* The end of a sweep: probes are resolved first, then one execution is waited for;
\* the drain ends when nothing was claimed and nothing runs.
Resolve ==
    /\ pc = "resolve"
    /\ IF claimedThisPass
       THEN pc' = "sweep" /\ UNCHANGED <<at, inflight, claimedThisPass, results>>
       ELSE IF \E t \in Scopes : inflight[t] = "probing"
            THEN waitResult("resolve")
            ELSE IF Busy = {} THEN Leave ELSE waitResult("sweep")
    /\ UNCHANGED <<state, worker, jobs>>

-----------------------------------------------------------------------------
(* The goroutines: consumeSaaSScope.                                       *)

Result(w, finished) ==
    [scope |-> worker[w].scope, finished |-> finished, claimed |-> worker[w].claimed]

\* Mutant: results are sent whatever the context.
SendBlocking(w, finished, sent, dropped) ==
    /\ Len(results) < Cardinality(Workers)
    /\ results' = Append(results, Result(w, finished))
    /\ worker' = [worker EXCEPT ![w] = sent]

\* select { case results <- result: case <-ctx.Done(): }
SendResult(w, finished, sent, dropped) ==
    \/ /\ Len(results) < Cardinality(Workers)
       /\ results' = Append(results, Result(w, finished))
       /\ worker' = [worker EXCEPT ![w] = sent]
    \/ /\ Cancelled
       /\ worker' = [worker EXCEPT ![w] = dropped]
       /\ UNCHANGED results

\* There is nothing to claim, the claim fails, or a job is claimed.
ClaimAsyncJob(w) ==
    LET t == worker[w].scope
    IN  /\ worker[w].pc = "claim"
        /\ \/ /\ queue[t] = 0
              /\ worker' = [worker EXCEPT ![w].pc = "report"]
              /\ late' = [late EXCEPT ![t] = FALSE]
              /\ UNCHANGED queue
           \/ /\ worker' = [worker EXCEPT ![w].pc = "report"]
              /\ late' = [late EXCEPT ![t] = TRUE]
              /\ UNCHANGED queue
           \/ /\ queue[t] > 0
              /\ worker' = [worker EXCEPT ![w].pc = "announce", ![w].claimed = TRUE]
              /\ queue' = [queue EXCEPT ![t] = @ - 1]
              /\ late' = [late EXCEPT ![t] = FALSE]
        /\ UNCHANGED <<state, coordinator, results>>

Announce(w) ==
    /\ worker[w].pc = "announce"
    /\ SendResult(w, FALSE, [worker[w] EXCEPT !.pc = "execute"], [worker[w] EXCEPT !.pc = "report"])
    /\ UNCHANGED <<state, coordinator, jobs>>

\* The job is finalized; one that continues is available again.
consumeSaaSJob(w) ==
    LET t == worker[w].scope
    IN  /\ worker[w].pc = "execute"
        /\ queue' \in {queue, [queue EXCEPT ![t] = IF @ < MaxJobs THEN @ + 1 ELSE @]}
        /\ worker' = [worker EXCEPT ![w].pc = "report"]
        /\ UNCHANGED <<state, coordinator, results, late>>

Report(w) ==
    /\ worker[w].pc = "report"
    /\ SendResult(w, TRUE, Idle, Idle)
    /\ UNCHANGED <<state, coordinator, jobs>>

\* close(work) ends the range loop of a goroutine.
Exit(w) ==
    /\ worker[w].pc = "idle" /\ pc = "join"
    /\ worker' = [worker EXCEPT ![w] = Gone]
    /\ UNCHANGED <<state, coordinator, results, jobs>>

\* Anyone makes a job available: a request, a due retry, another process's lease.
EnqueueAsyncJob(t) ==
    /\ queue[t] < MaxJobs
    /\ queue' = [queue EXCEPT ![t] = @ + 1]
    /\ late' = [late EXCEPT ![t] = TRUE]
    /\ UNCHANGED <<state, coordinator, results, worker>>
-----------------------------------------------------------------------------
Coordinate == Sweep \/ DrainResults \/ AcquireCapacity \/ SendWork \/ Resolve \/ EndDrain

Work(w) == ClaimAsyncJob(w) \/ Announce(w) \/ consumeSaaSJob(w) \/ Report(w) \/ Exit(w)

Run(r) == StartDrain(r) \/ SkipDrain(r) \/ FinishRun(r)

Next ==
    \/ launchSaaSRetry \/ CloseRetry \/ stop
    \/ \E r \in Runners : runDistributedJob(r) \/ Run(r)
    \/ Coordinate
    \/ \E w \in Workers : Work(w)
    \/ \E t \in Scopes : EnqueueAsyncJob(t)

Spec == Init /\ [][Next]_vars

\* Every goroutine that can go on does, and the scheduler goes on ticking.
FairSpec ==
    /\ Spec
    /\ WF_vars(Coordinate)
    /\ \A w \in Workers : WF_vars(Work(w))
    /\ \A r \in Runners : WF_vars(runDistributedJob(r)) /\ WF_vars(Run(r))
    /\ WF_vars(CloseRetry)
    /\ WF_vars(stop /\ stopped)

\* Moreover a run's lease, a listing and the claims of a tenant that are tried for
\* ever do not fail for ever.
ServedSpec ==
    /\ FairSpec
    /\ \A r \in Runners : SF_vars(StartDrain(r))
    /\ SF_vars(Sweep /\ pc' = "drain")
    /\ \A w \in Workers, t \in Scopes :
            SF_vars(ClaimAsyncJob(w) /\ worker[w].scope = t /\ worker'[w].claimed)

-----------------------------------------------------------------------------
(* Properties.                                                             *)

\* Type of every variable; one coordinator at most, and it runs inside an admitted
\* run.
TypeOK ==
    /\ {stopped, scheduledRunning, retryRunning, claimedThisPass} \subseteq BOOLEAN
    /\ runner \in [Runners -> {"off", "launched", "admitted", "draining", "finalizing", "closing"}]
    /\ stopper \in {"off", "done", "retryDone", "runs", "returned"}
    /\ drainer \in Runners \cup {Nobody}
    /\ \A r \in Runners : runner[r] = "draining" <=> drainer = r
    /\ pc \in {"off", "sweep", "drain", "capacity", "send", "resolve", "join"}
    /\ at \in Scopes
    /\ inflight \in [Scopes -> {"no", "probing", "claimed"}]
    /\ results \in Seq([scope : Scopes, finished : BOOLEAN, claimed : BOOLEAN])
    /\ Len(results) <= Cardinality(Workers)
    /\ worker \in [Workers -> [pc : {"gone", "idle", "claim", "announce", "execute", "report"},
                               scope : Scopes, claimed : BOOLEAN]]
    /\ queue \in [Scopes -> 0 .. MaxJobs]
    /\ late \in [Scopes -> BOOLEAN]

\* Scheduler.Stop: "No database or HTTP work owned by this consumer may survive
\* Store.Close."  Once stop has returned nothing runs, whichever of the cron ticks and
\* the retry poller was being admitted when it was called.
StopJoinsEverything ==
    stopper = "returned" =>
        /\ \A w \in Workers : worker[w].pc = "gone"
        /\ \A r \in Runners : runner[r] = "off"
        /\ pc = "off"

\* consumeSaaSJobs "admits at most one job per tenant at a time".
OneJobPerTenant ==
    \A v, w \in Workers :
        /\ v # w
        /\ worker[v].pc \in {"claim", "announce", "execute"}
        /\ worker[w].pc \in {"claim", "announce", "execute"}
        => worker[v].scope # worker[w].scope

\* "A completion from a previous sweep can expose another job for a tenant skipped
\* while it was busy. It must also force a fresh sweep": a drain that ends because it
\* found nothing leaves only jobs that came after their tenant's last claim.
DrainLeavesNothing ==
    pc = "resolve" /\ ~claimedThisPass /\ Busy = {} =>
        \A t \in Scopes : queue[t] > 0 => late[t]

\* The channels never make everyone wait for everyone: stop returns.
StopReturns == stopped ~> stopper = "returned"

\* A tenant whose jobs continue for ever does not keep another one waiting.
EveryTenantIsServed ==
    \A t \in Scopes : queue[t] > 0 ~>
        \/ stopped
        \/ \E w \in Workers : worker[w].scope = t /\ worker[w].claimed
=============================================================================

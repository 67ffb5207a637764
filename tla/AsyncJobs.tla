------------------------------ MODULE AsyncJobs ------------------------------
(***************************************************************************)
(* One row of async_jobs and what the store's transactions do to it        *)
(* (db/saas_runtime.go, db/async_job_attempt.go).  The modules of the job  *)
(* kinds, SaaSDelivery and TenantDSAR, hold the rows and the workers.      *)
(*                                                                         *)
(* Time is counted in ticks.  A row keeps the time its lease still has to  *)
(* run, a worker the time its job context still has to run.  A claim reads *)
(* the clock before its transaction, so the lease it writes is up to       *)
(* ClaimAge ticks shorter than Lease.  The assumption is the relation      *)
(* between the constants of engine/saas_worker.go, saas_consumer.go and    *)
(* scheduler.go: 20 s to claim and 45 s to work are less than 2 min.       *)
(***************************************************************************)
EXTENDS Integers

CONSTANTS
    Workers,        \* claims in flight: goroutines of every worker process
    NoWorker,       \* lease_owner = ''
    MaxAttempts,    \* max_attempts
    Lease,          \* saasWorkerLease
    ClaimAge,       \* schedulerDBTimeout, the age of a claim's clock reading
    JobTimeout      \* saasJobTimeout

ASSUME AsyncJobsAssumption ==
    /\ NoWorker \notin Workers
    /\ MaxAttempts \in Nat \ {0}
    /\ ClaimAge \in Nat
    /\ JobTimeout \in Nat \ {0}
    /\ Lease \in Nat
    /\ ClaimAge + JobTimeout < Lease

\* waiting: available_at is still in the future.
Rows == [status   : {"none", "pending", "processing", "completed", "dead_letter"},
         attempts : 0 .. MaxAttempts,
         owner    : Workers \cup {NoWorker},
         lease    : 0 .. Lease,
         waiting  : BOOLEAN]

NoRow == [status |-> "none", attempts |-> 0, owner |-> NoWorker, lease |-> 0,
          waiting |-> FALSE]

Settled(row) == row.status \in {"completed", "dead_letter"}

\* INSERT ... ON CONFLICT DO NOTHING on (tenant_id, kind, idempotency_key).
EnqueueAsyncJob(row) ==
    IF row.status = "none" THEN [row EXCEPT !.status = "pending"] ELSE row

\* The reconciliation that opens every claim: a worker died on the last attempt.
Exhausted(row) ==
    /\ row.status = "processing"
    /\ row.attempts >= MaxAttempts
    /\ row.lease = 0

\* Mutant: nothing reconciles a row whose worker died on the last attempt.
ReconciledNever(row) == row

Reconciled(row) ==
    IF Exhausted(row)
    THEN [row EXCEPT !.status = "dead_letter", !.owner = NoWorker]
    ELSE row

\* Mutant: an expired lease is taken over whatever the attempts spent.
ClaimableUncapped(row) ==
    /\ ~row.waiting
    /\ \/ row.status = "pending"
       \/ row.status = "processing" /\ row.lease = 0

Claimable(row) ==
    /\ ~row.waiting
    /\ \/ row.status = "pending"
       \/ row.status = "processing" /\ row.lease = 0
    /\ row.attempts < MaxAttempts

Claimed(row, w, age) ==
    [row EXCEPT !.status = "processing", !.attempts = @ + 1,
                !.owner = w, !.lease = Lease - age]

\* The compare-and-swap of FinalizeAsyncJobAttempt and ParkTenantDSARJob.
HeldBy(row, w, attempt) ==
    /\ row.status = "processing"
    /\ row.owner = w
    /\ row.attempts = attempt
    /\ row.lease > 0

Outcomes == {"completed", "retry", "dead_letter", "continue"}

EffectiveOutcome(outcome, attempt) ==
    IF outcome = "retry" /\ attempt >= MaxAttempts THEN "dead_letter" ELSE outcome

\* The UPDATE of async_jobs, for an effective outcome.  Only a retry sets
\* available_at ahead; a continuation refunds the attempt.
Finalized(row, outcome) ==
    [row EXCEPT !.status   = IF outcome \in {"completed", "dead_letter"}
                             THEN outcome ELSE "pending",
                !.attempts = IF outcome = "continue" THEN @ - 1 ELSE @,
                !.owner    = NoWorker,
                !.lease    = 0,
                !.waiting  = outcome = "retry"]

Older(ticks) == IF ticks > 0 THEN ticks - 1 ELSE 0
=============================================================================

----------------------------- MODULE TenantDSAR -----------------------------
(***************************************************************************)
(* Export and erasure requests of one institution (db/saas_governance.go,  *)
(* db/saas_governance_erasure.go): the tenant_dsar_requests and            *)
(* tenant_dsar_phases rows, the tenant_dsar jobs of async_jobs that drive  *)
(* them (engine/saas_worker.go consumeTenantDSARJob), the memberships and  *)
(* the legal holds they depend on, and the writers that go on meanwhile:   *)
(* signed-in members, and the scheduler that queues notifications.         *)
(*                                                                         *)
(* The learner tables are represented by four: "interactions" stands for   *)
(* every table only the transactions of a signed-in member fill; the other *)
(* three are the ones the notification scheduler reads and writes.         *)
(* Rectification requests have no job and are left out.                    *)
(***************************************************************************)
EXTENDS AsyncJobs, Sequences, FiniteSets

CONSTANTS
    Members,        \* tenant_memberships rows
    Learners,       \* the members with a learner profile
    NoMember,
    Requests,       \* tenant_dsar_requests rows that may come to exist
    NoRequest,
    Kinds,          \* kinds that are requested: "export", "erase"
    Quantum,        \* batches per attempt: the 8 of consumeTenantDSARJob
    BatchLimit,     \* rows per batch: the 500 of consumeTenantDSARJob
    MaxRows         \* bound on the rows of a learner in a table but availability

ASSUME TenantDSARAssumption ==
    /\ Learners \subseteq Members /\ NoMember \notin Members
    /\ Kinds \subseteq {"export", "erase"}
    /\ Quantum \in Nat \ {0}
    /\ BatchLimit \in Nat \ {0}
    /\ MaxRows \in Nat

VARIABLES
    membership,     \* status of tenant_memberships
    owner,          \* whether roles_json holds the owner role
    rows,           \* rows of each learner, by table
    webhookURL,     \* learners whose webhook_url is set (not yet scrubbed)
    hold,           \* learners with a hold that is not released
    request,        \* tenant_dsar_requests
    phase,          \* tenant_dsar_phases
    jobs,           \* async_jobs of kind tenant_dsar, by request
    worker,         \* what each goroutine holds
    \* history, read by the properties only
    spent,          \* attempts of the job that ended other than by yielding or parking
    suspended       \* requests whose last attempt ended with ErrTenantDSARBlocked

members == <<membership, owner>>
store == <<membership, owner, rows, webhookURL, hold, request, phase>>
vars == <<membership, owner, rows, webhookURL, hold, request, phase, jobs, worker,
          spent, suspended>>

\* dsarErasurePhases, in the order they run.
Tables == <<"webhook_message_queue", "interactions", "scheduled_alerts", "availability">>
Phases == <<"revoke_access">> \o Tables \o <<"scrub_learner">>
PhaseNames == {Phases[i] : i \in DOMAIN Phases}
TableNames == {Tables[i] : i \in DOMAIN Tables}

IdleWorker == [pc |-> "idle", request |-> NoRequest, attempt |-> 0, left |-> 0,
               batch |-> 0, outcome |-> "retry"]

Init ==
    /\ membership = [m \in Members |-> "active"]
    /\ owner = [m \in Members |-> TRUE]
    /\ rows = [m \in Learners |-> [t \in TableNames |-> IF t = "availability" THEN 1 ELSE 0]]
    /\ webhookURL = Learners
    /\ hold = {}
    /\ request = [q \in Requests |-> [learner |-> NoMember, kind |-> "none", status |-> "none"]]
    /\ phase = [q \in Requests |-> [p \in PhaseNames |-> "pending"]]
    /\ jobs = [q \in Requests |-> NoRow]
    /\ worker = [w \in Workers |-> IdleWorker]
    /\ spent = [q \in Requests |-> 0]
    /\ suspended = {}

-----------------------------------------------------------------------------
(* Members, holds and the writers of learner data.                         *)

countActiveOwners(excluded) ==
    Cardinality({m \in Members \ {excluded} : membership[m] = "active" /\ owner[m]})

\* Actor a sets the status and the owner role of membership m.  Any active member
\* may hold the membership permission; the code's check of it is left out.
UpdateTenantMember(a, m, status, willOwn) ==
    /\ membership[a] = "active"
    /\ membership[m] # "revoked"
    /\ owner[m] \/ willOwn => owner[a]
    /\ m = a => status = "active"
    /\ owner[m] /\ (~willOwn \/ status # "active") => countActiveOwners(m) > 0
    /\ membership' = [membership EXCEPT ![m] = status]
    /\ owner' = [owner EXCEPT ![m] = willOwn]
    /\ UNCHANGED <<rows, webhookURL, hold, request, phase, jobs, worker, spent, suspended>>

transferInstitutionOwnership(a, m) ==
    /\ a # m
    /\ membership[a] = "active" /\ owner[a]
    /\ membership[m] = "active"
    /\ owner' = [owner EXCEPT ![m] = TRUE, ![a] = FALSE]
    /\ UNCHANGED <<membership, rows, webhookURL, hold, request, phase, jobs, worker,
                   spent, suspended>>

CreateRetentionLegalHold(m) ==
    /\ m \notin hold
    /\ hold' = hold \cup {m}
    /\ UNCHANGED <<members, rows, webhookURL, request, phase, jobs, worker, spent, suspended>>

ReleaseRetentionLegalHold(m) ==
    /\ m \in hold
    /\ hold' = hold \ {m}
    /\ UNCHANGED <<members, rows, webhookURL, request, phase, jobs, worker, spent, suspended>>

\* An authenticated write locks the membership row and checks it is active.
LearnerWrites(m, t) ==
    /\ membership[m] = "active"
    /\ t \in {"interactions", "availability"}
    /\ rows[m][t] < IF t = "availability" THEN 1 ELSE MaxRows
    /\ rows' = [rows EXCEPT ![m][t] = @ + 1]
    /\ UNCHANGED <<members, webhookURL, hold, request, phase, jobs, worker, spent, suspended>>

\* dispatchQueued's fallback: a learner with a webhook and a consent gets a daily
\* reservation and a queue row that references it, in one transaction.
EnqueueClaimedWebhookPayloadOncePerDay(m) ==
    /\ m \in webhookURL
    /\ rows[m]["availability"] > 0
    /\ rows[m]["webhook_message_queue"] < MaxRows
    /\ rows[m]["scheduled_alerts"] < MaxRows
    /\ rows' = [rows EXCEPT ![m]["webhook_message_queue"] = @ + 1,
                            ![m]["scheduled_alerts"] = @ + 1]
    /\ UNCHANGED <<members, webhookURL, hold, request, phase, jobs, worker, spent, suspended>>

-----------------------------------------------------------------------------
(* Administration of the requests.                                         *)

LastOwner(m) == membership[m] = "active" /\ owner[m] /\ countActiveOwners(m) = 0

RequestTenantDSAR(a, q, m, kind) ==
    /\ membership[a] = "active"
    /\ a = m \/ owner[a]
    /\ request[q].status = "none"
    /\ kind = "erase" => ~LastOwner(m)
    /\ request' = [request EXCEPT ![q] = [learner |-> m, kind |-> kind, status |-> "pending"]]
    /\ jobs' = [jobs EXCEPT ![q] = EnqueueAsyncJob(@)]
    /\ UNCHANGED <<members, rows, webhookURL, hold, phase, worker, spent, suspended>>

ResumeTenantDSAR(q) ==
    /\ request[q].status = "blocked"
    /\ request[q].learner \notin hold
    /\ ~(jobs[q].status = "processing" /\ jobs[q].lease > 0)
    /\ jobs' = [jobs EXCEPT ![q] = [NoRow EXCEPT !.status = "pending"]]
    /\ request' = [request EXCEPT ![q].status = "pending"]
    /\ phase' = [phase EXCEPT ![q] = [p \in PhaseNames |->
                    IF @[p] = "blocked" THEN "pending" ELSE @[p]]]
    /\ spent' = [spent EXCEPT ![q] = 0]
    /\ suspended' = suspended \ {q}
    /\ UNCHANGED <<members, rows, webhookURL, hold, worker>>

-----------------------------------------------------------------------------
(* The worker: consumeTenantDSARJob.                                        *)

Live(w) == worker[w].left > 0

Working(w, kind) ==
    worker[w].pc = "working" /\ Live(w) /\ request[worker[w].request].kind = kind

\* The ways consumeTenantDSARJob goes on after a store call.
GoesTo(w, pc, outcome) == [worker EXCEPT ![w].pc = pc, ![w].outcome = outcome]
Retries(w) == GoesTo(w, "finalize", "retry")
Completes(w) == GoesTo(w, "finalize", "completed")

\* Mutant: a full quantum is taken for the end of the erasure.
YieldsCompleted(w) ==
    IF worker[w].batch + 1 = Quantum
    THEN Completes(w)
    ELSE [worker EXCEPT ![w].batch = @ + 1]

Yields(w) ==
    IF worker[w].batch + 1 = Quantum
    THEN GoesTo(w, "finalize", "continue")
    ELSE [worker EXCEPT ![w].batch = @ + 1]

\* An attempt whose lease expired is spent when it is taken over or reconciled.
CountLost ==
    spent' = [q \in Requests |-> IF jobs[q].status = "processing" /\ jobs'[q] # jobs[q]
                                 THEN spent[q] + 1 ELSE spent[q]]

\* A blocked request keeps its job out of every claim.
Runnable(q) == Claimable(jobs[q]) /\ request[q].status # "blocked"

ClaimAsyncJob(w) ==
    LET exhausted == {q \in Requests : Exhausted(jobs[q])}
        reconciled == [q \in Requests |-> Reconciled(jobs[q])]
    IN  /\ worker[w].pc = "idle"
        /\ \/ \E q \in Requests, age \in 0 .. ClaimAge :
                /\ Runnable(q)
                /\ jobs' = [reconciled EXCEPT ![q] = Claimed(jobs[q], w, age)]
                /\ worker' = [worker EXCEPT ![w] =
                        [IdleWorker EXCEPT !.pc = "working", !.request = q,
                             !.left = JobTimeout, !.attempt = jobs[q].attempts + 1]]
                /\ CountLost
                /\ suspended' = suspended \ {q}
           \/ /\ ~\E q \in Requests : Runnable(q)
              /\ exhausted # {}
              /\ jobs' = reconciled
              /\ CountLost
              /\ UNCHANGED <<worker, suspended>>
        /\ UNCHANGED store

\* The manifest commits; its answer may be lost.
CompleteTenantDSARExport(w) ==
    LET q == worker[w].request
    IN  /\ Working(w, "export")
        /\ request' = [request EXCEPT ![q].status = "completed"]
        /\ worker' \in {Completes(w), Retries(w)}
        /\ UNCHANGED <<members, rows, webhookURL, hold, phase, jobs, spent, suspended>>

\* A store call fails and rolls back.
CallFails(w) ==
    /\ worker[w].pc = "working" /\ Live(w)
    /\ worker' = Retries(w)
    /\ UNCHANGED <<store, jobs, spent, suspended>>

-----------------------------------------------------------------------------
(* ProcessTenantDSARErasureBatch, one action for each way it ends.  All of  *)
(* them run under the lock of the request row.                              *)

Remaining(q) == {i \in DOMAIN Phases : phase[q][Phases[i]] \in {"pending", "running"}}
NextPhase(q) == Phases[CHOOSE i \in Remaining(q) : \A j \in Remaining(q) : i <= j]

\* The request is runnable and its learner is not held.
Unheld(w) ==
    LET q == worker[w].request
    IN  /\ Working(w, "erase")
        /\ request[q].status \in {"pending", "processing"}
        /\ request[q].learner \notin hold

\* An earlier attempt completed or blocked the request.
ErasureAlreadySettled(w) ==
    LET q == worker[w].request
    IN  /\ Working(w, "erase")
        /\ \/ request[q].status = "completed" /\ worker' = Completes(w) /\ UNCHANGED suspended
           \/ /\ request[q].status = "blocked"
              /\ worker' = GoesTo(w, "park", "retry")
              /\ suspended' = suspended \cup {q}
        /\ UNCHANGED <<store, jobs, spent>>

ErasureHeld(w) ==
    LET q == worker[w].request
    IN  /\ Working(w, "erase")
        /\ request[q].status \in {"pending", "processing"}
        /\ request[q].learner \in hold
        /\ request' = [request EXCEPT ![q].status = "blocked"]
        /\ phase' = [phase EXCEPT ![q] = [p \in PhaseNames |->
                        IF @[p] = "completed" THEN "completed" ELSE "blocked"]]
        /\ \/ worker' = GoesTo(w, "park", "retry") /\ suspended' = suspended \cup {q}
           \/ worker' = Retries(w) /\ UNCHANGED suspended
        /\ UNCHANGED <<members, rows, webhookURL, hold, jobs, spent>>

ErasureFinished(w) ==
    LET q == worker[w].request
    IN  /\ Unheld(w)
        /\ Remaining(q) = {}
        /\ request' = [request EXCEPT ![q].status = "completed"]
        /\ worker' \in {Completes(w), Retries(w)}
        /\ UNCHANGED <<members, rows, webhookURL, hold, phase, jobs, spent, suspended>>

\* What a phase that commits leaves behind.
PhaseCommits(w, status) ==
    LET q == worker[w].request
    IN  /\ request' = [request EXCEPT ![q].status = "processing"]
        /\ phase' = [phase EXCEPT ![q][NextPhase(q)] = status]
        /\ worker' \in {Yields(w), Retries(w)}
        /\ UNCHANGED <<hold, jobs, spent, suspended>>

\* Mutant: the owners are not counted again when access is revoked.
RevokeUnchecked(w) ==
    LET m == request[worker[w].request].learner
    IN  /\ Unheld(w) /\ Remaining(worker[w].request) # {}
        /\ NextPhase(worker[w].request) = "revoke_access"
        /\ membership' = [membership EXCEPT ![m] = "revoked"]
        /\ PhaseCommits(w, "completed")
        /\ UNCHANGED <<owner, rows, webhookURL>>

\* Mutant: the checkpoint of revoke_access commits although nothing is revoked.
RevokeNothing(w) ==
    /\ Unheld(w) /\ Remaining(worker[w].request) # {}
    /\ NextPhase(worker[w].request) = "revoke_access"
    /\ PhaseCommits(w, "completed")
    /\ UNCHANGED <<members, rows, webhookURL>>

\* The last active owner is refused: the transaction rolls back, the request
\* keeps its status, and the caller gets ErrTenantDSARBlocked.
revokeErasedLearnerAccess(w) ==
    LET m == request[worker[w].request].learner
    IN  /\ Unheld(w) /\ Remaining(worker[w].request) # {}
        /\ NextPhase(worker[w].request) = "revoke_access"
        /\ \/ /\ ~LastOwner(m)
              /\ membership' = [membership EXCEPT ![m] = "revoked"]
              /\ PhaseCommits(w, "completed")
              /\ UNCHANGED <<owner, rows, webhookURL>>
           \/ /\ LastOwner(m)
              /\ worker' = GoesTo(w, "park", "retry")
              /\ suspended' = suspended \cup {worker[w].request}
              /\ UNCHANGED <<store, jobs, spent>>

\* scheduled_alerts rows are referenced by webhook_message_queue.reservation_id.
DeleteBatch(w) ==
    LET q == worker[w].request
        m == request[q].learner
        t == NextPhase(q)
        affected == IF rows[m][t] < BatchLimit THEN rows[m][t] ELSE BatchLimit
    IN  /\ Unheld(w) /\ Remaining(q) # {} /\ t \in TableNames
        /\ t = "scheduled_alerts" => rows[m]["webhook_message_queue"] = 0
        /\ rows' = [rows EXCEPT ![m][t] = @ - affected]
        /\ PhaseCommits(w, IF affected < BatchLimit THEN "completed" ELSE "running")
        /\ UNCHANGED <<members, webhookURL>>

ScrubLearner(w) ==
    LET m == request[worker[w].request].learner
    IN  /\ Unheld(w) /\ Remaining(worker[w].request) # {}
        /\ NextPhase(worker[w].request) = "scrub_learner"
        /\ webhookURL' = webhookURL \ {m}
        /\ PhaseCommits(w, "completed")
        /\ UNCHANGED <<members, rows>>

-----------------------------------------------------------------------------
(* The end of an attempt.                                                  *)

\* Mutant: parking keeps the attempt it was claimed under.
ParkUnrefunded(w) ==
    LET q == worker[w].request
    IN  /\ worker[w].pc = "park" /\ Live(w)
        /\ jobs' = IF request[q].status = "blocked" /\ HeldBy(jobs[q], w, worker[w].attempt)
                   THEN [jobs EXCEPT ![q].status = "pending", ![q].owner = NoWorker,
                                     ![q].lease = 0]
                   ELSE jobs
        /\ worker' = [worker EXCEPT ![w] = IdleWorker]
        /\ UNCHANGED <<store, spent, suspended>>

\* The attempt is refunded only while the request is blocked and leased to it;
\* otherwise ErrLeaseLost, and the job stays in processing.
ParkTenantDSARJob(w) ==
    LET q == worker[w].request
    IN  /\ worker[w].pc = "park" /\ Live(w)
        /\ jobs' = IF request[q].status = "blocked" /\ HeldBy(jobs[q], w, worker[w].attempt)
                   THEN [jobs EXCEPT ![q] = [@ EXCEPT !.status = "pending", !.attempts = @ - 1,
                                                      !.owner = NoWorker, !.lease = 0]]
                   ELSE jobs
        /\ worker' = [worker EXCEPT ![w] = IdleWorker]
        /\ UNCHANGED <<store, spent, suspended>>

FinalizeAsyncJobAttempt(w) ==
    LET q == worker[w].request
        outcome == EffectiveOutcome(worker[w].outcome, worker[w].attempt)
        held == HeldBy(jobs[q], w, worker[w].attempt)
    IN  /\ worker[w].pc = "finalize" /\ Live(w)
        /\ jobs' = IF held THEN [jobs EXCEPT ![q] = Finalized(@, outcome)] ELSE jobs
        /\ spent' = IF held /\ outcome # "continue"
                       THEN [spent EXCEPT ![q] = @ + 1] ELSE spent
        /\ worker' = [worker EXCEPT ![w] = IdleWorker]
        /\ UNCHANGED <<store, suspended>>

\* Crash, panic, cancelled context, or an error of the last transaction.
StopAttempt(w) ==
    /\ worker[w].pc # "idle"
    /\ worker' = [worker EXCEPT ![w] = IdleWorker]
    /\ suspended' = suspended \ {worker[w].request}
    /\ UNCHANGED <<store, jobs, spent>>

Tick ==
    /\ jobs' = [q \in Requests |-> [jobs[q] EXCEPT !.lease = Older(@)]]
    /\ worker' = [w \in Workers |-> [worker[w] EXCEPT !.left = Older(@)]]
    /\ UNCHANGED <<store, spent, suspended>>

JobAvailable(q) ==
    /\ jobs[q].waiting
    /\ jobs' = [jobs EXCEPT ![q].waiting = FALSE]
    /\ UNCHANGED <<store, worker, spent, suspended>>
-----------------------------------------------------------------------------
ErasureStep(w) ==
    \/ ErasureAlreadySettled(w) \/ ErasureHeld(w) \/ ErasureFinished(w)
    \/ revokeErasedLearnerAccess(w) \/ DeleteBatch(w) \/ ScrubLearner(w)

AttemptStep(w) ==
    \/ CompleteTenantDSARExport(w) \/ ErasureStep(w) \/ CallFails(w)
    \/ ParkTenantDSARJob(w) \/ FinalizeAsyncJobAttempt(w) \/ StopAttempt(w)

Administration ==
    \/ \E a, m \in Members, status \in {"active", "suspended", "revoked"}, willOwn \in BOOLEAN :
            UpdateTenantMember(a, m, status, willOwn)
    \/ \E a, m \in Members : transferInstitutionOwnership(a, m)
    \/ \E m \in Learners : CreateRetentionLegalHold(m) \/ ReleaseRetentionLegalHold(m)
    \/ \E a \in Members, q \in Requests, m \in Learners, kind \in Kinds :
            RequestTenantDSAR(a, q, m, kind)
    \/ \E q \in Requests : ResumeTenantDSAR(q)

Next ==
    \/ Administration
    \/ \E m \in Learners :
            \/ \E t \in TableNames : LearnerWrites(m, t)
            \/ EnqueueClaimedWebhookPayloadOncePerDay(m)
    \/ \E w \in Workers : ClaimAsyncJob(w) \/ AttemptStep(w)
    \/ \E q \in Requests : JobAvailable(q)
    \/ Tick

Spec == Init /\ [][Next]_vars

\* The cron of saas_async_jobs, the goroutines and the clock go on; no call is
\* assumed to succeed, and nobody is assumed to resume or to release anything.
FairSpec ==
    /\ Spec
    /\ \A w \in Workers : WF_vars(ClaimAsyncJob(w)) /\ WF_vars(AttemptStep(w))
    /\ \A q \in Requests : WF_vars(JobAvailable(q))
    /\ WF_vars(Tick)

-----------------------------------------------------------------------------
(* Properties.                                                             *)

\* Type of every variable.
TypeOK ==
    /\ membership \in [Members -> {"active", "suspended", "revoked"}]
    /\ owner \in [Members -> BOOLEAN]
    /\ rows \in [Learners -> [TableNames -> 0 .. MaxRows + 1]]
    /\ webhookURL \subseteq Learners
    /\ hold \subseteq Learners
    /\ request \in [Requests -> [learner : Learners \cup {NoMember},
                                 kind    : Kinds \cup {"none"},
                                 status  : {"none", "pending", "processing", "blocked", "completed"}]]
    /\ phase \in [Requests -> [PhaseNames -> {"pending", "running", "blocked", "completed"}]]
    /\ jobs \in [Requests -> Rows]
    /\ worker \in [Workers -> [pc      : {"idle", "working", "park", "finalize"},
                               request : Requests \cup {NoRequest},
                               attempt : 0 .. MaxAttempts,
                               left    : 0 .. JobTimeout,
                               batch   : 0 .. Quantum - 1,
                               outcome : Outcomes]]
    /\ spent \in [Requests -> 0 .. MaxAttempts]
    /\ suspended \subseteq Requests

\* UpdateTenantMember: "the tenant always keeps one active owner".  Erasures
\* requested while another owner existed, demotions, transfers and the other
\* owner's own erasure may run in any order before access is revoked.
TenantKeepsOwner ==
    \E m \in Members : membership[m] = "active" /\ owner[m]

\* "Revoke live access before deleting even the first credential or data row": once
\* a request is completed the learner is out, and nothing only a signed-in member
\* writes is left, whatever they wrote while the phases ran.
ErasedLearnerIsOut ==
    \A q \in Requests : request[q].kind = "erase" /\ request[q].status = "completed" =>
        LET m == request[q].learner
        IN  /\ membership[m] = "revoked"
            /\ rows[m]["interactions"] = 0
            /\ rows[m]["availability"] = 0
            /\ m \notin webhookURL

\* The job is completed only with its request, although they are completed by two
\* transactions and workers stop, repeat and lose answers in between.
JobCompletedWithRequest ==
    \A q \in Requests : jobs[q].status = "completed" => request[q].status = "completed"

\* "A healthy erasure of arbitrary size must not consume the technical retry
\* budget", and a hold parks the job without consuming it: the attempts on the row
\* are those that ended in a settlement or a failure, and the one in progress.
OnlyFailuresSpendAttempts ==
    \A q \in Requests : jobs[q].status # "none" =>
        jobs[q].attempts = spent[q] + IF jobs[q].status = "processing" THEN 1 ELSE 0

\* Every request is eventually completed, blocked, or its job is dead-lettered.
EventuallyDecided ==
    \A q \in Requests : request[q].status = "pending" ~>
        \/ request[q].status \in {"completed", "blocked"}
        \/ jobs[q].status = "dead_letter"

\* store/store.go says of ErrTenantDSARBlocked: "a durable administrative suspension,
\* not a technical failure. The job remains parked until an authorized resume."  So
\* a job suspended by it does not end as a dead letter of a request that
\* ResumeTenantDSAR does not find.
SuspensionIsNotFailure ==
    \A q \in suspended : jobs[q].status = "dead_letter" => request[q].status = "blocked"

\* docs/institution-phase-8.md: "An erasure request removes everything the system
\* holds about a learner", so a completed one leaves no notification behind.
ErasureRemovesEverything ==
    \A q \in Requests : request[q].kind = "erase" /\ request[q].status = "completed" =>
        \A t \in TableNames : rows[request[q].learner][t] = 0
=============================================================================

---------------------------- MODULE SaaSDelivery ----------------------------
(***************************************************************************)
(* The outbox of one tenant and the delivery of its events to signed       *)
(* webhooks: outbox_events and its relay (db/saas_runtime.go,              *)
(* db/saas_worker.go), the tenant_webhook_delivery rows of async_jobs, the *)
(* rows of integration_deliveries, and the worker goroutines that claim a  *)
(* job, record an attempt, sign, POST and finalise (engine/saas_worker.go, *)
(* engine/saas_consumer.go).                                               *)
(*                                                                         *)
(* Every store call is one transaction and one action.  A worker or a      *)
(* relay may stop between any two of them (crash, panic, cancelled         *)
(* context, an error of the transaction itself): StopAttempt, StopRelay.   *)
(* FOR UPDATE SKIP LOCKED passes over rows a concurrent claim holds, so a  *)
(* claim may take any claimable row.                                       *)
(***************************************************************************)
EXTENDS AsyncJobs, FiniteSets

CONSTANTS
    Integrations,   \* tenant_integrations rows that may come to exist
    Events,         \* outbox_events rows that may come to exist
    Relays,         \* relaySaaSOutbox runs, over all worker processes
    NoEvent,
    MaxRelays       \* the 8 of FinishOutboxEvent

ASSUME SaaSDeliveryAssumption == MaxRelays \in Nat \ {0}

VARIABLES
    integrations,   \* active integrations subscribed to the event type
    outbox,         \* outbox_events
    relay,          \* what each relay run holds
    jobs,           \* async_jobs, by idempotency key <<integration, event>>
    deliveries,     \* integration_deliveries, by pair and attempt
    worker,         \* what each goroutine holds
    \* history, read by the properties only
    owedTo,         \* integrations that existed when the event was appended
    posts,          \* requests made per pair
    accepted        \* pairs the receiver accepted

stores == <<integrations, outbox, jobs, deliveries>>
history == <<owedTo, posts, accepted>>
vars == <<integrations, outbox, relay, jobs, deliveries, worker, owedTo, posts, accepted>>

Pairs == Integrations \X Events
Attempts == 1 .. MaxAttempts
NoPair == <<>>

IdleWorker == [pc |-> "idle", pair |-> NoPair, attempt |-> 0, left |-> 0,
               delivery |-> 0, outcome |-> "retry"]
IdleRelay == [pc |-> "idle", event |-> NoEvent, left |-> 0]

Init ==
    /\ integrations = {}
    /\ outbox = [e \in Events |-> [status |-> "none", attempts |-> 0,
                                   owner |-> NoEvent, lease |-> 0, waiting |-> FALSE]]
    /\ relay = [r \in Relays |-> IdleRelay]
    /\ jobs = [p \in Pairs |-> NoRow]
    /\ deliveries = [p \in Pairs |-> [a \in Attempts |-> "none"]]
    /\ worker = [w \in Workers |-> IdleWorker]
    /\ owedTo = [e \in Events |-> {}]
    /\ posts = [p \in Pairs |-> 0]
    /\ accepted = {}

-----------------------------------------------------------------------------
(* Producers.                                                              *)

CreateTenantIntegration(i) ==
    /\ i \notin integrations
    /\ integrations' = integrations \cup {i}
    /\ UNCHANGED <<outbox, relay, jobs, deliveries, worker, history>>

\* PublishFormationVersion appends its event in the transaction that publishes.
appendOutboxEvent(e) ==
    /\ outbox[e].status = "none"
    /\ outbox' = [outbox EXCEPT ![e].status = "pending"]
    /\ owedTo' = [owedTo EXCEPT ![e] = integrations]
    /\ UNCHANGED <<integrations, relay, jobs, deliveries, worker, posts, accepted>>

-----------------------------------------------------------------------------
(* RelayOutboxEvent: claim, fan out and finish are three transactions.  Its *)
(* context is schedulerDBTimeout, shorter than the lease: ClaimAge ticks.   *)

ClaimOutboxEvent(r, e) ==
    /\ relay[r].pc = "idle"
    /\ ~outbox[e].waiting
    /\ \/ outbox[e].status = "pending"
       \/ outbox[e].status = "processing" /\ outbox[e].lease = 0
    \* attempt_count has no cap; beyond MaxRelays no guard tells values apart
    /\ outbox' = [outbox EXCEPT ![e] =
            [@ EXCEPT !.status = "processing", !.owner = r, !.lease = Lease,
                      !.attempts = IF @ > MaxRelays THEN @ ELSE @ + 1]]
    /\ relay' = [relay EXCEPT ![r] = [pc |-> "fanout", event |-> e, left |-> ClaimAge + 1]]
    /\ UNCHANGED <<integrations, jobs, deliveries, worker, history>>

\* Mutant: one transaction per job, so a failure leaves some subscribers out
\* and the event is finished all the same.
RelayFanOutPartly(r) ==
    /\ relay[r].pc = "fanout" /\ relay[r].left > 0
    /\ \E S \in SUBSET integrations :
        jobs' = [p \in Pairs |-> IF p[2] = relay[r].event /\ p[1] \in S
                                 THEN EnqueueAsyncJob(jobs[p]) ELSE jobs[p]]
    /\ relay' = [relay EXCEPT ![r].pc = "delivered"]
    /\ UNCHANGED <<integrations, outbox, deliveries, worker, history>>

\* One job per subscribed integration, in one transaction.
FannedOut(e) ==
    [p \in Pairs |-> IF p[2] = e /\ p[1] \in integrations
                     THEN EnqueueAsyncJob(jobs[p]) ELSE jobs[p]]

RelayFanOut(r) ==
    /\ relay[r].pc = "fanout" /\ relay[r].left > 0
    /\ jobs' = FannedOut(relay[r].event)
    /\ relay' = [relay EXCEPT ![r].pc = "delivered"]
    /\ UNCHANGED <<integrations, outbox, deliveries, worker, history>>

\* The transaction fails, or commits and the answer is lost.
RelayFanOutFails(r) ==
    /\ relay[r].pc = "fanout" /\ relay[r].left > 0
    /\ jobs' \in {jobs, FannedOut(relay[r].event)}
    /\ relay' = [relay EXCEPT ![r].pc = "failed"]
    /\ UNCHANGED <<integrations, outbox, deliveries, worker, history>>

FinishOutboxEvent(r) ==
    LET e == relay[r].event
        released == [outbox[e] EXCEPT !.owner = NoEvent, !.lease = 0]
    IN  /\ relay[r].pc \in {"delivered", "failed"} /\ relay[r].left > 0
        /\ IF outbox[e].status = "processing" /\ outbox[e].owner = r
           THEN outbox' = [outbox EXCEPT ![e] =
                    IF relay[r].pc = "delivered"
                    THEN [released EXCEPT !.status = "delivered"]
                    ELSE [released EXCEPT
                            !.status = IF outbox[e].attempts >= MaxRelays
                                       THEN "dead_letter" ELSE "pending",
                            !.waiting = TRUE]]
           ELSE UNCHANGED outbox
        /\ relay' = [relay EXCEPT ![r] = IdleRelay]
        /\ UNCHANGED <<integrations, jobs, deliveries, worker, history>>

StopRelay(r) ==
    /\ relay[r].pc # "idle"
    /\ relay' = [relay EXCEPT ![r] = IdleRelay]
    /\ UNCHANGED <<stores, worker, history>>

-----------------------------------------------------------------------------
(* consumeSaaSScope and consumeSaaSJob.                                     *)

\* A goroutine whose job context is over starts nothing more.
Live(w) == worker[w].left > 0

ToFinalize(w, outcome, delivery) ==
    worker' = [worker EXCEPT ![w].pc = "finalize", ![w].outcome = outcome,
                             ![w].delivery = delivery]

\* Each goroutine claims under an owner of its own: s.owner "." newSchedulerOwner().
\* The job's 45 s start with the claim.  In the code they start after the claim was
\* announced on the results channel, a wait that no timeout bounds; the coordinator
\* reads that channel, and Lease - ClaimAge - JobTimeout is what the wait may take.
ClaimAsyncJob(w) ==
    /\ worker[w].pc = "idle"
    /\ \/ \E p \in Pairs, age \in 0 .. ClaimAge :
            /\ Claimable(jobs[p])
            /\ jobs' = [[q \in Pairs |-> Reconciled(jobs[q])] EXCEPT
                            ![p] = Claimed(jobs[p], w, age)]
            /\ worker' = [worker EXCEPT ![w] =
                    [IdleWorker EXCEPT !.pc = "claimed", !.pair = p, !.left = JobTimeout,
                                       !.attempt = jobs'[p].attempts]]
       \/ /\ ~\E p \in Pairs : Claimable(jobs[p])
          /\ \E p \in Pairs : Exhausted(jobs[p])
          /\ jobs' = [q \in Pairs |-> Reconciled(jobs[q])]
          /\ UNCHANGED worker
    /\ UNCHANGED <<integrations, outbox, relay, deliveries, history>>

\* A delivery some earlier attempt recorded wins; else the attempt's own row.
BeginIntegrationDelivery(w) ==
    LET p == worker[w].pair
        a == worker[w].attempt
        prior == {b \in Attempts : deliveries[p][b] = "delivered"}
    IN  /\ worker[w].pc = "claimed" /\ Live(w)
        /\ IF prior # {}
           THEN /\ ToFinalize(w, "completed", CHOOSE b \in prior : \A c \in prior : c <= b)
                /\ UNCHANGED deliveries
           ELSE /\ deliveries' = [deliveries EXCEPT ![p][a] = IF @ = "none" THEN "pending" ELSE @]
                /\ worker' = [worker EXCEPT ![w].pc = "begun", ![w].delivery = a]
        /\ UNCHANGED <<integrations, outbox, relay, jobs, history>>

\* The transaction fails, or commits and the answer is lost: retried.  A payload that
\* does not parse, or an integration that is not found, is permanent.
BeginFails(w) ==
    LET p == worker[w].pair
        a == worker[w].attempt
    IN  /\ worker[w].pc = "claimed" /\ Live(w)
        /\ \/ /\ deliveries' \in {deliveries,
                    [deliveries EXCEPT ![p][a] = IF @ = "none" THEN "pending" ELSE @]}
              /\ ToFinalize(w, "retry", 0)
           \/ /\ UNCHANGED deliveries
              /\ ToFinalize(w, "dead_letter", 0)
        /\ UNCHANGED <<integrations, outbox, relay, jobs, history>>

\* The integration may have become unusable (endpoint no longer allowlisted):
\* permanent; a failing query or key is retried.
PrepareTenantWebhook(w) ==
    /\ worker[w].pc = "begun" /\ Live(w)
    /\ \/ worker' = [worker EXCEPT ![w].pc = "prepared"]
       \/ ToFinalize(w, "retry", worker[w].delivery)
       \/ ToFinalize(w, "dead_letter", worker[w].delivery)
    /\ UNCHANGED <<stores, relay, history>>

\* Mutant: any answer counts as acceptance, whatever its status code.
PostAnyStatus(w) ==
    LET p == worker[w].pair
    IN  /\ worker[w].pc = "prepared" /\ Live(w)
        /\ posts' = [posts EXCEPT ![p] = @ + 1]
        /\ accepted' \in {accepted, accepted \cup {p}}
        /\ ToFinalize(w, "completed", worker[w].delivery)
        /\ UNCHANGED <<stores, relay, owedTo>>

\* Mutant: a transport error is retried within the attempt.
PostAgain(w) ==
    LET p == worker[w].pair
    IN  /\ worker[w].pc = "prepared" /\ Live(w)
        /\ posts' = [posts EXCEPT ![p] = @ + 1]
        /\ \/ accepted' = accepted \cup {p} /\ ToFinalize(w, "completed", worker[w].delivery)
           \/ accepted' = accepted /\ UNCHANGED worker
        /\ UNCHANGED <<stores, relay, owedTo>>

\* integrationClient.Do: accepted (2xx), refused with a retryable or another
\* status, or a transport error, which the receiver may have accepted.
Post(w) ==
    LET p == worker[w].pair
    IN  /\ worker[w].pc = "prepared" /\ Live(w)
        /\ posts' = [posts EXCEPT ![p] = @ + 1]
        /\ \/ accepted' = accepted \cup {p} /\ ToFinalize(w, "completed", worker[w].delivery)
           \/ accepted' = accepted \cup {p} /\ ToFinalize(w, "retry", worker[w].delivery)
           \/ accepted' = accepted /\ ToFinalize(w, "retry", worker[w].delivery)
           \/ accepted' = accepted /\ ToFinalize(w, "dead_letter", worker[w].delivery)
        /\ UNCHANGED <<stores, relay, owedTo>>

\* The checks of FinalizeAsyncJobAttempt that are not the compare-and-swap.
DeliveryBinding(p, attempt, delivery, outcome) ==
    IF delivery = 0
    THEN outcome # "completed"
    ELSE \/ /\ deliveries[p][delivery] = "delivered"
            /\ outcome = "completed"
            /\ delivery <= attempt
         \/ /\ deliveries[p][delivery] = "pending"
            /\ delivery = attempt

DeliveryStatus(outcome) ==
    CASE outcome = "completed" -> "delivered"
      [] outcome = "dead_letter" -> "dead_letter"
      [] OTHER -> "failed"

\* Mutant: the delivery row is written, the job row in a later transaction
\* that a stopped goroutine never reaches.
FinalizeDeliveryOnly(w) ==
    LET p == worker[w].pair
        a == worker[w].attempt
        d == worker[w].delivery
        outcome == EffectiveOutcome(worker[w].outcome, a)
    IN  /\ worker[w].pc = "finalize" /\ Live(w)
        /\ IF HeldBy(jobs[p], w, a) /\ DeliveryBinding(p, a, d, outcome) /\ d # 0
           THEN /\ deliveries' = [deliveries EXCEPT ![p][d] = DeliveryStatus(outcome)]
                /\ jobs' \in {jobs, [jobs EXCEPT ![p] = Finalized(@, outcome)]}
           ELSE UNCHANGED <<jobs, deliveries>>
        /\ worker' = [worker EXCEPT ![w] = IdleWorker]
        /\ UNCHANGED <<integrations, outbox, relay, history>>

FinalizeAsyncJobAttempt(w) ==
    LET p == worker[w].pair
        a == worker[w].attempt
        d == worker[w].delivery
        outcome == EffectiveOutcome(worker[w].outcome, a)
    IN  /\ worker[w].pc = "finalize" /\ Live(w)
        /\ IF HeldBy(jobs[p], w, a) /\ DeliveryBinding(p, a, d, outcome)
           THEN /\ jobs' = [jobs EXCEPT ![p] = Finalized(@, outcome)]
                /\ IF d = 0 \/ deliveries[p][d] = "delivered"
                   THEN UNCHANGED deliveries
                   ELSE deliveries' = [deliveries EXCEPT ![p][d] = DeliveryStatus(outcome)]
           ELSE UNCHANGED <<jobs, deliveries>>
        /\ worker' = [worker EXCEPT ![w] = IdleWorker]
        /\ UNCHANGED <<integrations, outbox, relay, history>>

StopAttempt(w) ==
    /\ worker[w].pc # "idle"
    /\ worker' = [worker EXCEPT ![w] = IdleWorker]
    /\ UNCHANGED <<stores, relay, history>>

-----------------------------------------------------------------------------
(* Time.                                                                   *)

\* Mutant: the job context has no deadline of its own.
TickUnbounded ==
    /\ outbox' = [e \in Events |-> [outbox[e] EXCEPT !.lease = Older(@)]]
    /\ relay' = [r \in Relays |-> [relay[r] EXCEPT !.left = Older(@)]]
    /\ jobs' = [p \in Pairs |-> [jobs[p] EXCEPT !.lease = Older(@)]]
    /\ UNCHANGED <<integrations, deliveries, worker, history>>

Tick ==
    /\ outbox' = [e \in Events |-> [outbox[e] EXCEPT !.lease = Older(@)]]
    /\ relay' = [r \in Relays |-> [relay[r] EXCEPT !.left = Older(@)]]
    /\ jobs' = [p \in Pairs |-> [jobs[p] EXCEPT !.lease = Older(@)]]
    /\ worker' = [w \in Workers |-> [worker[w] EXCEPT !.left = Older(@)]]
    /\ UNCHANGED <<integrations, deliveries, history>>

\* available_at of a job (saasRetryAt) or of an event comes.
JobAvailable(p) ==
    /\ jobs[p].waiting
    /\ jobs' = [jobs EXCEPT ![p].waiting = FALSE]
    /\ UNCHANGED <<integrations, outbox, relay, deliveries, worker, history>>

EventAvailable(e) ==
    /\ outbox[e].waiting
    /\ outbox' = [outbox EXCEPT ![e].waiting = FALSE]
    /\ UNCHANGED <<integrations, relay, jobs, deliveries, worker, history>>

RelayStep(r) ==
    \/ \E e \in Events : ClaimOutboxEvent(r, e)
    \/ RelayFanOut(r) \/ RelayFanOutFails(r) \/ FinishOutboxEvent(r) \/ StopRelay(r)

AttemptStep(w) ==
    \/ BeginIntegrationDelivery(w) \/ BeginFails(w) \/ PrepareTenantWebhook(w)
    \/ Post(w) \/ FinalizeAsyncJobAttempt(w) \/ StopAttempt(w)

Next ==
    \/ \E i \in Integrations : CreateTenantIntegration(i)
    \/ \E e \in Events : appendOutboxEvent(e) \/ EventAvailable(e)
    \/ \E r \in Relays : RelayStep(r)
    \/ \E w \in Workers : ClaimAsyncJob(w) \/ AttemptStep(w)
    \/ \E p \in Pairs : JobAvailable(p)
    \/ Tick

Spec == Init /\ [][Next]_vars

\* Cron fires saas_outbox and saas_async_jobs every minute for as long as a
\* worker process is up, goroutines run or stop, and the clock advances.  No
\* fairness asks a request or a transaction to succeed.
FairSpec ==
    /\ Spec
    /\ \A w \in Workers : WF_vars(ClaimAsyncJob(w)) /\ WF_vars(AttemptStep(w))
    /\ \A p \in Pairs : WF_vars(JobAvailable(p))
    /\ WF_vars(Tick)

-----------------------------------------------------------------------------
(* Properties.                                                             *)

\* Type of every variable.
TypeOK ==
    /\ integrations \subseteq Integrations
    /\ outbox \in [Events -> [status   : {"none", "pending", "processing",
                                          "delivered", "dead_letter"},
                              attempts : 0 .. MaxRelays + 1,
                              owner    : Relays \cup {NoEvent},
                              lease    : 0 .. Lease,
                              waiting  : BOOLEAN]]
    /\ relay \in [Relays -> [pc    : {"idle", "fanout", "delivered", "failed"},
                             event : Events \cup {NoEvent},
                             left  : 0 .. ClaimAge + 1]]
    /\ jobs \in [Pairs -> Rows]
    /\ deliveries \in [Pairs -> [Attempts ->
            {"none", "pending", "delivered", "failed", "dead_letter"}]]
    /\ worker \in [Workers -> [pc       : {"idle", "claimed", "begun", "prepared", "finalize"},
                               pair     : Pairs \cup {NoPair},
                               attempt  : 0 .. MaxAttempts,
                               left     : 0 .. JobTimeout,
                               delivery : 0 .. MaxAttempts,
                               outcome  : Outcomes]]
    /\ owedTo \in [Events -> SUBSET Integrations]
    /\ posts \in [Pairs -> Nat]
    /\ accepted \subseteq Pairs

\* "Every active attempt is bounded well below the two-minute lease": as long as
\* a goroutine may still act, the job row is leased to it, under its attempt
\* number, so no other goroutine works on the job and neither the reconciliation
\* nor a later claim can make its finalisation lose the lease.  The relay of an
\* event likewise.
LeaseOutlivesAttempt ==
    /\ \A w \in Workers : Live(w) => HeldBy(jobs[worker[w].pair], w, worker[w].attempt)
    /\ \A r \in Relays : relay[r].left > 0 =>
            LET row == outbox[relay[r].event]
            IN  row.status = "processing" /\ row.owner = r /\ row.lease > 0

\* FinalizeAsyncJobAttempt "owns both durable transitions": a job is completed
\* exactly when one of its attempts is recorded as delivered, never two of them,
\* and an attempt is dead-lettered only with its job.
SettledTogether ==
    \A p \in Pairs :
        LET with(s) == {a \in Attempts : deliveries[p][a] = s}
        IN  /\ jobs[p].status = "completed" <=> with("delivered") # {}
            /\ Cardinality(with("delivered")) <= 1
            /\ with("dead_letter") # {} => jobs[p].status = "dead_letter"

\* Each claim pays for at most one request, whatever stops or is taken over in
\* between, so max_attempts bounds the requests a receiver sees for an event.
OnePostPerAttempt ==
    \A p \in Pairs : posts[p] <= jobs[p].attempts

\* The relay's "exact job idempotency makes lease recovery safe after a crash at
\* any statement boundary": an event marked delivered has a job for every
\* integration that was subscribed when the event was appended.
NoSubscriberMissed ==
    \A e \in Events : outbox[e].status = "delivered" =>
        \A i \in owedTo[e] : jobs[<<i, e>>].status # "none"

\* What the whole pipeline promises of each pair, forgetting how.
Debt(row) ==
    CASE row.status = "none" -> "none"
      [] row.status = "completed" -> "delivered"
      [] row.status = "dead_letter" -> "abandoned"
      [] OTHER -> "owed"

Promise == INSTANCE AtLeastOnceDelivery
    WITH MaxSends <- MaxAttempts, debt <- [p \in Pairs |-> Debt(jobs[p])],
         sends <- posts, accepted <- accepted

\* The pipeline implements the at-least-once contract with the receiver: jobs,
\* leases, takeovers and reconciliation never send an event that is settled,
\* never exceed the budget, and never record a delivery nobody accepted.
ImplementsAtLeastOnce == Promise!Spec

\* Every enqueued delivery is eventually completed or dead-lettered, even when
\* workers stop on any attempt, the last one included.
EventuallySettled ==
    \A p \in Pairs : jobs[p].status # "none" ~> Settled(jobs[p])
=============================================================================

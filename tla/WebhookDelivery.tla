-------------------------- MODULE WebhookDelivery --------------------------
(***************************************************************************)
(* Durable webhook delivery for one learner: the rows of                   *)
(* webhook_message_queue and of scheduled_alerts (db/webhook_queue.go,     *)
(* db/availability.go), the scheduler goroutines that claim rows, bind     *)
(* them to a notification reservation, POST them and record the outcome    *)
(* (engine/scheduler.go), the hourly cleanup and the operator's            *)
(* tutor-webhook-admin.                                                    *)
(*                                                                         *)
(* Every store call is one transaction and one action; a goroutine may     *)
(* stop between two of them.  The foreign key from queue rows to           *)
(* scheduled_alerts is part of the model: deleting a reservation that a    *)
(* row still references fails and rolls the transaction back.              *)
(*                                                                         *)
(* Time.  claimed_at and dispatch_started_at hold the instant the cron job *)
(* started, not the instant of the claim, so any claim may already be      *)
(* stale when cleanup looks at it.  The two durations that are compared    *)
(* with each other, the 30 s a goroutine may work on a learner and the     *)
(* 1 min of the shortest backoff, appear in BackoffElapses.                *)
(***************************************************************************)
EXTENDS Integers, FiniteSets

CONSTANTS
    Messages,       \* ids of queue rows that may come to exist
    Workers,        \* goroutines of webhook jobs, over all processes
    Slots,          \* 1..n: ids of scheduled_alerts rows
    AlertTypes,     \* alert types, one per message kind family
    Batched,        \* types whose rows share one request (OLM)
    MaxAttempts,    \* max_attempts of every row
    MaxPending,     \* MaxPendingWebhookMessagesPerLearner
    DailyCap,       \* availability.MaxNotificationsPerDay
    Frequency,      \* availability.NotificationFrequency
    LastDay         \* bound: local days the model looks at, all of one week

ASSUME WebhookAssumption ==
    /\ Slots \subseteq Nat \ {0}
    /\ Batched \subseteq AlertTypes
    /\ MaxAttempts \in Nat \ {0}
    /\ MaxPending \in Nat \ {0}
    /\ DailyCap \in Nat \ {0}
    /\ Frequency \in {"as_scheduled", "daily", "weekly"}
    /\ LastDay \in 1 .. 7

VARIABLES
    queue,      \* webhook_message_queue
    alerts,     \* scheduled_alerts
    worker,     \* what each goroutine holds in its local variables
    today,      \* the learner's local day
    \* history, read by the properties only
    accepted,   \* requests carrying the row that the endpoint accepted
    authorised  \* retries of the row an operator authorised

vars == <<queue, alerts, worker, today, accepted, authorised>>
history == <<accepted, authorised>>

Days == 1 .. LastDay
NoSlot == 0
NoType == "none"

Row == [status : {"absent", "pending", "processing", "dispatching", "sent",
                  "failed", "expired", "delivery_unknown"},
        type : AlertTypes \union {NoType},
        slot : Slots \union {NoSlot},   \* reservation_id
        attempts : 0 .. MaxAttempts,    \* attempt_count
        due : BOOLEAN,                  \* next_attempt_at has passed
        past : BOOLEAN]                 \* expires_at has passed

AbsentRow == [status |-> "absent", type |-> NoType, slot |-> NoSlot,
              attempts |-> 0, due |-> FALSE, past |-> FALSE]

Alert == [state : {"absent", "reserved", "delivery_unknown", "delivered"},
          type : AlertTypes \union {NoType},
          day : Days]                   \* created_at, as a local day

AbsentAlert == [state |-> "absent", type |-> NoType, day |-> 1]

\* "claiming": claimNextPendingWebhook calls; "fallback": no live row of the
\* kind was found; "claimed": the fallback row has been added; "releasing":
\* inside releaseWebhookClaims; "prepared": PrepareWebhookDelivery committed;
\* "sending": BeginWebhookDelivery committed; "answered": the POST returned.
Local == [pc : {"idle", "claiming", "fallback", "claimed", "releasing",
                "prepared", "sending", "answered"},
          type : AlertTypes \union {NoType},
          rows : SUBSET Messages,       \* queueIDs
          slot : Slots \union {NoSlot},
          day : Days,                   \* the job's now, as a local day
          over : SUBSET Messages,       \* rows expired at the job's now
          live : BOOLEAN,               \* targetCtx has not expired
          outcome : {"none", "delivered", "rejected", "unknown"}]

Idle == [pc |-> "idle", type |-> NoType, rows |-> {}, slot |-> NoSlot,
         day |-> 1, over |-> {}, live |-> FALSE, outcome |-> "none"]

Init ==
    /\ queue = [i \in Messages |-> AbsentRow]
    /\ alerts = [r \in Slots |-> AbsentAlert]
    /\ worker = [w \in Workers |-> Idle]
    /\ today = 1
    /\ accepted = [i \in Messages |-> 0]
    /\ authorised = [i \in Messages |-> 0]

------------------------------------------------------------------------------
(* scheduled_alerts *)

Referenced(q, r) == \E i \in Messages : q[i].slot = r

\* Ids come from a sequence: a fresh one is used by no row and no goroutine.
FreshSlots == {r \in Slots : /\ alerts[r].state = "absent"
                             /\ ~Referenced(queue, r)
                             /\ \A w \in Workers : worker[w].slot # r}
NewSlot == CHOOSE r \in FreshSlots : \A s \in FreshSlots : r <= s

OfDay(d) == {r \in Slots : alerts[r].state # "absent" /\ alerts[r].day = d}

\* NotificationBounds: the reservations that use up the period of day d.
InPeriod(d) == IF Frequency = "daily" THEN OfDay(d)
               ELSE IF Frequency = "weekly" THEN UNION {OfDay(e) : e \in Days}
               ELSE {}

\* The quota part of reserveNotificationDeliveryLocked.
CanReserve(t, d) ==
    /\ FreshSlots # {}
    /\ ~ \E r \in OfDay(d) : alerts[r].type = t
    /\ Cardinality(OfDay(d)) < DailyCap
    /\ InPeriod(d) = {}

Reservation(t, d) == [state |-> "reserved", type |-> t, day |-> d]

\* deleteWebhookNotificationReservation succeeds: exactly one row in the
\* expected state, and the foreign key holds once the rows have become q.
Deletable(q, r, state) == alerts[r].state = state /\ ~Referenced(q, r)

\* Mutant: the reservation is left behind.
KeptUnreferenced(q, R, state) == alerts

\* deleteWebhookNotificationReservationIfUnreferenced for every r of R.
DeleteUnreferenced(q, R, state) ==
    [r \in Slots |-> IF r \in R /\ Deletable(q, r, state)
                       THEN AbsentAlert ELSE alerts[r]]

------------------------------------------------------------------------------
(* Enqueueing *)

Pending == {i \in Messages : queue[i].status = "pending"}

NewRow(t, r) == [status |-> "pending", type |-> t, slot |-> r,
                 attempts |-> 0, due |-> TRUE, past |-> FALSE]

EnqueueWebhookMessage(i, t) ==
    /\ queue[i].status = "absent"
    /\ Cardinality(Pending) < MaxPending
    /\ queue' = [queue EXCEPT ![i] = NewRow(t, NoSlot)]
    /\ UNCHANGED <<alerts, worker, today, history>>

\* A mirror message takes its slot of the day when it is enqueued.
EnqueueWebhookMessageOncePerDay(i, t) ==
    /\ t \notin Batched
    /\ queue[i].status = "absent"
    /\ CanReserve(t, today)
    /\ Cardinality(Pending) < MaxPending
    /\ queue' = [queue EXCEPT ![i] = NewRow(t, NewSlot)]
    /\ alerts' = [alerts EXCEPT ![NewSlot] = Reservation(t, today)]
    /\ UNCHANGED <<worker, today, history>>

\* Archiving or deleting the domain of a row expires it, slot and all.
expireWebhookMessagesForDomain(i) ==
    /\ queue[i].status \in {"pending", "processing"}
    /\ queue' = [queue EXCEPT ![i].status = "expired", ![i].due = FALSE]
    /\ UNCHANGED <<alerts, worker, today, history>>

------------------------------------------------------------------------------
(* A goroutine's work on the learner: dispatchWebhookTarget *)

SetWorker(w, l) == worker' = [worker EXCEPT ![w] = l]

\* A job of type t reaches the learner; its now was read when it started.
StartTarget(w, t) ==
    /\ worker[w].pc = "idle"
    /\ SetWorker(w, [Idle EXCEPT !.pc = "claiming", !.type = t, !.day = today,
                       !.over = {i \in Messages : queue[i].past},
                       !.live = TRUE])
    /\ UNCHANGED <<queue, alerts, today, history>>

\* targetCtx passes its deadline while the request is about to leave: every
\* later store call of w fails, the request itself does not.
DeadlineExpires(w) ==
    /\ worker[w].pc = "sending" /\ worker[w].live
    /\ worker' = [worker EXCEPT ![w].live = FALSE]
    /\ UNCHANGED <<queue, alerts, today, history>>

\* w ends without touching the database: its process dies, its deadline passes
\* and the remaining calls fail, or there was nothing to send.
StopTarget(w) ==
    /\ worker[w].pc # "idle"
    /\ SetWorker(w, Idle)
    /\ UNCHANGED <<queue, alerts, today, history>>

Claimed(row) == [row EXCEPT !.status = "processing", !.attempts = @ + 1]

Claimable(w, i) ==
    /\ queue[i].status = "pending"
    /\ queue[i].type = worker[w].type
    /\ queue[i].due
    /\ queue[i].attempts < MaxAttempts
    /\ i \notin worker[w].over

\* ClaimNextPendingWebhook.  The OLM job claims one row per domain, the other
\* jobs one row; every message of the model has a domain of its own.
ClaimNextPendingWebhook(w, i) ==
    /\ worker[w].pc = "claiming" /\ worker[w].live
    /\ worker[w].rows = {} \/ worker[w].type \in Batched
    /\ Claimable(w, i)
    /\ queue' = [queue EXCEPT ![i] = Claimed(@)]
    /\ worker' = [worker EXCEPT ![w].rows = @ \union {i}]
    /\ UNCHANGED <<alerts, today, history>>

Live(i) == /\ queue[i].status \in {"pending", "processing", "dispatching",
                                   "delivery_unknown"}
           /\ ~queue[i].past

\* prepareQueuedTarget falls back on a generated message only when no row of
\* the kind is live; prepareOLMTarget does so for every domain without a row.
HasLiveWebhookMessageKind(w) ==
    /\ worker[w].pc = "claiming" /\ worker[w].live
    /\ \/ worker[w].type \in Batched
       \/ /\ worker[w].rows = {}
          /\ ~ \E i \in Messages : queue[i].type = worker[w].type /\ Live(i)
    /\ worker' = [worker EXCEPT ![w].pc = "fallback"]
    /\ UNCHANGED <<queue, alerts, today, history>>

\* EnqueueClaimedWebhookPayloadOncePerDay: reservation, row and claim at once.
EnqueueClaimed(w, i) ==
    LET l == worker[w] IN
    /\ l.pc = "fallback" /\ l.live
    /\ queue[i].status = "absent"
    /\ CanReserve(l.type, l.day)
    /\ Cardinality(Pending) < MaxPending
    /\ queue' = [queue EXCEPT ![i] = Claimed(NewRow(l.type, NewSlot))]
    /\ alerts' = [alerts EXCEPT ![NewSlot] = Reservation(l.type, l.day)]
    /\ SetWorker(w, [l EXCEPT !.pc = "claimed", !.rows = @ \union {i}])
    /\ UNCHANGED <<today, history>>

\* Nothing after the preparation reads the type, nor compares expiries.
PastPreparation(l) == [l EXCEPT !.type = NoType, !.over = {}]

\* Every pre-HTTP refusal ends here: no fallback slot, an unusable URL or
\* accessibility policy, an inactive domain, a failed or denied preparation.
GiveUp(w) ==
    /\ worker[w].pc \in {"claiming", "fallback", "claimed"}
    /\ worker[w].rows # {}
    /\ SetWorker(w, [PastPreparation(worker[w]) EXCEPT !.pc = "releasing"])
    /\ UNCHANGED <<queue, alerts, today, history>>

\* The row of a claim given back before the HTTP boundary.
Released(row) ==
    [row EXCEPT !.status = "pending", !.slot = NoSlot,
                !.attempts = IF @ > 0 THEN @ - 1 ELSE 0]

\* One turn of releaseWebhookClaims.  A row that is not processing, or whose
\* reservation cannot be deleted, is logged and left alone.
ReleaseWebhookClaim(w, i) ==
    LET l == worker[w]
        r == queue[i].slot
        q == [queue EXCEPT ![i] = Released(@)]
        done == l.rows = {i} IN
    /\ l.pc = "releasing" /\ l.live
    /\ i \in l.rows
    /\ IF queue[i].status = "processing" /\ (r = NoSlot \/ Deletable(q, r, "reserved"))
         THEN /\ queue' = q
              /\ alerts' = DeleteUnreferenced(q, {r}, "reserved")
         ELSE UNCHANGED <<queue, alerts>>
    /\ SetWorker(w, IF done THEN Idle ELSE [l EXCEPT !.rows = @ \ {i}])
    /\ UNCHANGED <<today, history>>

\* Mutant: the failure counts the attempt a second time.
FailureCountsAgain(row) ==
    [row EXCEPT !.status = IF row.past THEN "expired"
                           ELSE IF row.attempts >= MaxAttempts THEN "failed"
                           ELSE "pending",
                !.attempts = @ + 1, !.slot = NoSlot, !.due = FALSE]

\* recordWebhookFailureFromStatus: expiration first, then the dead-letter
\* queue, then backoff.
Failure(row) ==
    [row EXCEPT !.status = IF row.past THEN "expired"
                           ELSE IF row.attempts >= MaxAttempts THEN "failed"
                           ELSE "pending",
                !.slot = NoSlot, !.due = FALSE]

\* RecordWebhookFailure: the stored payload of a fallback cannot be decoded.
RecordWebhookFailure(w, i) ==
    LET l == worker[w]
        r == queue[i].slot
        q == [queue EXCEPT ![i] = Failure(@)] IN
    /\ l.pc = "claiming" /\ l.live
    /\ i \in l.rows
    /\ IF queue[i].status = "processing" /\ (r = NoSlot \/ Deletable(q, r, "reserved"))
         THEN /\ queue' = q
              /\ alerts' = DeleteUnreferenced(q, {r}, "reserved")
         ELSE UNCHANGED <<queue, alerts>>
    /\ SetWorker(w, IF l.type \in Batched THEN [l EXCEPT !.rows = @ \ {i}]
                                          ELSE Idle)
    /\ UNCHANGED <<today, history>>

SlotsOf(R) == {queue[i].slot : i \in R} \ {NoSlot}

\* The checks of PrepareWebhookDelivery that end in an error.
Preparable(l) ==
    /\ \A i \in l.rows : queue[i].status = "processing"
    /\ Cardinality(SlotsOf(l.rows)) <= 1
    /\ \A r \in SlotsOf(l.rows) : /\ alerts[r].state = "reserved"
                                  /\ alerts[r].type = l.type

\* PrepareWebhookDelivery: bind every row to one reservation, the one a row
\* already carries or a new one.  A refusal or an error is GiveUp.
PrepareWebhookDelivery(w) ==
    LET l == worker[w]
        bound == SlotsOf(l.rows)
        r == IF bound = {} THEN NewSlot ELSE CHOOSE s \in bound : TRUE IN
    /\ l.pc \in {"claiming", "claimed"} /\ l.live
    /\ l.rows # {}
    /\ Preparable(l)
    /\ bound = {} => CanReserve(l.type, l.day)
    /\ alerts' = IF bound = {}
                   THEN [alerts EXCEPT ![r] = Reservation(l.type, l.day)]
                   ELSE alerts
    /\ queue' = [i \in Messages |-> IF i \in l.rows
                                      THEN [queue[i] EXCEPT !.slot = r]
                                      ELSE queue[i]]
    /\ SetWorker(w, [PastPreparation(l) EXCEPT !.pc = "prepared", !.slot = r])
    /\ UNCHANGED <<today, history>>

\* Mutant: the reservation is compared, the status is not.
ValidatedBySlot(l, status) == \A i \in l.rows : queue[i].slot = l.slot

\* validateWebhookDeliveryItems.
Validated(l, status) ==
    \A i \in l.rows : queue[i].status = status /\ queue[i].slot = l.slot

WithRows(R, Op(_)) ==
    [i \in Messages |-> IF i \in R THEN Op(queue[i]) ELSE queue[i]]

\* Mutant: the HTTP boundary is crossed in memory only.
BeginUnpersisted(w) ==
    LET l == worker[w] IN
    /\ l.pc = "prepared" /\ l.live
    /\ Validated(l, "processing")
    /\ SetWorker(w, [l EXCEPT !.pc = "sending"])
    /\ UNCHANGED <<queue, alerts, today, history>>

\* BeginWebhookDelivery: the persisted HTTP boundary.
BeginWebhookDelivery(w) ==
    LET l == worker[w]
        Begun(row) == [row EXCEPT !.status = "dispatching"] IN
    /\ l.pc = "prepared" /\ l.live
    /\ Validated(l, "processing")
    /\ queue' = WithRows(l.rows, Begun)
    /\ SetWorker(w, [l EXCEPT !.pc = "sending"])
    /\ UNCHANGED <<alerts, today, history>>

\* ReleasePreparedWebhookDelivery, called when BeginWebhookDelivery returned
\* an error: a lost claim, or the database itself.
ReleasePreparedWebhookDelivery(w) ==
    LET l == worker[w]
        q == WithRows(l.rows, Released) IN
    /\ l.pc = "prepared" /\ l.live
    /\ IF Validated(l, "processing") /\ Deletable(q, l.slot, "reserved")
         THEN /\ queue' = q
              /\ alerts' = DeleteUnreferenced(q, {l.slot}, "reserved")
         ELSE UNCHANGED <<queue, alerts>>
    /\ SetWorker(w, Idle)
    /\ UNCHANGED <<today, history>>

\* doOnceClassified.  client.Post carries no context, so the request leaves
\* even when targetCtx has expired.  A transport error hides whether the
\* endpoint accepted the request.
Post(w, outcome, accepts) ==
    LET l == worker[w] IN
    /\ l.pc = "sending"
    /\ outcome = "delivered" => accepts
    /\ outcome = "rejected" => ~accepts
    /\ SetWorker(w, IF l.live THEN [l EXCEPT !.pc = "answered", !.outcome = outcome]
                              ELSE Idle)
    /\ accepted' = [i \in Messages |->
                      accepted[i] + (IF accepts /\ i \in l.rows THEN 1 ELSE 0)]
    /\ UNCHANGED <<queue, alerts, today, authorised>>

\* Mutant: only one row of a batch is completed.
CompleteOneRow(w) ==
    LET l == worker[w]
        Sent(row) == [row EXCEPT !.status = "sent", !.due = FALSE] IN
    /\ l.pc = "answered" /\ l.live /\ l.outcome = "delivered"
    /\ Validated(l, "dispatching") /\ alerts[l.slot].state = "reserved"
    /\ queue' = WithRows({CHOOSE i \in l.rows : TRUE}, Sent)
    /\ alerts' = [alerts EXCEPT ![l.slot].state = "delivered"]
    /\ SetWorker(w, Idle)
    /\ UNCHANGED <<today, history>>

\* CompleteWebhookDelivery: rows and reservation end together.
CompleteWebhookDelivery(w) ==
    LET l == worker[w]
        Sent(row) == [row EXCEPT !.status = "sent", !.due = FALSE] IN
    /\ l.pc = "answered" /\ l.live /\ l.outcome = "delivered"
    /\ Validated(l, "dispatching") /\ alerts[l.slot].state = "reserved"
    /\ queue' = WithRows(l.rows, Sent)
    /\ alerts' = [alerts EXCEPT ![l.slot].state = "delivered"]
    /\ SetWorker(w, Idle)
    /\ UNCHANGED <<today, history>>

\* RecordKnownWebhookDeliveryFailure: the endpoint said no.
RecordKnownWebhookDeliveryFailure(w) ==
    LET l == worker[w]
        q == WithRows(l.rows, Failure) IN
    /\ l.pc = "answered" /\ l.live /\ l.outcome = "rejected"
    /\ Validated(l, "dispatching") /\ Deletable(q, l.slot, "reserved")
    /\ queue' = q
    /\ alerts' = DeleteUnreferenced(q, {l.slot}, "reserved")
    /\ SetWorker(w, Idle)
    /\ UNCHANGED <<today, history>>

Quarantined(row) == [row EXCEPT !.status = "delivery_unknown", !.due = FALSE]

\* MarkWebhookDeliveryUnknown: nobody knows what the endpoint did.
MarkWebhookDeliveryUnknown(w) ==
    LET l == worker[w] IN
    /\ l.pc = "answered" /\ l.live /\ l.outcome = "unknown"
    /\ Validated(l, "dispatching") /\ alerts[l.slot].state = "reserved"
    /\ queue' = WithRows(l.rows, Quarantined)
    /\ alerts' = [alerts EXCEPT ![l.slot].state = "delivery_unknown"]
    /\ SetWorker(w, Idle)
    /\ UNCHANGED <<today, history>>

------------------------------------------------------------------------------
(* Cleanup and the operator *)

\* Mutant: only claims before the HTTP boundary are reconciled.
StaleProcessingClaims == {i \in Messages : queue[i].status = "processing"}

\* The rows that may be stale: all that are claimed.
StaleClaims == {i \in Messages : queue[i].status \in {"processing", "dispatching"}}

Dispatching(T) == {i \in T : queue[i].status = "dispatching"}

\* What reconciliation makes of one stale row.
Reconciled(row) == IF row.status = "dispatching" THEN Quarantined(row)
                                                 ELSE Failure(row)

\* RequeueStaleWebhookClaims for the rows T that the SELECT returns: LIMIT 1000
\* and SKIP LOCKED may leave out any of the stale rows, those of a request that
\* T has another row of included.  One transaction, given up as a whole when the
\* reservation of a dispatching row is no longer open.
RequeueStaleWebhookClaims(T) ==
    LET q == WithRows(T, Reconciled)
        crossed == SlotsOf(Dispatching(T)) IN
    /\ T # {}
    /\ \A r \in crossed : alerts[r].state \in {"reserved", "delivery_unknown"}
    /\ queue' = q
    /\ alerts' = [r \in Slots |->
                    IF r \in crossed
                      THEN [alerts[r] EXCEPT !.state = "delivery_unknown"]
                      ELSE DeleteUnreferenced(q, SlotsOf(T), "reserved")[r]]
    /\ UNCHANGED <<worker, today, history>>

\* ExpirePastWebhookMessages, one row of its page.
ExpirePastWebhookMessages(i) ==
    LET q == [queue EXCEPT ![i] = Failure(@)] IN
    /\ queue[i].status = "pending" /\ queue[i].past
    /\ queue' = q
    /\ alerts' = DeleteUnreferenced(q, {queue[i].slot}, "reserved")
    /\ UNCHANGED <<worker, today, history>>

\* ResolveWebhookDeliveryUnknown(delivered = true).
ResolveDelivered(i) ==
    LET r == queue[i].slot IN
    /\ queue[i].status = "delivery_unknown"
    /\ r # NoSlot
    /\ alerts[r].state = "delivery_unknown"
    /\ queue' = [queue EXCEPT ![i].status = "sent"]
    /\ alerts' = [alerts EXCEPT ![r].state = "delivered"]
    /\ UNCHANGED <<worker, today, history>>

\* ResolveWebhookDeliveryUnknown(delivered = false).
ResolveNotDelivered(i) ==
    LET q == [queue EXCEPT ![i] = Failure(@)] IN
    /\ queue[i].status = "delivery_unknown"
    /\ queue' = q
    /\ alerts' = DeleteUnreferenced(q, {queue[i].slot}, "delivery_unknown")
    /\ authorised' = [authorised EXCEPT ![i] = @ + 1]
    /\ UNCHANGED <<worker, today, accepted>>

------------------------------------------------------------------------------
(* The clock *)

\* Mutant: the shortest backoff is shorter than the work deadline.
BackoffAtOnce(i) ==
    /\ queue[i].status = "pending" /\ ~queue[i].due
    /\ queue' = [queue EXCEPT ![i].due = TRUE]
    /\ UNCHANGED <<alerts, worker, today, history>>

\* next_attempt_at passes.  The shortest delay of webhookRetryDelays (1 min)
\* exceeds defaultLearnerWorkDeadline (30 s): whoever held the row when the
\* delay began has lost its context by now.
BackoffElapses(i) ==
    /\ queue[i].status = "pending" /\ ~queue[i].due
    /\ \A w \in Workers : i \in worker[w].rows => ~worker[w].live
    /\ queue' = [queue EXCEPT ![i].due = TRUE]
    /\ UNCHANGED <<alerts, worker, today, history>>

\* expires_at passes.
MessageExpires(i) ==
    /\ queue[i].status # "absent" /\ ~queue[i].past
    /\ queue[i].status \notin {"sent", "failed", "expired"}
    /\ queue' = [queue EXCEPT ![i].past = TRUE]
    /\ UNCHANGED <<alerts, worker, today, history>>

NextDay ==
    /\ today < LastDay
    /\ today' = today + 1
    /\ UNCHANGED <<queue, alerts, worker, history>>

------------------------------------------------------------------------------

RequeueStale == \E T \in SUBSET StaleClaims : RequeueStaleWebhookClaims(T)
RequeueStaleRow(i) == \E T \in SUBSET StaleClaims : i \in T /\ RequeueStaleWebhookClaims(T)

Next ==
    \/ \E i \in Messages, t \in AlertTypes : EnqueueWebhookMessage(i, t)
    \/ \E i \in Messages, t \in AlertTypes : EnqueueWebhookMessageOncePerDay(i, t)
    \/ \E i \in Messages : expireWebhookMessagesForDomain(i)
    \/ \E w \in Workers, t \in AlertTypes : StartTarget(w, t)
    \/ \E w \in Workers : DeadlineExpires(w)
    \/ \E w \in Workers : StopTarget(w)
    \/ \E w \in Workers, i \in Messages : ClaimNextPendingWebhook(w, i)
    \/ \E w \in Workers : HasLiveWebhookMessageKind(w)
    \/ \E w \in Workers, i \in Messages : EnqueueClaimed(w, i)
    \/ \E w \in Workers : GiveUp(w)
    \/ \E w \in Workers, i \in Messages : ReleaseWebhookClaim(w, i)
    \/ \E w \in Workers, i \in Messages : RecordWebhookFailure(w, i)
    \/ \E w \in Workers : PrepareWebhookDelivery(w)
    \/ \E w \in Workers : BeginWebhookDelivery(w)
    \/ \E w \in Workers : ReleasePreparedWebhookDelivery(w)
    \/ \E w \in Workers, o \in {"delivered", "rejected", "unknown"},
          a \in BOOLEAN : Post(w, o, a)
    \/ \E w \in Workers : CompleteWebhookDelivery(w)
    \/ \E w \in Workers : RecordKnownWebhookDeliveryFailure(w)
    \/ \E w \in Workers : MarkWebhookDeliveryUnknown(w)
    \/ RequeueStale
    \/ \E i \in Messages : ExpirePastWebhookMessages(i)
    \/ \E i \in Messages : ResolveDelivered(i)
    \/ \E i \in Messages : ResolveNotDelivered(i)
    \/ \E i \in Messages : BackoffElapses(i)
    \/ \E i \in Messages : MessageExpires(i)
    \/ NextDay

Spec == Init /\ [][Next]_vars

\* Cleanup runs every hour, oldest claims first, and every message that the
\* dispatchers and tools create carries an expires_at.  No goroutine and no
\* operator is assumed to do anything.
Fairness ==
    \A i \in Messages : /\ WF_vars(RequeueStaleRow(i))
                        /\ WF_vars(ExpirePastWebhookMessages(i))
                        /\ WF_vars(MessageExpires(i))

FairSpec == Spec /\ Fairness

------------------------------------------------------------------------------
(* Properties *)

\* Every row, reservation and goroutine holds a value its columns or local
\* variables can hold; in particular attempt_count stays within max_attempts
\* through claims, releases, failures and sweeps.
TypeOK ==
    /\ queue \in [Messages -> Row]
    /\ alerts \in [Slots -> Alert]
    /\ worker \in [Workers -> Local]
    /\ today \in Days
    /\ accepted \in [Messages -> Nat]
    /\ authorised \in [Messages -> Nat]

\* An endpoint accepts a message once, plus once for every retry an operator
\* authorised with ResolveWebhookDeliveryUnknown.  Crashes at any point of
\* dispatchDurableWebhook, lost answers, late requests of a goroutine whose
\* context is gone and stale sweeps never cause a second delivery.
NoUnauthorisedDuplicate ==
    \A i \in Messages : accepted[i] <= 1 + authorised[i]

\* Two goroutines that can still reach the database never work on the same
\* row, although claims carry no owner: release ends the holder's work and
\* every other way back to pending starts a backoff longer than a work
\* deadline ("Row-level claims prevent two workers from dispatching the same
\* attempt concurrently", OPERATIONS.md).
SingleHolder ==
    \A v, w \in Workers :
        /\ v # w
        /\ worker[v].live
        /\ worker[w].live
        => worker[v].rows \intersect worker[w].rows = {}

\* The operator resolves a quarantined row of i's request as delivered.
SiblingResolved(i) ==
    \E j \in Messages \ {i} :
        /\ queue[j].slot = queue[i].slot
        /\ queue[j].status = "delivery_unknown" /\ queue'[j].status = "sent"

\* Rows and their reservation move together (CompleteWebhookDelivery,
\* ResolveWebhookDeliveryUnknown): a sent row points to a delivered reservation
\* and a delivered reservation to a sent row; and the reservation of a row that
\* stays dispatching is closed by nothing but an operator's "delivered" for
\* another row of the request, which a sweep had cut off from it.  Only then
\* RequeueStaleWebhookClaims meets "stale dispatch reservation is not active".
ReservationFollowsRows ==
    /\ []\A i \in Messages : queue[i].status = "sent" =>
          queue[i].slot # NoSlot /\ alerts[queue[i].slot].state = "delivered"
    /\ []\A r \in Slots : alerts[r].state = "delivered" =>
          \E i \in Messages : queue[i].slot = r /\ queue[i].status = "sent"
    /\ [][\A i \in Messages : queue'[i].status = "dispatching" =>
             \/ alerts'[queue'[i].slot].state \in {"reserved", "delivery_unknown"}
             \/ queue[i].status = "dispatching" /\ alerts[queue[i].slot].state = "delivered"
             \/ SiblingResolved(i)]_vars

\* No reservation is left behind: one that is not delivered is referenced by a
\* row, whatever mix of release, sweep, expiry and operator decision the rows of
\* a batch went through.  The row may be an expired one of an archived domain:
\* expireWebhookMessagesForDomain keeps its reservation, and the slot of the day.
NoOrphanReservation ==
    \A r \in Slots : alerts[r].state \in {"reserved", "delivery_unknown"} =>
        Referenced(queue, r)

\* sent, failed and expired are final, and delivery_unknown is left by an
\* operator only: no late step of a goroutine (its local state would change
\* too) and no sweep moves such a row.
SettledIsFinal ==
    [][\A i \in Messages :
         /\ queue[i].status \in {"sent", "failed", "expired"} =>
               queue'[i].status = queue[i].status
         /\ queue[i].status = "delivery_unknown" =>
               \/ queue'[i].status = "delivery_unknown"
               \/ queue'[i].status = "sent" /\ worker' = worker
               \/ authorised'[i] = authorised[i] + 1]_vars

\* Every message that was enqueued ends as sent, failed or expired, or waits
\* in quarantine for an operator, however its goroutines die.
EventuallySettled ==
    \A i \in Messages :
        queue[i].status # "absent" ~>
            queue[i].status \in {"sent", "failed", "expired", "delivery_unknown"}

\* "Si la livraison est prouvee, choisir delivered" (the runbook, step 3; and
\* "delivered consumes the retained reservation", ResolveWebhookDeliveryUnknown):
\* the operator can resolve every quarantined row as delivered.
QuarantineResolvable ==
    \A i \in Messages : queue[i].status = "delivery_unknown" =>
        ENABLED ResolveDelivered(i)
=============================================================================

---------------------------- MODULE JobRunLease ----------------------------
(***************************************************************************)
(* The distributed scheduler's job leases: the rows of scheduled_job_runs  *)
(* (db/scheduler.go) and the goroutines that run a cron window under a     *)
(* lease (engine/scheduler.go, runDistributedJob and retryRunnableJobs).   *)
(*                                                                         *)
(* Time.  The code stores absolute instants and only ever compares them    *)
(* with a "now" that the caller read earlier.  A row therefore keeps the   *)
(* time that REMAINS until each stored instant, and Tick lets one unit     *)
(* pass.  A caller whose reading is d units old (0 <= d <= Staleness) sees *)
(* every remaining time d units larger.                                    *)
(***************************************************************************)
EXTENDS Integers, FiniteSets

CONSTANTS
    Windows,        \* cron windows: one (name, window_key) pair each
    Procs,          \* scheduler processes of the fleet
    Runners,        \* goroutines that may run jobs: <<process, number>>
    TokenIds,       \* the random suffixes newSchedulerOwner draws from
    Registered,     \* the <<process, window>> pairs whose job is registered
    LeaseDuration,  \* jobLeaseDuration
    RetryDelay,     \* jobRetryDelay
    MaxAttempts,    \* jobMaxAttempts
    Period,         \* how long a cron window stays the current one
    Retention,      \* age at which cleanup purges a terminal row
    Staleness       \* largest age of a "now" when its statement executes

ASSUME JobRunAssumption ==
    /\ <<>> \notin Windows
    /\ LeaseDuration \in Nat \ {0}
    /\ RetryDelay \in Nat
    /\ MaxAttempts \in Nat \ {0}
    /\ Period \in Nat \ {0}
    /\ Retention \in Nat
    /\ Staleness \in Nat
    /\ Runners \subseteq Procs \X Nat
    /\ Registered \subseteq Procs \X Windows

VARIABLES
    runs,       \* scheduled_job_runs, one row per window
    runner,     \* what each goroutine holds in its local variables
    openFor,    \* time left during which cron fires the window
    \* history, read by the properties only
    latest,     \* goroutine of the newest acquisition of a window
    started     \* acquisitions since the row was inserted

history == <<latest, started>>
vars == <<runs, runner, openFor, latest, started>>

NoOwner == <<>>
Tokens == Procs \X TokenIds
Owners == {NoOwner} \union Tokens

\* The age of a caller's now.  No host's clock is ahead of the time of the rows.
Reading == 0 .. Staleness

\* A remaining time stops at -Staleness: by then every caller finds it over.
Left(n) == (-Staleness) .. n

Row == [status : {"absent", "processing", "retry", "succeeded", "dead"},
        owner : Owners,
        lease : Left(LeaseDuration),            \* leased_until - now
        wait : Left(RetryDelay),                \* next_attempt_at - now
        attempts : 0 .. MaxAttempts,
        age : 0 .. (Retention + Staleness + 1)] \* now - claimed_at

AbsentRow == [status |-> "absent", owner |-> NoOwner, lease |-> 0, wait |-> 0,
              attempts |-> 0, age |-> 0]

\* "listed": the retry poller holds a ref of ListRunnableJobRuns; "running":
\* runDistributedJob is inside fn(); "unknown": the poller holds the lease of
\* a job this build no longer registers.
Local == [pc : {"idle", "listed", "running", "unknown"},
          window : Windows \union {NoOwner},
          token : Owners,
          lost : BOOLEAN]

Idle == [pc |-> "idle", window |-> NoOwner, token |-> NoOwner, lost |-> FALSE]

\* The type invariant: the lease table, the goroutines' locals and the history.
TypeOK ==
    /\ runs \in [Windows -> Row]
    /\ runner \in [Runners -> Local]
    /\ openFor \in [Windows -> 0 .. Period]
    /\ latest \in [Windows -> Runners \union {NoOwner}]
    /\ started \in [Windows -> Nat]

Init ==
    /\ runs = [w \in Windows |-> AbsentRow]
    /\ runner = [r \in Runners |-> Idle]
    /\ openFor = [w \in Windows |-> Period]
    /\ latest = [w \in Windows |-> NoOwner]
    /\ started = [w \in Windows |-> 0]

----------------------------------------------------------------------------
(* The statements of db/scheduler.go, for a caller whose now is d old.     *)

\* Mutant: the comparison is off by one unit.
DueEarly(row, d) ==
    \/ row.status = "processing" /\ row.lease + d <= 1
    \/ row.status = "retry" /\ row.wait + d <= 1

\* The lease or the retry delay of a row has run out at the caller's now.
Due(row, d) ==
    \/ row.status = "processing" /\ row.lease + d <= 0
    \/ row.status = "retry" /\ row.wait + d <= 0

Closed(row, status) ==
    [row EXCEPT !.status = status, !.owner = NoOwner, !.lease = 0, !.wait = 0]

\* Mutant: the stale final attempt is left alone.
NeverTerminalize(row, d) == row

\* An exhausted row that is due becomes dead instead of being acquired.
Terminalize(row, d) ==
    IF row.attempts >= MaxAttempts /\ Due(row, d) THEN Closed(row, "dead") ELSE row

\* Mutant: the upsert forgets the status.
AcquirableInAnyStatus(row, d) == row.attempts < MaxAttempts /\ row.lease + d <= 0

\* When the upsert inserts a row or its ON CONFLICT condition holds.
Acquirable(row, d) ==
    \/ row.status = "absent"
    \/ row.attempts < MaxAttempts /\ Due(row, d)

\* The row the upsert leaves; claimed_at is only written by the insert.
Granted(row, owner, d) ==
    [row EXCEPT !.status = "processing", !.owner = owner,
                !.lease = LeaseDuration - d, !.wait = 0, !.attempts = @ + 1,
                !.age = IF row.status = "absent" THEN d ELSE @]

\* FailJobRun checks the owner only ...
Owned(row, owner) == row.status = "processing" /\ row.owner = owner

\* Mutant: the owner is not compared.
LiveForAnyone(row, owner, d) == row.status = "processing" /\ row.lease + d > 0

\* ... RenewJobRunLease and CompleteJobRun also want the lease unexpired.
OwnedAndLive(row, owner, d) == Owned(row, owner) /\ row.lease + d > 0

\* Mutant: the renewal extends the stored instant instead of counting from now.
RenewedFromLease(row, d) == [row EXCEPT !.lease = @ + LeaseDuration]

\* The row RenewJobRunLease leaves.
Renewed(row, d) == [row EXCEPT !.lease = LeaseDuration - d]

\* Mutant: the budget comparison is off by one.
FailedTooEarly(row, d) ==
    IF row.attempts + 1 >= MaxAttempts
    THEN Closed(row, "dead")
    ELSE [Closed(row, "retry") EXCEPT !.wait = RetryDelay - d]

Failed(row, d) ==
    IF row.attempts >= MaxAttempts
    THEN Closed(row, "dead")
    ELSE [Closed(row, "retry") EXCEPT !.wait = RetryDelay - d]

----------------------------------------------------------------------------
(* The scheduler's goroutines.                                             *)

InUse == {runner[r].token : r \in Runners} \union {runs[w].owner : w \in Windows}

\* s.owner + "." + newSchedulerOwner(): the random suffix differs from every
\* one that a row or a goroutine still remembers.
newSchedulerOwner(p) == <<p, CHOOSE n \in TokenIds : <<p, n>> \notin InUse>>

\* AcquireJobRunLease under the token a fresh newSchedulerOwner returns.
\* The caller goes to pc when it wins and back to idle when it does not.
AcquireJobRunLease(r, w, pc) ==
    /\ \E n \in TokenIds : <<r[1], n>> \notin InUse
    /\ \E d \in Reading :
      LET row == Terminalize(runs[w], d)
          token == newSchedulerOwner(r[1])
      IN  IF Acquirable(row, d)
          THEN /\ runs' = [runs EXCEPT ![w] = Granted(row, token, d)]
               /\ runner' = [runner EXCEPT ![r] =
                     [pc |-> pc, window |-> w, token |-> token, lost |-> FALSE]]
               /\ latest' = [latest EXCEPT ![w] = r]
               /\ started' = [started EXCEPT ![w] =
                     IF row.status = "absent" THEN 1 ELSE @ + 1]
               /\ UNCHANGED openFor
          ELSE /\ runs' = [runs EXCEPT ![w] = row]
               /\ runner' = [runner EXCEPT ![r] = Idle]
               /\ UNCHANGED <<openFor, history>>

\* Cron fires the job of the current window in a process that registers it.
CronFire(r, w) ==
    /\ runner[r].pc = "idle"
    /\ <<r[1], w>> \in Registered
    /\ openFor[w] > 0
    /\ AcquireJobRunLease(r, w, "running")

\* The retry poller closes every exhausted row and keeps one due ref; its
\* page is only a hint by the time it gets to the ref.
ListRunnableJobRuns(r) ==
    /\ runner[r].pc = "idle"
    /\ \E d \in Reading :
          LET rows == [w \in Windows |-> Terminalize(runs[w], d)] IN
          /\ runs' = rows
          /\ \/ /\ \E w \in Windows :
                     /\ rows[w].attempts < MaxAttempts
                     /\ Due(rows[w], d)
                     /\ runner' = [runner EXCEPT ![r] =
                           [Idle EXCEPT !.pc = "listed", !.window = w]]
             \/ /\ ~ \E w \in Windows : rows[w].attempts < MaxAttempts /\ Due(rows[w], d)
                /\ UNCHANGED runner
    /\ UNCHANGED <<openFor, history>>

\* The poller acquires the ref it listed: to run it, or, when a rolling
\* deploy removed the job, to spend one attempt on it.
RetryListed(r) ==
    LET w == runner[r].window IN
    /\ runner[r].pc = "listed"
    /\ AcquireJobRunLease(r, w, IF <<r[1], w>> \in Registered THEN "running" ELSE "unknown")

\* Mutant: the heartbeat goroutine survives a refused renewal.
HeartbeatingAfterLoss(r) == runner[r].pc = "running"

\* The heartbeat goroutine of a running job, until a renewal is refused.
Heartbeating(r) == runner[r].pc = "running" /\ ~runner[r].lost

\* A heartbeat tick renews the lease, or learns that it is lost and stops.
Heartbeat(r) ==
    LET w == runner[r].window
        token == runner[r].token
    IN  /\ Heartbeating(r)
        /\ \E d \in Reading :
              IF OwnedAndLive(runs[w], token, d)
              THEN /\ runs' = [runs EXCEPT ![w] = Renewed(@, d)]
                   /\ UNCHANGED runner
              ELSE /\ runner' = [runner EXCEPT ![r].lost = TRUE]
                   /\ UNCHANGED runs
        /\ UNCHANGED <<openFor, history>>

\* fn() returned success: completion is skipped after a lost lease and
\* refused by the database after an expired or stolen one.
CompleteJobRun(r) ==
    LET w == runner[r].window
        token == runner[r].token
    IN  /\ runner[r].pc = "running"
        /\ runner' = [runner EXCEPT ![r] = Idle]
        /\ \E d \in Reading :
              runs' = IF ~runner[r].lost /\ OwnedAndLive(runs[w], token, d)
                      THEN [runs EXCEPT ![w] = Closed(@, "succeeded")]
                      ELSE runs
        /\ UNCHANGED <<openFor, history>>

\* fn() failed (skipped after a lost lease), fn() panicked (never skipped),
\* or the poller gives up an unknown job.
FailJobRun(r, panicked) ==
    LET w == runner[r].window
        token == runner[r].token
    IN  /\ runner[r].pc \in {"running", "unknown"}
        /\ runner' = [runner EXCEPT ![r] = Idle]
        /\ \E d \in Reading :
              runs' = IF (panicked \/ ~runner[r].lost) /\ Owned(runs[w], token)
                      THEN [runs EXCEPT ![w] = Failed(@, d)]
                      ELSE runs
        /\ UNCHANGED <<openFor, history>>

\* The process dies, or a store call fails for good: only the row remains.
Crash(r) ==
    /\ runner[r].pc # "idle"
    /\ runner' = [runner EXCEPT ![r] = Idle]
    /\ UNCHANGED <<runs, openFor, history>>

\* Cleanup deletes terminal rows whose claim is older than Retention.
PurgeJobRunsBefore ==
    /\ \E d \in Reading :
          LET old == {w \in Windows : runs[w].status \in {"succeeded", "dead"}
                                       /\ runs[w].age - d > Retention}
          IN  runs' = [w \in Windows |-> IF w \in old THEN AbsentRow ELSE runs[w]]
    /\ UNCHANGED <<runner, openFor, history>>

Elapse(n) == IF n > -Staleness THEN n - 1 ELSE n

\* One unit of time passes.
Tick ==
    /\ runs' = [w \in Windows |->
          [runs[w] EXCEPT
             !.lease = IF runs[w].status = "processing" THEN Elapse(@) ELSE @,
             !.wait = IF runs[w].status = "retry" THEN Elapse(@) ELSE @,
             !.age = IF runs[w].status # "absent" /\ @ <= Retention + Staleness
                     THEN @ + 1 ELSE @]]
    /\ openFor' = [w \in Windows |-> IF openFor[w] > 0 THEN openFor[w] - 1 ELSE 0]
    /\ UNCHANGED <<runner, history>>

Next ==
    \/ \E r \in Runners :
          \/ \E w \in Windows : CronFire(r, w)
          \/ ListRunnableJobRuns(r)
          \/ RetryListed(r)
          \/ Heartbeat(r)
          \/ CompleteJobRun(r)
          \/ \E panicked \in BOOLEAN : FailJobRun(r, panicked)
          \/ Crash(r)
    \/ PurgeJobRunsBefore
    \/ Tick

Spec == Init /\ [][Next]_vars

(***************************************************************************)
(* Fairness.  Time passes; each process's poller keeps being called by     *)
(* cron, and a process does not die every time its poller holds a ref; a   *)
(* job function ends or its process dies.                                  *)
(***************************************************************************)
Fairness ==
    /\ WF_vars(Tick)
    /\ \A r \in Runners :
          /\ WF_vars(ListRunnableJobRuns(r))
          /\ SF_vars(RetryListed(r))
          /\ WF_vars(CompleteJobRun(r) \/ FailJobRun(r, FALSE) \/ Crash(r))

FairSpec == Spec /\ Fairness

----------------------------------------------------------------------------
(* Properties.                                                             *)

\* FailJobRun and CompleteJobRun are fenced: when a goroutine that finishes
\* changes a row, it is the newest attempt of that window.  A late goroutine,
\* also one of the same process, never closes its successor's attempt.
FencedWrites ==
    [][\A r \in Runners :
         /\ runner[r].pc \in {"running", "unknown"}
         /\ runner'[r].pc = "idle"
         /\ runs' # runs
         => latest[runner[r].window] = r]_vars

\* AcquireJobRunLease never takes a lease that has time left, whatever the
\* age of the now its caller passes.
NoStealOfLiveLease ==
    [][\A w \in Windows :
         runs[w].status = "processing" /\ started'[w] # started[w]
         => runs[w].lease <= 0]_vars

\* attempts counts the executions of a row: a window is started at most
\* MaxAttempts times and is dead only when the whole budget was spent.
BudgetIsExact ==
    \A w \in Windows :
      runs[w].status # "absent" =>
        /\ runs[w].attempts = started[w]
        /\ started[w] \in 1 .. MaxAttempts
        /\ runs[w].status = "dead" => started[w] = MaxAttempts

\* Once a heartbeat found the lease lost, that goroutine never again holds a
\* lease with time left: nothing resurrects it, although readings are stale.
LostLeaseStaysLost ==
    \A r \in Runners :
      LET w == runner[r].window IN
      runner[r].lost => ~(Owned(runs[w], runner[r].token) /\ runs[w].lease > 0)

\* succeeded and dead are final until retention deletes the row, and it does
\* so only when the claim is older than Retention.
TerminalIsFinal ==
    [][\A w \in Windows :
         runs[w].status \in {"succeeded", "dead"} =>
           \/ runs'[w].status = runs[w].status
           \/ runs'[w].status = "absent" /\ runs[w].age > Retention]_vars

\* A window that was started ends: neither a crash, a lost lease, a rolling
\* deploy nor a stale reading leaves a row in processing or retry for ever.
EventuallyTerminal ==
    \A w \in Windows :
      runs[w].status \in {"processing", "retry"}
      ~> runs[w].status \in {"succeeded", "dead", "absent"}
=============================================================================

------------------------- MODULE JobRunLeaseProofs -------------------------
(***************************************************************************)
(* Proofs about JobRunLease for every fleet, every lease duration, retry   *)
(* delay and attempt budget, and every age of the callers' readings.       *)
(***************************************************************************)
EXTENDS JobRunLease, TLAPS

\* What a goroutine's locals look like at each pc.
LocalsOK ==
    \A r \in Runners :
      /\ runner[r].pc \in {"running", "unknown"}
            => runner[r].window \in Windows /\ runner[r].token \in Tokens
      /\ runner[r].pc = "listed" => runner[r].window \in Windows
      /\ runner[r].pc \in {"idle", "listed"}
            => runner[r].token = NoOwner /\ ~runner[r].lost

\* Only a processing row has an owner; an absent row is blank.
RowsOK ==
    \A w \in Windows :
      /\ runs[w].status = "processing" <=> runs[w].owner # NoOwner
      /\ runs[w].status = "absent" => runs[w] = AbsentRow

\* The fence: a goroutine whose token is the owner of a row works for that
\* window and is its newest attempt.
OwnerIsLatest ==
    \A r \in Runners, w \in Windows :
      runner[r].token # NoOwner /\ runs[w].owner = runner[r].token
      => latest[w] = r /\ runner[r].window = w

\* The inductive invariant behind the safety properties of JobRunLease.
IInv ==
    /\ TypeOK
    /\ LocalsOK
    /\ RowsOK
    /\ OwnerIsLatest
    /\ BudgetIsExact
    /\ LostLeaseStaysLost

\* The NULL owner of a closed row is not a token.
LEMMA NoOwnerIsNoToken == NoOwner \notin Tokens
  BY DEF NoOwner, Tokens

\* newSchedulerOwner returns a token that no row and no goroutine remembers.
LEMMA FreshOwner ==
    ASSUME NEW p \in Procs, \E n \in TokenIds : <<p, n>> \notin InUse
    PROVE  newSchedulerOwner(p) \in Tokens /\ newSchedulerOwner(p) \notin InUse
  BY DEF newSchedulerOwner, Tokens

\* The empty table and the idle fleet satisfy the inductive invariant.
LEMMA InitIInv == Init => IInv
  <1> SUFFICES ASSUME Init PROVE IInv
    OBVIOUS
  <1> USE JobRunAssumption DEF Init, AbsentRow, Idle
  <1>1. TypeOK
    BY DEF TypeOK, Row, Local, Left, Owners
  <1>2. LocalsOK /\ RowsOK
    BY DEF LocalsOK, RowsOK
  <1>3. OwnerIsLatest /\ BudgetIsExact /\ LostLeaseStaysLost
    BY DEF OwnerIsLatest, BudgetIsExact, LostLeaseStaysLost
  <1> QED BY <1>1, <1>2, <1>3 DEF IInv

----------------------------------------------------------------------------
(* The row operators keep rows well typed.                                 *)

\* The remaining times the statements write stay in range.
LEMMA LeftMembers ==
    ASSUME NEW n \in Nat, NEW d \in Reading
    PROVE  0 \in Left(n) /\ n - d \in Left(n)
  BY JobRunAssumption DEF Left, Reading

\* A row's remaining lease is an integer.
LEMMA LeaseIsInt ==
    ASSUME NEW row \in Row
    PROVE  row.lease \in Int
  <1>1. row.lease \in Left(LeaseDuration)
    BY DEF Row
  <1> QED BY <1>1, JobRunAssumption DEF Left

\* Closing a row (succeeded, retry or dead) gives a row.
LEMMA ClosedType ==
    ASSUME NEW row \in Row, NEW st \in {"retry", "succeeded", "dead"}
    PROVE  Closed(row, st) \in Row
  <1>1. 0 \in Left(LeaseDuration) /\ 0 \in Left(RetryDelay)
    BY JobRunAssumption DEF Left
  <1> QED BY <1>1 DEF Closed, Row, Owners

\* The terminalizing UPDATE of AcquireJobRunLease gives a row.
LEMMA TerminalizeType ==
    ASSUME NEW row \in Row, NEW d \in Reading
    PROVE  Terminalize(row, d) \in Row
  BY ClosedType DEF Terminalize

\* The upsert of AcquireJobRunLease gives a row when budget is left.
LEMMA GrantedType ==
    ASSUME NEW row \in Row, NEW token \in Tokens, NEW d \in Reading,
           row.attempts < MaxAttempts
    PROVE  Granted(row, token, d) \in Row
  <1>1. 0 \in Left(RetryDelay) /\ LeaseDuration - d \in Left(LeaseDuration)
    BY LeftMembers, JobRunAssumption
  <1>2. d \in 0 .. (Retention + Staleness + 1)
    BY JobRunAssumption DEF Reading
  <1>3. row.attempts + 1 \in 0 .. MaxAttempts
    BY JobRunAssumption DEF Row
  <1> QED BY <1>1, <1>2, <1>3 DEF Granted, Row, Owners

\* FailJobRun gives a row.
LEMMA FailedType ==
    ASSUME NEW row \in Row, NEW d \in Reading
    PROVE  Failed(row, d) \in Row
  <1>1. Closed(row, "dead") \in Row /\ Closed(row, "retry") \in Row
    BY ClosedType
  <1>2. [Closed(row, "retry") EXCEPT !.wait = RetryDelay - d] \in Row
    <2>1. RetryDelay - d \in Left(RetryDelay)
      BY LeftMembers, JobRunAssumption
    <2> QED BY <1>1, <2>1 DEF Row
  <1> QED BY <1>1, <1>2 DEF Failed

----------------------------------------------------------------------------
(* One lemma per action.                                                   *)

\* AcquireJobRunLease preserves the invariant: the fresh token makes the caller
\* the newest attempt, and no other goroutine can match it.
LEMMA AcquireStep ==
    ASSUME IInv, NEW r \in Runners, NEW w \in Windows,
           NEW pc \in {"running", "unknown"}, AcquireJobRunLease(r, w, pc)
    PROVE  IInv'
  <1> DEFINE token == newSchedulerOwner(r[1])
  <1>1. r[1] \in Procs
    BY JobRunAssumption
  <1>2. token \in Tokens /\ token \notin InUse
    BY <1>1, FreshOwner DEF AcquireJobRunLease
  <1> HIDE DEF token
  <1>3. PICK d \in Reading :
          LET row == Terminalize(runs[w], d) IN
          IF Acquirable(row, d)
          THEN /\ runs' = [runs EXCEPT ![w] = Granted(row, token, d)]
               /\ runner' = [runner EXCEPT ![r] =
                     [pc |-> pc, window |-> w, token |-> token, lost |-> FALSE]]
               /\ latest' = [latest EXCEPT ![w] = r]
               /\ started' = [started EXCEPT ![w] =
                     IF row.status = "absent" THEN 1 ELSE @ + 1]
               /\ UNCHANGED openFor
          ELSE /\ runs' = [runs EXCEPT ![w] = row]
               /\ runner' = [runner EXCEPT ![r] = Idle]
               /\ UNCHANGED <<openFor, history>>
    BY DEF AcquireJobRunLease, token
  <1> DEFINE row == Terminalize(runs[w], d)
  <1>4. row \in Row
    BY TerminalizeType DEF IInv, TypeOK
  <1>5. /\ row.status = "absent" => row = AbsentRow
        /\ row.status = "processing" <=> row.owner # NoOwner
        /\ row.owner # NoOwner => row = runs[w]
        /\ row.attempts = runs[w].attempts
        /\ row.status = "dead" => runs[w].status = "dead" \/ runs[w].attempts >= MaxAttempts
        /\ row.status # "dead" => row = runs[w]
        /\ row.status = "absent" <=> runs[w].status = "absent"
    BY DEF IInv, RowsOK, TypeOK, Row, Terminalize, Closed, Due
  <1>6. CASE Acquirable(row, d)
    <2> DEFINE new == Granted(row, token, d)
               loc == [pc |-> pc, window |-> w, token |-> token, lost |-> FALSE]
    <2>1. row.attempts < MaxAttempts
      BY <1>5, <1>6, JobRunAssumption DEF Acquirable, AbsentRow
    <2>2. new \in Row
      BY <1>2, <1>4, <2>1, GrantedType
    <2>3. new.status = "processing" /\ new.owner = token /\ new.attempts = row.attempts + 1
      BY <1>4 DEF Granted, Row
    <2> HIDE DEF row, new
    <2>4. /\ runs' = [runs EXCEPT ![w] = new]
          /\ runner' = [runner EXCEPT ![r] = loc]
          /\ latest' = [latest EXCEPT ![w] = r]
          /\ started' = [started EXCEPT ![w] =
                IF row.status = "absent" THEN 1 ELSE @ + 1]
          /\ UNCHANGED openFor
      BY <1>3, <1>6 DEF row, new
    <2>5. loc \in Local
      BY <1>2 DEF Local, Owners
    <2>6. TypeOK'
      BY <2>2, <2>4, <2>5 DEF IInv, TypeOK
    <2>7. LocalsOK'
      BY <1>2, <2>4 DEF IInv, TypeOK, LocalsOK
    <2>8. RowsOK'
      BY <1>2, <2>3, <2>4, NoOwnerIsNoToken DEF IInv, TypeOK, RowsOK
    <2>9. OwnerIsLatest'
      <3>1. \A x \in Windows : runs[x].owner # token
        BY <1>2 DEF InUse
      <3>2. \A q \in Runners : runner[q].token # token
        BY <1>2 DEF InUse
      <3> QED BY <1>2, <2>3, <2>4, <3>1, <3>2, NoOwnerIsNoToken
              DEF IInv, TypeOK, OwnerIsLatest
    <2>10. BudgetIsExact'
      <3>1. runs'[w].attempts = started'[w] /\ started'[w] \in 1 .. MaxAttempts
        BY <1>4, <1>5, <2>1, <2>3, <2>4, JobRunAssumption
           DEF IInv, TypeOK, BudgetIsExact, AbsentRow, Row
      <3> QED BY <2>3, <2>4, <3>1 DEF IInv, TypeOK, BudgetIsExact
    <2>11. LostLeaseStaysLost'
      <3>1. \A q \in Runners : runner[q].token # token
        BY <1>2 DEF InUse
      <3> QED BY <2>3, <2>4, <3>1 DEF IInv, TypeOK, LostLeaseStaysLost, Owned
    <2> QED BY <2>6, <2>7, <2>8, <2>9, <2>10, <2>11 DEF IInv
  <1>7. CASE ~Acquirable(row, d)
    <2> HIDE DEF row
    <2>1. /\ runs' = [runs EXCEPT ![w] = row]
          /\ runner' = [runner EXCEPT ![r] = Idle]
          /\ UNCHANGED <<openFor, latest, started>>
      BY <1>3, <1>7 DEF row, history
    <2>2. TypeOK'
      BY <1>4, <2>1 DEF IInv, TypeOK, Idle, Local, Owners
    <2>3. LocalsOK' /\ RowsOK'
      BY <1>5, <2>1 DEF IInv, TypeOK, LocalsOK, RowsOK, Idle
    <2>4. OwnerIsLatest'
      BY <1>5, <2>1 DEF IInv, TypeOK, OwnerIsLatest, Idle
    <2>5. BudgetIsExact'
      <3>1. row.status = "dead" => started[w] = MaxAttempts
        BY <1>5, JobRunAssumption DEF IInv, TypeOK, BudgetIsExact, Row, Due
      <3> QED BY <1>5, <2>1, <3>1 DEF IInv, TypeOK, BudgetIsExact
    <2>6. LostLeaseStaysLost'
      BY <1>5, <2>1 DEF IInv, TypeOK, LostLeaseStaysLost, Idle, Owned
    <2> QED BY <2>2, <2>3, <2>4, <2>5, <2>6 DEF IInv
  <1> QED BY <1>6, <1>7

\* ListRunnableJobRuns preserves the invariant: it only closes exhausted rows.
LEMMA ListStep ==
    ASSUME IInv, NEW r \in Runners, ListRunnableJobRuns(r)
    PROVE  IInv'
  <1>1. PICK d \in Reading :
          /\ runs' = [w \in Windows |-> Terminalize(runs[w], d)]
          /\ \/ \E w \in Windows : runner' = [runner EXCEPT ![r] =
                    [Idle EXCEPT !.pc = "listed", !.window = w]]
             \/ UNCHANGED runner
    BY DEF ListRunnableJobRuns
  <1>2. /\ runner[r].pc = "idle"
        /\ UNCHANGED <<openFor, latest, started>>
    BY DEF ListRunnableJobRuns, history
  <1>3. \A w \in Windows :
          /\ runs'[w] \in Row
          /\ runs'[w].status = "absent" <=> runs[w].status = "absent"
          /\ runs'[w].attempts = runs[w].attempts
          /\ \/ runs'[w] = runs[w]
             \/ /\ runs'[w].status = "dead" /\ runs'[w].owner = NoOwner
                /\ runs[w].attempts >= MaxAttempts /\ runs[w].status # "absent"
    <2> TAKE w \in Windows
    <2>1. runs[w] \in Row /\ runs'[w] = Terminalize(runs[w], d)
      BY <1>1 DEF IInv, TypeOK
    <2>2. runs'[w] \in Row
      BY <2>1, TerminalizeType
    <2> QED BY <2>1, <2>2 DEF Terminalize, Closed, Due, Row
  <1> DEFINE Kept(q) ==
          /\ runner'[q] \in Local
          /\ runner'[q].token = runner[q].token
          /\ runner'[q].lost = runner[q].lost
          /\ \/ runner'[q] = runner[q]
             \/ /\ runner'[q].pc = "listed" /\ runner'[q].window \in Windows
                /\ runner[q].pc = "idle"
  <1>4. \A q \in Runners : Kept(q)
    <2>1. CASE UNCHANGED runner
      BY <2>1 DEF IInv, TypeOK
    <2>2. ASSUME NEW w \in Windows,
                 runner' = [runner EXCEPT ![r] = [Idle EXCEPT !.pc = "listed", !.window = w]]
          PROVE  \A q \in Runners : Kept(q)
      <3>1. \A q \in Runners : q # r => runner'[q] = runner[q]
        BY <2>2 DEF IInv, TypeOK
      <3>2. /\ runner'[r].pc = "listed" /\ runner'[r].window = w
            /\ runner'[r].token = NoOwner /\ runner'[r].lost = FALSE
            /\ runner'[r] \in Local
        BY <2>2 DEF IInv, TypeOK, Local, Idle, Owners
      <3>3. runner[r].token = NoOwner /\ runner[r].lost = FALSE
        BY <1>2 DEF IInv, LocalsOK, TypeOK, Local
      <3> QED BY <1>2, <3>1, <3>2, <3>3 DEF IInv, TypeOK
    <2> QED BY <1>1, <2>1, <2>2
  <1>5. TypeOK'
    BY <1>1, <1>2, <1>3, <1>4 DEF IInv, TypeOK
  <1>6. LocalsOK'
    BY <1>4 DEF IInv, LocalsOK
  <1>7. RowsOK'
    BY <1>3 DEF IInv, RowsOK
  <1>8. OwnerIsLatest'
    BY <1>2, <1>3, <1>4 DEF IInv, LocalsOK, OwnerIsLatest
  <1>9. BudgetIsExact'
    <2> SUFFICES ASSUME NEW w \in Windows, runs'[w].status # "absent"
                 PROVE  /\ runs'[w].attempts = started[w]
                        /\ started[w] \in 1 .. MaxAttempts
                        /\ runs'[w].status = "dead" => started[w] = MaxAttempts
      BY <1>2 DEF BudgetIsExact
    <2>1. runs[w].attempts = started[w] /\ started[w] \in 1 .. MaxAttempts
      BY <1>3 DEF IInv, BudgetIsExact
    <2> QED BY <1>3, <2>1, JobRunAssumption DEF IInv, BudgetIsExact
  <1>10. LostLeaseStaysLost'
    <2> SUFFICES ASSUME NEW q \in Runners, runner'[q].lost,
                        Owned(runs'[runner'[q].window], runner'[q].token)
                 PROVE  ~(runs'[runner'[q].window].lease > 0)
      BY DEF LostLeaseStaysLost, Owned
    <2>1. runner[q].lost /\ runner[q].pc \in {"running", "unknown"}
      BY <1>4 DEF IInv, LocalsOK, TypeOK, Local
    <2>2. runner'[q] = runner[q] /\ runner[q].window \in Windows
      BY <1>4, <2>1 DEF IInv, LocalsOK
    <2>3. runs'[runner[q].window] = runs[runner[q].window]
      BY <1>3, <2>2 DEF Owned
    <2> QED BY <2>1, <2>2, <2>3 DEF IInv, LostLeaseStaysLost
  <1> QED BY <1>5, <1>6, <1>7, <1>8, <1>9, <1>10 DEF IInv

\* A heartbeat preserves the invariant: it renews its own live lease or stops.
LEMMA HeartbeatStep ==
    ASSUME IInv, NEW r \in Runners, Heartbeat(r)
    PROVE  IInv'
  <1> DEFINE w == runner[r].window
  <1>1. /\ runner[r].pc = "running" /\ ~runner[r].lost
        /\ w \in Windows /\ runner[r].token \in Tokens
        /\ runner[r].token # NoOwner
        /\ UNCHANGED <<openFor, latest, started>>
    BY NoOwnerIsNoToken DEF Heartbeat, Heartbeating, history, IInv, LocalsOK
  <1>2. PICK d \in Reading :
          IF OwnedAndLive(runs[w], runner[r].token, d)
          THEN /\ runs' = [runs EXCEPT ![w] = Renewed(@, d)]
               /\ UNCHANGED runner
          ELSE /\ runner' = [runner EXCEPT ![r].lost = TRUE]
               /\ UNCHANGED runs
    BY DEF Heartbeat
  <1>3. CASE OwnedAndLive(runs[w], runner[r].token, d)
    <2> DEFINE new == Renewed(runs[w], d)
    <2>1. runs' = [runs EXCEPT ![w] = new] /\ runner' = runner
      BY <1>1, <1>2, <1>3 DEF IInv, TypeOK
    <2>2. /\ new \in Row /\ new.status = runs[w].status /\ new.owner = runs[w].owner
          /\ new.attempts = runs[w].attempts
      <3>1. LeaseDuration - d \in Left(LeaseDuration)
        BY LeftMembers, JobRunAssumption
      <3> QED BY <1>1, <3>1 DEF Renewed, IInv, TypeOK, Row
    <2>3. runs[w].status = "processing" /\ runs[w].owner = runner[r].token
      BY <1>3 DEF OwnedAndLive, Owned
    <2> HIDE DEF new, w
    <2>4. TypeOK' /\ LocalsOK'
      BY <1>1, <2>1, <2>2 DEF IInv, TypeOK, LocalsOK
    <2>5. RowsOK' /\ OwnerIsLatest' /\ BudgetIsExact'
      BY <1>1, <2>1, <2>2, <2>3 DEF IInv, TypeOK, RowsOK, OwnerIsLatest, BudgetIsExact
    <2>6. \A q \in Runners : runner[q].token = runs[w].owner => q = r
      BY <1>1, <2>3 DEF IInv, OwnerIsLatest
    <2>7. LostLeaseStaysLost'
      BY <1>1, <2>1, <2>2, <2>6 DEF IInv, TypeOK, LostLeaseStaysLost, Owned
    <2> QED BY <2>4, <2>5, <2>7 DEF IInv
  <1>4. CASE ~OwnedAndLive(runs[w], runner[r].token, d)
    <2>1. runs' = runs /\ runner' = [runner EXCEPT ![r].lost = TRUE]
      BY <1>2, <1>4
    <2>2. \A q \in Runners :
            /\ runner'[q] \in Local /\ runner'[q].pc = runner[q].pc
            /\ runner'[q].window = runner[q].window
            /\ runner'[q].token = runner[q].token
            /\ q # r => runner'[q].lost = runner[q].lost
      BY <2>1 DEF IInv, TypeOK, Local
    <2>3. TypeOK' /\ LocalsOK'
      BY <1>1, <2>1, <2>2 DEF IInv, TypeOK, LocalsOK
    <2>4. RowsOK' /\ OwnerIsLatest' /\ BudgetIsExact'
      BY <1>1, <2>1, <2>2 DEF IInv, RowsOK, OwnerIsLatest, BudgetIsExact
    <2>5. ~(Owned(runs[w], runner[r].token) /\ runs[w].lease > 0)
      <3>1. runs[w] \in Row
        BY <1>1 DEF IInv, TypeOK
      <3>2. runs[w].lease \in Int
        BY <3>1, LeaseIsInt
      <3>3. d \in Nat
        BY JobRunAssumption DEF Reading
      <3> QED BY <1>4, <3>2, <3>3 DEF OwnedAndLive
    <2>6. LostLeaseStaysLost'
      BY <2>1, <2>2, <2>5 DEF IInv, LostLeaseStaysLost, Owned
    <2> QED BY <2>3, <2>4, <2>6 DEF IInv
  <1> QED BY <1>3, <1>4

\* A goroutine that goes idle takes nothing with it but its locals.
LEMMA LeaveStep ==
    ASSUME IInv, NEW r \in Runners,
           runner' = [runner EXCEPT ![r] = Idle],
           NEW w \in Windows, NEW new \in Row,
           runs' = runs \/ runs' = [runs EXCEPT ![w] = new],
           new.owner = NoOwner, new.status \in {"succeeded", "retry", "dead"},
           new.attempts = runs[w].attempts,
           runs' # runs => runs[w].status = "processing",
           new.status = "dead" => runs[w].attempts >= MaxAttempts,
           UNCHANGED <<openFor, latest, started>>
    PROVE  IInv'
  <1>1. \A q \in Runners : runner'[q] = IF q = r THEN Idle ELSE runner[q]
    BY DEF IInv, TypeOK
  <1>2. \A x \in Windows :
          \/ runs'[x] = runs[x]
          \/ /\ x = w /\ runs'[x] = new /\ runs[x].status = "processing"
    BY DEF IInv, TypeOK
  <1>3. TypeOK'
    BY DEF IInv, TypeOK, Idle, Local, Owners
  <1>4. LocalsOK'
    BY <1>1 DEF IInv, LocalsOK, Idle
  <1>5. RowsOK'
    BY <1>2 DEF IInv, RowsOK
  <1>6. OwnerIsLatest'
    BY <1>1, <1>2 DEF IInv, OwnerIsLatest, Idle
  <1>7. BudgetIsExact'
    <2>1. \A x \in Windows : runs[x] \in Row
      BY DEF IInv, TypeOK
    <2>2. \A x \in Windows : runs[x].attempts \in Nat
      BY <2>1, JobRunAssumption DEF Row
    <2> SUFFICES ASSUME NEW x \in Windows, runs'[x].status # "absent"
                 PROVE  /\ runs'[x].attempts = started[x]
                        /\ started[x] \in 1 .. MaxAttempts
                        /\ runs'[x].status = "dead" => started[x] = MaxAttempts
      BY DEF BudgetIsExact
    <2>3. CASE runs'[x] = runs[x]
      BY <2>3 DEF IInv, BudgetIsExact
    <2>4. CASE x = w /\ runs'[x] = new /\ runs[x].status = "processing"
      <3>1. /\ runs[x].attempts = started[x]
            /\ started[x] \in 1 .. MaxAttempts
        BY <2>4 DEF IInv, BudgetIsExact
      <3>2. MaxAttempts \in Nat
        BY JobRunAssumption
      <3> QED BY <2>2, <2>4, <3>1, <3>2
    <2> QED BY <1>2, <2>3, <2>4
  <1>8. LostLeaseStaysLost'
    <2> SUFFICES ASSUME NEW q \in Runners, runner'[q].lost,
                        Owned(runs'[runner'[q].window], runner'[q].token)
                 PROVE  ~(runs'[runner'[q].window].lease > 0)
      BY DEF LostLeaseStaysLost, Owned
    <2>1. runner'[q] = runner[q] /\ runner[q].window \in Windows
      BY <1>1 DEF IInv, LocalsOK, TypeOK, Local, Idle
    <2>2. runs'[runner[q].window] = runs[runner[q].window]
      BY <1>2, <2>1 DEF Owned
    <2> QED BY <2>1, <2>2 DEF IInv, LostLeaseStaysLost
  <1> QED BY <1>3, <1>4, <1>5, <1>6, <1>7, <1>8 DEF IInv

\* CompleteJobRun preserves the invariant.
LEMMA CompleteStep ==
    ASSUME IInv, NEW r \in Runners, CompleteJobRun(r)
    PROVE  IInv'
  <1> DEFINE w == runner[r].window
             new == Closed(runs[w], "succeeded")
  <1>1. /\ w \in Windows /\ runs[w] \in Row
        /\ runner' = [runner EXCEPT ![r] = Idle]
        /\ UNCHANGED <<openFor, latest, started>>
    BY DEF CompleteJobRun, IInv, LocalsOK, TypeOK, history
  <1>2. /\ new \in Row /\ new.owner = NoOwner /\ new.status = "succeeded"
        /\ new.attempts = runs[w].attempts
    BY <1>1, ClosedType DEF Closed, Row
  <1>3. \/ runs' = runs
        \/ /\ runs' = [runs EXCEPT ![w] = new]
           /\ runs[w].status = "processing"
    BY DEF CompleteJobRun, OwnedAndLive, Owned
  <1> HIDE DEF new, w
  <1> QED BY <1>1, <1>2, <1>3, LeaveStep

\* FailJobRun preserves the invariant, with or without a panic.
LEMMA FailStep ==
    ASSUME IInv, NEW r \in Runners, NEW panicked \in BOOLEAN, FailJobRun(r, panicked)
    PROVE  IInv'
  <1> DEFINE w == runner[r].window
  <1>1. /\ w \in Windows /\ runs[w] \in Row
        /\ runner' = [runner EXCEPT ![r] = Idle]
        /\ UNCHANGED <<openFor, latest, started>>
    BY DEF FailJobRun, IInv, LocalsOK, TypeOK, history
  <1>2. PICK d \in Reading :
          \/ runs' = runs
          \/ /\ runs' = [runs EXCEPT ![w] = Failed(runs[w], d)]
             /\ runs[w].status = "processing"
    BY DEF FailJobRun, Owned
  <1> DEFINE new == Failed(runs[w], d)
  <1>3. new \in Row
    BY <1>1, FailedType
  <1>4. /\ new.owner = NoOwner /\ new.status \in {"retry", "dead"}
        /\ new.attempts = runs[w].attempts
        /\ new.status = "dead" => runs[w].attempts >= MaxAttempts
    BY <1>1 DEF Failed, Closed, Row
  <1> HIDE DEF new, w
  <1>5. runs' = runs \/ (runs' = [runs EXCEPT ![w] = new] /\ runs[w].status = "processing")
    BY <1>2 DEF new
  <1> QED BY <1>1, <1>3, <1>4, <1>5, LeaveStep

\* A crash forgets one goroutine's locals and preserves the invariant.
LEMMA CrashStep ==
    ASSUME IInv, NEW r \in Runners, Crash(r)
    PROVE  IInv'
  <1>1. /\ runner' = [runner EXCEPT ![r] = Idle]
        /\ UNCHANGED <<runs, openFor, latest, started>>
    BY DEF Crash, history
  <1>2. \A q \in Runners : runner'[q] = IF q = r THEN Idle ELSE runner[q]
    BY <1>1 DEF IInv, TypeOK
  <1>3. TypeOK'
    BY <1>1 DEF IInv, TypeOK, Idle, Local, Owners
  <1>4. LocalsOK' /\ RowsOK' /\ BudgetIsExact'
    BY <1>1, <1>2 DEF IInv, LocalsOK, RowsOK, BudgetIsExact, Idle
  <1>5. OwnerIsLatest' /\ LostLeaseStaysLost'
    BY <1>1, <1>2 DEF IInv, OwnerIsLatest, LostLeaseStaysLost, Idle, Owned
  <1> QED BY <1>3, <1>4, <1>5 DEF IInv

\* PurgeJobRunsBefore preserves the invariant: a deleted row has no owner.
LEMMA PurgeStep ==
    ASSUME IInv, PurgeJobRunsBefore
    PROVE  IInv'
  <1>1. UNCHANGED <<runner, openFor, latest, started>>
    BY DEF PurgeJobRunsBefore, history
  <1>2. /\ runs' \in [Windows -> Row]
        /\ \A w \in Windows : runs'[w] = runs[w] \/ runs'[w] = AbsentRow
    <2>1. AbsentRow \in Row
      BY JobRunAssumption DEF AbsentRow, Row, Left, Owners
    <2>2. PICK old : runs' = [w \in Windows |-> IF w \in old THEN AbsentRow ELSE runs[w]]
      BY DEF PurgeJobRunsBefore
    <2> QED BY <2>1, <2>2 DEF IInv, TypeOK
  <1>3. TypeOK' /\ LocalsOK' /\ RowsOK'
    BY <1>1, <1>2 DEF IInv, TypeOK, LocalsOK, RowsOK, AbsentRow
  <1>4. OwnerIsLatest' /\ BudgetIsExact'
    BY <1>1, <1>2 DEF IInv, OwnerIsLatest, BudgetIsExact, AbsentRow
  <1>5. LostLeaseStaysLost'
    <2> SUFFICES ASSUME NEW q \in Runners, runner[q].lost,
                        Owned(runs'[runner[q].window], runner[q].token)
                 PROVE  ~(runs'[runner[q].window].lease > 0)
      BY <1>1 DEF LostLeaseStaysLost, Owned
    <2>1. runner[q].window \in Windows
      BY DEF IInv, LocalsOK, TypeOK, Local
    <2>2. runs'[runner[q].window] = runs[runner[q].window]
      BY <1>2, <2>1 DEF Owned, AbsentRow
    <2> QED BY <2>2 DEF IInv, LostLeaseStaysLost
  <1> QED BY <1>3, <1>4, <1>5 DEF IInv

\* A row of job_runs is determined by its columns.
LEMMA SameFieldsSameRow ==
    ASSUME NEW x \in Row, NEW y \in Row,
           x.status = y.status, x.owner = y.owner, x.attempts = y.attempts,
           x.lease = y.lease, x.wait = y.wait, x.age = y.age
    PROVE  x = y
  BY DEF Row

\* The passage of time preserves the invariant: a remaining lease only shrinks.
LEMMA TickStep ==
    ASSUME IInv, Tick
    PROVE  IInv'
  <1>1. UNCHANGED <<runner, latest, started>>
    BY DEF Tick, history
  <1>2. openFor' \in [Windows -> 0 .. Period]
    <2>1. openFor \in [Windows -> 0 .. Period]
      BY DEF IInv, TypeOK
    <2>2. openFor' = [w \in Windows |-> IF openFor[w] > 0 THEN openFor[w] - 1 ELSE 0]
      BY DEF Tick
    <2>3. \A w \in Windows :
            (IF openFor[w] > 0 THEN openFor[w] - 1 ELSE 0) \in 0 .. Period
      BY <2>1, JobRunAssumption
    <2> QED BY <2>2, <2>3
  <1>3. \A n \in Nat : \A k \in Left(n) : Elapse(k) \in Left(n) /\ Elapse(k) <= k
    BY JobRunAssumption DEF Left, Elapse
  <1>4. \A w \in Windows :
          /\ runs'[w] \in Row
          /\ runs'[w].status = runs[w].status /\ runs'[w].owner = runs[w].owner
          /\ runs'[w].attempts = runs[w].attempts
          /\ runs[w].status = "processing" => runs'[w].lease <= runs[w].lease
          /\ runs[w].status = "absent" => runs'[w] = runs[w]
    <2> TAKE w \in Windows
    <2> DEFINE lease == IF runs[w].status = "processing" THEN Elapse(runs[w].lease)
                        ELSE runs[w].lease
               wait == IF runs[w].status = "retry" THEN Elapse(runs[w].wait)
                       ELSE runs[w].wait
               age == IF runs[w].status # "absent" /\ runs[w].age <= Retention + Staleness
                      THEN runs[w].age + 1 ELSE runs[w].age
    <2>1. runs[w] \in Row
      BY DEF IInv, TypeOK
    <2>2. runs'[w] = [runs[w] EXCEPT !.lease = lease, !.wait = wait, !.age = age]
      BY <2>1 DEF Tick, Row
    <2>3. lease \in Left(LeaseDuration) /\ wait \in Left(RetryDelay)
      BY <1>3, <2>1, JobRunAssumption DEF Row
    <2>4. age \in 0 .. (Retention + Staleness + 1)
      BY <2>1, JobRunAssumption DEF Row
    <2>5. runs[w].status = "processing" => lease <= runs[w].lease
      BY <1>3, <2>1, JobRunAssumption DEF Row
    <2>6. runs[w].status = "absent" => lease = runs[w].lease /\ wait = runs[w].wait /\ age = runs[w].age
      OBVIOUS
    <2> HIDE DEF lease, wait, age
    <2>7. /\ runs'[w].status = runs[w].status /\ runs'[w].owner = runs[w].owner
          /\ runs'[w].attempts = runs[w].attempts
          /\ runs'[w].lease = lease /\ runs'[w].wait = wait /\ runs'[w].age = age
      BY <2>1, <2>2 DEF Row
    <2>8. runs'[w] \in Row
      BY <2>1, <2>2, <2>3, <2>4 DEF Row
    <2>9. runs[w].status = "absent" => runs'[w] = runs[w]
      BY <2>1, <2>6, <2>7, <2>8, SameFieldsSameRow
    <2> QED BY <2>5, <2>7, <2>8, <2>9
  <1>5. runs' = [w \in Windows |-> runs'[w]]
    BY DEF Tick
  <1>6. TypeOK'
    BY <1>1, <1>2, <1>4, <1>5 DEF IInv, TypeOK
  <1>7. LocalsOK' /\ RowsOK' /\ OwnerIsLatest' /\ BudgetIsExact'
    BY <1>1, <1>4 DEF IInv, LocalsOK, RowsOK, OwnerIsLatest, BudgetIsExact
  <1>8. LostLeaseStaysLost'
    <2> SUFFICES ASSUME NEW q \in Runners, runner[q].lost,
                        Owned(runs'[runner[q].window], runner[q].token)
                 PROVE  ~(runs'[runner[q].window].lease > 0)
      BY <1>1 DEF LostLeaseStaysLost, Owned
    <2> DEFINE w == runner[q].window
    <2>1. w \in Windows
      BY DEF IInv, LocalsOK, TypeOK, Local
    <2>2. Owned(runs[w], runner[q].token) /\ runs'[w].lease <= runs[w].lease
      BY <1>4, <2>1 DEF Owned
    <2>3. ~(runs[w].lease > 0)
      BY <2>2 DEF IInv, LostLeaseStaysLost
    <2>4. runs[w] \in Row /\ runs'[w] \in Row
      BY <1>4, <2>1 DEF IInv, TypeOK
    <2>5. runs[w].lease \in Int /\ runs'[w].lease \in Int
      BY <2>4, LeaseIsInt
    <2> HIDE DEF w
    <2>6. ~(runs'[w].lease > 0)
      BY <2>2, <2>3, <2>5
    <2> QED BY <2>6 DEF w
  <1> QED BY <1>6, <1>7, <1>8 DEF IInv

\* The invariant is inductive.
LEMMA NextIInv == IInv /\ [Next]_vars => IInv'
  <1> SUFFICES ASSUME IInv, [Next]_vars PROVE IInv'
    OBVIOUS
  <1>1. ASSUME NEW r \in Runners, NEW w \in Windows, CronFire(r, w) PROVE IInv'
    BY <1>1, AcquireStep DEF CronFire
  <1>2. ASSUME NEW r \in Runners, ListRunnableJobRuns(r) PROVE IInv'
    BY <1>2, ListStep
  <1>3. ASSUME NEW r \in Runners, RetryListed(r) PROVE IInv'
    <2> DEFINE pc == IF <<r[1], runner[r].window>> \in Registered THEN "running" ELSE "unknown"
    <2>1. runner[r].window \in Windows /\ AcquireJobRunLease(r, runner[r].window, pc)
      BY <1>3 DEF RetryListed, IInv, LocalsOK
    <2>2. pc \in {"running", "unknown"}
      OBVIOUS
    <2> HIDE DEF pc
    <2> QED BY <2>1, <2>2, AcquireStep
  <1>4. ASSUME NEW r \in Runners, Heartbeat(r) PROVE IInv'
    BY <1>4, HeartbeatStep
  <1>5. ASSUME NEW r \in Runners, CompleteJobRun(r) PROVE IInv'
    BY <1>5, CompleteStep
  <1>6. ASSUME NEW r \in Runners, NEW panicked \in BOOLEAN, FailJobRun(r, panicked) PROVE IInv'
    BY <1>6, FailStep
  <1>7. ASSUME NEW r \in Runners, Crash(r) PROVE IInv'
    BY <1>7, CrashStep
  <1>8. CASE PurgeJobRunsBefore
    BY <1>8, PurgeStep
  <1>9. CASE Tick
    BY <1>9, TickStep
  <1>10. CASE UNCHANGED vars
    BY <1>10 DEF vars, IInv, TypeOK, LocalsOK, RowsOK, OwnerIsLatest, BudgetIsExact,
                 LostLeaseStaysLost, Owned
  <1> QED BY <1>1, <1>2, <1>3, <1>4, <1>5, <1>6, <1>7, <1>8, <1>9, <1>10 DEF Next

\* The inductive invariant holds in every reachable state.
THEOREM Invariance == Spec => []IInv
  BY InitIInv, NextIInv, PTL DEF Spec

\* Type correctness of scheduled_job_runs and of the goroutines' locals; in
\* particular attempts never exceeds the budget.
THEOREM TypeCorrect == Spec => []TypeOK
  <1>1. IInv => TypeOK
    BY DEF IInv
  <1> QED BY <1>1, Invariance, PTL

\* A cron window is started at most MaxAttempts times per row, and is dead only
\* when its whole budget was spent.
THEOREM BudgetHolds == Spec => []BudgetIsExact
  <1>1. IInv => BudgetIsExact
    BY DEF IInv
  <1> QED BY <1>1, Invariance, PTL

\* A lease that a heartbeat of runDistributedJob saw lost is never live again
\* in the hands of that goroutine.
THEOREM LostLeaseHolds == Spec => []LostLeaseStaysLost
  <1>1. IInv => LostLeaseStaysLost
    BY DEF IInv
  <1> QED BY <1>1, Invariance, PTL

----------------------------------------------------------------------------
(* The action properties.                                                  *)

\* Only a finishing goroutine's own CompleteJobRun or FailJobRun both changes a
\* row and returns it to idle.
LEMMA OthersKeepLocals ==
    ASSUME IInv, Next, NEW r \in Runners,
           runner[r].pc \in {"running", "unknown"}, runner'[r].pc = "idle", runs' # runs
    PROVE  CompleteJobRun(r) \/ \E panicked \in BOOLEAN : FailJobRun(r, panicked)
  <1> USE DEF IInv, TypeOK
  <1>1. ASSUME NEW q \in Runners, NEW w \in Windows, CronFire(q, w) PROVE FALSE
    <2>1. \E loc : runner' = [runner EXCEPT ![q] = loc]
      BY <1>1 DEF CronFire, AcquireJobRunLease
    <2> QED BY <1>1, <2>1 DEF CronFire
  <1>2. ASSUME NEW q \in Runners, ListRunnableJobRuns(q) PROVE FALSE
    <2>1. runner' = runner \/ \E loc : runner' = [runner EXCEPT ![q] = loc]
      BY <1>2 DEF ListRunnableJobRuns
    <2> QED BY <1>2, <2>1 DEF ListRunnableJobRuns
  <1>3. ASSUME NEW q \in Runners, RetryListed(q) PROVE FALSE
    <2>1. \E loc : runner' = [runner EXCEPT ![q] = loc]
      BY <1>3 DEF RetryListed, AcquireJobRunLease
    <2> QED BY <1>3, <2>1 DEF RetryListed
  <1>4. ASSUME NEW q \in Runners, Heartbeat(q) PROVE FALSE
    <2>1. runner' = runner \/ runs' = runs
      BY <1>4 DEF Heartbeat
    <2> QED BY <2>1
  <1>5. ASSUME NEW q \in Runners, CompleteJobRun(q) PROVE q = r
    BY <1>5 DEF CompleteJobRun
  <1>6. ASSUME NEW q \in Runners, NEW panicked \in BOOLEAN, FailJobRun(q, panicked) PROVE q = r
    BY <1>6 DEF FailJobRun
  <1>7. ASSUME NEW q \in Runners, Crash(q) PROVE FALSE
    BY <1>7 DEF Crash
  <1>8. CASE PurgeJobRunsBefore
    BY <1>8 DEF PurgeJobRunsBefore
  <1>9. CASE Tick
    BY <1>9 DEF Tick
  <1> QED BY <1>1, <1>2, <1>3, <1>4, <1>5, <1>6, <1>7, <1>8, <1>9 DEF Next

\* A goroutine that finishes only ever writes the row when it is the newest
\* attempt of its window.
THEOREM FencedWritesHolds == Spec => FencedWrites
  <1> DEFINE Fenced ==
        \A r \in Runners :
          /\ runner[r].pc \in {"running", "unknown"}
          /\ runner'[r].pc = "idle"
          /\ runs' # runs
          => latest[runner[r].window] = r
  <1>1. IInv /\ [Next]_vars => [Fenced]_vars
    <2> SUFFICES ASSUME IInv, Next, NEW r \in Runners,
                        runner[r].pc \in {"running", "unknown"},
                        runner'[r].pc = "idle", runs' # runs
                 PROVE  latest[runner[r].window] = r
      OBVIOUS
    <2>1. CompleteJobRun(r) \/ \E panicked \in BOOLEAN : FailJobRun(r, panicked)
      BY OthersKeepLocals
    <2>2. Owned(runs[runner[r].window], runner[r].token)
      BY <2>1 DEF CompleteJobRun, FailJobRun, OwnedAndLive
    <2>3. runner[r].window \in Windows /\ runner[r].token \in Tokens
      BY DEF IInv, LocalsOK
    <2> QED BY <2>2, <2>3, NoOwnerIsNoToken DEF IInv, OwnerIsLatest, Owned
  <1> QED BY <1>1, Invariance, PTL DEF Spec, FencedWrites

\* What one call of AcquireJobRunLease does to the row of a window.
LEMMA AcquireOnlyDue ==
    ASSUME IInv, NEW r \in Runners, NEW v \in Windows, NEW pc,
           AcquireJobRunLease(r, v, pc), NEW w \in Windows
    PROVE  /\ started'[w] # started[w] /\ runs[w].status = "processing"
                => runs[w].lease <= 0
           /\ runs[w].status \in {"succeeded", "dead"} => runs'[w].status = runs[w].status
  <1>1. PICK d \in Reading :
          \/ /\ Acquirable(Terminalize(runs[v], d), d)
             /\ runs' = [runs EXCEPT ![v] = Granted(Terminalize(runs[v], d), newSchedulerOwner(r[1]), d)]
             /\ \E n : started' = [started EXCEPT ![v] = n]
          \/ /\ runs' = [runs EXCEPT ![v] = Terminalize(runs[v], d)]
             /\ started' = started
    BY DEF AcquireJobRunLease, history
  <1>2. runs[v] \in Row /\ runs \in [Windows -> Row] /\ started \in [Windows -> Nat]
    BY DEF IInv, TypeOK
  <1>3. CASE w # v
    BY <1>1, <1>2, <1>3
  <1>4. CASE w = v
    <2>1. runs[v].status \in {"succeeded", "dead"} =>
            Terminalize(runs[v], d) = runs[v] /\ ~Acquirable(runs[v], d)
      BY DEF Terminalize, Due, Acquirable
    <2>2. runs[v].status = "processing" /\ Acquirable(Terminalize(runs[v], d), d)
            => runs[v].lease + d <= 0
      BY <1>2 DEF Terminalize, Due, Acquirable, Closed, Row
    <2>3. runs[v].lease + d <= 0 => runs[v].lease <= 0
      BY <1>2, LeaseIsInt, JobRunAssumption DEF Reading
    <2> QED BY <1>1, <1>2, <1>4, <2>1, <2>2, <2>3
  <1> QED BY <1>3, <1>4

\* AcquireJobRunLease never takes over a lease that has time left.
THEOREM NoStealHolds == Spec => NoStealOfLiveLease
  <1> DEFINE NoSteal ==
        \A w \in Windows :
          runs[w].status = "processing" /\ started'[w] # started[w] => runs[w].lease <= 0
  <1>1. IInv /\ [Next]_vars => [NoSteal]_vars
    <2> SUFFICES ASSUME IInv, Next, NEW w \in Windows,
                        runs[w].status = "processing", started'[w] # started[w]
                 PROVE  runs[w].lease <= 0
      OBVIOUS
    <2>1. \E r \in Runners, v \in Windows, pc \in {"running", "unknown"} :
            AcquireJobRunLease(r, v, pc)
      BY DEF Next, CronFire, RetryListed, ListRunnableJobRuns, Heartbeat, CompleteJobRun,
             FailJobRun, Crash, PurgeJobRunsBefore, Tick, history, IInv, LocalsOK
    <2> QED BY <2>1, AcquireOnlyDue
  <1> QED BY <1>1, Invariance, PTL DEF Spec, NoStealOfLiveLease

\* succeeded and dead are left only through PurgeJobRunsBefore, after Retention.
THEOREM TerminalIsFinalHolds == Spec => TerminalIsFinal
  <1> DEFINE Final ==
        \A w \in Windows :
          runs[w].status \in {"succeeded", "dead"} =>
            \/ runs'[w].status = runs[w].status
            \/ runs'[w].status = "absent" /\ runs[w].age > Retention
  <1>1. IInv /\ [Next]_vars => [Final]_vars
    <2> SUFFICES ASSUME IInv, Next, NEW w \in Windows,
                        runs[w].status \in {"succeeded", "dead"}
                 PROVE  \/ runs'[w].status = runs[w].status
                        \/ runs'[w].status = "absent" /\ runs[w].age > Retention
      OBVIOUS
    <2>0. runs \in [Windows -> Row] /\ runs[w] \in Row
      BY DEF IInv, TypeOK
    <2>1. ASSUME NEW r \in Runners, NEW v \in Windows, CronFire(r, v)
          PROVE  runs'[w].status = runs[w].status
      BY <2>1, AcquireOnlyDue DEF CronFire
    <2>2. ASSUME NEW r \in Runners, RetryListed(r)
          PROVE  runs'[w].status = runs[w].status
      <3>1. runner[r].window \in Windows
        BY <2>2 DEF RetryListed, IInv, LocalsOK
      <3> QED BY <2>2, <3>1, AcquireOnlyDue DEF RetryListed
    <2>3. ASSUME NEW r \in Runners, ListRunnableJobRuns(r)
          PROVE  runs'[w].status = runs[w].status
      <3>1. PICK d \in Reading : runs' = [v \in Windows |-> Terminalize(runs[v], d)]
        BY <2>3 DEF ListRunnableJobRuns
      <3> QED BY <3>1 DEF Terminalize, Due
    <2>4. ASSUME NEW r \in Runners, Heartbeat(r)
          PROVE  runs'[w].status = runs[w].status
      BY <2>0, <2>4 DEF Heartbeat, OwnedAndLive, Owned, Renewed, Row
    <2>5. ASSUME NEW r \in Runners, CompleteJobRun(r)
          PROVE  runs'[w].status = runs[w].status
      BY <2>0, <2>5 DEF CompleteJobRun, OwnedAndLive, Owned
    <2>6. ASSUME NEW r \in Runners, NEW panicked \in BOOLEAN, FailJobRun(r, panicked)
          PROVE  runs'[w].status = runs[w].status
      BY <2>0, <2>6 DEF FailJobRun, Owned
    <2>7. ASSUME NEW r \in Runners, Crash(r)
          PROVE  runs'[w].status = runs[w].status
      BY <2>7 DEF Crash
    <2>8. CASE PurgeJobRunsBefore
      <3>1. PICK d \in Reading :
              runs' = [v \in Windows |->
                         IF v \in {u \in Windows : runs[u].status \in {"succeeded", "dead"}
                                                    /\ runs[u].age - d > Retention}
                         THEN AbsentRow ELSE runs[v]]
        BY <2>8 DEF PurgeJobRunsBefore
      <3>2. runs[w].age \in Int /\ d \in Nat
        BY <2>0, JobRunAssumption DEF Row, Reading
      <3>3. runs[w].age - d > Retention => runs[w].age > Retention
        BY <3>2, JobRunAssumption
      <3> QED BY <3>1, <3>3 DEF AbsentRow
    <2>9. CASE Tick
      BY <2>0, <2>9 DEF Tick, Row
    <2> QED BY <2>1, <2>2, <2>3, <2>4, <2>5, <2>6, <2>7, <2>8, <2>9 DEF Next
  <1> QED BY <1>1, Invariance, PTL DEF Spec, TerminalIsFinal
=============================================================================

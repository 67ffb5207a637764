----------------------------- MODULE ToolCalls -----------------------------
(***************************************************************************)
(* Mutating MCP tool calls of one learner, with their retries under an     *)
(* idempotency key or without one.  toolTenantTransactionMiddleware        *)
(* (tools/tools.go) opens a transaction, inside it idempotencyMiddleware   *)
(* (tools/idempotency.go) reserves the key, runs the handler and stores    *)
(* its response, and the transaction commits or not.  The handler is the   *)
(* one that writes outside as well as inside the database:                 *)
(* update_learner_memory, appending to one narrative, which lives in       *)
(* narrative_objects or in a local file.                                   *)
(*                                                                         *)
(* A call owns one transaction: what it wrote is in its record until it    *)
(* commits.  SQLite lets one transaction write at a time.  On PostgreSQL   *)
(* INSERT ... ON CONFLICT waits for the open transaction that inserted the *)
(* tuple; its foreign key holds FOR KEY SHARE on the learner to the end of *)
(* the transaction, and the FOR UPDATE of CompareAndSwapNarrative          *)
(* conflicts with that.  Two calls may so come to wait for one another     *)
(* (Deadlocked), and the server aborts one of them.                        *)
(*                                                                         *)
(* Once committed a tuple stays, so the INSERT that conflicts and the      *)
(* SELECT that follows it are one step.  For the same reason the lookup in *)
(* narrative_mutations, which CompareAndSwapNarrative makes under the key  *)
(* of the tuple, finds nothing, and is left out.  Narrative memory is      *)
(* enabled.  Erasure, which deletes the tuples of a learner who is out, is *)
(* in TenantDSAR.                                                          *)
(***************************************************************************)
EXTENDS Integers, Sequences, FiniteSets

CONSTANTS
    Calls,          \* tools/call requests, retries included
    NoCall,
    Keys,           \* idempotency keys, one for each logical mutation
    NoKey,
    Arguments,      \* request hashes
    Requests,       \* the <<key, arguments>> that clients send; the key may be NoKey
    Deployments     \* the configurations looked at

ASSUME ToolCallsAssumption ==
    /\ NoCall \notin Calls
    /\ NoKey \notin Keys
    /\ Requests \subseteq (Keys \cup {NoKey}) \X Arguments
    /\ Deployments \subseteq [backend : {"database", "local"}, dialect : {"postgres", "sqlite"}]

VARIABLES
    deployment,     \* how the server was started: the narratives' backend
                    \* (TUTOR_MCP_MEMORY_BACKEND) and the database's dialect
    tuple,          \* committed tool_call_idempotency rows, by key
    narrative,      \* committed content: the calls whose append it holds
    call,           \* the calls: where they are, and their transactions
    answer          \* what each call answered its client

vars == <<deployment, tuple, narrative, call, answer>>

NoTuple == [status |-> "none", hash |-> CHOOSE a \in Arguments : TRUE,
            response |-> NoCall, expired |-> FALSE]

\* read: the narrative GetNarrative returned; written: the transaction's own one,
\* not yet committed; locked: FOR UPDATE on the learner is held.
NewCall == [pc |-> "new", key |-> NoKey, hash |-> CHOOSE a \in Arguments : TRUE,
            read |-> <<>>, written |-> <<>>, locked |-> FALSE, tries |-> 0,
            row |-> NoTuple]

\* A version is the number of writes that led to it: the length of the content.
Init ==
    /\ deployment \in Deployments
    /\ tuple = [k \in Keys |-> NoTuple]
    /\ narrative = <<>>
    /\ call = [c \in Calls |-> NewCall]
    /\ answer = [c \in Calls |-> [kind |-> "none", response |-> NoCall]]

-----------------------------------------------------------------------------
Open(c) == call[c].pc \notin {"new", "done"}

\* Mutant: the transaction is not closed, and keeps its lock on the learner.
EndsLocked(c, kind, response) ==
    /\ call' = [call EXCEPT ![c] = [NewCall EXCEPT !.pc = "done", !.key = call[c].key,
                                                   !.hash = call[c].hash,
                                                   !.locked = call[c].locked]]
    /\ answer' = [answer EXCEPT ![c] = [kind |-> kind, response |-> response]]

\* The call ends: its transaction is gone, and its client got an answer or not.
Ends(c, kind, response) ==
    /\ call' = [call EXCEPT ![c] = [NewCall EXCEPT !.pc = "done", !.key = call[c].key,
                                                   !.hash = call[c].hash]]
    /\ answer' = [answer EXCEPT ![c] = [kind |-> kind, response |-> response]]

Error(c) == Ends(c, "error", NoCall)

\* toolTenantTransactionMiddleware: BeginTx, which takes SQLite's writer lock.
\* idempotencyMiddleware passes a request without a key straight to the handler.
WithTenantTx(c, k, a) ==
    /\ call[c].pc = "new"
    /\ deployment.dialect = "sqlite" => ~\E d \in Calls : Open(d)
    /\ call' = [call EXCEPT ![c] = [NewCall EXCEPT
                    !.pc = IF k = NoKey THEN "execute" ELSE "claim", !.key = k, !.hash = a]]
    /\ UNCHANGED <<deployment, tuple, narrative, answer>>

\* ValidatePrincipal finds the membership revoked, or the INSERT of the tuple fails.
Refuse(c) ==
    /\ call[c].pc = "claim"
    /\ Error(c)
    /\ UNCHANGED <<deployment, tuple, narrative>>

-----------------------------------------------------------------------------
(* The locks of PostgreSQL: no two SQLite transactions are open together.  *)

\* No open transaction but c's own holds the tuple of the key.
TupleFree(c) ==
    \A d \in Calls \ {c} : call[d].row.status # "none" => call[d].key # call[c].key

\* tool_call_idempotency.learner_id REFERENCES learners: whoever inserted a tuple
\* holds FOR KEY SHARE on the learner.
KeyShare(c) == deployment.dialect = "postgres" /\ call[c].row.status # "none"

\* Nobody else's lock is in the way of FOR KEY SHARE, which is compatible with itself.
LearnerShareable(c) == \A d \in Calls \ {c} : ~call[d].locked

\* Nobody else's lock is in the way of FOR UPDATE.
LearnerFree(c) == \A d \in Calls \ {c} : ~call[d].locked /\ ~KeyShare(d)

\* c is at its FOR UPDATE and d holds a lock that conflicts with it.
WaitsFor(c, d) == c # d /\ call[c].pc = "swap" /\ (call[d].locked \/ KeyShare(d))

\* A call that waits for its tuple or for FOR KEY SHARE holds nothing, and one at its
\* FOR UPDATE waits for every other holder: a cycle of waits has two calls next to
\* each other that wait for one another.
Deadlocked(c) == \E d \in Calls : WaitsFor(c, d) /\ WaitsFor(d, c)

-----------------------------------------------------------------------------
\* Mutant: a reservation that was left in processing is taken over.
ClaimTakesOver(c) ==
    /\ call[c].pc = "claim"
    /\ TupleFree(c) /\ LearnerShareable(c)
    /\ tuple[call[c].key].status \in {"none", "processing"}
    /\ call' = [call EXCEPT ![c].pc = "execute",
                            ![c].row = [NoTuple EXCEPT !.status = "processing",
                                                       !.hash = call[c].hash]]
    /\ UNCHANGED <<deployment, tuple, narrative, answer>>

\* ClaimIdempotencyKey inserts the tuple and its reference to the learner is checked:
\* this call executes.
ClaimIdempotencyKey(c) ==
    /\ call[c].pc = "claim"
    /\ TupleFree(c) /\ LearnerShareable(c)
    /\ tuple[call[c].key].status = "none"
    /\ call' = [call EXCEPT ![c].pc = "execute",
                            ![c].row = [NoTuple EXCEPT !.status = "processing",
                                                       !.hash = call[c].hash]]
    /\ UNCHANGED <<deployment, tuple, narrative, answer>>

\* Mutant: the request hash is not compared.
ReplayAnyArguments(row, hash) == row.status = "completed" /\ ~row.expired

\* The cases of the SELECT in which the stored response is returned.
Replayable(row, hash) ==
    /\ row.hash = hash
    /\ row.status = "completed"
    /\ ~row.expired

\* The tuple exists: its response is replayed, or the call is refused because the
\* arguments differ, the response expired, or the tuple was left in processing.
ReplayToolCall(c) ==
    LET row == tuple[call[c].key]
    IN  /\ call[c].pc = "claim"
        /\ row.status # "none"
        /\ IF Replayable(row, call[c].hash)
           THEN Ends(c, "success", row.response)
           ELSE Error(c)
        /\ UNCHANGED <<deployment, tuple, narrative>>

-----------------------------------------------------------------------------
(* The handler: memory.WriteContext.                                       *)

\* What follows the handler's success: CompleteIdempotencyKey, if there is a key.
Succeeded(c) == IF call[c].key = NoKey THEN "commit" ELSE "complete"

\* The local backend: an atomic rename under the learner's lock, in no transaction.
\* A directory that cannot be synced is still a success (CommittedWriteError).
WriteFile(c) ==
    /\ deployment.backend = "local"
    /\ call[c].pc = "execute"
    /\ narrative' = Append(narrative, c)
    /\ call' = [call EXCEPT ![c].pc = Succeeded(c)]
    /\ UNCHANGED <<deployment, tuple, answer>>

\* writeSharedNarrative reads the object and computes the next content.
GetNarrative(c) ==
    /\ deployment.backend = "database"
    /\ call[c].pc = "execute"
    /\ call' = [call EXCEPT ![c].pc = "swap", ![c].read = narrative]
    /\ UNCHANGED <<deployment, tuple, narrative, answer>>

\* Mutant: the new entry is put before the content that was read.
SwapPrepends(c) ==
    /\ call[c].pc = "swap"
    /\ LearnerFree(c)
    /\ LET same == Len(narrative) = Len(call[c].read)
       IN  call' = [call EXCEPT
                ![c].locked  = TRUE,
                ![c].pc      = IF same THEN Succeeded(c) ELSE "execute",
                ![c].written = IF same THEN <<c>> \o call[c].read ELSE @,
                ![c].tries   = IF same THEN @ ELSE @ + 1]
    /\ UNCHANGED <<deployment, tuple, narrative, answer>>

\* Mutant: a swap that finds another version gives the learner's lock back.
SwapReleases(c) ==
    /\ call[c].pc = "swap"
    /\ LearnerFree(c)
    /\ LET same == Len(narrative) = Len(call[c].read)
       IN  call' = [call EXCEPT
                ![c].locked  = same,
                ![c].pc      = IF same THEN Succeeded(c) ELSE "execute",
                ![c].written = IF same THEN Append(call[c].read, c) ELSE @,
                ![c].tries   = IF same THEN @ ELSE @ + 1]
    /\ UNCHANGED <<deployment, tuple, narrative, answer>>

\* The learner row is locked to the end of the transaction; a version that is not
\* the one read sends writeSharedNarrative back to read it again.
CompareAndSwapNarrative(c) ==
    /\ call[c].pc = "swap"
    /\ LearnerFree(c)
    /\ LET same == Len(narrative) = Len(call[c].read)
       IN  call' = [call EXCEPT
                ![c].locked  = TRUE,
                ![c].pc      = IF same THEN Succeeded(c) ELSE "execute",
                ![c].written = IF same THEN Append(call[c].read, c) ELSE @,
                ![c].tries   = IF same THEN @ ELSE @ + 1]
    /\ UNCHANGED <<deployment, tuple, narrative, answer>>

\* The handler answers an error (a quota, an invalid argument, a failed statement):
\* the reservation, if there is one, is aborted and errToolApplicationFailure rolls back.
AbortIdempotencyKey(c) ==
    /\ call[c].pc \in {"execute", "swap"}
    /\ Error(c)
    /\ UNCHANGED <<deployment, tuple, narrative>>

\* The server finds the cycle after deadlock_timeout and aborts one of its calls: the
\* handler answers "memory write failed" and the transaction rolls back.
DeadlockDetected(c) ==
    /\ Deadlocked(c)
    /\ Error(c)
    /\ UNCHANGED <<deployment, tuple, narrative>>

-----------------------------------------------------------------------------
(* The end of the call.                                                    *)

CompleteIdempotencyKey(c) ==
    /\ call[c].pc = "complete"
    /\ call' = [call EXCEPT ![c].pc = "commit", ![c].row.status = "completed",
                            ![c].row.response = c]
    /\ UNCHANGED <<deployment, tuple, narrative, answer>>

\* The UPDATE fails.  SQLite goes on to commit the tuple in processing; PostgreSQL
\* has aborted the transaction, and the COMMIT reports it.
CompleteFails(c) ==
    /\ call[c].pc = "complete"
    /\ \/ /\ deployment.dialect = "sqlite"
          /\ call' = [call EXCEPT ![c].pc = "commit"]
          /\ UNCHANGED answer
       \/ deployment.dialect = "postgres" /\ Error(c)
    /\ UNCHANGED <<deployment, tuple, narrative>>

Committed(c) ==
    /\ tuple' = [k \in Keys |-> IF k = call[c].key THEN call[c].row ELSE tuple[k]]
    /\ narrative' = IF deployment.backend = "database" THEN call[c].written ELSE narrative

\* Mutant: the reservation is committed although the call's work is rolled back.
CommitSplit(c) ==
    /\ call[c].pc = "commit"
    /\ \/ Committed(c) /\ Ends(c, "success", c)
       \/ /\ Error(c)
          /\ tuple' = [k \in Keys |-> IF k = call[c].key THEN call[c].row ELSE tuple[k]]
          /\ UNCHANGED narrative
    /\ UNCHANGED deployment

\* COMMIT succeeds; or it fails and nothing is committed; or it commits and its
\* acknowledgement is lost, which the client sees as a failure.
Commit(c) ==
    /\ call[c].pc = "commit"
    /\ \/ Committed(c) /\ Ends(c, "success", c)
       \/ Committed(c) /\ Error(c)
       \/ Error(c) /\ UNCHANGED <<tuple, narrative>>
    /\ UNCHANGED deployment

\* The process dies, the client goes away or ToolCallDeadlineMiddleware's deadline
\* passes: the transaction rolls back and the client gets no result.
Interrupt(c) ==
    /\ Open(c)
    /\ Ends(c, "none", NoCall)
    /\ UNCHANGED <<deployment, tuple, narrative>>

\* Mutant: the response is marked as expired but not cleared.
RedactNothing(k) ==
    /\ tuple[k].status = "completed" /\ ~tuple[k].expired
    /\ tuple' = [tuple EXCEPT ![k].expired = TRUE]
    /\ UNCHANGED <<deployment, narrative, call, answer>>

\* RunRetention: the response is cleared, the tuple stays.
RedactResponse(k) ==
    /\ tuple[k].status = "completed" /\ ~tuple[k].expired
    /\ tuple' = [tuple EXCEPT ![k].expired = TRUE, ![k].response = NoCall]
    /\ UNCHANGED <<deployment, narrative, call, answer>>
-----------------------------------------------------------------------------
Progress(c) ==
    \/ ClaimIdempotencyKey(c) \/ ReplayToolCall(c)
    \/ WriteFile(c) \/ GetNarrative(c) \/ CompareAndSwapNarrative(c)
    \/ CompleteIdempotencyKey(c) \/ Commit(c)

Next ==
    \/ \E c \in Calls :
            \/ \E r \in Requests : WithTenantTx(c, r[1], r[2])
            \/ Progress(c)
            \/ DeadlockDetected(c)
            \/ Refuse(c) \/ AbortIdempotencyKey(c) \/ CompleteFails(c) \/ Interrupt(c)
    \/ \E k \in Keys : RedactResponse(k)

Spec == Init /\ [][Next]_vars

\* A call whose next statement can run runs it, and the server ends a deadlock; nobody
\* else has to fail or be interrupted.
FairSpec ==
    Spec /\ \A c \in Calls : WF_vars(Progress(c)) /\ WF_vars(DeadlockDetected(c))

-----------------------------------------------------------------------------
(* Properties.                                                             *)

\* The position(s) of the appends made for a key.
AppendsOf(k) == {i \in DOMAIN narrative : call[narrative[i]].key = k}

\* Type of every variable; a committed tuple has a response exactly when it is
\* completed and retention has not redacted it.
TypeOK ==
    LET tuples == [status   : {"none", "processing", "completed"},
                   hash     : Arguments,
                   response : Calls \cup {NoCall},
                   expired  : BOOLEAN]
        contents == UNION {[1 .. n -> Calls] : n \in 0 .. Cardinality(Calls)}
    IN  /\ deployment \in Deployments
        /\ tuple \in [Keys -> tuples]
        /\ \A k \in Keys : tuple[k].response # NoCall
                <=> tuple[k].status = "completed" /\ ~tuple[k].expired
        /\ narrative \in contents
        /\ call \in [Calls -> [pc      : {"new", "claim", "execute", "swap", "complete",
                                          "commit", "done"},
                               key     : Keys \cup {NoKey},
                               hash    : Arguments,
                               read    : contents,
                               written : contents,
                               locked  : BOOLEAN,
                               tries   : 0 .. Cardinality(Calls),
                               row     : tuples]]
        /\ answer \in [Calls -> [kind     : {"none", "success", "error"},
                                 response : Calls \cup {NoCall}]]

\* ClaimIdempotencyKey: no retry leads to "silently applying a learning-state
\* mutation twice", whatever the interleaving of the retries and however the earlier
\* calls of the key ended; nor once the cached response has expired.  Narratives in
\* local files are left out: see RetryWithTheKeyIsSafe.
AppliedAtMostOnce ==
    deployment.backend = "database" => \A k \in Keys : Cardinality(AppendsOf(k)) <= 1

\* ToolCallDeadlineMiddleware tells the client of an interrupted call: "retry a
\* mutation only by reusing its original idempotency_key", on every deployment.
RetryWithTheKeyIsSafe ==
    \A k \in Keys : Cardinality(AppendsOf(k)) <= 1

\* "An exact canonical retry replays the original successful response": every success
\* answered for a key is the response of the one call whose write is committed.
SuccessIsTheOriginal ==
    \A c \in Calls : answer[c].kind = "success" =>
        LET original == answer[c].response
        IN  /\ original \in Calls
            /\ \E i \in DOMAIN narrative : narrative[i] = original
            /\ call[original].key = call[c].key /\ call[original].hash = call[c].hash

\* The tuple and the write it protects are committed by one transaction: a key is
\* reserved exactly when its write is there, so a refused retry never means that
\* the mutation is missing.
ReservedWithItsWrite ==
    deployment.backend = "database" =>
        \A k \in Keys : tuple[k].status # "none" <=> AppendsOf(k) # {}

\* CompareAndSwapNarrative loses no committed append: a committed narrative only
\* grows, by one append at a time.
NoAppendLost ==
    [][narrative' # narrative => \E c \in Calls : narrative' = Append(narrative, c)]_vars

\* Of writeSharedNarrative's 128 attempts a call with a key uses one: its FOR KEY SHARE
\* keeps every other writer from the learner between its read and its swap.  A call
\* without a key may find another version once; the lock of that swap outlives it, so
\* the second one finds the version it read.
TwoSwapsSuffice ==
    \A c \in Calls : call[c].tries <= IF call[c].key = NoKey THEN 1 ELSE 0

\* Calls wait for the tuple and for the learner of one another, and none waits for
\* ever: every wait is for a call that can go on, or is part of a deadlock that the
\* server ends by aborting one of the calls.
EveryCallEnds ==
    \A c \in Calls : Open(c) ~> call[c].pc = "done"
=============================================================================

------------------------------ MODULE AnalysisJobs ------------------------------
(***************************************************************************)
(* The database-backed job queue of internal/jobs: the analysis_jobs table *)
(* (store.go), the worker processes that claim, start, execute and         *)
(* finalize its rows (worker.go, lease.go), the lease reaper and the API   *)
(* operations that cancel, requeue and retry a job.                        *)
(*                                                                         *)
(* Modelled:                                                               *)
(*   - one row per job, with the status, generation, attempt count,        *)
(*     started flag, claim token, lease, cancel flag and terminal reason;  *)
(*   - the business row the job stands for (a diagnosis run, a snapshot or *)
(*     a build), reduced to the five states the job store tells apart;     *)
(*   - one goroutine per claim (startAndDispatchClaim, executeJob), with   *)
(*     every database round trip a step of its own, so claims of different *)
(*     workers, the reaper and the API interleave between them;            *)
(*   - a database operation that fails, or that commits while its response *)
(*     is lost, wherever the code reconciles it ("faults", a bounded       *)
(*     budget); worker crashes and graceful shutdown.                      *)
(*                                                                         *)
(* What a handler does between HandlerBegins and its return is left open   *)
(* here: it may finalize the job in its own transaction, fail, or stop.    *)
(* DiagnosisExecution refines it for diagnosis jobs.                       *)
(*                                                                         *)
(* Abstractions.  A claim token is the ordinal of the claim among the      *)
(* job's claims: tokens are UUIDs and are only ever compared together with *)
(* the job's id.  worker_id is written in the same statement as the token, *)
(* so the token stands for both.  A lease is "live" or "expired"; renewing *)
(* a live lease leaves it live, and an expired one cannot be renewed.      *)
(* next_run_at is the flag due.  The last error is the flag retryable:     *)
(* whether IsRetryableDiagnosisProviderFailure accepts it.                 *)
(***************************************************************************)
EXTENDS Integers, FiniteSets

CONSTANTS
  Jobs,            \* ids of analysis_jobs rows
  DiagnosisJobs,   \* those of type RUN_DIAGNOSIS; the others build the pipeline
  Workers,         \* worker processes
  NoWorker,        \* NULL
  BatchSize,       \* rows one poll may claim
  Concurrency,     \* executions one worker may run at a time
  MaxAttempts,     \* max_attempts of every row
  MaxGeneration,   \* bound: explicit retries stop at this generation
  MaxClaims,       \* bound: claims made of one job
  MaxFaults        \* bound: database faults, stalls, crashes and shutdowns

ASSUME JobsAssumption == DiagnosisJobs \subseteq Jobs
ASSUME WorkersAssumption == NoWorker \notin Workers
ASSUME BoundsAssumption ==
  /\ MaxAttempts \in Nat \ {0} /\ MaxGeneration \in Nat \ {0}
  /\ MaxClaims \in Nat /\ MaxFaults \in Nat
  /\ BatchSize \in Nat \ {0} /\ Concurrency \in Nat \ {0}

VARIABLES
  job,        \* analysis_jobs: job id -> row
  business,   \* status of the resource the job works on
  claims,     \* number of claims made of each job, the last token issued
  claim,      \* claim[j][n]: the goroutine of job j's n-th claim
  mode,       \* worker -> "running", "stopping", "cancelled" or "stopped"
  faults      \* database faults, stalls, crashes and shutdowns so far

vars == <<job, business, claims, claim, mode, faults>>

-----------------------------------------------------------------------------
(* Types *)

Terminal == {"SUCCEEDED", "FAILED", "CANCELLED"}
Claimable == {"PENDING", "RETRY_WAIT"}
Status == {"ABSENT", "RUNNING"} \cup Claimable \cup Terminal
Open == {"QUEUED", "RUNNING"}        \* CREATED, MATERIALIZING/BUILDING for the pipeline
Business == {"ABSENT"} \cup Open \cup Terminal
Reason == {"none", "PERMANENT", "RETRYABLE_EXHAUSTED", "CANCELLED"}
Lease == {"none", "live", "expired"}

(* Where the goroutine of a claim is.                                      *)
Phase == {"none",        \* no goroutine: not claimed yet, returned, or dead
          "starting",    \* in startClaimedExecution, before MarkExecutionStarted
          "resolving",   \* MarkExecutionStarted returned an error
          "returning",   \* in returnUndispatchedClaims
          "launching",   \* started, before the dispatch gate
          "running",     \* handler.Execute
          "returned",    \* the handler has returned
          "finalizing"}  \* in resolveFinalization
(* context.Cause of the handler's context                                  *)
Cause == {"none", "user", "ownershipLost", "renewFailed", "pollFailed", "shutdown"}
(* What handler.Execute returns; the "atomic" ones are                     *)
(* AtomicHandlerFinalizationError with the expected status and policy.     *)
AtomicFailure == {"atomicPermanent", "atomicUnknown", "atomicExhausted"}
Atomic == {"atomicSucceeded", "atomicCancelled"} \cup AtomicFailure
Return == {"none", "nil", "finalized", "retryable", "permanent", "user",
           "ownershipLost", "shutdown"} \cup Atomic
Plan == {"none", "success", "cancel", "retry", "failPermanent", "failExhausted"}

(* A worker process: claiming; draining after requestStop; its handlers and *)
(* finalizers cancelled by cancelActive; exited.                           *)
Mode == {"running", "stopping", "cancelled", "stopped"}

Tokens == 1 .. MaxClaims

JobRow == [status: Status, generation: 1 .. MaxGeneration, attempts: Nat,
           started: BOOLEAN, token: 0 .. MaxClaims, lease: Lease, due: BOOLEAN,
           cancel: BOOLEAN, reason: Reason, retryable: BOOLEAN]
ClaimState == [phase: Phase, worker: Workers \cup {NoWorker}, generation: 0 .. MaxGeneration,
               attempt: Nat, cancelSeen: BOOLEAN, late: BOOLEAN, cause: Cause,
               ret: Return, plan: Plan]

AbsentRow == [status |-> "ABSENT", generation |-> 1, attempts |-> 0, started |-> FALSE,
              token |-> 0, lease |-> "none", due |-> TRUE, cancel |-> FALSE,
              reason |-> "none", retryable |-> FALSE]
NoClaim == [phase |-> "none", worker |-> NoWorker, generation |-> 0, attempt |-> 0,
            cancelSeen |-> FALSE, late |-> FALSE, cause |-> "none", ret |-> "none", plan |-> "none"]

TypeOK ==
  /\ job \in [Jobs -> JobRow]
  /\ business \in [Jobs -> Business]
  /\ claims \in [Jobs -> 0 .. MaxClaims]
  /\ claim \in [Jobs -> [Tokens -> ClaimState]]
  /\ mode \in [Workers -> Mode]
  /\ faults \in 0 .. MaxFaults

-----------------------------------------------------------------------------
(* Ownership predicates *)

(* RUNNING under this claim's token and generation.                        *)
HoldsClaim(j, n) ==
  /\ job[j].status = "RUNNING" /\ job[j].token = n
  /\ job[j].generation = claim[j][n].generation

(* Mutant of Owned: the fence forgets the claim token.                     *)
Owned_AnyToken(j, n) == job[j].status = "RUNNING" /\ job[j].started

(* loadOwnedRunningJobTx: the fence of every finalizer.  It does not look  *)
(* at the lease: an expired claim that was not reaped may still finalize.  *)
Owned(j, n) == job[j].status = "RUNNING" /\ job[j].token = n /\ job[j].started

(* liveLeasePredicate                                                      *)
LiveLease(j) == job[j].lease = "live"

(* sameExecutionClaim: the row still carries this execution's claim,       *)
(* whatever its status.                                                    *)
SameExecutionClaim(j, n) ==
  /\ job[j].started /\ job[j].token = n
  /\ job[j].generation = claim[j][n].generation

Phased(j, n, p) == claim[j][n].phase = p
StopRequested(j, n) == mode[claim[j][n].worker] # "running"

(* The claims a worker is busy with: each holds a slot of the semaphore.   *)
Busy(w) == {c \in Jobs \X Tokens : claim[c[1]][c[2]].worker = w}

SetRow(j, r) == job' = [job EXCEPT ![j] = r]
SetBusiness(j, b) == business' = [business EXCEPT ![j] = b]
SetClaim(j, n, c) == claim' = [claim EXCEPT ![j][n] = c]
Gone(j, n) == SetClaim(j, n, NoClaim)
Goto(j, n, p) == SetClaim(j, n, [claim[j][n] EXCEPT !.phase = p])

(* A database operation fails, or commits and its response is lost; a       *)
(* goroutine stalls past its lease; a worker crashes or is told to stop.   *)
Fault == faults < MaxFaults /\ faults' = faults + 1

-----------------------------------------------------------------------------
(* Row transitions shared by several operations *)

Succeeded(row) == [row EXCEPT !.status = "SUCCEEDED"]
Cancelled(row) == [row EXCEPT !.status = "CANCELLED", !.reason = "CANCELLED"]
Failed(row, why, retryable) ==
  [row EXCEPT !.status = "FAILED", !.reason = why, !.retryable = retryable]
RetryWait(row) == [row EXCEPT !.status = "RETRY_WAIT", !.due = FALSE]
(* Mutant of Unclaimed: a returned claim gives its attempt back.           *)
Unclaimed_Refunds(row) ==
  [row EXCEPT !.status = "PENDING", !.token = 0, !.lease = "none", !.attempts = @ - 1]
Unclaimed(row) == [row EXCEPT !.status = "PENDING", !.token = 0, !.lease = "none"]
(* Mutant of Follows: the finalizer leaves the resource open.              *)
Follows_Forgotten(b, row) == b
(* The resource follows a job that fails or is cancelled.                  *)
Follows(b, row) == IF row.status \in {"FAILED", "CANCELLED"} THEN row.status ELSE b
NextGeneration(row) ==
  [AbsentRow EXCEPT !.status = "PENDING", !.generation = row.generation + 1]

(* Mutant of CanFailBusiness: a resource no handler has opened is refused. *)
CanFailBusiness_NotQueued(j) == business[j] \in {"RUNNING", "FAILED"}

(* failBusinessTx: an open resource fails with its job; any other state    *)
(* than FAILED aborts the transaction.                                     *)
CanFailBusiness(j) == business[j] \in Open \cup {"FAILED"}

(* cancelDiagnosisRunTx                                                    *)
CanCancelBusiness(j) == business[j] \in Open \cup {"CANCELLED"}

-----------------------------------------------------------------------------
(* Creation and claiming *)

Init ==
  /\ job = [j \in Jobs |-> AbsentRow]
  /\ business = [j \in Jobs |-> "ABSENT"]
  /\ claims = [j \in Jobs |-> 0]
  /\ claim = [j \in Jobs |-> [n \in Tokens |-> NoClaim]]
  /\ mode = [w \in Workers |-> "running"]
  /\ faults = 0

(* CreateJobTx, in the transaction that inserts the business row.          *)
CreateJob(j) ==
  /\ job[j].status = "ABSENT"
  /\ SetRow(j, [AbsentRow EXCEPT !.status = "PENDING"])
  /\ SetBusiness(j, "QUEUED")
  /\ UNCHANGED <<claims, claim, mode, faults>>

ClaimedRow(row, token) ==
  [row EXCEPT !.status = "RUNNING", !.token = token, !.lease = "live", !.started = FALSE]
NewClaim(w, row) ==
  [NoClaim EXCEPT !.phase = "starting", !.worker = w, !.generation = row.generation,
                  !.attempt = row.attempts, !.cancelSeen = row.cancel]

(* claimLoop: one poll claims as many due rows as the worker has free      *)
(* slots.  FOR UPDATE SKIP LOCKED makes any subset of them the possible    *)
(* result.  The commit may succeed while the poll sees an error: the rows  *)
(* are then RUNNING with no goroutine, for the reaper to recover.          *)
ClaimJobs(w, delivered) ==
  /\ mode[w] = "running"
  /\ \E S \in SUBSET {j \in Jobs : /\ job[j].status \in Claimable /\ job[j].due
                                    /\ claims[j] < MaxClaims} :
       /\ S # {}
       /\ Cardinality(S) <= BatchSize
       /\ Cardinality(S) + Cardinality(Busy(w)) <= Concurrency
       /\ job' = [j \in Jobs |->
                     IF j \in S
                       THEN ClaimedRow(job[j], claims[j] + 1) ELSE job[j]]
       /\ claims' = [j \in Jobs |-> IF j \in S THEN claims[j] + 1 ELSE claims[j]]
       /\ claim' = [j \in Jobs |->
                      IF j \in S /\ delivered
                        THEN [claim[j] EXCEPT ![claims[j] + 1] = NewClaim(w, job[j])]
                        ELSE claim[j]]
  /\ IF delivered THEN UNCHANGED faults ELSE Fault
  /\ UNCHANGED <<business, mode>>

-----------------------------------------------------------------------------
(* The durable start boundary: startAndDispatchClaim *)

StartCommits(j, n) == HoldsClaim(j, n) /\ ~job[j].started /\ LiveLease(j)

ChargeAttempt(j) == SetRow(j, [job[j] EXCEPT !.started = TRUE, !.attempts = @ + 1])
Started(c, attempt) == [c EXCEPT !.phase = "launching", !.attempt = attempt]

(* MarkExecutionStarted commits, or finds that an earlier call of this     *)
(* claim already did.                                                      *)
MarkExecutionStarted(j, n) ==
  /\ Phased(j, n, "starting")
  /\ HoldsClaim(j, n) /\ LiveLease(j)
  /\ IF job[j].started
       THEN UNCHANGED job /\ SetClaim(j, n, Started(claim[j][n], job[j].attempts))
       ELSE ChargeAttempt(j) /\ SetClaim(j, n, Started(claim[j][n], job[j].attempts + 1))
  /\ UNCHANGED <<business, claims, mode, faults>>

MarkExecutionStartedRefused(j, n) ==
  /\ Phased(j, n, "starting")
  /\ ~(HoldsClaim(j, n) /\ LiveLease(j))
  /\ Gone(j, n)
  /\ UNCHANGED <<job, business, claims, mode, faults>>

(* MarkExecutionStarted returns an error: a database fault, or the stop    *)
(* cancels the call.  Its transaction may have committed, or may commit    *)
(* later: LateStart.                                                       *)
MarkExecutionStartedError(j, n) ==
  /\ Phased(j, n, "starting")
  /\ IF StopRequested(j, n) THEN UNCHANGED faults ELSE Fault
  /\ SetClaim(j, n, [claim[j][n] EXCEPT !.phase = "resolving", !.late = TRUE])
  /\ UNCHANGED <<job, business, claims, mode>>

LateStart(j, n) ==
  /\ claim[j][n].late
  /\ StartCommits(j, n)
  /\ ChargeAttempt(j)
  /\ SetClaim(j, n, [claim[j][n] EXCEPT !.late = FALSE])
  /\ UNCHANGED <<business, claims, mode, faults>>

(* resolveExecutionStart, with the lease renewal before the next try.      *)
ResolveExecutionStart(j, n) ==
  /\ Phased(j, n, "resolving")
  /\ \/ ~HoldsClaim(j, n) /\ Gone(j, n)
     \/ /\ HoldsClaim(j, n) /\ job[j].started
        /\ SetClaim(j, n, Started(claim[j][n], job[j].attempts))
     \/ /\ HoldsClaim(j, n) /\ ~job[j].started
        /\ \/ StopRequested(j, n) /\ Goto(j, n, "returning")
           \/ ~StopRequested(j, n) /\ LiveLease(j) /\ Goto(j, n, "starting")
           \/ ~StopRequested(j, n) /\ ~LiveLease(j) /\ Gone(j, n)
  /\ UNCHANGED <<job, business, claims, mode, faults>>

(* startClaimedExecution observes the stop before it starts the job.       *)
StopBeforeStart(j, n) ==
  /\ Phased(j, n, "starting") /\ StopRequested(j, n)
  /\ Goto(j, n, "returning")
  /\ UNCHANGED <<job, business, claims, mode, faults>>

ReturnUndispatchedClaim(j, n) ==
  /\ Phased(j, n, "returning")
  /\ IF HoldsClaim(j, n) /\ ~job[j].started
       THEN SetRow(j, Unclaimed(job[j]))
       ELSE UNCHANGED job
  /\ Gone(j, n)
  /\ UNCHANGED <<business, claims, mode, faults>>

(* The state cannot be read (a stop cancels the read as well), or the      *)
(* cleanup deadline passes: the claim is left to lease recovery.           *)
AbandonClaim(j, n) ==
  /\ claim[j][n].phase \in {"resolving", "returning"}
  /\ IF Phased(j, n, "resolving") /\ StopRequested(j, n) THEN UNCHANGED faults ELSE Fault
  /\ Gone(j, n)
  /\ UNCHANGED <<job, business, claims, mode>>

(* The dispatch gate of startAndDispatchClaim and the first lines of       *)
(* executeJob: a stopped worker leaves the charged claim to lease          *)
(* recovery; a claim that already carried the cancel flag is finalized     *)
(* without running its handler.                                            *)
Launch(j, n) ==
  /\ Phased(j, n, "launching")
  /\ IF StopRequested(j, n) THEN Gone(j, n)
     ELSE IF claim[j][n].cancelSeen
       THEN SetClaim(j, n, [claim[j][n] EXCEPT !.phase = "finalizing", !.plan = "cancel",
                                               !.late = FALSE])
       ELSE SetClaim(j, n, [claim[j][n] EXCEPT !.phase = "running", !.late = FALSE])
  /\ UNCHANGED <<job, business, claims, mode, faults>>

-----------------------------------------------------------------------------
(* Leases and the two goroutines that watch a running handler *)

(* No goroutine works for the claim that holds the job.                    *)
Orphan(j) == \A n \in Tokens : HoldsClaim(j, n) => Phased(j, n, "none")

(* Time passes the lease.  A renewal that succeeds leaves it live and is   *)
(* not a step.  A goroutine that lives and still lets its lease expire has *)
(* stalled or lost the database: that counts as a fault.                   *)
LeaseExpires(j) ==
  /\ job[j].status = "RUNNING" /\ LiveLease(j)
  /\ IF Orphan(j) THEN UNCHANGED faults ELSE Fault
  /\ SetRow(j, [job[j] EXCEPT !.lease = "expired"])
  /\ UNCHANGED <<business, claims, claim, mode>>

(* cancelJob: the first cause a context is cancelled with is kept.         *)
CancelContext(j, n, cause) ==
  /\ claim[j][n].cause = "none"
  /\ SetClaim(j, n, [claim[j][n] EXCEPT !.cause = cause])

(* LeaseRenewer.run: the renewal is refused, or fails.                     *)
RenewalFails(j, n) ==
  /\ claim[j][n].phase \in {"running", "returned"}
  /\ \/ /\ ~(job[j].status = "RUNNING" /\ job[j].token = n /\ LiveLease(j))
        /\ CancelContext(j, n, "ownershipLost")
        /\ UNCHANGED faults
     \/ /\ CancelContext(j, n, "renewFailed")
        /\ Fault
  /\ UNCHANGED <<job, business, claims, mode>>

(* The cancel poll of executeJob, which may tick once more between the     *)
(* handler's last transaction and stopCancelPoll.                          *)
CancelPoll(j, n) ==
  /\ claim[j][n].phase \in {"running", "returned"}
  /\ \/ /\ ~(job[j].status = "RUNNING" /\ job[j].token = n)
        /\ CancelContext(j, n, "ownershipLost")
        /\ UNCHANGED faults
     \/ /\ job[j].status = "RUNNING" /\ job[j].token = n /\ job[j].cancel
        /\ CancelContext(j, n, "user")
        /\ UNCHANGED faults
     \/ /\ CancelContext(j, n, "pollFailed")
        /\ Fault
  /\ UNCHANGED <<job, business, claims, mode>>

-----------------------------------------------------------------------------
(* The handler, as far as the job and its resource see it *)

HandlerReturns(j, n, ret) ==
  SetClaim(j, n, [claim[j][n] EXCEPT !.phase = "returned", !.ret = ret])

(* The handler opens its resource: StartAttemptWithClaim for a diagnosis,  *)
(* under the live claim; UpdateStatus and MarkBuildBuilding for the        *)
(* pipeline, guarded by the resource's own status only.                    *)
HandlerBegins(j, n) ==
  /\ Phased(j, n, "running")
  /\ j \in DiagnosisJobs =>
       HoldsClaim(j, n) /\ job[j].started /\ LiveLease(j) /\ ~job[j].cancel
  /\ business[j] = "QUEUED"
  /\ SetBusiness(j, "RUNNING")
  /\ UNCHANGED <<job, claims, claim, mode, faults>>

(* Mutant of HandlerOutcomes: the flag is not read under the row lock.     *)
HandlerOutcomes_NoCancel(j, n) ==
  {"SUCCEEDED"} \cup (IF j \in DiagnosisJobs THEN {"FAILED"} ELSE {})

(* What a handler's own transaction may write: success, for a diagnosis    *)
(* also a terminal failure, or the cancellation that was requested.        *)
HandlerOutcomes(j, n) ==
  IF job[j].cancel THEN {"CANCELLED"}
  ELSE {"SUCCEEDED"} \cup (IF j \in DiagnosisJobs THEN {"FAILED"} ELSE {})

EndedRow(row, outcome, reason, retryable) ==
  CASE outcome = "SUCCEEDED" -> Succeeded(row)
    [] outcome = "CANCELLED" -> Cancelled(row)
    [] outcome = "FAILED" -> Failed(row, reason, retryable)

AtomicReturn(outcome, reason) ==
  CASE outcome = "SUCCEEDED" -> "atomicSucceeded"
    [] outcome = "CANCELLED" -> "atomicCancelled"
    [] outcome = "FAILED" ->
         IF reason = "RETRYABLE_EXHAUSTED" THEN "atomicExhausted" ELSE "atomicPermanent"

(* The handler finalizes job and resource in one transaction, under the    *)
(* fence of its claim.  If the response of the commit is lost it returns   *)
(* an AtomicHandlerFinalizationError.                                      *)
HandlerCommits(j, n, outcome, reason, retryable, acknowledged) ==
  /\ Phased(j, n, "running")
  /\ Owned(j, n) /\ business[j] = "RUNNING"
  /\ outcome \in HandlerOutcomes(j, n)
  /\ SetRow(j, EndedRow(job[j], outcome, reason, retryable))
  /\ SetBusiness(j, outcome)
  /\ IF acknowledged
       THEN /\ HandlerReturns(j, n, IF outcome = "SUCCEEDED" THEN "nil" ELSE "finalized")
            /\ UNCHANGED faults
       ELSE HandlerReturns(j, n, AtomicReturn(outcome, reason)) /\ Fault
  /\ UNCHANGED <<claims, mode>>

HandlerFinalizes(j, n, acknowledged) ==
  \E outcome \in HandlerOutcomes(j, n),
     reason \in {"PERMANENT", "RETRYABLE_EXHAUSTED"}, retryable \in BOOLEAN :
    /\ outcome # "FAILED" => reason = "PERMANENT" /\ ~retryable
    /\ reason = "RETRYABLE_EXHAUSTED" => claim[j][n].attempt >= MaxAttempts
    /\ HandlerCommits(j, n, outcome, reason, retryable, acknowledged)

(* The handler's transaction is rolled back: the database failed, or a     *)
(* row it guards has moved.                                                *)
HandlerFinalizationFails(j, n) ==
  /\ Phased(j, n, "running")
  /\ \E ret \in Atomic :
       /\ j \notin DiagnosisJobs => ret = "atomicSucceeded"
       /\ ret = "atomicExhausted" => claim[j][n].attempt >= MaxAttempts
       /\ HandlerReturns(j, n, ret)
  /\ UNCHANGED <<job, business, claims, mode, faults>>

(* A handler that finds its resource terminal, its claim gone, its job     *)
(* cancelled or its context cancelled returns without writing.             *)
HandlerStops(j, n) ==
  /\ Phased(j, n, "running")
  /\ \E ret \in {"nil", "finalized", "user", "ownershipLost", "shutdown"} :
       /\ ret = "nil" => business[j] \in Terminal
       /\ ret = "finalized" => job[j].status \in Terminal
       /\ ret = "user" => Owned(j, n) /\ job[j].cancel
       /\ ret = "ownershipLost" => ~(Owned(j, n) /\ LiveLease(j)) \/ claim[j][n].cause = ret
       /\ ret = "shutdown" => claim[j][n].cause = ret
       /\ HandlerReturns(j, n, ret)
  /\ UNCHANGED <<job, business, claims, mode, faults>>

(* The handler fails before, or without, a transaction of its own.         *)
HandlerFails(j, n) ==
  /\ Phased(j, n, "running")
  /\ \E ret \in {"retryable", "permanent"} : HandlerReturns(j, n, ret)
  /\ UNCHANGED <<job, business, claims, mode, faults>>

-----------------------------------------------------------------------------
(* executeJob after the handler: the decision and the fenced finalization *)

(* The error executeJob acts on: the context's cause replaces what the     *)
(* handler returned, except that a PROVIDER_OUTCOME_UNKNOWN policy gives   *)
(* way to ownership loss only.                                             *)
EffectiveError(c) ==
  IF c.cause = "none" \/ (c.ret = "atomicUnknown" /\ c.cause # "ownershipLost")
    THEN c.ret ELSE c.cause

(* Mutant of RetryPlan: off by one.                                        *)
RetryPlan_OneMore(c) == IF c.attempt > MaxAttempts THEN "failExhausted" ELSE "retry"

RetryPlan(c) == IF c.attempt >= MaxAttempts THEN "failExhausted" ELSE "retry"

(* ClassifyError and the switch that follows it.  A handler transaction    *)
(* that did not commit keeps the class of its cause; a pipeline            *)
(* finalizer's raw error may be classified either way.                     *)
Plans(c) ==
  LET err == EffectiveError(c) IN
  CASE err = "nil" -> {"success"}
    [] err = "user" -> {"cancel"}
    [] err \in {"finalized", "ownershipLost", "shutdown"} -> {"none"}
    [] err \in {"permanent", "atomicPermanent", "atomicUnknown"} -> {"failPermanent"}
    [] err = "atomicExhausted" -> {"failExhausted"}
    [] err \in {"atomicSucceeded", "atomicCancelled"} -> {RetryPlan(c), "failPermanent"}
    [] OTHER -> {RetryPlan(c)}

(* resolveAtomicHandlerFinalization, then the decision.  Only a job that   *)
(* is still RUNNING under this claim is finalized again.                   *)
AfterHandler(j, n) ==
  /\ Phased(j, n, "returned")
  /\ IF /\ claim[j][n].ret \in Atomic
        /\ ~(SameExecutionClaim(j, n) /\ job[j].status = "RUNNING")
       THEN Gone(j, n)
       ELSE \E plan \in Plans(claim[j][n]) :
              IF plan = "none" THEN Gone(j, n)
              ELSE SetClaim(j, n, [claim[j][n] EXCEPT !.phase = "finalizing", !.plan = plan])
  /\ UNCHANGED <<job, business, claims, mode, faults>>

(* The durable job cannot be read: the finalization stays unresolved and   *)
(* the claim is left to lease recovery.                                    *)
AtomicReadFails(j, n) ==
  /\ Phased(j, n, "returned") /\ claim[j][n].ret \in Atomic
  /\ Fault
  /\ Gone(j, n)
  /\ UNCHANGED <<job, business, claims, mode>>

(* The business states in which the planned transaction commits.           *)
FinalizeCommits(j, n) ==
  /\ Owned(j, n)
  /\ IF job[j].cancel THEN j \in DiagnosisJobs /\ CanCancelBusiness(j)
     ELSE CASE claim[j][n].plan \in {"success", "retry"} -> TRUE
            [] claim[j][n].plan = "cancel" -> FALSE
            [] OTHER -> CanFailBusiness(j)

(* ConditionalFinalizeSuccess, -Failure and -Cancel: an accepted           *)
(* cancellation wins over every plan.                                      *)
FinalRows(j, n) ==
  LET row == job[j]
      c == claim[j][n]
      why == IF c.plan = "failPermanent" THEN "PERMANENT" ELSE "RETRYABLE_EXHAUSTED"
  IN IF row.cancel THEN {Cancelled(row)}
     ELSE CASE c.plan = "success" -> {Succeeded(row)}
            [] c.plan = "retry" -> {RetryWait(row)}
            [] OTHER -> {Failed(row, why, r) :
                           r \in {x \in BOOLEAN : /\ x => j \in DiagnosisJobs
                                                 /\ c.ret = "atomicUnknown" => x}}

(* One round of resolveFinalization.  The transaction commits and the      *)
(* goroutine ends, or its response is lost and the next round reads the    *)
(* row; a claim that no longer owns the job ends.  A round whose           *)
(* transaction fails is retried, and changes nothing.                      *)
Finalize(j, n, acknowledged) ==
  /\ Phased(j, n, "finalizing") /\ mode[claim[j][n].worker] # "cancelled"
  /\ FinalizeCommits(j, n)
  /\ \E row \in FinalRows(j, n) :
       SetRow(j, row) /\ SetBusiness(j, Follows(business[j], row))
  /\ IF acknowledged THEN Gone(j, n) /\ UNCHANGED faults
     ELSE UNCHANGED claim /\ Fault
  /\ UNCHANGED <<claims, mode>>

FinalizeEnds(j, n) ==
  /\ Phased(j, n, "finalizing")
  /\ ~Owned(j, n) \/ mode[claim[j][n].worker] = "cancelled"
  /\ Gone(j, n)
  /\ UNCHANGED <<job, business, claims, mode, faults>>

-----------------------------------------------------------------------------
(* The API: cancellation and explicit retries *)

(* RequestCancellation.  A waiting job is cancelled at once with its run;  *)
(* a RUNNING job is flagged for its owner.  A RUNNING run whose job is     *)
(* PENDING is refused.                                                     *)
CancelAccepted(j) ==
  /\ j \in DiagnosisJobs
  /\ \/ business[j] = "QUEUED" /\ job[j].status \in Claimable \cup {"RUNNING"}
     \/ business[j] = "RUNNING" /\ job[j].status \in {"RUNNING", "RETRY_WAIT"}

RequestCancellation(j) ==
  /\ CancelAccepted(j)
  /\ IF job[j].status = "RUNNING"
       THEN SetRow(j, [job[j] EXCEPT !.cancel = TRUE]) /\ UNCHANGED business
       ELSE /\ SetRow(j, [Cancelled(job[j]) EXCEPT !.cancel = TRUE])
            /\ SetBusiness(j, "CANCELLED")
  /\ UNCHANGED <<claims, claim, mode, faults>>

RestartGeneration(j) ==
  /\ job[j].status = "FAILED" /\ business[j] = "FAILED"
  /\ job[j].generation < MaxGeneration
  /\ SetRow(j, NextGeneration(job[j]))
  /\ SetBusiness(j, "QUEUED")
  /\ UNCHANGED <<claims, claim, mode, faults>>

(* ManualRequeueTx, reached for the pipeline's jobs.                       *)
ManualRequeue(j) ==
  /\ j \notin DiagnosisJobs /\ job[j].reason = "RETRYABLE_EXHAUSTED"
  /\ RestartGeneration(j)

RetryDiagnosis(j) ==
  /\ j \in DiagnosisJobs /\ job[j].retryable
  /\ RestartGeneration(j)

-----------------------------------------------------------------------------
(* Time and the reaper *)

(* next_run_at passes.                                                     *)
BackoffElapses(j) ==
  /\ job[j].status = "RETRY_WAIT" /\ ~job[j].due
  /\ SetRow(j, [job[j] EXCEPT !.due = TRUE])
  /\ UNCHANGED <<business, claims, claim, mode, faults>>

(* Mutant of Expired: the reaper's query limited to executions that passed *)
(* the start boundary.                                                     *)
Expired_StartedOnly(j) ==
  job[j].status = "RUNNING" /\ job[j].lease = "expired" /\ job[j].started

Expired(j) == job[j].status = "RUNNING" /\ job[j].lease = "expired"

(* Mutant of Reaped: an unstarted claim is retried as if it had executed.  *)
Reaped_AsStarted(row, unknown) ==
  IF row.cancel THEN Cancelled(row)
  ELSE IF unknown THEN Failed(row, "PERMANENT", TRUE)
  ELSE IF row.attempts < MaxAttempts THEN RetryWait(row)
  ELSE Failed(row, "RETRYABLE_EXHAUSTED", FALSE)

(* ReapExpiredJobs on one row; unknown is diagnosisOutcomeUnknownMarker.   *)
Reaped(row, unknown) ==
  IF row.cancel THEN Cancelled(row)
  ELSE IF ~row.started THEN Unclaimed(row)
  ELSE IF unknown THEN Failed(row, "PERMANENT", TRUE)
  ELSE IF row.attempts < MaxAttempts THEN RetryWait(row)
  ELSE Failed(row, "RETRYABLE_EXHAUSTED", FALSE)

(* The business states in which that row's statements succeed; otherwise   *)
(* the transaction aborts, with every other row of its batch.              *)
Reapable(j, unknown) ==
  LET next == Reaped(job[j], unknown).status IN
  /\ next = "CANCELLED" => CanCancelBusiness(j)
  /\ next = "FAILED" => IF unknown THEN business[j] = "RUNNING" ELSE CanFailBusiness(j)

(* U is the set of diagnoses whose current attempt carries the marker: a   *)
(* started attempt, so a run that has left QUEUED.                         *)
ReapExpiredJobs(S, U) ==
  /\ \E w \in Workers : mode[w] = "running"
  /\ S # {} /\ \A j \in S : Expired(j) /\ Reapable(j, j \in U)
  /\ U \subseteq {j \in DiagnosisJobs : business[j] # "QUEUED"}
  /\ job' = [j \in Jobs |-> IF j \in S THEN Reaped(job[j], j \in U) ELSE job[j]]
  /\ business' = [j \in Jobs |-> IF j \in S THEN Follows(business[j], Reaped(job[j], j \in U))
                                   ELSE business[j]]
  /\ UNCHANGED <<claims, claim, mode, faults>>

-----------------------------------------------------------------------------
(* Worker processes *)

RequestStop(w) ==
  /\ mode[w] = "running"
  /\ mode' = [mode EXCEPT ![w] = "stopping"]
  /\ Fault
  /\ UNCHANGED <<job, business, claims, claim>>

(* StopGracefully gives up draining: cancelActive cancels every handler    *)
(* and every finalization with ErrWorkerShutdown.                          *)
CancelActive(w) ==
  /\ mode[w] = "stopping" /\ Busy(w) # {}
  /\ mode' = [mode EXCEPT ![w] = "cancelled"]
  /\ claim' = [j \in Jobs |-> [n \in Tokens |->
       IF /\ claim[j][n].worker = w /\ claim[j][n].cause = "none"
          /\ claim[j][n].phase \in {"running", "returned"}
         THEN [claim[j][n] EXCEPT !.cause = "shutdown"]
         ELSE claim[j][n]]]
  /\ UNCHANGED <<job, business, claims, faults>>

WorkerEnds(w) ==
  /\ mode' = [mode EXCEPT ![w] = "stopped"]
  /\ claim' = [j \in Jobs |-> [n \in Tokens |->
       IF claim[j][n].worker = w THEN NoClaim ELSE claim[j][n]]]
  /\ UNCHANGED <<job, business, claims>>

(* Mutant of Exit: the process waits for work it has already cancelled.    *)
Exit_DrainedOnly(w) ==
  /\ mode[w] = "stopping" /\ Busy(w) = {}
  /\ WorkerEnds(w)
  /\ UNCHANGED faults

Exit(w) ==
  /\ mode[w] = "cancelled" \/ (mode[w] = "stopping" /\ Busy(w) = {})
  /\ WorkerEnds(w)
  /\ UNCHANGED faults

Crash(w) == mode[w] # "stopped" /\ WorkerEnds(w) /\ Fault

(* The container's restart policy.                                         *)
Restart(w) ==
  /\ mode[w] = "stopped"
  /\ mode' = [mode EXCEPT ![w] = "running"]
  /\ UNCHANGED <<job, business, claims, claim, faults>>

-----------------------------------------------------------------------------
(* The specification *)

StartBoundary(j, n) ==
  \/ MarkExecutionStarted(j, n) \/ MarkExecutionStartedRefused(j, n)
  \/ MarkExecutionStartedError(j, n) \/ LateStart(j, n) \/ ResolveExecutionStart(j, n)
  \/ StopBeforeStart(j, n) \/ ReturnUndispatchedClaim(j, n) \/ AbandonClaim(j, n)
  \/ Launch(j, n)

Handler(j, n) ==
  \/ HandlerBegins(j, n) \/ HandlerStops(j, n) \/ HandlerFails(j, n)
  \/ HandlerFinalizationFails(j, n)
  \/ \E acknowledged \in BOOLEAN : HandlerFinalizes(j, n, acknowledged)

Execution(j, n) ==
  \/ RenewalFails(j, n) \/ CancelPoll(j, n)
  \/ AfterHandler(j, n) \/ AtomicReadFails(j, n)
  \/ \E acknowledged \in BOOLEAN : Finalize(j, n, acknowledged)
  \/ FinalizeEnds(j, n)

JobStep(j) ==
  \/ CreateJob(j) \/ LeaseExpires(j) \/ BackoffElapses(j)
  \/ RequestCancellation(j) \/ ManualRequeue(j) \/ RetryDiagnosis(j)

WorkerStep(w) ==
  \/ \E delivered \in BOOLEAN : ClaimJobs(w, delivered)
  \/ RequestStop(w) \/ CancelActive(w) \/ Exit(w) \/ Crash(w) \/ Restart(w)

Next ==
  \/ \E j \in Jobs : JobStep(j)
  \/ \E w \in Workers : WorkerStep(w)
  \/ \E S \in SUBSET Jobs, U \in SUBSET DiagnosisJobs : U \subseteq S /\ ReapExpiredJobs(S, U)
  \/ \E j \in Jobs, n \in Tokens :
       StartBoundary(j, n) \/ Handler(j, n) \/ Execution(j, n)

Spec == Init /\ [][Next]_vars

(* Fairness.  Timers fire (lease expiry of an orphan, next_run_at, the poll *)
(* and reap tickers, the drain timeout), a stopped container restarts, a   *)
(* handler returns, and the goroutine of a claim takes its next step.  No  *)
(* fault is ever owed.  That a handler returns is an assumption: provider  *)
(* and git calls have timeouts, but the context of an execution has no     *)
(* deadline, and a handler that hangs has its lease renewed for ever.      *)
ClaimedBy(j) == \E w \in Workers : ClaimJobs(w, TRUE) /\ claims'[j] # claims[j]
ReapedBy(j) ==
  \E S \in SUBSET Jobs, U \in SUBSET DiagnosisJobs : j \in S /\ U \subseteq S /\ ReapExpiredJobs(S, U)
StartProgress(j, n) ==
  \/ MarkExecutionStarted(j, n) \/ MarkExecutionStartedRefused(j, n)
  \/ ResolveExecutionStart(j, n) \/ StopBeforeStart(j, n)
  \/ ReturnUndispatchedClaim(j, n) \/ Launch(j, n)
HandlerDone(j, n) ==
  \/ HandlerFinalizes(j, n, TRUE) \/ HandlerFinalizationFails(j, n)
  \/ HandlerStops(j, n) \/ HandlerFails(j, n)

Fairness ==
  /\ \A w \in Workers : WF_vars(CancelActive(w) \/ Exit(w) \/ Restart(w))
  /\ \A j \in Jobs : /\ WF_vars(Orphan(j) /\ LeaseExpires(j))
                     /\ WF_vars(BackoffElapses(j))
                     /\ WF_vars(ClaimedBy(j))
                     /\ WF_vars(ReapedBy(j))
  /\ \A j \in Jobs, n \in Tokens :
       /\ WF_vars(StartProgress(j, n))
       /\ WF_vars(HandlerDone(j, n))
       /\ WF_vars(AfterHandler(j, n))
       /\ WF_vars(Finalize(j, n, TRUE) \/ FinalizeEnds(j, n))

FairSpec == Spec /\ Fairness

-----------------------------------------------------------------------------
(* Safety *)

(* The job row and its resource end together: one is terminal exactly when *)
(* the other is, with the same outcome.  Every finalizer, the reaper, the  *)
(* cancellation and the retries write both in one transaction.             *)
JobBusinessAgreement ==
  \A j \in Jobs : \A t \in Terminal : job[j].status = t <=> business[j] = t

(* A generation never charges more than max_attempts executions, and a row *)
(* that may be claimed or started again still has an attempt left.         *)
AttemptsBounded ==
  \A j \in Jobs :
    /\ job[j].attempts <= MaxAttempts
    /\ \/ job[j].status \in {"ABSENT"} \cup Claimable
       \/ job[j].status = "RUNNING" /\ ~job[j].started
       => job[j].attempts < MaxAttempts

(* The goroutine that passes the finalizers' fence, which compares the     *)
(* token and not the generation, belongs to the latest claim of the job,   *)
(* to its current generation, and works under its durable attempt count.   *)
OnlyLatestClaimOwns ==
  \A j \in Jobs, n \in Tokens :
    Owned(j, n) /\ claim[j][n].phase \in {"running", "returned", "finalizing"}
      => /\ n = claims[j]
         /\ claim[j][n].generation = job[j].generation
         /\ claim[j][n].attempt = job[j].attempts

(* Two claims of one generation never execute under the same attempt       *)
(* number, even while a stale handler still runs: diagnosis_attempts is    *)
(* unique on (run, generation, attempt_no).                                *)
DistinctAttempts ==
  \A j \in Jobs : \A m, n \in Tokens :
    /\ m # n
    /\ claim[j][m].phase \in {"running", "returned", "finalizing"}
    /\ claim[j][n].phase \in {"running", "returned", "finalizing"}
    /\ claim[j][m].generation = claim[j][n].generation
    => claim[j][m].attempt # claim[j][n].attempt

(* resolveFinalization retries forever while its claim owns the job and    *)
(* renews the lease meanwhile, so the planned transaction must be able to  *)
(* commit whenever the claim still owns the job.                           *)
FinalizerCanCommit ==
  \A j \in Jobs, n \in Tokens :
    Phased(j, n, "finalizing") /\ Owned(j, n) => FinalizeCommits(j, n)

(* No expired row can make ReapExpiredJobs abort: an abort would block the *)
(* recovery of every other job of the batch, forever.                      *)
ReaperNeverPoisoned ==
  \A j \in Jobs :
    Expired(j) =>
      /\ Reapable(j, FALSE)
      /\ j \in DiagnosisJobs /\ business[j] # "QUEUED" => Reapable(j, TRUE)

(* An accepted cancellation is never overtaken by success, failure or a    *)
(* retry: the row goes nowhere but to CANCELLED.  Only a claim that never  *)
(* started may be put back meanwhile.                                      *)
CancellationWins ==
  \A j \in Jobs : job[j].cancel => job[j].status \in {"PENDING", "RUNNING", "CANCELLED"}

(* A terminal job and its resource never change again, whatever a stale    *)
(* worker still does, except that a FAILED job starts a new generation     *)
(* with nothing charged and reopens its resource.                          *)
TerminalIsFinal ==
  [][\A j \in Jobs :
       job[j].status \in Terminal =>
         \/ job'[j] = job[j] /\ business'[j] = business[j]
         \/ /\ job[j].status = "FAILED"
            /\ job'[j] = NextGeneration(job[j]) /\ business'[j] \in Open]_vars

(* An attempt is charged once per claim, at the durable start boundary,    *)
(* and never refunded within a generation: not by the return of a claim,   *)
(* the reaper, a late start or its retry.                                  *)
ChargedOncePerClaim ==
  [][\A j \in Jobs :
       job'[j].generation = job[j].generation /\ job'[j].attempts # job[j].attempts =>
         /\ job'[j].attempts = job[j].attempts + 1
         /\ ~job[j].started /\ job'[j].started
         /\ job[j].status = "RUNNING" /\ job'[j].token = job[j].token]_vars

(* The job diagram of docs/state-machines.md has an edge to CANCELLED from  *)
(* PENDING and from RETRY_WAIT: the cancellation of a waiting diagnosis is *)
(* accepted.                                                               *)
WaitingDiagnosisCancellable ==
  \A j \in DiagnosisJobs : job[j].status \in Claimable => CancelAccepted(j)

-----------------------------------------------------------------------------
(* The inductive invariant behind the theorems of AnalysisJobs_proofs *)

Executing == {"launching", "running", "returned", "finalizing"}

(* One row r of job j, whose resource is in state b and whose last token   *)
(* is last: the token of a RUNNING job is the last one issued, only the    *)
(* start boundary sets started, an attempt is left whenever one may still  *)
(* be charged, a flagged job waits for nothing but its cancellation, and   *)
(* job and resource are open together.                                     *)
RowOK(j, r, b, last) ==
  /\ r.status = "RUNNING" => r.token = last /\ r.token # 0
  /\ r.status = "ABSENT" => r = AbsentRow
  /\ r.status = "PENDING" => ~r.started
  /\ r.attempts <= MaxAttempts
  /\ r.status \in Claimable => r.attempts < MaxAttempts
  /\ r.status = "RUNNING" /\ ~r.started => r.attempts < MaxAttempts
  /\ r.cancel => j \in DiagnosisJobs /\ r.status \in {"PENDING", "RUNNING", "CANCELLED"}
  /\ r.status = "ABSENT" <=> b = "ABSENT"
  /\ \A t \in Terminal : r.status = t <=> b = t

(* The row is held by token n.                                             *)
Holds(r, n) == r.status = "RUNNING" /\ r.token = n

(* The goroutine c of token n beside the row r: it exists for a token      *)
(* already issued, in a generation that has begun; while its token holds   *)
(* the job the generation, the start boundary and the attempt number are   *)
(* the job's own, the cancellation it has seen is the job's, and it has no *)
(* success left to write.                                                  *)
ClaimOK(r, last, n, c) ==
  /\ c.phase = "none" => c = NoClaim
  /\ c.phase # "none" =>
       /\ n <= last /\ 1 <= c.generation /\ c.generation <= r.generation
       /\ Holds(r, n) => c.generation = r.generation
       /\ Holds(r, n) /\ c.cancelSeen => r.cancel
  /\ c.phase \in Executing =>
       /\ c.generation = r.generation => c.attempt <= r.attempts
       /\ Holds(r, n) => r.started /\ c.attempt = r.attempts
       /\ c.generation = r.generation /\ r.status = "RUNNING" /\ r.started /\ r.token # n
            => c.attempt < r.attempts
  /\ Holds(r, n) /\ (c.cause = "user" \/ c.ret = "user" \/ c.plan = "cancel") => r.cancel
  /\ c.ret = "nil" \/ c.plan = "success" => c.phase \in Executing /\ ~Holds(r, n)
  /\ c.plan = "retry" => c.phase \in Executing /\ c.attempt < MaxAttempts

(* Goroutines c and d of two tokens of one job.                            *)
PairOK(c, d) ==
  c.phase \in Executing /\ d.phase \in Executing /\ c.generation = d.generation
    => c.attempt # d.attempt

JobInv(j) ==
  /\ RowOK(j, job[j], business[j], claims[j])
  /\ \A n \in Tokens : ClaimOK(job[j], claims[j], n, claim[j][n])
  /\ \A m, n \in Tokens : m # n => PairOK(claim[j][m], claim[j][n])

(* TypeOK strengthened until every step preserves it.                      *)
IInv == TypeOK /\ \A j \in Jobs : JobInv(j)

(* From row r to row s, while the last token goes from last to new: a      *)
(* token issued before holds the job only if it did, in the same execution *)
(* and with no better a lease; within a generation attempts only grow,     *)
(* with every new execution, and an end is final.                          *)
RowKeeps(r, s, last, new) ==
  /\ last <= new /\ r.generation <= s.generation
  /\ \A n \in Tokens : n <= last /\ Holds(s, n) =>
       /\ Holds(r, n) /\ s.generation = r.generation
       /\ r.started => s.started /\ s.attempts = r.attempts
       /\ s.lease = "live" => r.lease = "live"
       /\ r.cancel => s.cancel
  /\ s.generation = r.generation =>
       /\ r.attempts <= s.attempts
       /\ r.status \in Terminal => s.status \in Terminal
       /\ s.status = "RUNNING" /\ s.started =>
            \/ r.status = "RUNNING" /\ r.started /\ r.token = s.token
            \/ r.attempts < s.attempts

-----------------------------------------------------------------------------
(* Liveness *)

(* Every job that exists ends, whatever crashes, stalls and database       *)
(* faults happen on the way.                                               *)
JobSettles ==
  \A j \in Jobs : job[j].status # "ABSENT" ~> job[j].status \in Terminal

(* A worker told to stop exits: no claim, handler or finalization keeps    *)
(* StopGracefully from returning.                                          *)
StopCompletes ==
  \A w \in Workers : mode[w] = "stopping" ~> mode[w] = "stopped"

=============================================================================

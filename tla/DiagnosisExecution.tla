--------------------------- MODULE DiagnosisExecution ---------------------------
(***************************************************************************)
(* The execution of a diagnosis: DiagnosisJobHandler.Execute               *)
(* (internal/worker/job_handler.go) with the attempts, checkpoints and     *)
(* provider dispatch markers of internal/diagnosis/store.go, composed with *)
(* the job queue of AnalysisJobs.                                          *)
(*                                                                         *)
(* Modelled:                                                               *)
(*   - the diagnosis_attempts row of every claim and the run's             *)
(*     final_attempt_id;                                                   *)
(*   - every database round trip of the handler and of the dispatch guard  *)
(*     (llm.GuardProvider) as a step of its own, each with the refusals of *)
(*     its lock and with a database failure before or after the commit     *)
(*     ("outages", a bounded budget);                                      *)
(*   - provider calls that succeed, fail definitely or leave their outcome *)
(*     unknown, as often as the agent loop and the provider retry ask;     *)
(*   - what the job store, the reaper and the recovery sweeper do to the   *)
(*     attempts.                                                           *)
(*                                                                         *)
(* Abstractions.  An attempt is named by the claim token it was created    *)
(* under: a handler creates at most one.  A report is valid, invalid or    *)
(* partial.  The fields work and unsaved are not columns: they remember    *)
(* whether the provider may have worked for the attempt, and whether a     *)
(* checkpoint of that work was refused.  A frozen execution spec is valid, *)
(* and the versions in it never change, so EXECUTION_SPEC_INVALID and      *)
(* CHECKPOINT_VERSION_MISMATCH do not occur.                               *)
(***************************************************************************)
EXTENDS AnalysisJobs

CONSTANT MaxOutages     \* bound: database failures inside the handler

ASSUME OutagesAssumption == MaxOutages \in Nat
ASSUME OnlyDiagnoses == Jobs = DiagnosisJobs

VARIABLES
  attempt,    \* attempt[j][n]: the diagnosis_attempts row created by claim n
  final,      \* final_attempt_id of each run, 0 for NULL
  handler,    \* handler[j][n]: where DiagnosisJobHandler.Execute is
  outages     \* database failures inside handlers so far

execVars == <<attempt, final, handler, outages>>
allVars == <<vars, execVars>>

-----------------------------------------------------------------------------
(* Types *)

AttemptStatus == {"none", "RUNNING", "SUCCEEDED", "FAILED_RETRYABLE", "FAILED_TERMINAL",
                  "CANCELLED", "ABANDONED"}
FinalKind == {"valid", "invalid"}     \* FINAL_VALID, FINAL_INVALID
Result == {"nil", "partial"} \cup FinalKind
Work == {"none", "sent", "done"}
AttemptRow == [status: AttemptStatus, generation: 0 .. MaxGeneration, no: Nat,
               unresolved: BOOLEAN, success: BOOLEAN, ckpt: Result,
               unknownCode: BOOLEAN, work: Work, unsaved: BOOLEAN]
NoAttempt == [status |-> "none", generation |-> 0, no |-> 0, unresolved |-> FALSE,
              success |-> FALSE, ckpt |-> "nil", unknownCode |-> FALSE, work |-> "none",
              unsaved |-> FALSE]

(* Where the handler is.                                                   *)
HandlerAt == {"load",         \* before GetByID
              "begin",        \* before StartAttemptWithClaim
              "startFailed",  \* it committed, the response was lost
              "resume",       \* before GetLatestFinalCheckpoint
              "round",        \* in the executor, between provider calls
              "marked",       \* the dispatch marker is set
              "call",         \* the provider request may be on its way
              "accept",       \* the provider answered
              "reject",       \* the provider definitely failed
              "verify",       \* before GetAttempt
              "save",         \* before the checkpoint
              "decide",       \* before the last look at the context's cause
              "finish",       \* before the finalizing transaction
              "cancel"}       \* before FinalizeCancellation
(* execErr; "invalidUnknown" wraps both ErrInvalidStructuredReport and      *)
(* OutcomeUnknownError.                                                    *)
ExecErr == {"none", "invalid", "invalidUnknown", "unknown", "retryable", "permanent",
            "ownershipLost", "user", "saveFailed", "tooLarge"}
HandlerState == [pc: HandlerAt, result: Result, err: ExecErr]
NoHandler == [pc |-> "load", result |-> "nil", err |-> "none"]

Unknown(err) == err \in {"unknown", "invalidUnknown"}
Invalid(err) == err \in {"invalid", "invalidUnknown"}

ExecTypeOK ==
  /\ attempt \in [Jobs -> [Tokens -> AttemptRow]]
  /\ final \in [Jobs -> 0 .. MaxClaims]
  /\ handler \in [Jobs -> [Tokens -> HandlerState]]
  /\ outages \in 0 .. MaxOutages

-----------------------------------------------------------------------------
(* Helpers *)

At(j, n, pc) == Phased(j, n, "running") /\ handler[j][n].pc = pc
SetAttempt(j, n, a) == attempt' = [attempt EXCEPT ![j][n] = a]
SetHandler(j, n, h) == handler' = [handler EXCEPT ![j][n] = h]
Move(j, n, pc) == SetHandler(j, n, [handler[j][n] EXCEPT !.pc = pc])

Outage == outages < MaxOutages /\ outages' = outages + 1
(* An operation under the handler's own context: it also fails once the    *)
(* context is cancelled.                                                   *)
Interrupted(j, n) == IF claim[j][n].cause # "none" THEN UNCHANGED outages ELSE Outage

(* The handler returns without a transaction of its own.                   *)
Returns(j, n, ret) ==
  /\ HandlerReturns(j, n, ret)
  /\ SetHandler(j, n, NoHandler)
  /\ UNCHANGED <<job, business, claims, mode, faults>>

(* The executor returns to Execute.                                        *)
ExecutorEnds(j, n, result, err) ==
  SetHandler(j, n, [pc |-> IF err = "none" THEN "save" ELSE "verify",
                    result |-> result, err |-> err])

Attempts(j, generation) ==
  {n \in Tokens : attempt[j][n].status # "none" /\ attempt[j][n].generation = generation}
(* ORDER BY attempt_no DESC LIMIT 1; 0 when there is none.                 *)
Latest(j, S) ==
  IF S = {} THEN 0
  ELSE CHOOSE n \in S : \A m \in S : attempt[j][m].no <= attempt[j][n].no

-----------------------------------------------------------------------------
(* The locks of diagnosis/store.go *)

(* Mutant of StillRunning: the attempt's status is not part of the lock.   *)
StillRunning_AnyStatus(j, n) ==
  /\ attempt[j][n].status # "none"
  /\ attempt[j][n].generation = job[j].generation /\ attempt[j][n].no = job[j].attempts

(* The attempt is RUNNING and is the job's current one.                    *)
StillRunning(j, n) ==
  /\ attempt[j][n].status = "RUNNING"
  /\ attempt[j][n].generation = job[j].generation /\ attempt[j][n].no = job[j].attempts

(* lockDiagnosisExecutionTx: what it answers.  A claim that owns its job   *)
(* is of the job's generation, so the callers that compare the generation  *)
(* too refuse nothing more.                                                *)
Lock(j, n, cancellation) ==
  CASE ~Owned(j, n) -> IF job[j].status \in Terminal THEN "finalized" ELSE "ownershipLost"
    [] Owned(j, n) /\ job[j].cancel /\ ~cancellation -> "user"
    [] Owned(j, n) /\ ~job[j].cancel /\ cancellation -> "notRequested"
    [] OTHER -> IF business[j] = "RUNNING" /\ StillRunning(j, n) THEN "ok" ELSE "conflict"

(* lockLiveDiagnosisExecutionTx                                            *)
LiveLock(j, n) ==
  IF Lock(j, n, FALSE) = "ok" /\ ~LiveLease(j) THEN "ownershipLost" ELSE Lock(j, n, FALSE)

(* ClassifyError of a refused lock.                                        *)
Refusal(answer) == IF answer \in {"user", "ownershipLost"} THEN answer ELSE "retryable"

-----------------------------------------------------------------------------
(* The handler up to its attempt *)

ExecInit ==
  /\ Init
  /\ attempt = [j \in Jobs |-> [n \in Tokens |-> NoAttempt]]
  /\ final = [j \in Jobs |-> 0]
  /\ handler = [j \in Jobs |-> [n \in Tokens |-> NoHandler]]
  /\ outages = 0

(* Execute: the entry checks and GetByID.  An error of the read is         *)
(* reported as DIAGNOSIS_NOT_FOUND, which is permanent.                    *)
LoadRun(j, n) ==
  /\ At(j, n, "load")
  /\ \/ /\ claim[j][n].cause \in {"shutdown", "ownershipLost"}
        /\ Returns(j, n, claim[j][n].cause)
        /\ UNCHANGED outages
     \/ business[j] \in Terminal /\ Returns(j, n, "nil") /\ UNCHANGED outages
     \/ business[j] \in Open /\ Move(j, n, "begin") /\ UNCHANGED <<vars, outages>>
     \/ Interrupted(j, n) /\ Returns(j, n, "permanent")
  /\ UNCHANGED <<attempt, final>>

(* lockLiveDiagnosisJobTx                                                  *)
Startable(j, n) ==
  HoldsClaim(j, n) /\ job[j].started /\ LiveLease(j) /\ ~job[j].cancel

(* StartAttemptWithClaim commits: the run becomes RUNNING and the attempt  *)
(* is created in one transaction.  If its response is lost, or the context *)
(* is cancelled meanwhile, Execute returns START_ATTEMPT_FAILED and the    *)
(* attempt stays RUNNING.                                                  *)
StartAttempt(j, n, acknowledged) ==
  /\ At(j, n, "begin") /\ Startable(j, n)
  /\ \/ HandlerBegins(j, n)
     \/ business[j] = "RUNNING" /\ UNCHANGED vars
  /\ SetAttempt(j, n, [NoAttempt EXCEPT !.status = "RUNNING",
                         !.generation = job[j].generation, !.no = job[j].attempts])
  /\ IF acknowledged THEN Move(j, n, "resume") /\ UNCHANGED outages
     ELSE Move(j, n, "startFailed") /\ Interrupted(j, n)
  /\ UNCHANGED final

StartAttemptRefused(j, n) ==
  /\ At(j, n, "begin") /\ ~Startable(j, n)
  /\ Returns(j, n, CASE job[j].status \in Terminal -> "finalized"
                     [] HoldsClaim(j, n) /\ job[j].started /\ job[j].cancel -> "user"
                     [] OTHER -> "ownershipLost")
  /\ UNCHANGED <<attempt, final, outages>>

StartAttemptFails(j, n) ==
  /\ \/ At(j, n, "startFailed") /\ UNCHANGED outages
     \/ At(j, n, "begin") /\ Interrupted(j, n)
  /\ Returns(j, n, "retryable")
  /\ UNCHANGED <<attempt, final>>

(* GetLatestFinalCheckpoint and the resumption from it.  Rebinding the     *)
(* evidence of a valid draft to the new attempt may leave it invalid.      *)
LoadCheckpoint(j, n) ==
  /\ At(j, n, "resume")
  /\ LET found == {m \in Attempts(j, claim[j][n].generation) : attempt[j][m].ckpt \in FinalKind}
         kind == attempt[j][Latest(j, found)].ckpt
     IN \/ found = {} /\ Move(j, n, "round") /\ UNCHANGED <<vars, outages>>
        \/ /\ found # {} /\ kind = "valid"
           /\ ExecutorEnds(j, n, "valid", "none") /\ UNCHANGED <<vars, outages>>
        \/ found # {} /\ ExecutorEnds(j, n, "invalid", "invalid") /\ UNCHANGED <<vars, outages>>
        \/ Interrupted(j, n) /\ Returns(j, n, "retryable")
  /\ UNCHANGED <<attempt, final>>

-----------------------------------------------------------------------------
(* The executor: rounds of the agent loop around guarded provider calls *)

(* BeginProviderDispatch: the marker is durable before the request leaves. *)
MarkDispatch(j, n) ==
  /\ At(j, n, "round")
  /\ LET marked == [attempt[j][n] EXCEPT !.unresolved = TRUE]
     IN \/ /\ LiveLock(j, n) = "ok" /\ SetAttempt(j, n, marked)
           /\ \/ Move(j, n, "marked") /\ UNCHANGED outages
              \/ ExecutorEnds(j, n, "partial", "retryable") /\ Interrupted(j, n)
        \/ /\ LiveLock(j, n) # "ok" /\ UNCHANGED <<attempt, outages>>
           /\ ExecutorEnds(j, n, "partial", Refusal(LiveLock(j, n)))
        \/ /\ Interrupted(j, n) /\ UNCHANGED attempt
           /\ ExecutorEnds(j, n, "partial", "retryable")
  /\ UNCHANGED <<vars, final>>

(* CheckProviderDispatchAuthority, and the request leaves.                 *)
AuthorizeDispatch(j, n) ==
  /\ At(j, n, "marked")
  /\ \/ /\ LiveLock(j, n) = "ok" /\ attempt[j][n].unresolved
        /\ SetAttempt(j, n, [attempt[j][n] EXCEPT !.work = IF @ = "none" THEN "sent" ELSE @])
        /\ Move(j, n, "call") /\ UNCHANGED outages
     \/ /\ LiveLock(j, n) # "ok" /\ UNCHANGED <<attempt, outages>>
        /\ ExecutorEnds(j, n, "partial", Refusal(LiveLock(j, n)))
     \/ /\ Interrupted(j, n) /\ UNCHANGED attempt
        /\ ExecutorEnds(j, n, "partial", "retryable")
  /\ UNCHANGED <<vars, final>>

(* guardedProvider.Generate: the provider answers, fails definitely (the   *)
(* request was never sent, or an HTTP status came back), or its outcome is *)
(* unknown (a timeout, a cancelled context, a broken response).            *)
ProviderCall(j, n) ==
  /\ At(j, n, "call")
  /\ LET row == attempt[j][n]
     IN \/ SetAttempt(j, n, [row EXCEPT !.work = "done"]) /\ Move(j, n, "accept")
        \/ /\ SetAttempt(j, n, [row EXCEPT !.work = IF @ = "sent" THEN "none" ELSE @])
           /\ Move(j, n, "reject")
        \/ /\ SetAttempt(j, n, [row EXCEPT !.work = "done"])
           /\ ExecutorEnds(j, n, "partial", "unknown")
  /\ UNCHANGED <<vars, final, outages>>

(* ProviderDispatchSucceeded                                               *)
RecordSuccess(j, n) ==
  /\ At(j, n, "accept")
  /\ LET seen == [attempt[j][n] EXCEPT !.success = TRUE]
     IN \/ /\ LiveLock(j, n) = "ok" /\ SetAttempt(j, n, seen)
           /\ \/ Move(j, n, "round") /\ UNCHANGED outages
              \/ ExecutorEnds(j, n, "partial", "unknown") /\ Interrupted(j, n)
        \/ /\ UNCHANGED attempt
           /\ \/ LiveLock(j, n) # "ok" /\ UNCHANGED outages
              \/ Interrupted(j, n)
           /\ ExecutorEnds(j, n, "partial", "unknown")
  /\ UNCHANGED <<vars, final>>

(* Mutant of Resolvable: any definite failure clears the marker.           *)
Resolvable_Always(row) == TRUE
(* A definite failure clears the marker only while no success of the       *)
(* attempt waits for its checkpoint.                                       *)
Resolvable(row) == ~row.success

(* ProviderDispatchFailedDefinitely, and RetryingProvider's decision to    *)
(* call again or the agent loop's to fail.                                 *)
RecordDefiniteFailure(j, n) ==
  /\ At(j, n, "reject")
  /\ LET cleared == [attempt[j][n] EXCEPT !.unresolved = FALSE]
     IN \/ /\ LiveLock(j, n) = "ok" /\ Resolvable(attempt[j][n]) /\ SetAttempt(j, n, cleared)
           /\ \/ Move(j, n, "round") /\ UNCHANGED outages
              \/ /\ UNCHANGED outages
                 /\ \E err \in {"retryable", "permanent"} : ExecutorEnds(j, n, "partial", err)
              \/ ExecutorEnds(j, n, "partial", "unknown") /\ Interrupted(j, n)
        \/ /\ UNCHANGED attempt
           /\ \/ /\ LiveLock(j, n) # "ok" \/ ~Resolvable(attempt[j][n])
                 /\ UNCHANGED outages
              \/ Interrupted(j, n)
           /\ ExecutorEnds(j, n, "partial", "unknown")
  /\ UNCHANGED <<vars, final>>

(* The agent loop ends: with a report, valid or not, once the provider has *)
(* answered, or with an error, before any call or after some rounds.       *)
ExecutorReturns(j, n) ==
  /\ At(j, n, "round")
  /\ \/ /\ attempt[j][n].success
        /\ \/ ExecutorEnds(j, n, "valid", "none")
           \/ ExecutorEnds(j, n, "invalid", "invalid")
     \/ \E result \in {"nil", "partial"}, err \in {"retryable", "permanent"} :
          ExecutorEnds(j, n, result, err)
  /\ UNCHANGED <<vars, attempt, final, outages>>

-----------------------------------------------------------------------------
(* After the executor: verification, checkpoint, decision *)

(* What the persisted attempt makes of the executor's error.               *)
Verified(row, err) == IF row.unresolved /\ ~Invalid(err) THEN "unknown" ELSE err

(* GetAttempt after an error.  A read that fails makes the outcome         *)
(* unknown, and keeps the invalid report it wraps.                         *)
VerifyDispatch(j, n) ==
  /\ At(j, n, "verify")
  /\ LET h == handler[j][n]
         next(err) == SetHandler(j, n,
           [h EXCEPT !.pc = IF h.result = "nil" THEN "decide" ELSE "save", !.err = err])
     IN \/ next(Verified(attempt[j][n], h.err)) /\ UNCHANGED outages
        \/ next(IF Invalid(h.err) THEN "invalidUnknown" ELSE "unknown") /\ Outage
  /\ UNCHANGED <<vars, attempt, final>>

CheckpointKind(err) ==
  IF Invalid(err) THEN "invalid" ELSE IF err = "none" THEN "valid" ELSE "partial"

(* Mutant of Checkpointed: the marker survives a final checkpoint.         *)
Checkpointed_KeepsMarker(row, err) ==
  [row EXCEPT !.ckpt = CheckpointKind(err), !.unknownCode = err = "unknown"]

(* checkpointUpdates: only a final checkpoint resolves the marker.         *)
Checkpointed(row, err) ==
  LET kind == CheckpointKind(err)
  IN [row EXCEPT !.ckpt = kind, !.unknownCode = err = "unknown",
                 !.unresolved = @ /\ kind \notin FinalKind,
                 !.success = @ /\ kind \notin FinalKind]

(* saveAttemptCheckpoint, under the live claim.  Any failure of it, a       *)
(* result too large to store included, goes straight to a terminal failure *)
(* under a context of its own.                                             *)
SaveCheckpoint(j, n) ==
  /\ At(j, n, "save")
  /\ LET h == handler[j][n]
         saved == Checkpointed(attempt[j][n], h.err)
         fail(err) == SetHandler(j, n, [NoHandler EXCEPT !.pc = "finish",
                        !.err = IF Unknown(h.err) THEN "unknown" ELSE err])
         unsaved == SetAttempt(j, n, [attempt[j][n] EXCEPT !.unsaved = TRUE])
     IN \/ /\ LiveLock(j, n) = "ok" /\ SetAttempt(j, n, saved)
           /\ \/ /\ SetHandler(j, n, [h EXCEPT !.pc = "decide", !.result = "nil"])
                 /\ UNCHANGED outages
              \/ fail("saveFailed") /\ Outage
        \/ LiveLock(j, n) # "ok" /\ fail("saveFailed") /\ unsaved /\ UNCHANGED outages
        \/ fail("saveFailed") /\ unsaved /\ Outage
        \/ fail("tooLarge") /\ unsaved /\ UNCHANGED outages
  /\ UNCHANGED <<vars, final>>

(* The looks at context.Cause and at the class of the error that precede   *)
(* every finalizing transaction.                                           *)
Decide(j, n) ==
  /\ At(j, n, "decide")
  /\ LET cause == claim[j][n].cause
         err == handler[j][n].err
         stops == cause = "ownershipLost" \/ (cause = "shutdown" /\ ~Unknown(err))
     IN \/ stops /\ Returns(j, n, cause)
        \/ ~stops /\ cause # "user" /\ err = "ownershipLost" /\ Returns(j, n, err)
        \/ /\ ~stops /\ (cause = "user" \/ err = "user")
           /\ Move(j, n, "cancel") /\ UNCHANGED vars
        \/ /\ ~stops /\ cause # "user" /\ err \notin {"ownershipLost", "user"}
           /\ Move(j, n, "finish") /\ UNCHANGED vars
  /\ UNCHANGED <<attempt, final, outages>>

-----------------------------------------------------------------------------
(* The finalizing transactions of diagnosis/store.go *)

(* The attempt, the run and the job end in one transaction.                *)
Closes(j, n, status, outcome, reason, retryable, acknowledged) ==
  /\ HandlerCommits(j, n, outcome, reason, retryable, acknowledged)
  /\ SetAttempt(j, n, [attempt[j][n] EXCEPT !.status = status])
  /\ final' = [final EXCEPT ![j] = n]
  /\ SetHandler(j, n, NoHandler)
  /\ UNCHANGED outages

(* The transaction is refused by its lock, or rolled back.                 *)
Refused(j, n, answer, atomic) ==
  /\ \/ answer = "user" /\ Move(j, n, "cancel") /\ UNCHANGED <<vars, outages>>
     \/ answer \in {"finalized", "ownershipLost"} /\ Returns(j, n, answer) /\ UNCHANGED outages
     \/ answer \in {"conflict", "notRequested"} /\ Returns(j, n, atomic) /\ UNCHANGED outages
     \/ Returns(j, n, atomic) /\ Outage
  /\ UNCHANGED <<attempt, final>>

(* FinalizeSuccess.  A report that citation validation made too large      *)
(* becomes a permanent failure.                                            *)
FinalizeSuccess(j, n) ==
  /\ At(j, n, "finish") /\ handler[j][n].err = "none"
  /\ LET answer == Lock(j, n, FALSE)
     IN \/ /\ answer = "ok"
           /\ \E acknowledged \in BOOLEAN :
                Closes(j, n, "SUCCEEDED", "SUCCEEDED", "PERMANENT", FALSE, acknowledged)
        \/ /\ answer = "ok"
           /\ SetHandler(j, n, [handler[j][n] EXCEPT !.pc = "decide", !.err = "tooLarge"])
           /\ UNCHANGED <<vars, attempt, final, outages>>
        \/ Refused(j, n, answer, "atomicSucceeded")

(* Mutant of Exhausted: off by one.                                        *)
Exhausted_Early(j, n) == claim[j][n].attempt + 1 >= MaxAttempts

Exhausted(j, n) == claim[j][n].attempt >= MaxAttempts

(* The flags of last_error that RetryDiagnosis accepts.                    *)
RetryFlags(err) ==
  CASE err \in {"unknown", "saveFailed"} -> {TRUE}
    [] err = "tooLarge" \/ Invalid(err) -> {FALSE}
    [] OTHER -> BOOLEAN

(* FinalizeInvalidStructuredReport and FinalizeDiagnosisFailure            *)
FinalizeFailure(j, n) ==
  /\ At(j, n, "finish")
  /\ LET err == handler[j][n].err
         answer == Lock(j, n, FALSE)
         reason == IF err = "retryable" THEN "RETRYABLE_EXHAUSTED" ELSE "PERMANENT"
         atomic == CASE err = "unknown" -> "atomicUnknown"
                     [] err = "retryable" -> "atomicExhausted"
                     [] OTHER -> "atomicPermanent"
     IN /\ err # "none" /\ (err = "retryable" => Exhausted(j, n))
        /\ \/ /\ answer = "ok"
              /\ \E retryable \in RetryFlags(err), acknowledged \in BOOLEAN :
                   Closes(j, n, "FAILED_TERMINAL", "FAILED", reason, retryable, acknowledged)
           \/ Refused(j, n, answer, atomic)

(* FinalizeRetryableAttempt: only the attempt ends; the job store then     *)
(* schedules the retry.  Every error of it but a cancellation is returned  *)
(* as, or wrapped in, a retryable one.                                     *)
FinalizeRetryable(j, n) ==
  /\ At(j, n, "finish") /\ handler[j][n].err = "retryable" /\ ~Exhausted(j, n)
  /\ LET answer == Lock(j, n, FALSE)
     IN \/ /\ answer = "ok"
           /\ SetAttempt(j, n, [attempt[j][n] EXCEPT !.status = "FAILED_RETRYABLE"])
           /\ Returns(j, n, "retryable")
           /\ UNCHANGED <<final, outages>>
        \/ Refused(j, n, answer, "retryable")

(* cancelAttempt and FinalizeCancellation                                  *)
FinalizeCancellation(j, n) ==
  /\ At(j, n, "cancel")
  /\ LET answer == Lock(j, n, TRUE)
     IN \/ /\ answer = "ok"
           /\ \E acknowledged \in BOOLEAN :
                Closes(j, n, "CANCELLED", "CANCELLED", "PERMANENT", FALSE, acknowledged)
        \/ Refused(j, n, answer, "atomicCancelled")

-----------------------------------------------------------------------------
(* What the job store, the reaper and the sweeper do to the attempts *)

(* The goroutines whose handler still runs keep their place.               *)
HandlersFollow ==
  handler' = [j \in Jobs |-> [n \in Tokens |->
                IF claim'[j][n].phase = "running" THEN handler[j][n] ELSE NoHandler]]

(* The RUNNING attempts of S get the given status.                         *)
Ended(j, S, status) ==
  [n \in Tokens |-> IF n \in S /\ attempt[j][n].status = "RUNNING"
                      THEN [attempt[j][n] EXCEPT !.status = status] ELSE attempt[j][n]]

(* The attempt of the job's current execution, if it was created.          *)
Current(j) == {n \in Attempts(j, job[j].generation) : attempt[j][n].no = job[j].attempts}

(* Steps of the job queue that touch neither attempts nor the run's final  *)
(* attempt.                                                                *)
QueueStep ==
  /\ \/ \E j \in Jobs : \/ CreateJob(j) \/ LeaseExpires(j) \/ BackoffElapses(j)
                        \/ RequestCancellation(j)
     \/ \E j \in Jobs, n \in Tokens :
          \/ StartBoundary(j, n) \/ RenewalFails(j, n) \/ CancelPoll(j, n)
          \/ AfterHandler(j, n) \/ AtomicReadFails(j, n) \/ FinalizeEnds(j, n)
     \/ \E w \in Workers : WorkerStep(w)
  /\ HandlersFollow
  /\ UNCHANGED <<attempt, final, outages>>

(* Mutant of RetryRun: final_attempt_id is kept.                           *)
RetryRun_KeepsFinal(j) == RetryDiagnosis(j) /\ UNCHANGED execVars

(* RetryDiagnosis also clears final_attempt_id.                            *)
RetryRun(j) ==
  /\ RetryDiagnosis(j)
  /\ final' = [final EXCEPT ![j] = 0]
  /\ UNCHANGED <<attempt, handler, outages>>

(* The job store's own finalizers: failBusinessTx and cancelDiagnosisRunTx *)
(* end every attempt of the generation and name its latest one as final.   *)
FinalizeJob(j, n, acknowledged) ==
  /\ Finalize(j, n, acknowledged)
  /\ LET S == Attempts(j, job[j].generation)
         status == job'[j].status
         last == Latest(j, S)
     IN CASE status = "FAILED" ->
               /\ attempt' = [attempt EXCEPT ![j] = Ended(j, S, "FAILED_TERMINAL")]
               /\ final' = [final EXCEPT ![j] = last]
          [] status = "CANCELLED" ->
               /\ attempt' = [attempt EXCEPT ![j] = Ended(j, S, "ABANDONED")]
               /\ final' = [final EXCEPT ![j] = IF last = 0 THEN @ ELSE last]
          [] OTHER -> UNCHANGED <<attempt, final>>
  /\ UNCHANGED <<handler, outages>>

(* Mutant of OutcomeUnknown: an attempt the sweeper got to first is not    *)
(* looked at.                                                              *)
OutcomeUnknown_RunningOnly(j) ==
  {n \in Current(j) : /\ attempt[j][n].status = "RUNNING"
                      /\ attempt[j][n].unresolved \/ attempt[j][n].unknownCode}

(* diagnosisOutcomeUnknownMarker: the current attempts that carry it.      *)
OutcomeUnknown(j) ==
  {n \in Current(j) : /\ attempt[j][n].status \in {"RUNNING", "ABANDONED"}
                      /\ attempt[j][n].unresolved \/ attempt[j][n].unknownCode}

(* What ReapExpiredJobs makes of the attempts of one expired job, and of   *)
(* its final attempt.                                                      *)
ReapedAttempts(j) ==
  CASE job'[j].status \in {"CANCELLED", "RETRY_WAIT"} -> Ended(j, Current(j), "ABANDONED")
    [] job'[j].status = "PENDING" -> attempt[j]
    [] OTHER ->
         IF OutcomeUnknown(j) # {}
         THEN [n \in Tokens |-> IF n \in OutcomeUnknown(j)
                 THEN [attempt[j][n] EXCEPT !.status = "FAILED_TERMINAL"] ELSE attempt[j][n]]
         ELSE Ended(j, Attempts(j, job[j].generation), "ABANDONED")
ReapedFinal(j) ==
  CASE job'[j].status = "CANCELLED" -> Latest(j, Current(j))
    [] job'[j].status \in Claimable -> final[j]
    [] OTHER -> IF OutcomeUnknown(j) # {} THEN Latest(j, OutcomeUnknown(j))
                ELSE Latest(j, Attempts(j, job[j].generation))

Reap(S) ==
  /\ ReapExpiredJobs(S, {j \in S : OutcomeUnknown(j) # {}})
  /\ attempt' = [j \in Jobs |-> IF j \in S THEN ReapedAttempts(j) ELSE attempt[j]]
  /\ final' = [j \in Jobs |-> IF j \in S THEN ReapedFinal(j) ELSE final[j]]
  /\ UNCHANGED <<handler, outages>>

(* RecoverStaleAttempt: an attempt that stopped its heartbeat, or outlived *)
(* its deadline, is abandoned unless the live claim of the job is its own. *)
(* The attempt's own process may still be running.                         *)
RecoverStaleAttempt(j, n) ==
  /\ \E w \in Workers : mode[w] = "running"
  /\ attempt[j][n].status = "RUNNING"
  /\ ~(n \in Current(j) /\ job[j].status = "RUNNING" /\ job[j].started /\ LiveLease(j))
  /\ SetAttempt(j, n, [attempt[j][n] EXCEPT !.status = "ABANDONED"])
  /\ UNCHANGED <<vars, final, handler, outages>>

-----------------------------------------------------------------------------
(* The specification *)

Execute(j, n) ==
  \/ LoadRun(j, n) \/ \E acknowledged \in BOOLEAN : StartAttempt(j, n, acknowledged)
  \/ StartAttemptRefused(j, n) \/ StartAttemptFails(j, n) \/ LoadCheckpoint(j, n)
  \/ MarkDispatch(j, n) \/ AuthorizeDispatch(j, n) \/ ProviderCall(j, n)
  \/ RecordSuccess(j, n) \/ RecordDefiniteFailure(j, n) \/ ExecutorReturns(j, n)
  \/ VerifyDispatch(j, n) \/ SaveCheckpoint(j, n) \/ Decide(j, n)
  \/ FinalizeSuccess(j, n) \/ FinalizeFailure(j, n) \/ FinalizeRetryable(j, n)
  \/ FinalizeCancellation(j, n)

ExecNext ==
  \/ QueueStep
  \/ \E j \in Jobs : RetryRun(j)
  \/ \E j \in Jobs, n \in Tokens, acknowledged \in BOOLEAN : FinalizeJob(j, n, acknowledged)
  \/ \E S \in SUBSET Jobs : Reap(S)
  \/ \E j \in Jobs, n \in Tokens : Execute(j, n) \/ RecoverStaleAttempt(j, n)

ExecSpec == ExecInit /\ [][ExecNext]_allVars

-----------------------------------------------------------------------------
(* Properties *)

(* The handler, its attempts and its checkpoints add nothing to what       *)
(* AnalysisJobs lets a diagnosis handler do: every theorem about the queue *)
(* holds of the composed system.                                           *)
RefinesJobs == Spec

(* Whatever path Execute takes through its attempts and checkpoints, what  *)
(* it returns, and what it has written by then, is what the queue expects  *)
(* of a handler: "finalized" only with a terminal job, a lost ownership    *)
(* only without a live claim, "exhausted" only on the last attempt, one    *)
(* outcome for the job and its run.                                        *)
KeepsHandlerContract ==
  [][\A j \in Jobs, n \in Tokens :
       claim[j][n].phase = "running" /\ claim'[j][n].phase = "returned" => Handler(j, n)]_allVars

(* Whatever the provider may have done for an attempt is visible in the    *)
(* attempt's row at every moment: as an unresolved dispatch marker, or as  *)
(* a final checkpoint to resume from.  A crash between any two steps of    *)
(* the handler therefore loses nothing the reaper needs.                   *)
WorkIsMarked ==
  \A j \in Jobs, n \in Tokens :
    LET row == attempt[j][n] IN
    row.work # "none" => row.unresolved \/ row.ckpt \in FinalKind

(* The provider works for a second attempt of the same generation.         *)
Replayed(j, m, n) ==
  /\ m # n /\ attempt[j][m].generation = attempt[j][n].generation
  /\ attempt[j][m].no < attempt[j][n].no
  /\ attempt[j][m].work # "none" /\ attempt[j][n].work # "none"

(* Crashes, stalls, lost responses, cancellations and retries never make   *)
(* the system repeat provider work by itself, except after a checkpoint    *)
(* that could not be saved: finished work is resumed from its checkpoint,  *)
(* and work of unknown outcome ends the run.                               *)
ReplayNeedsLostCheckpoint ==
  \A j \in Jobs : \A m, n \in Tokens : Replayed(j, m, n) => attempt[j][m].unsaved

(* Execute logs "refusing automatic provider retry" when a checkpoint      *)
(* cannot be saved, and records that an explicit retry is required: the    *)
(* provider never works twice for one generation.                          *)
NoAutomaticReplay ==
  \A j \in Jobs : \A m, n \in Tokens : ~Replayed(j, m, n)

(* final_attempt_id names a closed attempt of the job's own generation,    *)
(* and one that succeeded exactly when the run did, whichever of the seven *)
(* transactions that set it came last.                                     *)
FinalAttemptAgrees ==
  \A j \in Jobs : final[j] # 0 =>
    /\ attempt[j][final[j]].generation = job[j].generation
    /\ attempt[j][final[j]].status \notin {"none", "RUNNING"}
    /\ business[j] \in Terminal
    /\ attempt[j][final[j]].status = "SUCCEEDED" <=> business[j] = "SUCCEEDED"

(* A successful run has a final attempt, and that attempt's valid          *)
(* checkpoint with no dispatch marker left, even when the report was       *)
(* resumed from an earlier attempt.                                        *)
SuccessCheckpointed ==
  \A j \in Jobs : business[j] = "SUCCEEDED" =>
    /\ final[j] # 0
    /\ attempt[j][final[j]].ckpt = "valid" /\ ~attempt[j][final[j]].unresolved

(* A closed attempt is never reopened, closed again with another status or *)
(* given another checkpoint by a handler that outlived it.  Only the       *)
(* reaper, on finding the marker, turns an abandoned attempt into a failed *)
(* one.                                                                    *)
ClosedAttemptsStay ==
  [][\A j \in Jobs, n \in Tokens :
       attempt[j][n].status \notin {"none", "RUNNING"} =>
         /\ attempt'[j][n].ckpt = attempt[j][n].ckpt
         /\ \/ attempt'[j][n].status = attempt[j][n].status
            \/ /\ attempt[j][n].status = "ABANDONED"
               /\ attempt'[j][n].status = "FAILED_TERMINAL"
               /\ job'[j].status = "FAILED"]_allVars

-----------------------------------------------------------------------------
(* The inductive invariant behind the theorems of DiagnosisExecution_proofs *)

(* A marker that no refused checkpoint accounts for.                       *)
Dangling(a) == a.unresolved /\ ~a.unsaved

(* The row a of the attempt of token n beside the row r of its job and the *)
(* resource's state b.  The columns about the provider fit together; the   *)
(* attempt belongs to a generation that has begun and, while its token     *)
(* holds the job, to the job's own execution; attempts of the generation   *)
(* that are over have smaller numbers than the one that runs; an attempt   *)
(* is closed for good only with its job; and a marker left dangling keeps  *)
(* the job from ever running again in this generation.                     *)
AttemptOK(r, b, last, n, a) ==
  /\ a.status = "none" => a = NoAttempt
  /\ a.work # "none" => a.unresolved \/ a.ckpt \in FinalKind
  /\ a.success => a.unresolved
  /\ a.unresolved => a.ckpt \notin FinalKind
  /\ a.status = "FAILED_RETRYABLE" => ~Dangling(a)
  /\ a.status # "none" =>
       /\ n <= last /\ a.generation <= r.generation /\ a.no <= MaxAttempts
       /\ Holds(r, n) => a.generation = r.generation
  /\ a.status # "none" /\ a.generation = r.generation =>
       /\ a.no <= r.attempts
       /\ Holds(r, n) => r.started /\ a.no = r.attempts
       /\ r.status = "RUNNING" /\ r.started /\ r.token # n => a.no < r.attempts
       /\ a.status \in {"FAILED_TERMINAL", "CANCELLED"} => r.status \in Terminal
       /\ a.status = "SUCCEEDED" => b = "SUCCEEDED"
       /\ Dangling(a) => r.status \in Terminal \/ Holds(r, n)

(* Places in the executor, and places before the checkpoint.               *)
InExecutor == {"round", "marked", "call", "accept", "reject"}
Unsaved == {"startFailed", "resume", "verify", "save"} \cup InExecutor

(* What the place h of a handler says about the row a of its attempt:      *)
(* whether the provider has worked, was marked and was checkpointed.       *)
PlaceOK(h, a) ==
  /\ h.pc \in Unsaved => a.ckpt = "nil" /\ ~a.unsaved
  /\ h.pc \in {"startFailed", "resume"} => a.work = "none" /\ ~a.unresolved
  /\ h.pc \in {"round", "marked", "reject"} /\ a.work # "none" => a.success
  /\ h.pc \in {"call", "accept", "reject"} => a.unresolved
  /\ h.pc = "call" => a.work # "none" /\ (a.work = "done" => a.success)
  /\ h.pc = "verify" => h.err # "none" /\ (h.result = "nil" => ~Invalid(h.err))
  /\ h.pc = "save" /\ a.unresolved => h.err \in {"none", "unknown", "invalid", "invalidUnknown"}
  /\ h.pc \in {"decide", "finish"} =>
       /\ h.err = "none" => a.ckpt = "valid" /\ ~a.unresolved
       /\ Dangling(a) => h.err = "unknown"

(* The goroutine c of token n, the place h of its handler and its attempt  *)
(* a beside the row r.  A loss of ownership or a cancellation the handler  *)
(* has met is still true of the job, and a marker left dangling is never   *)
(* planned to be retried.                                                  *)
HandlerOK(r, n, c, h, a) ==
  /\ c.phase # "running" => h = NoHandler
  /\ c.phase \in {"starting", "resolving", "returning", "launching"} => a.status = "none"
  /\ c.phase = "running" =>
       /\ IF h.pc \in {"load", "begin"} THEN a.status = "none"
          ELSE a.status # "none" /\ a.generation = c.generation
       /\ PlaceOK(h, a)
       /\ h.err = "ownershipLost" => ~(Holds(r, n) /\ r.lease = "live")
       /\ (h.err = "user" \/ h.pc = "cancel") /\ Holds(r, n) => r.cancel
  /\ Holds(r, n) /\ ~r.cancel /\ Dangling(a) =>
       /\ c.phase = "returned" =>
            \/ c.ret = "atomicUnknown"
            \/ c.ret = c.cause /\ c.ret \in {"ownershipLost", "shutdown"}
       /\ c.phase = "finalizing" => c.plan # "retry"

(* Two attempts d and a of one job, where a is the one of token n: a       *)
(* handler that holds the job and has entered the executor found no final  *)
(* checkpoint to resume from, and no work is repeated.                     *)
ReplayOK(r, n, c, h, d, a) ==
  /\ c.phase = "running" /\ h.pc \in InExecutor /\ Holds(r, n) /\ d.generation = r.generation
       => d.ckpt \notin FinalKind
  /\ d.generation = a.generation /\ d.no < a.no /\ d.work # "none" /\ a.work # "none"
       => d.unsaved

(* The final attempt f of a job with row r, a its attempts.                *)
FinalOK(r, b, f, a) ==
  /\ f # 0 =>
       /\ a[f].generation = r.generation
       /\ a[f].status \notin {"none", "RUNNING"}
       /\ b \in Terminal
       /\ a[f].status = "SUCCEEDED" <=> b = "SUCCEEDED"
  /\ b = "SUCCEEDED" => f # 0 /\ a[f].ckpt = "valid" /\ ~a[f].unresolved

RunInv(j) ==
  /\ FinalOK(job[j], business[j], final[j], attempt[j])
  /\ \A n \in Tokens :
       /\ AttemptOK(job[j], business[j], claims[j], n, attempt[j][n])
       /\ HandlerOK(job[j], n, claim[j][n], handler[j][n], attempt[j][n])
  /\ \A m, n \in Tokens : m # n =>
       ReplayOK(job[j], n, claim[j][n], handler[j][n], attempt[j][m], attempt[j][n])

(* ExecTypeOK and IInv strengthened until every step preserves them.       *)
ExecInv == IInv /\ ExecTypeOK /\ \A j \in Jobs : RunInv(j)

=============================================================================

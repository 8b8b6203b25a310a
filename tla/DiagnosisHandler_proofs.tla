---------------------- MODULE DiagnosisHandler_proofs ----------------------
(***************************************************************************)
(* Proofs about the steps that write attempts and handlers, for any        *)
(* diagnoses, workers, attempt limit and number of faults and outages:     *)
(*   - what a handler does to the queue is what AnalysisJobs lets a        *)
(*     handler do;                                                         *)
(*   - the handler's steps, the reaper, an explicit retry and the sweeper  *)
(*     preserve the inductive invariant ExecInv.                           *)
(* DiagnosisExecution_proofs adds the queue's steps and the job store's    *)
(* finalizers, and states the theorems.                                    *)
(***************************************************************************)
EXTENDS DiagnosisExecution, TLAPS

-----------------------------------------------------------------------------
(* Facts the proofs start from *)

(* The null attempt and the null handler are values of their types.        *)
LEMMA NullExecTypes == NoAttempt \in AttemptRow /\ NoHandler \in HandlerState
<1>1. 0 \in 0 .. MaxGeneration
  BY BoundsAssumption
<1> QED BY <1>1 DEF NoAttempt, AttemptRow, AttemptStatus, Result, Work, NoHandler, HandlerState,
                    HandlerAt, ExecErr

(* The fields of the attempt that does not exist.                          *)
LEMMA NoAttemptFields ==
  /\ NoAttempt.status = "none" /\ NoAttempt.work = "none" /\ NoAttempt.ckpt = "nil"
  /\ ~NoAttempt.unresolved /\ ~NoAttempt.success /\ ~NoAttempt.unsaved
  /\ NoAttempt.ckpt \notin FinalKind
BY DEF NoAttempt, FinalKind

(* Tokens are the positive claim numbers.                                  *)
LEMMA TokenNumbers ==
  /\ 0 \in 0 .. MaxClaims
  /\ \A n \in Tokens : n # 0 /\ n \in 0 .. MaxClaims /\ n \in Nat
  /\ \A f \in 0 .. MaxClaims : f \in Nat /\ (f # 0 => f \in Tokens)
BY BoundsAssumption DEF Tokens

(* The numbers in a job's row.                                             *)
LEMMA RowNumbers ==
  ASSUME NEW r \in JobRow
  PROVE  r.attempts \in Nat /\ r.generation \in 0 .. MaxGeneration /\ r.generation \in Nat
BY BoundsAssumption DEF JobRow

(* ExecInv at one token of one job.                                        *)
LEMMA ExecUnfold ==
  ASSUME ExecInv, NEW j \in Jobs, NEW n \in Tokens
  PROVE  /\ IInv /\ TypeOK /\ ExecTypeOK
         /\ claim[j][n] \in ClaimState /\ job[j] \in JobRow /\ business[j] \in Business
         /\ claims[j] \in 0 .. MaxClaims
         /\ attempt[j][n] \in AttemptRow /\ handler[j][n] \in HandlerState
         /\ RowOK(j, job[j], business[j], claims[j])
         /\ ClaimOK(job[j], claims[j], n, claim[j][n])
         /\ AttemptOK(job[j], business[j], claims[j], n, attempt[j][n])
         /\ HandlerOK(job[j], n, claim[j][n], handler[j][n], attempt[j][n])
<1>1. IInv /\ ExecTypeOK /\ RunInv(j)
  BY DEF ExecInv
<1>2. attempt[j][n] \in AttemptRow /\ handler[j][n] \in HandlerState
  BY <1>1 DEF ExecTypeOK
<1>3. /\ AttemptOK(job[j], business[j], claims[j], n, attempt[j][n])
      /\ HandlerOK(job[j], n, claim[j][n], handler[j][n], attempt[j][n])
  BY <1>1 DEF RunInv
<1>4. TypeOK
  BY <1>1 DEF IInv
<1>5. /\ claim[j][n] \in ClaimState /\ job[j] \in JobRow /\ business[j] \in Business
      /\ claims[j] \in 0 .. MaxClaims
  BY <1>4 DEF TypeOK
<1>6. RowOK(j, job[j], business[j], claims[j]) /\ ClaimOK(job[j], claims[j], n, claim[j][n])
  BY <1>1 DEF IInv, JobInv
<1> QED BY <1>1, <1>2, <1>3, <1>4, <1>5, <1>6

(* A claim that runs under the token of its job has passed the start       *)
(* boundary in the job's generation.                                       *)
LEMMA OwnedIsHeld ==
  ASSUME ExecInv, NEW j \in Jobs, NEW n \in Tokens, Phased(j, n, "running")
  PROVE  /\ Owned(j, n) <=> Holds(job[j], n)
         /\ HoldsClaim(j, n) <=> Holds(job[j], n)
<1>1. ClaimOK(job[j], claims[j], n, claim[j][n]) /\ claim[j][n].phase \in Executing
      /\ claim[j][n].phase # "none"
  BY ExecUnfold DEF Phased, Executing
<1>2. Holds(job[j], n) => job[j].started /\ claim[j][n].generation = job[j].generation
  BY <1>1 DEF ClaimOK
<1> QED BY <1>2 DEF Owned, HoldsClaim, Holds

-----------------------------------------------------------------------------
(* The handler does what the queue lets a handler do *)

(* A return without a transaction.                                         *)
LEMMA ReturnRefines ==
  ASSUME NEW j \in Jobs, NEW n \in Tokens, NEW ret, Phased(j, n, "running"), Returns(j, n, ret),
         \/ ret \in {"retryable", "permanent"}
         \/ ret \in Atomic /\ (ret = "atomicExhausted" => claim[j][n].attempt >= MaxAttempts)
         \/ ret = "nil" /\ business[j] \in Terminal
         \/ ret = "finalized" /\ job[j].status \in Terminal
         \/ ret = "user" /\ Owned(j, n) /\ job[j].cancel
         \/ ret = "ownershipLost" /\ ~(Owned(j, n) /\ LiveLease(j))
         \/ ret \in {"ownershipLost", "shutdown"} /\ claim[j][n].cause = ret
  PROVE  Handler(j, n)
<1>1. HandlerReturns(j, n, ret) /\ UNCHANGED <<job, business, claims, mode, faults>>
      /\ j \in DiagnosisJobs
  BY OnlyDiagnoses DEF Returns
<1>2. CASE ret \in {"retryable", "permanent"}
  BY <1>1, <1>2 DEF HandlerFails, Handler
<1>3. CASE ret \in Atomic /\ (ret = "atomicExhausted" => claim[j][n].attempt >= MaxAttempts)
  BY <1>1, <1>3 DEF HandlerFinalizationFails, Handler
<1>4. CASE /\ ret \in {"nil", "finalized", "user", "ownershipLost", "shutdown"}
           /\ ret = "nil" => business[j] \in Terminal
           /\ ret = "finalized" => job[j].status \in Terminal
           /\ ret = "user" => Owned(j, n) /\ job[j].cancel
           /\ ret = "ownershipLost" => ~(Owned(j, n) /\ LiveLease(j)) \/ claim[j][n].cause = ret
           /\ ret = "shutdown" => claim[j][n].cause = ret
  BY <1>1, <1>4 DEF HandlerStops, Handler
<1> QED BY <1>2, <1>3, <1>4

(* What the lock of a finalizing transaction says about the job.           *)
LEMMA LockAnswers ==
  ASSUME NEW j \in Jobs, NEW n \in Tokens, NEW cancellation \in BOOLEAN
  PROVE  LET answer == Lock(j, n, cancellation) IN
         /\ answer = "finalized" => job[j].status \in Terminal
         /\ answer = "ownershipLost" => ~Owned(j, n)
         /\ answer = "user" => Owned(j, n) /\ job[j].cancel
         /\ answer = "notRequested" => ~job[j].cancel /\ cancellation
         /\ answer = "ok" => /\ Owned(j, n) /\ StillRunning(j, n) /\ business[j] = "RUNNING"
                             /\ job[j].cancel <=> cancellation
BY DEF Lock

(* A refused or rolled back transaction returns, or goes on to cancel.     *)
LEMMA RefusedRefines ==
  ASSUME NEW j \in Jobs, NEW n \in Tokens, NEW cancellation \in BOOLEAN, NEW atomic,
         Phased(j, n, "running"), Refused(j, n, Lock(j, n, cancellation), atomic),
         \/ atomic = "retryable"
         \/ atomic \in Atomic /\ (atomic = "atomicExhausted" => claim[j][n].attempt >= MaxAttempts)
  PROVE  UNCHANGED vars \/ Handler(j, n)
<1> DEFINE answer == Lock(j, n, cancellation)
<1>1. /\ answer = "finalized" => job[j].status \in Terminal
      /\ answer = "ownershipLost" => ~Owned(j, n)
  BY LockAnswers
<1> HIDE DEF answer
<1>2. \/ UNCHANGED vars
      \/ answer \in {"finalized", "ownershipLost"} /\ Returns(j, n, answer)
      \/ Returns(j, n, atomic)
  BY DEF Refused, answer
<1>3. CASE answer \in {"finalized", "ownershipLost"} /\ Returns(j, n, answer)
  BY <1>1, <1>3, ReturnRefines
<1>4. CASE Returns(j, n, atomic)
  BY <1>4, ReturnRefines
<1> QED BY <1>2, <1>3, <1>4

(* A transaction that closes the attempt ends job and run as a handler     *)
(* may.                                                                    *)
LEMMA ClosesRefines ==
  ASSUME NEW j \in Jobs, NEW n \in Tokens, NEW status, NEW outcome,
         NEW reason \in {"PERMANENT", "RETRYABLE_EXHAUSTED"}, NEW retryable \in BOOLEAN,
         NEW acknowledged \in BOOLEAN,
         Closes(j, n, status, outcome, reason, retryable, acknowledged),
         outcome # "FAILED" => reason = "PERMANENT" /\ ~retryable,
         reason = "RETRYABLE_EXHAUSTED" => claim[j][n].attempt >= MaxAttempts
  PROVE  Handler(j, n)
<1>1. /\ HandlerCommits(j, n, outcome, reason, retryable, acknowledged)
      /\ outcome \in HandlerOutcomes(j, n)
  BY DEF Closes, HandlerCommits
<1> QED BY <1>1 DEF HandlerFinalizes, Handler

(* Every step of Execute is invisible to the queue or is a step of a       *)
(* handler.                                                                *)
LEMMA ExecuteRefines ==
  ASSUME ExecInv, NEW j \in Jobs, NEW n \in Tokens, Execute(j, n)
  PROVE  UNCHANGED vars \/ Handler(j, n)
<1> DEFINE c == claim[j][n]
           h == handler[j][n]
<1>0. Phased(j, n, "running")
  BY Zenon DEF Execute, LoadRun, StartAttempt, StartAttemptRefused, StartAttemptFails, LoadCheckpoint,
         MarkDispatch, AuthorizeDispatch, ProviderCall, RecordSuccess, RecordDefiniteFailure,
         ExecutorReturns, VerifyDispatch, SaveCheckpoint, Decide, FinalizeSuccess,
         FinalizeFailure, FinalizeRetryable, FinalizeCancellation, At
<1>a. \A x \in {"atomicSucceeded", "atomicCancelled", "atomicPermanent", "atomicUnknown",
                "atomicExhausted"} : x \in Atomic
  BY DEF Atomic, AtomicFailure
<1>1. CASE LoadRun(j, n)
  BY <1>0, <1>1, ReturnRefines DEF LoadRun
<1>2. CASE \E acknowledged \in BOOLEAN : StartAttempt(j, n, acknowledged)
  BY <1>2 DEF StartAttempt, Handler
<1>3. CASE StartAttemptRefused(j, n)
  <2> DEFINE ret == CASE job[j].status \in Terminal -> "finalized"
                      [] HoldsClaim(j, n) /\ job[j].started /\ job[j].cancel -> "user"
                      [] OTHER -> "ownershipLost"
  <2>1. ~Startable(j, n) /\ Returns(j, n, ret)
    BY <1>3 DEF StartAttemptRefused
  <2>2. \/ ret = "finalized" /\ job[j].status \in Terminal
        \/ ret = "user" /\ HoldsClaim(j, n) /\ job[j].started /\ job[j].cancel
        \/ ret = "ownershipLost" /\ ~(HoldsClaim(j, n) /\ job[j].started /\ job[j].cancel)
    OBVIOUS
  <2>3. Owned(j, n) <=> HoldsClaim(j, n) /\ job[j].started
    BY <1>0, OwnedIsHeld DEF Owned, HoldsClaim
  <2> HIDE DEF ret
  <2>4. ret = "ownershipLost" => ~(Owned(j, n) /\ LiveLease(j))
    BY <2>1, <2>2, <2>3 DEF Startable
  <2> QED BY <1>0, <2>1, <2>2, <2>3, <2>4, ReturnRefines
<1>4. CASE StartAttemptFails(j, n)
  BY <1>0, <1>4, ReturnRefines DEF StartAttemptFails
<1>5. CASE LoadCheckpoint(j, n)
  <2>1. UNCHANGED vars \/ Returns(j, n, "retryable")
    BY <1>5 DEF LoadCheckpoint
  <2> QED BY <1>0, <2>1, ReturnRefines
<1>6. CASE \/ MarkDispatch(j, n) \/ AuthorizeDispatch(j, n) \/ ProviderCall(j, n)
           \/ RecordSuccess(j, n) \/ RecordDefiniteFailure(j, n) \/ ExecutorReturns(j, n)
           \/ VerifyDispatch(j, n) \/ SaveCheckpoint(j, n)
  <2>1. UNCHANGED vars
    BY <1>6 DEF MarkDispatch, AuthorizeDispatch, ProviderCall, RecordSuccess,
                RecordDefiniteFailure, ExecutorReturns, VerifyDispatch, SaveCheckpoint
  <2> QED BY <2>1
<1>7. CASE Decide(j, n)
  <2>1. \/ UNCHANGED vars
        \/ c.cause \in {"ownershipLost", "shutdown"} /\ Returns(j, n, c.cause)
        \/ h.err = "ownershipLost" /\ Returns(j, n, "ownershipLost")
    BY <1>7 DEF Decide
  <2>2. h.err = "ownershipLost" => ~(Owned(j, n) /\ LiveLease(j))
    <3>1. HandlerOK(job[j], n, c, h, attempt[j][n]) /\ c.phase = "running"
      BY <1>0, ExecUnfold DEF Phased
    <3> QED BY <1>0, <3>1, OwnedIsHeld DEF HandlerOK, LiveLease
  <2> QED BY <1>0, <2>1, <2>2, ReturnRefines
<1>8. CASE FinalizeSuccess(j, n)
  <2>1. \/ \E acknowledged \in BOOLEAN :
             Closes(j, n, "SUCCEEDED", "SUCCEEDED", "PERMANENT", FALSE, acknowledged)
        \/ UNCHANGED vars
        \/ Refused(j, n, Lock(j, n, FALSE), "atomicSucceeded")
    BY <1>8, Zenon DEF FinalizeSuccess
  <2> QED BY <1>0, <1>a, <2>1, ClosesRefines, RefusedRefines, Zenon
<1>9. CASE FinalizeFailure(j, n)
  <2> DEFINE reason == IF h.err = "retryable" THEN "RETRYABLE_EXHAUSTED" ELSE "PERMANENT"
             atomic == CASE h.err = "unknown" -> "atomicUnknown"
                         [] h.err = "retryable" -> "atomicExhausted"
                         [] OTHER -> "atomicPermanent"
  <2>1. /\ h.err = "retryable" => Exhausted(j, n)
        /\ \/ \E retryable \in RetryFlags(h.err), acknowledged \in BOOLEAN :
                Closes(j, n, "FAILED_TERMINAL", "FAILED", reason, retryable, acknowledged)
           \/ Refused(j, n, Lock(j, n, FALSE), atomic)
    BY <1>9, Zenon DEF FinalizeFailure
  <2>2. RetryFlags(h.err) \subseteq BOOLEAN
    BY Zenon DEF RetryFlags
  <2>3. /\ reason \in {"PERMANENT", "RETRYABLE_EXHAUSTED"}
        /\ reason = "RETRYABLE_EXHAUSTED" => c.attempt >= MaxAttempts
        /\ atomic \in Atomic /\ (atomic = "atomicExhausted" => c.attempt >= MaxAttempts)
    BY <1>a, <2>1 DEF Exhausted
  <2> HIDE DEF reason, atomic
  <2>4. ASSUME NEW retryable \in RetryFlags(h.err), NEW acknowledged \in BOOLEAN,
               Closes(j, n, "FAILED_TERMINAL", "FAILED", reason, retryable, acknowledged)
        PROVE  Handler(j, n)
    BY <2>2, <2>3, <2>4, ClosesRefines
  <2>5. CASE Refused(j, n, Lock(j, n, FALSE), atomic)
    BY <1>0, <2>3, <2>5, RefusedRefines, Zenon
  <2> QED BY <2>1, <2>4, <2>5, Zenon
<1>10. CASE FinalizeRetryable(j, n)
  <2>1. Returns(j, n, "retryable") \/ Refused(j, n, Lock(j, n, FALSE), "retryable")
    BY <1>10, Zenon DEF FinalizeRetryable
  <2> QED BY <1>0, <2>1, ReturnRefines, RefusedRefines, Zenon
<1>11. CASE FinalizeCancellation(j, n)
  <2>1. \/ \E acknowledged \in BOOLEAN :
             Closes(j, n, "CANCELLED", "CANCELLED", "PERMANENT", FALSE, acknowledged)
        \/ Refused(j, n, Lock(j, n, TRUE), "atomicCancelled")
    BY <1>11, Zenon DEF FinalizeCancellation
  <2> QED BY <1>0, <1>a, <2>1, ClosesRefines, RefusedRefines, Zenon
<1> QED BY <1>1, <1>2, <1>3, <1>4, <1>5, <1>6, <1>7, <1>8, <1>9, <1>10, <1>11 DEF Execute

(* Every step of the composed system is a step of the queue or invisible   *)
(* to it.                                                                  *)
LEMMA ExecStepRefines ==
  ASSUME ExecInv, [ExecNext]_allVars
  PROVE  [Next]_vars
<1>1. CASE UNCHANGED allVars
  BY <1>1 DEF allVars
<1>2. CASE QueueStep
  BY <1>2 DEF QueueStep, Next, JobStep, Execution
<1>3. ASSUME NEW j \in Jobs, RetryRun(j) PROVE Next
  BY <1>3 DEF RetryRun, Next, JobStep
<1>4. ASSUME NEW j \in Jobs, NEW n \in Tokens, NEW acknowledged \in BOOLEAN,
             FinalizeJob(j, n, acknowledged)
      PROVE  Next
  BY <1>4 DEF FinalizeJob, Next, Execution
<1>5. ASSUME NEW S \in SUBSET Jobs, Reap(S) PROVE Next
  <2> DEFINE U == {j \in S : OutcomeUnknown(j) # {}}
  <2>1. U \in SUBSET DiagnosisJobs /\ U \subseteq S
    BY OnlyDiagnoses
  <2>2. ReapExpiredJobs(S, U)
    BY <1>5 DEF Reap
  <2> HIDE DEF U
  <2> QED BY <2>1, <2>2 DEF Next
<1>6. ASSUME NEW j \in Jobs, NEW n \in Tokens, Execute(j, n) \/ RecoverStaleAttempt(j, n)
      PROVE  [Next]_vars
  BY <1>6, ExecuteRefines DEF RecoverStaleAttempt, Next
<1> QED BY <1>1, <1>2, <1>3, <1>4, <1>5, <1>6 DEF ExecNext

-----------------------------------------------------------------------------
(* The invariant of one run, from the values a step leaves *)

(* RunInv after a step.                                                    *)
LEMMA NewRunInv ==
  ASSUME NEW k \in Jobs,
         FinalOK(job'[k], business'[k], final'[k], attempt'[k]),
         \A n \in Tokens :
           /\ AttemptOK(job'[k], business'[k], claims'[k], n, attempt'[k][n])
           /\ HandlerOK(job'[k], n, claim'[k][n], handler'[k][n], attempt'[k][n]),
         \A m, n \in Tokens : m # n =>
           ReplayOK(job'[k], n, claim'[k][n], handler'[k][n], attempt'[k][m], attempt'[k][n])
  PROVE  RunInv(k)'
<1>1. FinalOK(job[k], business[k], final[k], attempt[k])'
  BY DEF FinalOK
<1>2. (\A n \in Tokens : AttemptOK(job[k], business[k], claims[k], n, attempt[k][n]))'
  BY Zenon DEF AttemptOK
<1>3. (\A n \in Tokens : HandlerOK(job[k], n, claim[k][n], handler[k][n], attempt[k][n]))'
  BY Zenon DEF HandlerOK
<1>4. (\A m, n \in Tokens : m # n =>
         ReplayOK(job[k], n, claim[k][n], handler[k][n], attempt[k][m], attempt[k][n]))'
  BY DEF ReplayOK
<1> QED BY <1>1, <1>2, <1>3, <1>4 DEF RunInv

(* A run no variable of which changes keeps its invariant.                 *)
LEMMA SameRun ==
  ASSUME NEW k \in Jobs, RunInv(k), job'[k] = job[k], business'[k] = business[k],
         claims'[k] = claims[k], claim'[k] = claim[k], final'[k] = final[k],
         attempt'[k] = attempt[k], handler'[k] = handler[k]
  PROVE  RunInv(k)'
<1>1. /\ FinalOK(job'[k], business'[k], final'[k], attempt'[k])
      /\ \A n \in Tokens :
           /\ AttemptOK(job'[k], business'[k], claims'[k], n, attempt'[k][n])
           /\ HandlerOK(job'[k], n, claim'[k][n], handler'[k][n], attempt'[k][n])
      /\ \A m, n \in Tokens : m # n =>
           ReplayOK(job'[k], n, claim'[k][n], handler'[k][n], attempt'[k][m], attempt'[k][n])
  BY DEF RunInv
<1> QED BY <1>1, NewRunInv

-----------------------------------------------------------------------------
(* Steps that move the job's row or close attempts *)

(* The rows a and e of one attempt differ in their status only.            *)
SameWork(a, e) ==
  /\ e.generation = a.generation /\ e.no = a.no /\ e.unresolved = a.unresolved
  /\ e.success = a.success /\ e.work = a.work /\ e.ckpt = a.ckpt /\ e.unsaved = a.unsaved
  /\ a.status = "none" => e = a
  /\ a.status # "none" => e.status # "none"

(* A goroutine goes from c to d beside its attempt a without a return of   *)
(* its handler: it stays, ends, has no attempt yet, learns its cause or    *)
(* plans its finalization.                                                 *)
Proceeds(c, d, a) ==
  \/ d = c
  \/ d.phase = "none"
  \/ a.status = "none" /\ c.phase # "running"
  \/ /\ c.phase \in {"running", "returned"} /\ d.phase = c.phase /\ d.ret = c.ret
     /\ d.generation = c.generation /\ c.cause = "none"
  \/ c.phase = "returned" /\ d.phase = "finalizing" /\ d.plan \in Plans(c) \ {"none"}

(* The same, or a return of a handler that has ended the job, whose row is *)
(* s afterwards.                                                           *)
GoesOn(s, n, c, d, a) ==
  \/ Proceeds(c, d, a)
  \/ c.phase = "running" /\ d.phase = "returned" /\ ~Holds(s, n)

(* An attempt beside its job's new row.                                    *)
LEMMA AttemptCarried ==
  ASSUME NEW r \in JobRow, NEW s \in JobRow, NEW b, NEW b2, NEW last \in Nat, NEW new \in Nat,
         NEW n \in Tokens, NEW a \in AttemptRow, NEW e \in AttemptRow,
         AttemptOK(r, b, last, n, a), RowKeeps(r, s, last, new), SameWork(a, e),
         b = "SUCCEEDED" /\ s.generation = r.generation => b2 = "SUCCEEDED",
         Dangling(a) /\ Holds(r, n) /\ r.started => s.status \in Terminal \/ Holds(s, n),
         e.status # a.status =>
           /\ e.status \in {"SUCCEEDED", "FAILED_TERMINAL", "CANCELLED", "ABANDONED"}
           /\ e.status # "ABANDONED" => s.status \in Terminal
           /\ e.status = "SUCCEEDED" => b2 = "SUCCEEDED"
  PROVE  AttemptOK(s, b2, new, n, e)
<1> USE DEF Tokens
<1>1. CASE a.status = "none"
  <2>1. e = a /\ a = NoAttempt
    BY <1>1 DEF AttemptOK, SameWork
  <2> QED BY <2>1 DEF AttemptOK, NoAttempt, FinalKind
<1>2. CASE a.status # "none"
  <2>1. /\ e.status # "none" /\ e.generation = a.generation /\ e.no = a.no
        /\ e.unresolved = a.unresolved /\ e.success = a.success /\ e.work = a.work
        /\ e.ckpt = a.ckpt /\ e.unsaved = a.unsaved /\ (Dangling(e) <=> Dangling(a))
    BY <1>2 DEF SameWork, Dangling
  <2>2. /\ n \in Nat /\ a.generation \in Int /\ a.no \in Nat /\ r.generation \in Nat
        /\ s.generation \in Nat /\ r.attempts \in Nat /\ s.attempts \in Nat
    BY BoundsAssumption DEF AttemptRow, JobRow
  <2>3. /\ n <= last /\ a.generation <= r.generation /\ a.no <= MaxAttempts
        /\ Holds(r, n) => a.generation = r.generation
        /\ a.work # "none" => a.unresolved \/ a.ckpt \in FinalKind
        /\ a.success => a.unresolved
        /\ a.unresolved => a.ckpt \notin FinalKind
        /\ a.status = "FAILED_RETRYABLE" => ~Dangling(a)
    BY <1>2 DEF AttemptOK
  <2>4. a.generation = r.generation =>
          /\ a.no <= r.attempts
          /\ Holds(r, n) => r.started /\ a.no = r.attempts
          /\ r.status = "RUNNING" /\ r.started /\ r.token # n => a.no < r.attempts
          /\ a.status \in {"FAILED_TERMINAL", "CANCELLED"} => r.status \in Terminal
          /\ a.status = "SUCCEEDED" => b = "SUCCEEDED"
          /\ Dangling(a) => r.status \in Terminal \/ Holds(r, n)
    BY <1>2 DEF AttemptOK
  <2>5. /\ last <= new /\ r.generation <= s.generation
        /\ Holds(s, n) => /\ Holds(r, n) /\ s.generation = r.generation
                          /\ r.started => s.started /\ s.attempts = r.attempts
        /\ s.generation = r.generation =>
             /\ r.attempts <= s.attempts
             /\ r.status \in Terminal => s.status \in Terminal
             /\ s.status = "RUNNING" /\ s.started =>
                  \/ r.status = "RUNNING" /\ r.started /\ r.token = s.token
                  \/ r.attempts < s.attempts
    BY <2>3 DEF RowKeeps
  <2>6. a.generation = s.generation => a.generation = r.generation /\ s.generation = r.generation
    BY <2>2, <2>3, <2>5
  <2>7. /\ n <= new /\ e.generation <= s.generation /\ e.no <= MaxAttempts
        /\ Holds(s, n) => e.generation = s.generation
    BY <2>1, <2>2, <2>3, <2>5
  <2>8. ASSUME e.generation = s.generation
        PROVE  /\ e.no <= s.attempts
               /\ Holds(s, n) => s.started /\ e.no = s.attempts
               /\ s.status = "RUNNING" /\ s.started /\ s.token # n => e.no < s.attempts
               /\ e.status \in {"FAILED_TERMINAL", "CANCELLED"} => s.status \in Terminal
               /\ e.status = "SUCCEEDED" => b2 = "SUCCEEDED"
               /\ Dangling(e) => s.status \in Terminal \/ Holds(s, n)
    <3>1. a.generation = r.generation /\ s.generation = r.generation
      BY <2>1, <2>6, <2>8
    <3>2. e.no <= s.attempts
      BY <2>1, <2>2, <2>4, <2>5, <3>1
    <3>3. Holds(s, n) => s.started /\ e.no = s.attempts
      BY <2>1, <2>4, <2>5, <3>1
    <3>4. s.status = "RUNNING" /\ s.started /\ s.token # n => e.no < s.attempts
      BY <2>1, <2>2, <2>4, <2>5, <3>1
    <3>5. e.status \in {"FAILED_TERMINAL", "CANCELLED"} => s.status \in Terminal
      BY <2>4, <2>5, <3>1
    <3>6. e.status = "SUCCEEDED" => b2 = "SUCCEEDED"
      BY <2>4, <3>1
    <3>7. Dangling(e) => s.status \in Terminal \/ Holds(s, n)
      BY <2>1, <2>4, <2>5, <3>1
    <3> QED BY <3>2, <3>3, <3>4, <3>5, <3>6, <3>7
  <2>9. e.status = "FAILED_RETRYABLE" => ~Dangling(e)
    BY <2>1, <2>3
  <2> QED BY <2>1, <2>3, <2>7, <2>8, <2>9 DEF AttemptOK
<1> QED BY <1>1, <1>2

(* What executeJob plans after a return that is never retried.             *)
LEMMA NeverRetried ==
  ASSUME NEW c \in ClaimState, NEW p \in Plans(c) \ {"none"},
         \/ c.ret = "atomicUnknown"
         \/ c.ret = c.cause /\ c.ret \in {"ownershipLost", "shutdown"}
  PROVE  p # "retry"
<1>1. EffectiveError(c) \in {"atomicUnknown", "ownershipLost", "shutdown"}
  BY DEF EffectiveError
<1>2. Plans(c) = (IF EffectiveError(c) = "atomicUnknown" THEN {"failPermanent"} ELSE {"none"})
  BY <1>1 DEF Plans
<1> QED BY <1>2

(* The handler of a goroutine that goes on.                                *)
LEMMA HandlerCarried ==
  ASSUME NEW r \in JobRow, NEW s \in JobRow, NEW b, NEW last \in Nat, NEW new \in Nat,
         NEW n \in Tokens, NEW a \in AttemptRow, NEW e \in AttemptRow,
         NEW c \in ClaimState, NEW d \in ClaimState, NEW h, NEW g,
         AttemptOK(r, b, last, n, a), ClaimOK(r, last, n, c), HandlerOK(r, n, c, h, a),
         RowKeeps(r, s, last, new), SameWork(a, e), GoesOn(s, n, c, d, a),
         g = IF d.phase = "running" THEN h ELSE NoHandler
  PROVE  HandlerOK(s, n, d, g, e)
<1>1. c.phase # "none" => n <= last
  BY DEF ClaimOK
<1>2. a.status # "none" => n <= last
  BY DEF AttemptOK
<1>3. n <= last /\ Holds(s, n) => /\ Holds(r, n) /\ (r.cancel => s.cancel)
                                  /\ s.lease = "live" => r.lease = "live"
  BY DEF RowKeeps
<1>4. /\ (Dangling(e) <=> Dangling(a)) /\ (e.status = "none" <=> a.status = "none")
      /\ e.generation = a.generation
      /\ \A x : PlaceOK(x, a) => PlaceOK(x, e)
  BY DEF SameWork, Dangling, PlaceOK
<1>5. Dangling(a) => a.status # "none"
  BY DEF AttemptOK, NoAttempt, Dangling
<1>6. CASE d.phase = "none"
  <2>1. g = NoHandler
    BY <1>6
  <2> QED BY <1>6, <2>1, Zenon DEF HandlerOK
<1>7. CASE a.status = "none" /\ c.phase # "running"
  <2>1. g = NoHandler
    BY <1>7, Zenon DEF HandlerOK
  <2>2. PlaceOK(NoHandler, e) /\ NoHandler.pc = "load" /\ NoHandler.err = "none"
    BY DEF PlaceOK, NoHandler, Unsaved, InExecutor
  <2>3. ~Dangling(e) /\ e.status = "none"
    BY <1>4, <1>5, <1>7
  <2> QED BY <2>1, <2>2, <2>3, Zenon DEF HandlerOK
<1>8. CASE d.phase = c.phase /\ d.generation = c.generation /\ d.ret = c.ret
           /\ (d = c \/ (c.phase \in {"running", "returned"} /\ c.cause = "none"))
           /\ c.phase # "none"
  <2>1. n <= last /\ g = h
    BY <1>1, <1>8, Zenon DEF HandlerOK
  <2>2. c.phase # "running" => g = NoHandler
    BY <1>8, <2>1, Zenon DEF HandlerOK
  <2>3. c.phase \in {"starting", "resolving", "returning", "launching"} => e.status = "none"
    BY <1>4, Zenon DEF HandlerOK
  <2>4. c.phase = "running" =>
          /\ IF g.pc \in {"load", "begin"} THEN e.status = "none"
             ELSE e.status # "none" /\ e.generation = c.generation
          /\ PlaceOK(g, e)
          /\ g.err = "ownershipLost" => ~(Holds(s, n) /\ s.lease = "live")
          /\ (g.err = "user" \/ g.pc = "cancel") /\ Holds(s, n) => s.cancel
    BY <1>3, <1>4, <2>1, Zenon DEF HandlerOK
  <2>5. Holds(s, n) /\ ~s.cancel /\ Dangling(e) => Holds(r, n) /\ ~r.cancel /\ Dangling(a)
    BY <1>3, <1>4, <2>1
  <2>6. Holds(s, n) /\ ~s.cancel /\ Dangling(e) =>
          /\ c.phase = "returned" =>
               \/ c.ret = "atomicUnknown"
               \/ c.ret = c.cause /\ c.ret \in {"ownershipLost", "shutdown"}
          /\ c.phase = "finalizing" => c.plan # "retry"
    BY <2>5, Zenon DEF HandlerOK
  <2>7. Holds(s, n) /\ ~s.cancel /\ Dangling(e) =>
          /\ d.phase = "returned" =>
               \/ d.ret = "atomicUnknown"
               \/ d.ret = d.cause /\ d.ret \in {"ownershipLost", "shutdown"}
          /\ d.phase = "finalizing" => d.plan # "retry"
    BY <1>8, <2>6
  <2> QED BY <1>8, <2>2, <2>3, <2>4, <2>7, Zenon DEF HandlerOK
<1>9. CASE c.phase = "returned" /\ d.phase = "finalizing" /\ d.plan \in Plans(c) \ {"none"}
  <2>1. Holds(s, n) /\ ~s.cancel /\ Dangling(e) => Holds(r, n) /\ ~r.cancel /\ Dangling(a)
    BY <1>1, <1>3, <1>4, <1>9
  <2>2. Holds(s, n) /\ ~s.cancel /\ Dangling(e) =>
          \/ c.ret = "atomicUnknown"
          \/ c.ret = c.cause /\ c.ret \in {"ownershipLost", "shutdown"}
    BY <1>9, <2>1, Zenon DEF HandlerOK
  <2>3. Holds(s, n) /\ ~s.cancel /\ Dangling(e) => d.plan # "retry"
    BY <1>9, <2>2, NeverRetried
  <2>4. g = NoHandler
    BY <1>9
  <2> QED BY <1>9, <2>3, <2>4, Zenon DEF HandlerOK
<1>10. CASE d.phase = "returned" /\ ~Holds(s, n)
  <2>1. g = NoHandler
    BY <1>10
  <2> QED BY <1>10, <2>1, Zenon DEF HandlerOK
<1> QED BY <1>6, <1>7, <1>8, <1>9, <1>10 DEF GoesOn, Proceeds

(* Two attempts of a job, one of them of a goroutine that goes on.         *)
LEMMA ReplayCarried ==
  ASSUME NEW r \in JobRow, NEW s \in JobRow, NEW last \in Nat, NEW new \in Nat,
         NEW n \in Tokens, NEW a, NEW e, NEW x, NEW y,
         NEW c \in ClaimState, NEW d \in ClaimState, NEW h, NEW g,
         ClaimOK(r, last, n, c), HandlerOK(r, n, c, h, a), ReplayOK(r, n, c, h, x, a),
         RowKeeps(r, s, last, new), SameWork(a, e), SameWork(x, y), GoesOn(s, n, c, d, a),
         g = IF d.phase = "running" THEN h ELSE NoHandler
  PROVE  ReplayOK(s, n, d, g, y, e)
<1>1. ASSUME d.phase = "running", g.pc \in InExecutor
      PROVE  c.phase = "running" /\ h = g
  <2>1. h = g /\ h # NoHandler
    BY <1>1 DEF NoHandler, InExecutor
  <2> QED BY <2>1, Zenon DEF HandlerOK
<1>2. c.phase = "running" /\ Holds(s, n) => Holds(r, n) /\ s.generation = r.generation
  <2>1. c.phase = "running" => n <= last
    BY DEF ClaimOK
  <2> QED BY <2>1 DEF RowKeeps
<1>3. d.phase = "running" /\ g.pc \in InExecutor /\ Holds(s, n) /\ y.generation = s.generation
        => y.ckpt \notin FinalKind
  BY <1>1, <1>2, Zenon DEF ReplayOK, SameWork
<1>4. y.generation = e.generation /\ y.no < e.no /\ y.work # "none" /\ e.work # "none" => y.unsaved
  BY Zenon DEF ReplayOK, SameWork
<1> QED BY <1>3, <1>4, Zenon DEF ReplayOK

(* RunInv after such a step.                                               *)
LEMMA RunStep ==
  ASSUME ExecInv, IInv', ExecTypeOK', NEW j \in Jobs,
         RowKeeps(job[j], job'[j], claims[j], claims'[j]),
         business[j] = "SUCCEEDED" /\ job'[j].generation = job[j].generation
           => business'[j] = "SUCCEEDED",
         FinalOK(job'[j], business'[j], final'[j], attempt'[j]),
         \A n \in Tokens :
           /\ SameWork(attempt[j][n], attempt'[j][n])
           /\ GoesOn(job'[j], n, claim[j][n], claim'[j][n], attempt[j][n])
           /\ handler'[j][n] = IF claim'[j][n].phase = "running" THEN handler[j][n] ELSE NoHandler
           /\ Dangling(attempt[j][n]) /\ Holds(job[j], n) /\ job[j].started
                => job'[j].status \in Terminal \/ Holds(job'[j], n)
           /\ attempt'[j][n].status # attempt[j][n].status =>
                /\ attempt'[j][n].status \in {"SUCCEEDED", "FAILED_TERMINAL", "CANCELLED", "ABANDONED"}
                /\ attempt'[j][n].status # "ABANDONED" => job'[j].status \in Terminal
                /\ attempt'[j][n].status = "SUCCEEDED" => business'[j] = "SUCCEEDED"
  PROVE  RunInv(j)'
<1>0. \A t \in 0 .. MaxClaims : t \in Nat
  BY TokenNumbers, Zenon
<1>1. /\ job[j] \in JobRow /\ claims[j] \in Nat
      /\ \A n \in Tokens : claim[j][n] \in ClaimState /\ attempt[j][n] \in AttemptRow
  <2>1. TypeOK /\ ExecTypeOK
    BY Zenon DEF ExecInv, IInv
  <2> QED BY <1>0, <2>1, Zenon DEF TypeOK, ExecTypeOK
<1>2. /\ job'[j] \in JobRow /\ claims'[j] \in Nat
      /\ \A n \in Tokens : claim'[j][n] \in ClaimState /\ attempt'[j][n] \in AttemptRow
  <2>1. TypeOK' /\ ExecTypeOK'
    BY Zenon DEF IInv
  <2> QED BY <1>0, <2>1, Zenon DEF TypeOK, ExecTypeOK
<1>3. ASSUME NEW n \in Tokens
      PROVE  /\ AttemptOK(job[j], business[j], claims[j], n, attempt[j][n])
             /\ ClaimOK(job[j], claims[j], n, claim[j][n])
             /\ HandlerOK(job[j], n, claim[j][n], handler[j][n], attempt[j][n])
  BY ExecUnfold, Zenon
<1>4. \A m, n \in Tokens : m # n =>
        ReplayOK(job[j], n, claim[j][n], handler[j][n], attempt[j][m], attempt[j][n])
  BY Zenon DEF ExecInv, RunInv
<1>5. ASSUME NEW n \in Tokens
      PROVE  AttemptOK(job'[j], business'[j], claims'[j], n, attempt'[j][n])
  <2> DEFINE a == attempt[j][n]
             e == attempt'[j][n]
  <2>1. /\ SameWork(a, e)
        /\ Dangling(a) /\ Holds(job[j], n) /\ job[j].started
             => job'[j].status \in Terminal \/ Holds(job'[j], n)
        /\ e.status # a.status =>
             /\ e.status \in {"SUCCEEDED", "FAILED_TERMINAL", "CANCELLED", "ABANDONED"}
             /\ e.status # "ABANDONED" => job'[j].status \in Terminal
             /\ e.status = "SUCCEEDED" => business'[j] = "SUCCEEDED"
    BY Zenon
  <2>2. a \in AttemptRow /\ e \in AttemptRow /\ AttemptOK(job[j], business[j], claims[j], n, a)
    BY <1>1, <1>2, <1>3, Zenon
  <2>3. /\ job[j] \in JobRow /\ job'[j] \in JobRow /\ claims[j] \in Nat /\ claims'[j] \in Nat
    BY <1>1, <1>2, Zenon
  <2> HIDE DEF a, e
  <2>4. AttemptOK(job'[j], business'[j], claims'[j], n, e)
    BY <2>1, <2>2, <2>3, AttemptCarried, Zenon
  <2> QED BY <2>4, Zenon DEF e
<1>6. ASSUME NEW n \in Tokens
      PROVE  HandlerOK(job'[j], n, claim'[j][n], handler'[j][n], attempt'[j][n])
  BY <1>1, <1>2, <1>3, HandlerCarried, Zenon
<1>7. ASSUME NEW m \in Tokens, NEW n \in Tokens, m # n
      PROVE  ReplayOK(job'[j], n, claim'[j][n], handler'[j][n], attempt'[j][m], attempt'[j][n])
  BY <1>1, <1>2, <1>3, <1>4, <1>7, ReplayCarried, Zenon
<1> QED BY <1>5, <1>6, <1>7, NewRunInv, Zenon

(* A step that concerns one job.                                           *)
LEMMA OtherRuns ==
  ASSUME ExecInv, IInv', ExecTypeOK', NEW j \in Jobs, RunInv(j)',
         \A k \in Jobs \ {j} :
           /\ job'[k] = job[k] /\ business'[k] = business[k] /\ claims'[k] = claims[k]
           /\ claim'[k] = claim[k] /\ final'[k] = final[k] /\ attempt'[k] = attempt[k]
           /\ handler'[k] = handler[k]
  PROVE  ExecInv'
<1>1. ASSUME NEW k \in Jobs \ {j} PROVE RunInv(k)'
  BY SameRun, Zenon DEF ExecInv
<1> QED BY <1>1, Zenon DEF ExecInv

(* A goroutine that is in no handler has no place in one.                  *)
LEMMA IdleHandler ==
  ASSUME ExecInv, NEW j \in Jobs, NEW n \in Tokens, claim[j][n].phase # "running"
  PROVE  handler[j][n] = NoHandler
BY ExecUnfold, Zenon DEF HandlerOK

(* An edit of an attempt's status.                                         *)
LEMMA StatusEdited ==
  ASSUME NEW a \in AttemptRow, NEW status \in AttemptStatus \ {"none"}, a.status # "none"
  PROVE  LET e == [a EXCEPT !.status = status]
         IN e \in AttemptRow /\ e.status = status /\ SameWork(a, e)
BY DEF AttemptRow, SameWork

-----------------------------------------------------------------------------
(* The steps of a running handler *)

(* A step of one handler that leaves the job's row alone: it writes its    *)
(* goroutine, its place and its attempt, and may open the run.             *)
LEMMA HandlerStep ==
  ASSUME ExecInv, NEW j \in Jobs, NEW n \in Tokens,
         NEW b \in Business, NEW c \in ClaimState, NEW h \in HandlerState, NEW a \in AttemptRow,
         UNCHANGED <<job, claims, final>>, SetBusiness(j, b), SetClaim(j, n, c),
         SetHandler(j, n, h), SetAttempt(j, n, a), outages' \in 0 .. MaxOutages, IInv',
         b = business[j] \/ (business[j] = "QUEUED" /\ b = "RUNNING"),
         AttemptOK(job[j], b, claims[j], n, a), HandlerOK(job[j], n, c, h, a),
         attempt[j][n].status \notin {"none", "RUNNING"} =>
           /\ a.status = attempt[j][n].status /\ a.generation = attempt[j][n].generation
           /\ a.ckpt = attempt[j][n].ckpt /\ a.unresolved = attempt[j][n].unresolved,
         \A m \in Tokens : m # n =>
           /\ ReplayOK(job[j], n, c, h, attempt[j][m], a)
           /\ ReplayOK(job[j], m, claim[j][m], handler[j][m], a, attempt[j][m])
  PROVE  ExecInv'
<1>0. ExecTypeOK /\ TypeOK /\ RunInv(j)
  BY DEF ExecInv, IInv
<1>1. ExecTypeOK'
  BY <1>0 DEF ExecTypeOK, SetHandler, SetAttempt
<1>2. \A k \in Jobs : k # j =>
        /\ job'[k] = job[k] /\ business'[k] = business[k] /\ claims'[k] = claims[k]
        /\ claim'[k] = claim[k] /\ final'[k] = final[k] /\ attempt'[k] = attempt[k]
        /\ handler'[k] = handler[k]
  BY <1>0 DEF TypeOK, ExecTypeOK, SetBusiness, SetClaim, SetHandler, SetAttempt
<1>a. /\ job'[j] = job[j] /\ business'[j] = b /\ claims'[j] = claims[j] /\ final'[j] = final[j]
      /\ claim'[j][n] = c /\ handler'[j][n] = h /\ attempt'[j][n] = a
  BY <1>0 DEF TypeOK, ExecTypeOK, SetBusiness, SetClaim, SetHandler, SetAttempt
<1>3. \A m \in Tokens : m # n =>
        /\ claim'[j][m] = claim[j][m] /\ handler'[j][m] = handler[j][m]
        /\ attempt'[j][m] = attempt[j][m]
  BY <1>0 DEF TypeOK, ExecTypeOK, SetClaim, SetHandler, SetAttempt
<1>4. \A m \in Tokens : m # n =>
        /\ AttemptOK(job[j], business[j], claims[j], m, attempt[j][m])
        /\ HandlerOK(job[j], m, claim[j][m], handler[j][m], attempt[j][m])
  BY <1>0, Zenon DEF RunInv
<1>5. FinalOK(job[j], b, final[j], attempt'[j])
  <2>1. FinalOK(job[j], business[j], final[j], attempt[j]) /\ final[j] \in 0 .. MaxClaims
    BY <1>0, Zenon DEF RunInv, ExecTypeOK
  <2>2. (b \in Terminal <=> business[j] \in Terminal) /\ (b = "SUCCEEDED" <=> business[j] = "SUCCEEDED")
    BY DEF Terminal
  <2>3. CASE final[j] = 0
    BY <2>1, <2>2, <2>3, Zenon DEF FinalOK
  <2>4. CASE final[j] # 0
    <3> DEFINE f == final[j]
    <3>1. f \in Tokens
      BY <2>1, <2>4, TokenNumbers, Zenon
    <3>2. /\ attempt'[j][f].status = attempt[j][f].status
          /\ attempt'[j][f].generation = attempt[j][f].generation
          /\ attempt'[j][f].ckpt = attempt[j][f].ckpt
          /\ attempt'[j][f].unresolved = attempt[j][f].unresolved
      <4>1. attempt[j][f].status \notin {"none", "RUNNING"}
        BY <2>1, <2>4, Zenon DEF FinalOK
      <4>2. CASE f = n
        BY <1>a, <4>1, <4>2, Zenon
      <4>3. CASE f # n
        BY <1>3, <3>1, <4>3, Zenon
      <4> QED BY <4>2, <4>3, Zenon
    <3> HIDE DEF f
    <3> QED BY <2>1, <2>2, <3>2, Zenon DEF FinalOK, f
  <2> QED BY <2>3, <2>4, Zenon
<1>6. \A m \in Tokens :
        /\ AttemptOK(job'[j], business'[j], claims'[j], m, attempt'[j][m])
        /\ HandlerOK(job'[j], m, claim'[j][m], handler'[j][m], attempt'[j][m])
  <2>1. ASSUME NEW m \in Tokens, m # n PROVE AttemptOK(job[j], b, claims[j], m, attempt[j][m])
    BY <1>4, <2>1, Zenon DEF AttemptOK
  <2>2. AttemptOK(job'[j], business'[j], claims'[j], n, attempt'[j][n])
        /\ HandlerOK(job'[j], n, claim'[j][n], handler'[j][n], attempt'[j][n])
    BY <1>a, Zenon
  <2>3. ASSUME NEW m \in Tokens, m # n
        PROVE  /\ AttemptOK(job'[j], business'[j], claims'[j], m, attempt'[j][m])
               /\ HandlerOK(job'[j], m, claim'[j][m], handler'[j][m], attempt'[j][m])
    BY <1>a, <1>3, <1>4, <2>1, <2>3, Zenon
  <2> QED BY <2>2, <2>3, Zenon
<1>7. \A m, k \in Tokens : m # k =>
        ReplayOK(job'[j], k, claim'[j][k], handler'[j][k], attempt'[j][m], attempt'[j][k])
  <2>1. \A m, k \in Tokens : m # k =>
          ReplayOK(job[j], k, claim[j][k], handler[j][k], attempt[j][m], attempt[j][k])
    BY <1>0, Zenon DEF RunInv
  <2>2. ASSUME NEW m \in Tokens, m # n
        PROVE  /\ ReplayOK(job'[j], n, claim'[j][n], handler'[j][n], attempt'[j][m], attempt'[j][n])
               /\ ReplayOK(job'[j], m, claim'[j][m], handler'[j][m], attempt'[j][n], attempt'[j][m])
    BY <1>a, <1>3, <2>2, Zenon
  <2>3. ASSUME NEW m \in Tokens, NEW k \in Tokens, m # k, m # n, k # n
        PROVE  ReplayOK(job'[j], k, claim'[j][k], handler'[j][k], attempt'[j][m], attempt'[j][k])
    BY <1>a, <1>3, <2>1, <2>3, Zenon
  <2> QED BY <2>2, <2>3, Zenon
<1>8. RunInv(j)'
  BY <1>a, <1>5, <1>6, <1>7, NewRunInv, Zenon
<1>9. \A k \in Jobs : k # j => RunInv(k)'
  BY <1>2, SameRun, Zenon DEF ExecInv
<1> QED BY <1>1, <1>8, <1>9 DEF ExecInv

(* Its corollary for a step that starts no work, enters no executor, and   *)
(* saves a final checkpoint only while it holds the job.                   *)
LEMMA QuietStep ==
  ASSUME ExecInv, NEW j \in Jobs, NEW n \in Tokens,
         NEW c \in ClaimState, NEW h \in HandlerState, NEW a \in AttemptRow,
         UNCHANGED <<job, business, claims, final>>, SetClaim(j, n, c),
         SetHandler(j, n, h), SetAttempt(j, n, a), outages' \in 0 .. MaxOutages, IInv',
         AttemptOK(job[j], business[j], claims[j], n, a), HandlerOK(job[j], n, c, h, a),
         attempt[j][n].status \notin {"none", "RUNNING"} =>
           /\ a.status = attempt[j][n].status
           /\ a.ckpt = attempt[j][n].ckpt /\ a.unresolved = attempt[j][n].unresolved,
         a.generation = attempt[j][n].generation, a.no = attempt[j][n].no,
         a.work # "none" => attempt[j][n].work # "none",
         attempt[j][n].unsaved => a.unsaved,
         a.ckpt \in FinalKind => attempt[j][n].ckpt \in FinalKind \/ Holds(job[j], n),
         c.phase = "running" /\ h.pc \in InExecutor =>
           claim[j][n].phase = "running" /\ handler[j][n].pc \in InExecutor
  PROVE  ExecInv'
<1>1. business[j] \in Business /\ SetBusiness(j, business[j])
  BY Zenon DEF ExecInv, IInv, TypeOK, SetBusiness
<1>2. ASSUME NEW m \in Tokens, m # n
      PROVE  /\ ReplayOK(job[j], n, c, h, attempt[j][m], a)
             /\ ReplayOK(job[j], m, claim[j][m], handler[j][m], a, attempt[j][m])
  <2>1. /\ ReplayOK(job[j], n, claim[j][n], handler[j][n], attempt[j][m], attempt[j][n])
        /\ ReplayOK(job[j], m, claim[j][m], handler[j][m], attempt[j][n], attempt[j][m])
    BY <1>2, Zenon DEF ExecInv, RunInv
  <2>2. ReplayOK(job[j], n, c, h, attempt[j][m], a)
    BY <2>1, Zenon DEF ReplayOK
  <2>3. Holds(job[j], n) => ~Holds(job[j], m)
    BY <1>2, Zenon DEF Holds
  <2>4. ReplayOK(job[j], m, claim[j][m], handler[j][m], a, attempt[j][m])
    BY <2>1, <2>3, Zenon DEF ReplayOK
  <2> QED BY <2>2, <2>4, Zenon
<1> QED BY <1>1, <1>2, HandlerStep, Zenon

(* An edit of the columns about the provider and the checkpoint.           *)
LEMMA AttemptEdited ==
  ASSUME NEW r, NEW b, NEW last, NEW n, NEW a \in AttemptRow, NEW e \in AttemptRow,
         AttemptOK(r, b, last, n, a), a.status # "none", e.status = a.status,
         e.generation = a.generation, e.no = a.no,
         e.work # "none" => e.unresolved \/ e.ckpt \in FinalKind,
         e.success => e.unresolved, e.unresolved => e.ckpt \notin FinalKind,
         Dangling(e) => Dangling(a) \/ (Holds(r, n) /\ a.status = "RUNNING")
  PROVE  AttemptOK(r, b, last, n, e)
BY DEF AttemptOK

(* A handler moves on, and may edit its attempt.                           *)
LEMMA PlaceStep ==
  ASSUME ExecInv, IInv', NEW j \in Jobs, NEW n \in Tokens, Phased(j, n, "running"),
         NEW h \in HandlerState, NEW a \in AttemptRow,
         handler[j][n].pc \notin {"load", "begin"}, h.pc \notin {"load", "begin"},
         UNCHANGED <<vars, final>>, SetHandler(j, n, h), SetAttempt(j, n, a),
         outages' \in 0 .. MaxOutages,
         PlaceOK(h, a),
         h.err = "ownershipLost" => ~(Holds(job[j], n) /\ LiveLease(j)),
         (h.err = "user" \/ h.pc = "cancel") /\ Holds(job[j], n) => job[j].cancel,
         h.pc \in InExecutor => handler[j][n].pc \in InExecutor,
         a.status = attempt[j][n].status, a.generation = attempt[j][n].generation,
         a.no = attempt[j][n].no,
         attempt[j][n].status # "RUNNING" =>
           a.ckpt = attempt[j][n].ckpt /\ a.unresolved = attempt[j][n].unresolved,
         a.work # "none" => attempt[j][n].work # "none",
         a.work # "none" => a.unresolved \/ a.ckpt \in FinalKind,
         a.success => a.unresolved, a.unresolved => a.ckpt \notin FinalKind,
         attempt[j][n].unsaved => a.unsaved,
         a.ckpt \in FinalKind => attempt[j][n].ckpt \in FinalKind \/ Holds(job[j], n),
         Dangling(a) => Dangling(attempt[j][n])
                          \/ (Holds(job[j], n) /\ attempt[j][n].status = "RUNNING")
  PROVE  ExecInv'
<1> DEFINE c == claim[j][n]
<1>0. /\ c \in ClaimState /\ attempt[j][n] \in AttemptRow /\ TypeOK
      /\ AttemptOK(job[j], business[j], claims[j], n, attempt[j][n])
      /\ HandlerOK(job[j], n, c, handler[j][n], attempt[j][n])
      /\ c.phase = "running"
  BY ExecUnfold, Zenon DEF Phased
<1>1. attempt[j][n].status # "none" /\ attempt[j][n].generation = c.generation
  BY <1>0, Zenon DEF HandlerOK
<1>2. AttemptOK(job[j], business[j], claims[j], n, a)
  BY <1>0, <1>1, AttemptEdited, Zenon
<1>3. HandlerOK(job[j], n, c, h, a)
  BY <1>0, <1>1, Zenon DEF HandlerOK, LiveLease
<1>4. SetClaim(j, n, c) /\ UNCHANGED <<job, business, claims, final>>
  BY <1>0, Zenon DEF SetClaim, TypeOK, vars
<1> QED BY <1>0, <1>1, <1>2, <1>3, <1>4, QuietStep, Zenon

(* A handler moves on and leaves its attempt as it is.                     *)
LEMMA MoveStep ==
  ASSUME ExecInv, IInv', NEW j \in Jobs, NEW n \in Tokens, Phased(j, n, "running"),
         NEW h \in HandlerState,
         handler[j][n].pc \notin {"load", "begin"}, h.pc \notin {"load", "begin"},
         UNCHANGED <<vars, attempt, final>>, SetHandler(j, n, h), outages' \in 0 .. MaxOutages,
         PlaceOK(h, attempt[j][n]),
         h.err = "ownershipLost" => ~(Holds(job[j], n) /\ LiveLease(j)),
         (h.err = "user" \/ h.pc = "cancel") /\ Holds(job[j], n) => job[j].cancel,
         h.pc \in InExecutor => handler[j][n].pc \in InExecutor
  PROVE  ExecInv'
<1> DEFINE a == attempt[j][n]
<1>1. /\ a \in AttemptRow /\ ExecTypeOK /\ AttemptOK(job[j], business[j], claims[j], n, a)
  BY ExecUnfold, Zenon
<1>2. SetAttempt(j, n, a)
  BY <1>1, Zenon DEF SetAttempt, ExecTypeOK
<1>3. /\ a.work # "none" => a.unresolved \/ a.ckpt \in FinalKind
      /\ a.success => a.unresolved /\ (a.unresolved => a.ckpt \notin FinalKind)
      /\ a.unresolved => a.ckpt \notin FinalKind
  BY <1>1, Zenon DEF AttemptOK
<1> HIDE DEF a
<1> QED BY <1>1, <1>2, <1>3, PlaceStep, Zenon DEF a

(* A handler returns and leaves its attempt as it is.  Where it leaves a   *)
(* marker dangling, what it returns is never retried.                      *)
LEMMA ReturnStep ==
  ASSUME ExecInv, IInv', NEW j \in Jobs, NEW n \in Tokens, Phased(j, n, "running"),
         NEW ret \in Return, Returns(j, n, ret), UNCHANGED <<attempt, final>>,
         outages' \in 0 .. MaxOutages,
         Holds(job[j], n) /\ ~job[j].cancel /\ Dangling(attempt[j][n]) =>
           \/ ret = "atomicUnknown"
           \/ ret = claim[j][n].cause /\ ret \in {"ownershipLost", "shutdown"}
  PROVE  ExecInv'
<1> DEFINE c == [claim[j][n] EXCEPT !.phase = "returned", !.ret = ret]
           a == attempt[j][n]
<1>1. /\ a \in AttemptRow /\ ExecTypeOK /\ AttemptOK(job[j], business[j], claims[j], n, a)
      /\ claim[j][n] \in ClaimState
  BY ExecUnfold, Zenon
<1>2. /\ SetAttempt(j, n, a) /\ SetClaim(j, n, c) /\ SetHandler(j, n, NoHandler)
      /\ UNCHANGED <<job, business, claims, final>> /\ NoHandler \in HandlerState
  BY <1>1, NullExecTypes DEF SetAttempt, ExecTypeOK, Returns, HandlerReturns
<1>3. c \in ClaimState /\ c.phase = "returned" /\ c.ret = ret /\ c.cause = claim[j][n].cause
  BY <1>1, Zenon DEF ClaimState, Phase
<1> HIDE DEF c
<1>4. HandlerOK(job[j], n, c, NoHandler, a)
  BY <1>3 DEF HandlerOK
<1> HIDE DEF a
<1>5. a.ckpt \in FinalKind => attempt[j][n].ckpt \in FinalKind
  BY DEF a
<1> QED BY <1>1, <1>2, <1>3, <1>4, <1>5, QuietStep, Zenon DEF a

(* What the lock of the dispatch guard and of the checkpoint says about    *)
(* the job, and what a refusal of it means to the executor.                *)
LEMMA LiveLockAnswers ==
  ASSUME ExecInv, NEW j \in Jobs, NEW n \in Tokens, Phased(j, n, "running")
  PROVE  LET err == Refusal(LiveLock(j, n)) IN
         /\ LiveLock(j, n) = "ok" => /\ Holds(job[j], n) /\ StillRunning(j, n)
                                     /\ ~job[j].cancel /\ business[j] = "RUNNING"
         /\ err \in {"user", "ownershipLost", "retryable"}
         /\ err = "ownershipLost" => ~(Holds(job[j], n) /\ LiveLease(j))
         /\ err = "user" => job[j].cancel
<1>1. Owned(j, n) <=> Holds(job[j], n)
  BY OwnedIsHeld
<1>2. LET answer == Lock(j, n, FALSE) IN
      /\ answer = "ownershipLost" => ~Owned(j, n)
      /\ answer = "user" => Owned(j, n) /\ job[j].cancel
      /\ answer = "ok" => /\ Owned(j, n) /\ StillRunning(j, n) /\ business[j] = "RUNNING"
                          /\ ~job[j].cancel
  BY LockAnswers, Zenon
<1> QED BY <1>1, <1>2, Zenon DEF LiveLock, Refusal

(* The budget of outages is kept.                                          *)
LEMMA OutageType ==
  ASSUME ExecInv, NEW j, NEW n, UNCHANGED outages \/ Outage \/ Interrupted(j, n)
  PROVE  outages' \in 0 .. MaxOutages
BY OutagesAssumption DEF ExecInv, ExecTypeOK, Outage, Interrupted

(* The executor's report and error are a handler's state.                  *)
LEMMA EndsType ==
  ASSUME NEW result \in Result, NEW err \in ExecErr
  PROVE  LET h == [pc |-> IF err = "none" THEN "save" ELSE "verify", result |-> result, err |-> err]
         IN h \in HandlerState /\ h.pc = (IF err = "none" THEN "save" ELSE "verify")
            /\ h.result = result /\ h.err = err
BY DEF HandlerState, HandlerAt

(* The executor ends: with a report and no error before the save, with an  *)
(* error before the verification.                                          *)
LEMMA EndsStep ==
  ASSUME ExecInv, IInv', NEW j \in Jobs, NEW n \in Tokens, Phased(j, n, "running"),
         handler[j][n].pc \in {"resume"} \cup InExecutor,
         NEW result \in Result, NEW err \in ExecErr, ExecutorEnds(j, n, result, err),
         UNCHANGED <<vars, attempt, final>>, outages' \in 0 .. MaxOutages,
         result = "nil" => ~Invalid(err),
         err = "ownershipLost" => ~(Holds(job[j], n) /\ LiveLease(j)),
         err = "user" => job[j].cancel
  PROVE  ExecInv'
<1> DEFINE h == [pc |-> IF err = "none" THEN "save" ELSE "verify", result |-> result, err |-> err]
           a == attempt[j][n]
<1>1. h \in HandlerState /\ h.pc = (IF err = "none" THEN "save" ELSE "verify")
      /\ h.result = result /\ h.err = err /\ SetHandler(j, n, h)
  BY EndsType DEF ExecutorEnds
<1> HIDE DEF h
<1>2. PlaceOK(handler[j][n], a)
  BY ExecUnfold, Zenon DEF HandlerOK, Phased
<1>3. a.ckpt = "nil" /\ ~a.unsaved
  BY <1>2, Zenon DEF PlaceOK, Unsaved
<1>4. PlaceOK(h, a)
  BY <1>1, <1>3 DEF PlaceOK, Unsaved, InExecutor
<1>5. h.pc \notin {"load", "begin", "cancel"} /\ h.pc \notin InExecutor
      /\ handler[j][n].pc \notin {"load", "begin"}
  BY <1>1 DEF InExecutor
<1> QED BY <1>1, <1>4, <1>5, MoveStep

(* Up to the attempt: the entry checks, StartAttemptWithClaim and its      *)
(* refusals.                                                               *)
LEMMA BeginInv ==
  ASSUME ExecInv, IInv', NEW j \in Jobs, NEW n \in Tokens, Phased(j, n, "running"),
         \/ LoadRun(j, n) \/ \E acknowledged \in BOOLEAN : StartAttempt(j, n, acknowledged)
         \/ StartAttemptRefused(j, n) \/ StartAttemptFails(j, n)
  PROVE  ExecInv'
<1> DEFINE c == claim[j][n]
           h == handler[j][n]
           a == attempt[j][n]
           r == job[j]
<1>0. /\ c \in ClaimState /\ a \in AttemptRow /\ h \in HandlerState /\ r \in JobRow
      /\ TypeOK /\ ExecTypeOK /\ business[j] \in Business
      /\ RowOK(j, r, business[j], claims[j]) /\ ClaimOK(r, claims[j], n, c)
      /\ AttemptOK(r, business[j], claims[j], n, a) /\ HandlerOK(r, n, c, h, a)
      /\ c.phase = "running"
  BY ExecUnfold, Zenon DEF Phased
<1>1. h.pc \in {"load", "begin", "startFailed"} => ~Dangling(a)
  <2>1. PlaceOK(h, a) /\ (h.pc \in {"load", "begin"} => a.status = "none")
    BY <1>0, Zenon DEF HandlerOK
  <2>2. a.status = "none" => a = NoAttempt
    BY <1>0, Zenon DEF AttemptOK
  <2>3. ~NoAttempt.unresolved
    BY DEF NoAttempt
  <2>4. h.pc = "startFailed" => ~a.unresolved
    BY <2>1, Zenon DEF PlaceOK
  <2> QED BY <2>1, <2>2, <2>3, <2>4, Zenon DEF Dangling
<1>2. {"nil", "permanent", "retryable", "finalized", "user", "ownershipLost", "shutdown"}
        \subseteq Return
  BY DEF Return
<1>3. CASE LoadRun(j, n)
  <2>1. h.pc = "load" /\ UNCHANGED <<attempt, final>> /\ outages' \in 0 .. MaxOutages
    BY <1>3, OutageType, Zenon DEF LoadRun, At
  <2>2. CASE Move(j, n, "begin") /\ UNCHANGED vars
    <3> DEFINE g == [h EXCEPT !.pc = "begin"]
    <3>1. g \in HandlerState /\ g.pc = "begin" /\ g.err = h.err /\ SetHandler(j, n, g)
      BY <1>0, <2>2 DEF HandlerState, HandlerAt, Move
    <3>2. SetAttempt(j, n, a) /\ SetClaim(j, n, c) /\ UNCHANGED <<job, business, claims, final>>
      BY <1>0, <2>1, <2>2 DEF SetAttempt, SetClaim, TypeOK, ExecTypeOK, vars
    <3> HIDE DEF g
    <3>3. PlaceOK(g, a)
      BY <3>1, Zenon DEF PlaceOK, Unsaved, InExecutor
    <3>4. HandlerOK(r, n, c, g, a)
      BY <1>0, <2>1, <3>1, <3>3, Zenon DEF HandlerOK
    <3>5. g.pc \notin InExecutor
      BY <3>1, Zenon DEF InExecutor
    <3> QED BY <1>0, <2>1, <3>1, <3>2, <3>4, <3>5, QuietStep, Zenon
  <2>3. ASSUME NEW ret \in Return, Returns(j, n, ret) PROVE ExecInv'
    BY <1>1, <2>1, <2>3, ReturnStep, Zenon
  <2> QED BY <1>2, <1>3, <2>2, <2>3, Zenon DEF LoadRun
<1>4. ASSUME NEW acknowledged \in BOOLEAN, StartAttempt(j, n, acknowledged) PROVE ExecInv'
  <2> DEFINE pc == IF acknowledged THEN "resume" ELSE "startFailed"
             g == [h EXCEPT !.pc = pc]
             e == [NoAttempt EXCEPT !.status = "RUNNING", !.generation = r.generation,
                                    !.no = r.attempts]
             b == business'[j]
  <2>1. /\ h.pc = "begin" /\ UNCHANGED <<job, claims, final>> /\ outages' \in 0 .. MaxOutages
        /\ HoldsClaim(j, n) /\ r.started /\ SetAttempt(j, n, e) /\ SetHandler(j, n, g)
        /\ UNCHANGED claim
    BY <1>4, OutageType DEF StartAttempt, At, Startable, Move, HandlerBegins, vars
  <2>2. SetBusiness(j, b) /\ b \in Business
        /\ (b = business[j] \/ (business[j] = "QUEUED" /\ b = "RUNNING"))
    <3>1. "RUNNING" \in Business
      BY DEF Business, Open
    <3> QED BY <1>0, <1>4, <3>1 DEF StartAttempt, HandlerBegins, SetBusiness, vars, TypeOK
  <2>3. g \in HandlerState /\ g.pc = pc /\ g.err = h.err
    BY <1>0 DEF HandlerState, HandlerAt
  <2>4. /\ e.status = "RUNNING" /\ e.generation = r.generation /\ e.no = r.attempts
        /\ ~e.unresolved /\ ~e.success /\ e.ckpt = "nil" /\ e.work = "none" /\ ~e.unsaved
    BY DEF NoAttempt
  <2>5. e \in AttemptRow
    <3>1. r.generation \in 0 .. MaxGeneration /\ r.attempts \in Nat
      BY <1>0, RowNumbers, Zenon
    <3> QED BY <3>1, NullExecTypes, Zenon DEF AttemptRow, AttemptStatus
  <2>6. SetClaim(j, n, c)
    BY <1>0, <2>1 DEF SetClaim, TypeOK
  <2>7. Holds(r, n) /\ c.generation = r.generation /\ n <= claims[j] /\ r.attempts <= MaxAttempts
    <3>1. Holds(r, n) /\ c.generation = r.generation
      BY <2>1 DEF HoldsClaim, Holds
    <3>2. n <= claims[j]
      BY <1>0, Zenon DEF ClaimOK
    <3>3. r.attempts <= MaxAttempts
      BY <1>0, Zenon DEF RowOK
    <3> QED BY <3>1, <3>2, <3>3
  <2> HIDE DEF g, e, b
  <2>8. AttemptOK(r, b, claims[j], n, e)
    <3>1. r.attempts \in Nat /\ r.generation \in Nat
      BY <1>0, RowNumbers, Zenon
    <3>2. e.generation <= r.generation /\ e.no <= MaxAttempts /\ e.no <= r.attempts
      BY <2>4, <2>7, <3>1
    <3>3. e.ckpt \notin FinalKind
      BY <2>4 DEF FinalKind
    <3> QED BY <2>1, <2>4, <2>7, <3>2, <3>3, Zenon DEF AttemptOK, Holds, Dangling
  <2>9. PlaceOK(g, e)
    BY <2>3, <2>4, Zenon DEF PlaceOK, InExecutor
  <2>10. HandlerOK(r, n, c, g, e)
    BY <1>0, <2>3, <2>4, <2>7, <2>9, Zenon DEF HandlerOK, Dangling
  <2>11. a.status = "none"
    BY <1>0, <2>1, Zenon DEF HandlerOK
  <2>12. ASSUME NEW m \in Tokens, m # n
         PROVE  /\ ReplayOK(r, n, c, g, attempt[j][m], e)
                /\ ReplayOK(r, m, claim[j][m], handler[j][m], e, attempt[j][m])
    BY <2>3, <2>4, Zenon DEF ReplayOK, InExecutor, FinalKind
  <2> QED BY <1>0, <2>1, <2>2, <2>3, <2>5, <2>6, <2>8, <2>10, <2>11, <2>12, HandlerStep, Zenon
<1>5. CASE StartAttemptRefused(j, n)
  <2> DEFINE ret == CASE r.status \in Terminal -> "finalized"
                      [] HoldsClaim(j, n) /\ r.started /\ r.cancel -> "user"
                      [] OTHER -> "ownershipLost"
  <2>1. h.pc = "begin" /\ Returns(j, n, ret) /\ UNCHANGED <<attempt, final, outages>>
    BY <1>5 DEF StartAttemptRefused, At
  <2>2. ret \in Return
    BY <1>2
  <2> HIDE DEF ret
  <2> QED BY <1>1, <2>1, <2>2, OutageType, ReturnStep, Zenon
<1>6. CASE StartAttemptFails(j, n)
  <2>1. /\ h.pc \in {"begin", "startFailed"} /\ Returns(j, n, "retryable")
        /\ UNCHANGED <<attempt, final>> /\ outages' \in 0 .. MaxOutages
    BY <1>6, OutageType, Zenon DEF StartAttemptFails, At
  <2> QED BY <1>1, <1>2, <2>1, ReturnStep, Zenon
<1> QED BY <1>3, <1>4, <1>5, <1>6

(* The resumption from a final checkpoint, or the entry into the executor  *)
(* because there is none.                                                  *)
LEMMA LoadCheckpointInv ==
  ASSUME ExecInv, IInv', NEW j \in Jobs, NEW n \in Tokens, Phased(j, n, "running"),
         LoadCheckpoint(j, n)
  PROVE  ExecInv'
<1> DEFINE c == claim[j][n]
           h == handler[j][n]
           a == attempt[j][n]
           r == job[j]
           found == {m \in Attempts(j, c.generation) : attempt[j][m].ckpt \in FinalKind}
<1>0. /\ c \in ClaimState /\ a \in AttemptRow /\ h \in HandlerState /\ r \in JobRow
      /\ TypeOK /\ ExecTypeOK /\ business[j] \in Business
      /\ ClaimOK(r, claims[j], n, c)
      /\ AttemptOK(r, business[j], claims[j], n, a) /\ HandlerOK(r, n, c, h, a)
      /\ c.phase = "running"
  BY ExecUnfold, Zenon DEF Phased
<1>1. h.pc = "resume" /\ UNCHANGED <<attempt, final>> /\ outages' \in 0 .. MaxOutages
  BY OutageType, Zenon DEF LoadCheckpoint, At
<1>2. /\ PlaceOK(h, a) /\ a.work = "none" /\ ~a.unresolved /\ a.ckpt = "nil" /\ ~a.unsaved
      /\ a.status # "none" /\ a.generation = c.generation
  BY <1>0, <1>1, Zenon DEF HandlerOK, PlaceOK, Unsaved
<1>3. CASE found = {} /\ Move(j, n, "round") /\ UNCHANGED vars
  <2> DEFINE g == [h EXCEPT !.pc = "round"]
  <2>1. g \in HandlerState /\ g.pc = "round" /\ g.err = h.err /\ SetHandler(j, n, g)
    BY <1>0, <1>3 DEF HandlerState, HandlerAt, Move
  <2>2. /\ SetAttempt(j, n, a) /\ SetClaim(j, n, c) /\ UNCHANGED <<job, claims, final>>
        /\ SetBusiness(j, business[j])
    BY <1>0, <1>1, <1>3 DEF SetAttempt, SetClaim, SetBusiness, TypeOK, ExecTypeOK, vars
  <2> HIDE DEF g
  <2>3. PlaceOK(g, a)
    BY <1>2, <2>1, Zenon DEF PlaceOK, Unsaved, InExecutor
  <2>4. HandlerOK(r, n, c, g, a)
    BY <1>0, <1>1, <2>1, <2>3, Zenon DEF HandlerOK
  <2>5. ASSUME NEW m \in Tokens, m # n
        PROVE  /\ ReplayOK(r, n, c, g, attempt[j][m], a)
               /\ ReplayOK(r, m, claim[j][m], handler[j][m], a, attempt[j][m])
    <3> DEFINE d == attempt[j][m]
    <3>1. AttemptOK(r, business[j], claims[j], m, d)
      BY ExecUnfold, Zenon
    <3>2. Holds(r, n) => c.generation = r.generation
      BY <1>0, Zenon DEF ClaimOK
    <3>3. d.status = "none" => d.ckpt \notin FinalKind
      BY <3>1, NoAttemptFields, Zenon DEF AttemptOK
    <3>4. d.status # "none" /\ d.generation = c.generation => d.ckpt \notin FinalKind
      BY <1>3 DEF Attempts
    <3> HIDE DEF d
    <3>5. ReplayOK(r, n, c, g, d, a)
      BY <1>2, <3>2, <3>3, <3>4 DEF ReplayOK
    <3>6. ReplayOK(r, m, claim[j][m], handler[j][m], a, d)
      BY <1>2 DEF ReplayOK, FinalKind
    <3> QED BY <3>5, <3>6, Zenon DEF d
  <2> QED BY <1>0, <1>1, <2>1, <2>2, <2>4, <2>5, HandlerStep, Zenon
<1>4. CASE \/ ExecutorEnds(j, n, "valid", "none") /\ UNCHANGED vars
           \/ ExecutorEnds(j, n, "invalid", "invalid") /\ UNCHANGED vars
  <2>1. {"valid", "invalid"} \subseteq Result /\ {"none", "invalid"} \subseteq ExecErr
    BY DEF Result, FinalKind, ExecErr
  <2> QED BY <1>1, <1>4, <2>1, EndsStep
<1>5. CASE Returns(j, n, "retryable")
  <2>1. ~Dangling(a) /\ "retryable" \in Return
    BY <1>2 DEF Dangling, Return
  <2> QED BY <1>1, <1>5, <2>1, ReturnStep
<1> QED BY <1>3, <1>4, <1>5, Zenon DEF LoadCheckpoint

(* The steps inside the executor keep the invariant.                       *)
LEMMA ExecutorInv ==
  ExecInv /\ IInv' => \A j \in Jobs, n \in Tokens :
    /\ Phased(j, n, "running")
    /\ \/ MarkDispatch(j, n) \/ AuthorizeDispatch(j, n) \/ ProviderCall(j, n)
       \/ RecordSuccess(j, n) \/ RecordDefiniteFailure(j, n) \/ ExecutorReturns(j, n)
    => ExecInv'

(* A handler in the executor, and the row of its attempt.                  *)
<1>InsideExecutor.
  ASSUME ExecInv, NEW j \in Jobs, NEW n \in Tokens, Phased(j, n, "running"),
         handler[j][n].pc \in InExecutor
  PROVE  /\ attempt[j][n] \in AttemptRow /\ handler[j][n] \in HandlerState
         /\ attempt[j][n].status # "none" /\ attempt[j][n].ckpt = "nil" /\ ~attempt[j][n].unsaved
         /\ AttemptOK(job[j], business[j], claims[j], n, attempt[j][n])
         /\ PlaceOK(handler[j][n], attempt[j][n])
         /\ handler[j][n].err = "ownershipLost" => ~(Holds(job[j], n) /\ LiveLease(j))
         /\ handler[j][n].err = "user" /\ Holds(job[j], n) => job[j].cancel
         /\ attempt[j][n].work # "none" => attempt[j][n].unresolved
         /\ attempt[j][n].success => attempt[j][n].unresolved
  <2> USE <1>InsideExecutor
  <2> DEFINE c == claim[j][n]
             h == handler[j][n]
             a == attempt[j][n]
  <2>1. /\ a \in AttemptRow /\ h \in HandlerState /\ c.phase = "running"
        /\ AttemptOK(job[j], business[j], claims[j], n, a) /\ HandlerOK(job[j], n, c, h, a)
    BY ExecUnfold, Zenon DEF Phased
  <2>2. h.pc \notin {"load", "begin"} /\ h.pc \in Unsaved
    BY DEF InExecutor, Unsaved
  <2>3. a.status # "none" /\ PlaceOK(h, a) /\ a.ckpt = "nil" /\ ~a.unsaved
    BY <2>1, <2>2, Zenon DEF HandlerOK, PlaceOK
  <2>4. (a.work # "none" => a.unresolved) /\ (a.success => a.unresolved)
    BY <2>1, <2>3, Zenon DEF AttemptOK, FinalKind
  <2>5. /\ h.err = "ownershipLost" => ~(Holds(job[j], n) /\ LiveLease(j))
        /\ h.err = "user" /\ Holds(job[j], n) => job[j].cancel
    BY <2>1, Zenon DEF HandlerOK, LiveLease
  <2> QED BY <2>1, <2>3, <2>4, <2>5, Zenon

(* A step inside the executor that edits the attempt's markers under the   *)
(* live claim, or notes what the provider did.                             *)
<1>MarkStep.
  ASSUME ExecInv, IInv', NEW j \in Jobs, NEW n \in Tokens, Phased(j, n, "running"),
         handler[j][n].pc \in InExecutor,
         NEW unresolved \in BOOLEAN, NEW success \in BOOLEAN, NEW work \in Work,
         NEW h \in HandlerState,
         UNCHANGED <<vars, final>>, outages' \in 0 .. MaxOutages, SetHandler(j, n, h),
         SetAttempt(j, n, [attempt[j][n] EXCEPT !.unresolved = unresolved,
                             !.success = success, !.work = work]),
         h.pc \in {"verify"} \cup InExecutor,
         \/ h.err = handler[j][n].err
         \/ h.err \notin {"ownershipLost", "user"},
         h.pc = "verify" => h.err # "none" /\ ~Invalid(h.err),
         h.pc \in {"round", "marked", "reject"} /\ work # "none" => success,
         h.pc \in {"call", "accept", "reject"} => unresolved,
         h.pc = "call" => work # "none" /\ (work = "done" => success),
         work # "none" => attempt[j][n].work # "none" /\ unresolved,
         success => unresolved,
         unresolved # attempt[j][n].unresolved =>
           Holds(job[j], n) /\ attempt[j][n].status = "RUNNING"
  PROVE  ExecInv'
  <2> USE <1>MarkStep
  <2> DEFINE a == attempt[j][n]
             e == [a EXCEPT !.unresolved = unresolved, !.success = success, !.work = work]
  <2>1. /\ a \in AttemptRow /\ a.status # "none" /\ a.ckpt = "nil" /\ ~a.unsaved
        /\ handler[j][n].err = "ownershipLost" => ~(Holds(job[j], n) /\ LiveLease(j))
        /\ handler[j][n].err = "user" /\ Holds(job[j], n) => job[j].cancel
    BY <1>InsideExecutor
  <2>2. /\ e \in AttemptRow /\ e.status = a.status /\ e.generation = a.generation /\ e.no = a.no
        /\ e.unresolved = unresolved /\ e.success = success /\ e.work = work
        /\ e.ckpt = a.ckpt /\ e.unsaved = a.unsaved
    BY <2>1, Zenon DEF AttemptRow
  <2> HIDE DEF e
  <2>3. PlaceOK(h, e)
    BY <2>1, <2>2 DEF PlaceOK, Unsaved, InExecutor
  <2>4. /\ h.pc \notin {"load", "begin", "cancel"} /\ handler[j][n].pc \notin {"load", "begin"}
        /\ e.ckpt \notin FinalKind
    BY <2>1, <2>2 DEF InExecutor, FinalKind
  <2>5. Dangling(e) => Dangling(a) \/ (Holds(job[j], n) /\ a.status = "RUNNING")
    BY <2>2, Zenon DEF Dangling
  <2>6. SetAttempt(j, n, e)
    BY DEF e
  <2> HIDE DEF a
  <2> QED BY <2>1, <2>2, <2>3, <2>4, <2>5, <2>6, PlaceStep DEF a

(* The same, for a step that ends in a place of the executor or that ends  *)
(* the executor with an error of its own.                                  *)
<1>ExecutorStates.
  ASSUME NEW h \in HandlerState
  PROVE  /\ \A pc \in {"round", "marked", "call", "accept", "reject"} :
              LET g == [h EXCEPT !.pc = pc] IN g \in HandlerState /\ g.pc = pc /\ g.err = h.err
         /\ \A err \in {"retryable", "permanent", "unknown"} :
              LET g == [pc |-> IF err = "none" THEN "save" ELSE "verify",
                        result |-> "partial", err |-> err]
              IN g \in HandlerState /\ g.pc = "verify" /\ g.err = err
  <2> USE <1>ExecutorStates
  <2>1. "partial" \in Result /\ {"retryable", "permanent", "unknown"} \subseteq ExecErr
    BY DEF Result, ExecErr
  <2> QED BY <2>1 DEF HandlerState, HandlerAt

(* The dispatch marker is set, before the request leaves.                  *)
<1>MarkDispatchInv.
  ASSUME ExecInv, IInv', NEW j \in Jobs, NEW n \in Tokens, Phased(j, n, "running"),
         MarkDispatch(j, n)
  PROVE  ExecInv'
  <2> USE <1>MarkDispatchInv
  <2> DEFINE h == handler[j][n]
             a == attempt[j][n]
  <2>1. h.pc = "round" /\ h.pc \in InExecutor /\ UNCHANGED <<vars, final>>
        /\ outages' \in 0 .. MaxOutages
    BY OutageType DEF MarkDispatch, At, InExecutor
  <2>2. /\ a \in AttemptRow /\ h \in HandlerState /\ PlaceOK(h, a) /\ (a.work # "none" => a.success)
    BY <2>1, <1>InsideExecutor, Zenon DEF PlaceOK
  <2>3. /\ LiveLock(j, n) = "ok" => Holds(job[j], n) /\ a.status = "RUNNING"
        /\ Refusal(LiveLock(j, n)) \in {"user", "ownershipLost", "retryable"}
        /\ Refusal(LiveLock(j, n)) = "ownershipLost" => ~(Holds(job[j], n) /\ LiveLease(j))
        /\ Refusal(LiveLock(j, n)) = "user" => job[j].cancel
    BY LiveLockAnswers, Zenon DEF StillRunning
  <2>4. ASSUME NEW g \in HandlerState, LiveLock(j, n) = "ok", SetHandler(j, n, g),
               SetAttempt(j, n, [a EXCEPT !.unresolved = TRUE]),
               \/ g.pc = "marked" /\ g.err = h.err
               \/ g.pc = "verify" /\ g.err = "retryable"
        PROVE  ExecInv'
    <3>1. SetAttempt(j, n, [a EXCEPT !.unresolved = TRUE, !.success = a.success, !.work = a.work])
      BY <2>2, <2>4, Zenon DEF AttemptRow
    <3>2. g.pc \in {"verify"} \cup InExecutor /\ a.success \in BOOLEAN /\ a.work \in Work
      BY <2>2, <2>4 DEF InExecutor, AttemptRow
    <3>3. g.pc = "verify" => g.err # "none" /\ ~Invalid(g.err) /\ g.err \notin {"ownershipLost", "user"}
      BY <2>4 DEF Invalid
    <3> HIDE DEF a, h
    <3> QED BY <2>1, <2>2, <2>3, <2>4, <3>1, <3>2, <3>3, <1>MarkStep, Zenon DEF a, h
  <2>5. CASE LiveLock(j, n) = "ok" /\ SetAttempt(j, n, [a EXCEPT !.unresolved = TRUE])
             /\ (Move(j, n, "marked") \/ ExecutorEnds(j, n, "partial", "retryable"))
    BY <2>2, <2>4, <2>5, <1>ExecutorStates, Zenon DEF Move, ExecutorEnds
  <2>6. CASE UNCHANGED attempt /\ \E err \in {"user", "ownershipLost", "retryable"} :
               /\ ExecutorEnds(j, n, "partial", err)
               /\ err = "retryable" \/ err = Refusal(LiveLock(j, n))
    <3>1. "partial" \in Result /\ {"user", "ownershipLost", "retryable"} \subseteq ExecErr
      BY DEF Result, ExecErr
    <3> QED BY <2>1, <2>3, <2>6, <3>1, EndsStep, Zenon
  <2> QED BY <2>3, <2>5, <2>6 DEF MarkDispatch

(* The request leaves.  No earlier attempt of the generation has worked,   *)
(* except one whose checkpoint was lost.                                   *)
<1>AuthorizeDispatchInv.
  ASSUME ExecInv, IInv', NEW j \in Jobs, NEW n \in Tokens, Phased(j, n, "running"),
         AuthorizeDispatch(j, n)
  PROVE  ExecInv'
  <2> USE <1>AuthorizeDispatchInv
  <2> DEFINE c == claim[j][n]
             h == handler[j][n]
             a == attempt[j][n]
             r == job[j]
  <2>1. h.pc = "marked" /\ h.pc \in InExecutor /\ UNCHANGED <<vars, final>>
        /\ outages' \in 0 .. MaxOutages
    BY OutageType DEF AuthorizeDispatch, At, InExecutor
  <2>2. /\ a \in AttemptRow /\ h \in HandlerState /\ a.status # "none" /\ a.ckpt = "nil" /\ ~a.unsaved
        /\ PlaceOK(h, a) /\ (a.work # "none" => a.success)
    BY <2>1, <1>InsideExecutor, Zenon DEF PlaceOK
  <2>3. /\ LiveLock(j, n) = "ok" => Holds(r, n) /\ StillRunning(j, n)
        /\ Refusal(LiveLock(j, n)) \in {"user", "ownershipLost", "retryable"}
        /\ Refusal(LiveLock(j, n)) = "ownershipLost" => ~(Holds(r, n) /\ LiveLease(j))
        /\ Refusal(LiveLock(j, n)) = "user" => r.cancel
    BY LiveLockAnswers, Zenon
  <2>4. CASE /\ LiveLock(j, n) = "ok" /\ a.unresolved /\ Move(j, n, "call")
             /\ SetAttempt(j, n, [a EXCEPT !.work = IF @ = "none" THEN "sent" ELSE @])
    <3> DEFINE g == [h EXCEPT !.pc = "call"]
               w == IF a.work = "none" THEN "sent" ELSE a.work
               e == [a EXCEPT !.work = w]
    <3>1. g \in HandlerState /\ g.pc = "call" /\ g.err = h.err /\ SetHandler(j, n, g)
      BY <2>2, <2>4, <1>ExecutorStates, Zenon DEF Move
    <3>2. w \in Work /\ w # "none" /\ (w = "done" => a.success)
      BY <2>2, Zenon DEF Work, AttemptRow
    <3>a. SetAttempt(j, n, e)
      BY <2>4
    <3> HIDE DEF w, g
    <3>3. /\ e \in AttemptRow /\ e.status = a.status /\ e.generation = a.generation /\ e.no = a.no
          /\ e.unresolved = a.unresolved /\ e.success = a.success /\ e.work = w
          /\ e.ckpt = a.ckpt /\ e.unsaved = a.unsaved
      BY <2>2, <3>2 DEF AttemptRow
    <3> HIDE DEF e
    <3>4. /\ c \in ClaimState /\ c.phase = "running" /\ TypeOK /\ business[j] \in Business
          /\ AttemptOK(r, business[j], claims[j], n, a) /\ HandlerOK(r, n, c, h, a)
          /\ a.generation = r.generation /\ a.no = r.attempts /\ Holds(r, n)
      BY <2>3, <2>4, ExecUnfold DEF Phased, StillRunning
    <3>5. e.success => e.unresolved
      BY <2>4, <3>3
    <3>6. AttemptOK(r, business[j], claims[j], n, e)
      <4>1. Dangling(e) => Dangling(a)
        BY <3>3 DEF Dangling
      <4>2. e.unresolved => e.ckpt \notin FinalKind
        BY <2>2, <3>3 DEF FinalKind
      <4> QED BY <2>2, <2>4, <3>3, <3>4, <3>5, <4>1, <4>2, AttemptEdited, Zenon
    <3>7. PlaceOK(g, e)
      BY <2>2, <2>4, <3>1, <3>2, <3>3 DEF PlaceOK, Unsaved, InExecutor
    <3>8. HandlerOK(r, n, c, g, e)
      BY <2>1, <2>2, <3>1, <3>3, <3>4, <3>7, Zenon DEF HandlerOK
    <3>9. ASSUME NEW m \in Tokens, m # n
          PROVE  /\ ReplayOK(r, n, c, g, attempt[j][m], e)
                 /\ ReplayOK(r, m, claim[j][m], handler[j][m], e, attempt[j][m])
      <4> DEFINE d == attempt[j][m]
      <4>1. ReplayOK(r, n, c, h, d, a) /\ ReplayOK(r, m, claim[j][m], handler[j][m], a, d)
        BY <3>9, Zenon DEF ExecInv, RunInv
      <4>2. AttemptOK(r, business[j], claims[j], m, d) /\ d \in AttemptRow /\ r \in JobRow
        BY ExecUnfold, Zenon
      <4>3. ~Holds(r, m) /\ r.status \notin Terminal
        BY <3>4, <3>9, Zenon DEF Holds, Terminal
      <4>4. d.generation = r.generation => d.ckpt \notin FinalKind
        BY <2>1, <3>4, <4>1, Zenon DEF ReplayOK
      <4>5. d.generation = r.generation /\ d.work # "none" => d.status # "none" /\ d.unresolved
        BY <4>2, <4>4, NoAttemptFields, Zenon DEF AttemptOK
      <4>6. d.generation = r.generation /\ d.work # "none" => d.unsaved
        BY <4>2, <4>3, <4>5, Zenon DEF AttemptOK, Dangling
      <4>7. d.generation = r.generation /\ d.work # "none" => d.no <= r.attempts
        BY <4>2, <4>5, Zenon DEF AttemptOK
      <4>8. d.no \in Nat /\ r.attempts \in Nat
        BY <4>2, Zenon DEF AttemptRow, JobRow
      <4>9. ~(e.generation = d.generation /\ e.no < d.no /\ d.work # "none")
        <5>1. e.generation = r.generation /\ e.no = r.attempts
          BY <3>3, <3>4, Zenon
        <5>2. \A x, y \in Nat : x <= y => ~(y < x)
          OBVIOUS
        <5> QED BY <4>7, <4>8, <5>1, <5>2, Zenon
      <4>10. g.pc \in InExecutor
        BY <3>1, Zenon DEF InExecutor
      <4> HIDE DEF d
      <4>11. ReplayOK(r, n, c, g, d, e)
        BY <3>3, <3>4, <4>4, <4>6, Zenon DEF ReplayOK
      <4>12. ReplayOK(r, m, claim[j][m], handler[j][m], e, d)
        BY <4>3, <4>9 DEF ReplayOK
      <4> QED BY <4>11, <4>12, Zenon DEF d
    <3>10. SetClaim(j, n, c) /\ SetBusiness(j, business[j]) /\ UNCHANGED <<job, claims, final>>
      BY <2>1, <3>4, Zenon DEF SetClaim, SetBusiness, TypeOK, vars
    <3> HIDE DEF a, c, h, r
    <3> QED BY <2>1, <3>a, <3>1, <3>3, <3>4, <3>6, <3>8, <3>9, <3>10, HandlerStep, Zenon DEF a, c, h, r
  <2>5. CASE UNCHANGED attempt /\ \E err \in {"user", "ownershipLost", "retryable"} :
               /\ ExecutorEnds(j, n, "partial", err)
               /\ err = "retryable" \/ err = Refusal(LiveLock(j, n))
    <3>1. "partial" \in Result /\ {"user", "ownershipLost", "retryable"} \subseteq ExecErr
      BY DEF Result, ExecErr
    <3> QED BY <2>1, <2>3, <2>5, <3>1, EndsStep, Zenon
  <2> QED BY <2>3, <2>4, <2>5 DEF AuthorizeDispatch

(* The provider answers, fails definitely or leaves its outcome unknown.   *)
<1>ProviderCallInv.
  ASSUME ExecInv, IInv', NEW j \in Jobs, NEW n \in Tokens, Phased(j, n, "running"),
         ProviderCall(j, n)
  PROVE  ExecInv'
  <2> USE <1>ProviderCallInv
  <2> DEFINE h == handler[j][n]
             a == attempt[j][n]
  <2>1. h.pc = "call" /\ h.pc \in InExecutor /\ UNCHANGED <<vars, final>>
        /\ outages' \in 0 .. MaxOutages
    BY OutageType DEF ProviderCall, At, InExecutor
  <2>2. /\ a \in AttemptRow /\ h \in HandlerState /\ PlaceOK(h, a)
        /\ a.unresolved /\ a.work # "none" /\ (a.work = "done" => a.success)
    BY <2>1, <1>InsideExecutor, Zenon DEF PlaceOK
  <2>3. ASSUME NEW g \in HandlerState, NEW w \in Work, SetHandler(j, n, g),
               SetAttempt(j, n, [a EXCEPT !.work = w]),
               \/ g.pc = "accept" /\ g.err = h.err
               \/ g.pc = "reject" /\ g.err = h.err /\ (w # "none" => a.success)
               \/ g.pc = "verify" /\ g.err = "unknown"
        PROVE  ExecInv'
    <3>1. SetAttempt(j, n, [a EXCEPT !.unresolved = a.unresolved, !.success = a.success, !.work = w])
      BY <2>2, <2>3, Zenon DEF AttemptRow
    <3>2. /\ g.pc \in {"verify"} \cup InExecutor /\ a.success \in BOOLEAN /\ a.unresolved \in BOOLEAN
      BY <2>2, <2>3 DEF InExecutor, AttemptRow
    <3>3. g.pc = "verify" => g.err # "none" /\ ~Invalid(g.err) /\ g.err \notin {"ownershipLost", "user"}
      BY <2>3 DEF Invalid
    <3> HIDE DEF a, h
    <3> QED BY <2>1, <2>2, <2>3, <3>1, <3>2, <3>3, <1>MarkStep, Zenon DEF a, h
  <2>4. "done" \in Work /\ (IF a.work = "sent" THEN "none" ELSE a.work) \in Work
        /\ ((IF a.work = "sent" THEN "none" ELSE a.work) # "none" => a.success)
    BY <2>2, Zenon DEF Work, AttemptRow
  <2>5. \/ SetAttempt(j, n, [a EXCEPT !.work = "done"])
           /\ (Move(j, n, "accept") \/ ExecutorEnds(j, n, "partial", "unknown"))
        \/ /\ SetAttempt(j, n, [a EXCEPT !.work = IF a.work = "sent" THEN "none" ELSE a.work])
           /\ Move(j, n, "reject")
    BY DEF ProviderCall
  <2> QED BY <2>2, <2>3, <2>4, <2>5, <1>ExecutorStates, Zenon DEF Move, ExecutorEnds

(* The outcome of a call is recorded under the live claim.                 *)
<1>RecordInv.
  ASSUME ExecInv, IInv', NEW j \in Jobs, NEW n \in Tokens, Phased(j, n, "running"),
         RecordSuccess(j, n) \/ RecordDefiniteFailure(j, n)
  PROVE  ExecInv'
  <2> USE <1>RecordInv
  <2> DEFINE h == handler[j][n]
             a == attempt[j][n]
  <2>1. h.pc \in {"accept", "reject"} /\ h.pc \in InExecutor /\ UNCHANGED <<vars, final>>
        /\ outages' \in 0 .. MaxOutages
    BY OutageType DEF RecordSuccess, RecordDefiniteFailure, At, InExecutor
  <2>2. /\ a \in AttemptRow /\ h \in HandlerState /\ PlaceOK(h, a) /\ a.unresolved
        /\ h.pc = "reject" /\ a.work # "none" => a.success
    BY <2>1, <1>InsideExecutor, Zenon DEF PlaceOK
  <2>3. LiveLock(j, n) = "ok" => Holds(job[j], n) /\ a.status = "RUNNING"
    BY LiveLockAnswers, Zenon DEF StillRunning
  <2>4. ASSUME NEW g \in HandlerState, NEW u \in BOOLEAN, NEW s \in BOOLEAN,
               LiveLock(j, n) = "ok", SetHandler(j, n, g),
               SetAttempt(j, n, [a EXCEPT !.unresolved = u, !.success = s]),
               (u /\ s) \/ (~u /\ ~s /\ a.work = "none"),
               \/ g.pc = "round" /\ g.err = h.err
               \/ g.pc = "verify" /\ g.err \in {"retryable", "permanent", "unknown"}
        PROVE  ExecInv'
    <3>1. SetAttempt(j, n, [a EXCEPT !.unresolved = u, !.success = s, !.work = a.work])
      BY <2>2, <2>4, Zenon DEF AttemptRow
    <3>2. g.pc \in {"verify"} \cup InExecutor /\ a.work \in Work
      BY <2>2, <2>4 DEF InExecutor, AttemptRow
    <3>3. g.pc = "verify" => g.err # "none" /\ ~Invalid(g.err) /\ g.err \notin {"ownershipLost", "user"}
      BY <2>4 DEF Invalid
    <3> HIDE DEF a, h
    <3> QED BY <2>1, <2>2, <2>3, <2>4, <3>1, <3>2, <3>3, <1>MarkStep, Zenon DEF a, h
  <2>5. CASE UNCHANGED attempt /\ ExecutorEnds(j, n, "partial", "unknown")
    <3>1. "partial" \in Result /\ "unknown" \in ExecErr
      BY DEF Result, ExecErr
    <3> QED BY <2>1, <2>5, <3>1, EndsStep, Zenon
  <2>6. CASE /\ LiveLock(j, n) = "ok" /\ SetAttempt(j, n, [a EXCEPT !.success = TRUE])
             /\ Move(j, n, "round") \/ ExecutorEnds(j, n, "partial", "unknown")
    <3>1. SetAttempt(j, n, [a EXCEPT !.unresolved = TRUE, !.success = TRUE])
      BY <2>2, <2>6, Zenon DEF AttemptRow
    <3> QED BY <2>2, <2>4, <2>6, <3>1, <1>ExecutorStates, Zenon DEF Move, ExecutorEnds
  <2>7. CASE /\ LiveLock(j, n) = "ok" /\ SetAttempt(j, n, [a EXCEPT !.unresolved = FALSE])
             /\ ~a.success /\ h.pc = "reject"
             /\ \/ Move(j, n, "round")
                \/ \E err \in {"retryable", "permanent", "unknown"} : ExecutorEnds(j, n, "partial", err)
    <3>1. SetAttempt(j, n, [a EXCEPT !.unresolved = FALSE, !.success = FALSE]) /\ a.work = "none"
      BY <2>2, <2>7, Zenon DEF AttemptRow
    <3> QED BY <2>2, <2>4, <2>7, <3>1, <1>ExecutorStates, Zenon DEF Move, ExecutorEnds
  <2> QED BY <2>5, <2>6, <2>7 DEF RecordSuccess, RecordDefiniteFailure, Resolvable, At

(* The agent loop ends.                                                    *)
<1>ExecutorReturnsInv.
  ASSUME ExecInv, IInv', NEW j \in Jobs, NEW n \in Tokens, Phased(j, n, "running"),
         ExecutorReturns(j, n)
  PROVE  ExecInv'
  <2> USE <1>ExecutorReturnsInv
  <2>1. handler[j][n].pc \in InExecutor /\ UNCHANGED <<vars, attempt, final>>
        /\ outages' \in 0 .. MaxOutages
    BY OutageType, Zenon DEF ExecutorReturns, At, InExecutor
  <2>2. PICK result \in Result, err \in {"none", "invalid", "retryable", "permanent"} :
          ExecutorEnds(j, n, result, err) /\ (result = "nil" => err # "invalid")
    <3>1. {"valid", "invalid", "nil", "partial"} \subseteq Result
      BY DEF Result, FinalKind
    <3> QED BY <3>1 DEF ExecutorReturns
  <2>3. err \in ExecErr /\ (result = "nil" => ~Invalid(err)) /\ err \notin {"ownershipLost", "user"}
    BY <2>2 DEF ExecErr, Invalid
  <2> QED BY <2>1, <2>2, <2>3, EndsStep, Zenon

<1> QED BY <1>MarkDispatchInv, <1>AuthorizeDispatchInv, <1>ProviderCallInv, <1>RecordInv, <1>ExecutorReturnsInv, Zenon

(* The steps from the executor's report to the return keep the invariant.  *)
LEMMA ReportInv ==
  ExecInv /\ IInv' => \A j \in Jobs, n \in Tokens :
    /\ Phased(j, n, "running") /\ RowKeeps(job[j], job'[j], claims[j], claims'[j])
    /\ \/ VerifyDispatch(j, n) \/ SaveCheckpoint(j, n) \/ Decide(j, n)
       \/ FinalizeSuccess(j, n) \/ FinalizeFailure(j, n)
       \/ FinalizeRetryable(j, n) \/ FinalizeCancellation(j, n)
    => ExecInv'

(* The attempt is read again after an error: a marker makes the outcome    *)
(* unknown.                                                                *)
<1>VerifyDispatchInv.
  ASSUME ExecInv, IInv', NEW j \in Jobs, NEW n \in Tokens, Phased(j, n, "running"),
         VerifyDispatch(j, n)
  PROVE  ExecInv'
  <2> USE <1>VerifyDispatchInv
  <2> DEFINE h == handler[j][n]
             a == attempt[j][n]
  <2>1. h.pc = "verify" /\ UNCHANGED <<vars, attempt, final>> /\ outages' \in 0 .. MaxOutages
    BY OutageType DEF VerifyDispatch, At
  <2>2. /\ a \in AttemptRow /\ h \in HandlerState /\ HandlerOK(job[j], n, claim[j][n], h, a)
        /\ claim[j][n].phase = "running"
    BY ExecUnfold, Zenon DEF Phased
  <2>3. /\ PlaceOK(h, a) /\ a.ckpt = "nil" /\ ~a.unsaved
        /\ h.err # "none" /\ (h.result = "nil" => ~Invalid(h.err))
        /\ h.err = "ownershipLost" => ~(Holds(job[j], n) /\ LiveLease(j))
        /\ h.err = "user" /\ Holds(job[j], n) => job[j].cancel
    BY <2>1, <2>2, Zenon DEF HandlerOK, PlaceOK, Unsaved, LiveLease
  <2>4. PICK err \in ExecErr :
          /\ SetHandler(j, n, [h EXCEPT !.pc = IF h.result = "nil" THEN "decide" ELSE "save",
                                        !.err = err])
          /\ \/ err = (IF a.unresolved /\ ~Invalid(h.err) THEN "unknown" ELSE h.err)
             \/ err = (IF Invalid(h.err) THEN "invalidUnknown" ELSE "unknown")
    <3>1. {"unknown", "invalidUnknown", h.err} \subseteq ExecErr
      BY <2>2, Zenon DEF ExecErr, HandlerState
    <3> QED BY <3>1, Zenon DEF VerifyDispatch, Verified
  <2> DEFINE g == [h EXCEPT !.pc = IF h.result = "nil" THEN "decide" ELSE "save", !.err = err]
  <2>5. g \in HandlerState /\ g.pc = (IF h.result = "nil" THEN "decide" ELSE "save")
        /\ g.err = err /\ SetHandler(j, n, g)
    BY <2>2, <2>4, Zenon DEF HandlerState, HandlerAt
  <2> HIDE DEF g
  <2>6. /\ err # "none" /\ (err \in {"ownershipLost", "user"} => err = h.err)
        /\ a.unresolved => err \in {"none", "unknown", "invalid", "invalidUnknown"}
        /\ a.unresolved /\ h.result = "nil" => err = "unknown"
    BY <2>3, <2>4 DEF Invalid
  <2>7. PlaceOK(g, a)
    BY <2>3, <2>5, <2>6, Zenon DEF PlaceOK, Unsaved, InExecutor, Dangling
  <2>8. g.pc \notin {"load", "begin", "cancel"} /\ g.pc \notin InExecutor
    BY <2>5, Zenon DEF InExecutor
  <2> QED BY <2>1, <2>3, <2>5, <2>6, <2>7, <2>8, MoveStep, Zenon

(* A handler past the executor, and the row of its attempt.                *)
<1>PastExecutor.
  ASSUME ExecInv, NEW j \in Jobs, NEW n \in Tokens, Phased(j, n, "running"),
         handler[j][n].pc \in {"save", "decide", "finish", "cancel"}
  PROVE  LET h == handler[j][n]
             a == attempt[j][n]
         IN /\ a \in AttemptRow /\ h \in HandlerState
            /\ a.status # "none" /\ PlaceOK(h, a)
            /\ a.work # "none" => a.unresolved \/ a.ckpt \in FinalKind
            /\ a.success => a.unresolved
            /\ a.unresolved => a.ckpt \notin FinalKind
            /\ h.err = "ownershipLost" => ~(Holds(job[j], n) /\ LiveLease(j))
            /\ (h.err = "user" \/ h.pc = "cancel") /\ Holds(job[j], n) => job[j].cancel
            /\ claim[j][n].cause = "user" /\ Holds(job[j], n) => job[j].cancel
  <2> USE <1>PastExecutor
  <2> DEFINE c == claim[j][n]
             h == handler[j][n]
             a == attempt[j][n]
  <2>1. /\ a \in AttemptRow /\ h \in HandlerState /\ c.phase = "running"
        /\ AttemptOK(job[j], business[j], claims[j], n, a) /\ HandlerOK(job[j], n, c, h, a)
        /\ ClaimOK(job[j], claims[j], n, c)
    BY ExecUnfold, Zenon DEF Phased
  <2>2. /\ a.status # "none" /\ PlaceOK(h, a)
        /\ h.err = "ownershipLost" => ~(Holds(job[j], n) /\ LiveLease(j))
        /\ (h.err = "user" \/ h.pc = "cancel") /\ Holds(job[j], n) => job[j].cancel
    BY <2>1, Zenon DEF HandlerOK, LiveLease
  <2>3. /\ a.work # "none" => a.unresolved \/ a.ckpt \in FinalKind
        /\ a.success => a.unresolved
        /\ a.unresolved => a.ckpt \notin FinalKind
    BY <2>1, Zenon DEF AttemptOK
  <2>4. c.cause = "user" /\ Holds(job[j], n) => job[j].cancel
    BY <2>1, Zenon DEF ClaimOK
  <2> QED BY <2>1, <2>2, <2>3, <2>4, Zenon

(* The checkpoint is saved under the live claim, or is lost.               *)
<1>SaveCheckpointInv.
  ASSUME ExecInv, IInv', NEW j \in Jobs, NEW n \in Tokens, Phased(j, n, "running"),
         SaveCheckpoint(j, n)
  PROVE  ExecInv'
  <2> USE <1>SaveCheckpointInv
  <2> DEFINE h == handler[j][n]
             a == attempt[j][n]
             fail(err) == [NoHandler EXCEPT !.pc = "finish",
                                            !.err = IF Unknown(h.err) THEN "unknown" ELSE err]
  <2>1. h.pc = "save" /\ UNCHANGED <<vars, final>> /\ outages' \in 0 .. MaxOutages
    BY OutageType DEF SaveCheckpoint, At
  <2>2. /\ a \in AttemptRow /\ h \in HandlerState /\ a.status # "none"
        /\ a.work # "none" => a.unresolved \/ a.ckpt \in FinalKind
        /\ a.success => a.unresolved
        /\ h.err = "ownershipLost" => ~(Holds(job[j], n) /\ LiveLease(j))
        /\ h.err = "user" /\ Holds(job[j], n) => job[j].cancel
        /\ PlaceOK(h, a)
    BY <2>1, <1>PastExecutor, Zenon
  <2>3. /\ a.ckpt = "nil" /\ ~a.unsaved
        /\ a.unresolved => h.err \in {"none", "unknown", "invalid", "invalidUnknown"}
    BY <2>1, <2>2, Zenon DEF PlaceOK, Unsaved
  <2>4. ASSUME NEW err \in {"saveFailed", "tooLarge"}
        PROVE  /\ fail(err) \in HandlerState /\ fail(err).pc = "finish"
               /\ fail(err).err \in {"unknown", "saveFailed", "tooLarge"}
               /\ h.err = "unknown" => fail(err).err = "unknown"
    BY <2>4, NullExecTypes, Zenon DEF HandlerState, HandlerAt, ExecErr, Unknown
  <2>5. CASE LiveLock(j, n) = "ok" /\ SetAttempt(j, n, Checkpointed(a, h.err))
             /\ \/ SetHandler(j, n, [h EXCEPT !.pc = "decide", !.result = "nil"])
                \/ SetHandler(j, n, fail("saveFailed"))
    <3> DEFINE e == Checkpointed(a, h.err)
               kind == CheckpointKind(h.err)
    <3>1. /\ Holds(job[j], n) /\ a.status = "RUNNING"
      BY <2>5, LiveLockAnswers DEF StillRunning
    <3>2. /\ kind \in Result
          /\ kind \in FinalKind <=> h.err \in {"none", "invalid", "invalidUnknown"}
          /\ h.err = "none" => kind = "valid"
      BY DEF CheckpointKind, Invalid, Result, FinalKind
    <3> HIDE DEF kind
    <3>3. e = [a EXCEPT !.ckpt = kind, !.unknownCode = h.err = "unknown",
                        !.unresolved = a.unresolved /\ kind \notin FinalKind,
                        !.success = a.success /\ kind \notin FinalKind]
      BY DEF Checkpointed, kind
    <3> HIDE DEF e
    <3>4. /\ e \in AttemptRow /\ e.status = a.status /\ e.generation = a.generation /\ e.no = a.no
          /\ e.unresolved = (a.unresolved /\ kind \notin FinalKind)
          /\ e.success = (a.success /\ kind \notin FinalKind)
          /\ e.work = a.work /\ e.ckpt = kind /\ e.unsaved = a.unsaved
      BY <2>2, <3>2, <3>3, Zenon DEF AttemptRow
    <3>5. PICK g \in HandlerState :
            /\ SetHandler(j, n, g)
            /\ \/ g.pc = "decide" /\ g.err = h.err
               \/ /\ g.pc = "finish" /\ g.err \in {"unknown", "saveFailed", "tooLarge"}
                  /\ h.err = "unknown" => g.err = "unknown"
      <4>1. [h EXCEPT !.pc = "decide", !.result = "nil"] \in HandlerState
            /\ [h EXCEPT !.pc = "decide", !.result = "nil"].pc = "decide"
            /\ [h EXCEPT !.pc = "decide", !.result = "nil"].err = h.err
        BY <2>2, Zenon DEF HandlerState, HandlerAt, Result
      <4> HIDE DEF fail, h
      <4> QED BY <2>4, <2>5, <4>1, Zenon
    <3>6. e.unresolved => h.err = "unknown"
      BY <2>3, <3>2, <3>4, Zenon
    <3>7. PlaceOK(g, e)
      BY <3>2, <3>4, <3>5, <3>6, Zenon DEF PlaceOK, Unsaved, InExecutor, Dangling
    <3>8. /\ e.work # "none" => e.unresolved \/ e.ckpt \in FinalKind
          /\ e.success => e.unresolved
          /\ e.unresolved => e.ckpt \notin FinalKind
      BY <2>2, <2>3, <3>4, Zenon DEF FinalKind
    <3>9. g.pc \notin {"load", "begin", "cancel"} /\ g.pc \notin InExecutor
          /\ (g.err \in {"ownershipLost", "user"} => g.err = h.err) /\ SetAttempt(j, n, e)
      BY <2>5, <3>5 DEF InExecutor, e
    <3> HIDE DEF a, h
    <3> QED BY <2>1, <2>2, <2>3, <3>1, <3>4, <3>5, <3>7, <3>8, <3>9, PlaceStep, Zenon DEF a, h
  <2>6. ASSUME NEW err \in {"saveFailed", "tooLarge"}, SetHandler(j, n, fail(err)),
               SetAttempt(j, n, [a EXCEPT !.unsaved = TRUE])
        PROVE  ExecInv'
    <3> DEFINE e == [a EXCEPT !.unsaved = TRUE]
               g == fail(err)
    <3>1. /\ e \in AttemptRow /\ e.status = a.status /\ e.generation = a.generation /\ e.no = a.no
          /\ e.unresolved = a.unresolved /\ e.success = a.success
          /\ e.work = a.work /\ e.ckpt = a.ckpt /\ e.unsaved
      BY <2>2, Zenon DEF AttemptRow
    <3>2. /\ g \in HandlerState /\ g.pc = "finish" /\ g.err \in {"unknown", "saveFailed", "tooLarge"}
      BY <2>4, Zenon
    <3>3. SetHandler(j, n, g) /\ SetAttempt(j, n, e)
      BY <2>6
    <3> HIDE DEF e, g, fail
    <3>4. PlaceOK(g, e) /\ ~Dangling(e)
      BY <3>1, <3>2 DEF PlaceOK, Unsaved, InExecutor, Dangling
    <3>5. g.pc \notin InExecutor /\ e.ckpt \notin FinalKind
      BY <2>3, <3>1, <3>2 DEF InExecutor, FinalKind
    <3> HIDE DEF a, h
    <3> QED BY <2>1, <2>2, <2>3, <3>1, <3>2, <3>3, <3>4, <3>5, PlaceStep, Zenon DEF a, h
  <2> QED BY <2>5, <2>6 DEF SaveCheckpoint

(* The looks at the cause and the error before a finalizing transaction.   *)
<1>DecideInv.
  ASSUME ExecInv, IInv', NEW j \in Jobs, NEW n \in Tokens, Phased(j, n, "running"),
         Decide(j, n)
  PROVE  ExecInv'
  <2> USE <1>DecideInv
  <2> DEFINE h == handler[j][n]
             a == attempt[j][n]
             cause == claim[j][n].cause
  <2>1. h.pc = "decide" /\ UNCHANGED <<attempt, final>> /\ outages' \in 0 .. MaxOutages
    BY OutageType DEF Decide, At
  <2>2. /\ a \in AttemptRow /\ h \in HandlerState /\ PlaceOK(h, a)
        /\ h.err = "ownershipLost" => ~(Holds(job[j], n) /\ LiveLease(j))
        /\ h.err = "user" /\ Holds(job[j], n) => job[j].cancel
        /\ cause = "user" /\ Holds(job[j], n) => job[j].cancel
    BY <2>1, <1>PastExecutor, Zenon
  <2>3. \/ cause \in {"ownershipLost", "shutdown"} /\ Returns(j, n, cause)
        \/ h.err = "ownershipLost" /\ Returns(j, n, h.err)
        \/ (cause = "user" \/ h.err = "user") /\ Move(j, n, "cancel") /\ UNCHANGED vars
        \/ Move(j, n, "finish") /\ UNCHANGED vars
    BY Zenon DEF Decide
  <2>4. {"ownershipLost", "shutdown"} \subseteq Return /\ (h.err = "ownershipLost" => ~Dangling(a))
    BY <2>1, <2>2, Zenon DEF Return, PlaceOK
  <2>5. CASE cause \in {"ownershipLost", "shutdown"} /\ Returns(j, n, cause)
    BY <2>1, <2>4, <2>5, ReturnStep, Zenon
  <2>6. CASE h.err = "ownershipLost" /\ Returns(j, n, h.err)
    BY <2>1, <2>4, <2>6, ReturnStep
  <2>7. ASSUME NEW pc \in {"cancel", "finish"}, Move(j, n, pc), UNCHANGED vars,
               pc = "cancel" => cause = "user" \/ h.err = "user"
        PROVE  ExecInv'
    <3> DEFINE g == [h EXCEPT !.pc = pc]
    <3>1. g \in HandlerState /\ g.pc = pc /\ g.err = h.err /\ g.result = h.result /\ SetHandler(j, n, g)
      BY <2>2, <2>7 DEF HandlerState, HandlerAt, Move
    <3> HIDE DEF g
    <3>2. PlaceOK(g, a)
      BY <2>1, <2>2, <3>1, Zenon DEF PlaceOK, Unsaved, InExecutor
    <3>3. g.pc \notin {"load", "begin"} /\ g.pc \notin InExecutor
      BY <3>1 DEF InExecutor
    <3> QED BY <2>1, <2>2, <2>7, <3>1, <3>2, <3>3, MoveStep, Zenon
  <2> QED BY <2>3, <2>5, <2>6, <2>7

(* A finalizing transaction that is refused by its lock or rolled back.    *)
(* The policy it leaves to the job store never retries a dangling marker.  *)
<1>RefusedStep.
  ASSUME ExecInv, IInv', NEW j \in Jobs, NEW n \in Tokens, Phased(j, n, "running"),
         handler[j][n].pc \in {"finish", "cancel"},
         NEW cancellation \in BOOLEAN, NEW atomic \in Return,
         Refused(j, n, Lock(j, n, cancellation), atomic),
         Holds(job[j], n) /\ ~job[j].cancel /\ Dangling(attempt[j][n]) => atomic = "atomicUnknown"
  PROVE  ExecInv'
  <2> USE <1>RefusedStep
  <2> DEFINE h == handler[j][n]
             a == attempt[j][n]
             answer == Lock(j, n, cancellation)
  <2>1. /\ h \in HandlerState
        /\ h.err = "ownershipLost" => ~(Holds(job[j], n) /\ LiveLease(j))
        /\ h.err = "user" /\ Holds(job[j], n) => job[j].cancel
    BY <1>PastExecutor, Zenon
  <2>2. /\ answer = "finalized" => job[j].status \in Terminal
        /\ answer = "ownershipLost" => ~Owned(j, n)
        /\ answer = "user" => job[j].cancel
    BY LockAnswers
  <2>3. /\ Owned(j, n) <=> Holds(job[j], n)
        /\ job[j].status \in Terminal => ~Holds(job[j], n)
    BY OwnedIsHeld DEF Holds, Terminal
  <2>4. {"finalized", "ownershipLost"} \subseteq Return
    BY DEF Return
  <2> HIDE DEF answer
  <2>5. /\ UNCHANGED <<attempt, final>> /\ outages' \in 0 .. MaxOutages
        /\ \/ answer = "user" /\ Move(j, n, "cancel") /\ UNCHANGED vars
           \/ answer \in {"finalized", "ownershipLost"} /\ Returns(j, n, answer)
           \/ Returns(j, n, atomic)
    BY OutageType, Zenon DEF Refused, answer
  <2>6. CASE answer = "user" /\ Move(j, n, "cancel") /\ UNCHANGED vars
    <3> DEFINE g == [h EXCEPT !.pc = "cancel"]
    <3>1. g \in HandlerState /\ g.pc = "cancel" /\ g.err = h.err /\ SetHandler(j, n, g)
      BY <2>1, <2>6 DEF HandlerState, HandlerAt, Move
    <3> HIDE DEF g
    <3>2. PlaceOK(g, a) /\ g.pc \notin InExecutor /\ g.pc \notin {"load", "begin"}
      BY <3>1, Zenon DEF PlaceOK, Unsaved, InExecutor
    <3> QED BY <2>1, <2>2, <2>5, <2>6, <3>1, <3>2, MoveStep, Zenon
  <2>7. CASE answer \in {"finalized", "ownershipLost"} /\ Returns(j, n, answer)
    BY <2>2, <2>3, <2>4, <2>5, <2>7, ReturnStep, Zenon
  <2>8. CASE Returns(j, n, atomic)
    BY <2>5, <2>8, ReturnStep, Zenon
  <2> QED BY <2>5, <2>6, <2>7, <2>8, Zenon

(* A report that turns out too large becomes a permanent failure.          *)
<1>TooLargeStep.
  ASSUME ExecInv, IInv', NEW j \in Jobs, NEW n \in Tokens, Phased(j, n, "running"),
         handler[j][n].pc = "finish", handler[j][n].err = "none",
         SetHandler(j, n, [handler[j][n] EXCEPT !.pc = "decide", !.err = "tooLarge"]),
         UNCHANGED <<vars, attempt, final, outages>>
  PROVE  ExecInv'
  <2> USE <1>TooLargeStep
  <2> DEFINE h == handler[j][n]
             a == attempt[j][n]
             g == [h EXCEPT !.pc = "decide", !.err = "tooLarge"]
  <2>1. h \in HandlerState /\ PlaceOK(h, a)
    BY <1>PastExecutor
  <2>2. g \in HandlerState /\ g.pc = "decide" /\ g.err = "tooLarge" /\ SetHandler(j, n, g)
    BY <2>1, Zenon DEF HandlerState, HandlerAt, ExecErr
  <2> HIDE DEF g
  <2>3. ~a.unresolved
    BY <2>1 DEF PlaceOK
  <2>4. PlaceOK(g, a) /\ g.pc \notin InExecutor
    BY <2>2, <2>3 DEF PlaceOK, Unsaved, InExecutor, Dangling
  <2>5. outages' \in 0 .. MaxOutages
    BY OutageType
  <2> QED BY <2>2, <2>4, <2>5, MoveStep

(* The attempt of a retryable failure is closed and the job store is left  *)
(* to schedule the retry: such an attempt has no dangling marker.          *)
<1>FinalizeRetryableInv.
  ASSUME ExecInv, IInv', NEW j \in Jobs, NEW n \in Tokens, Phased(j, n, "running"),
         FinalizeRetryable(j, n)
  PROVE  ExecInv'
  <2> USE <1>FinalizeRetryableInv
  <2> DEFINE c == claim[j][n]
             h == handler[j][n]
             a == attempt[j][n]
  <2>1. h.pc = "finish" /\ h.err = "retryable" /\ "retryable" \in Return
    BY DEF FinalizeRetryable, At, Return
  <2>2. a \in AttemptRow /\ PlaceOK(h, a) /\ c \in ClaimState
        /\ AttemptOK(job[j], business[j], claims[j], n, a)
    BY <2>1, <1>PastExecutor, ExecUnfold, Zenon
  <2>3. ~Dangling(a)
    BY <2>1, <2>2, Zenon DEF PlaceOK
  <2>4. CASE Refused(j, n, Lock(j, n, FALSE), "retryable")
    BY <2>1, <2>3, <2>4, <1>RefusedStep, Zenon
  <2>5. CASE /\ Lock(j, n, FALSE) = "ok" /\ Returns(j, n, "retryable") /\ UNCHANGED <<final, outages>>
             /\ SetAttempt(j, n, [a EXCEPT !.status = "FAILED_RETRYABLE"])
    <3> DEFINE e == [a EXCEPT !.status = "FAILED_RETRYABLE"]
               d == [c EXCEPT !.phase = "returned", !.ret = "retryable"]
    <3>1. a.status = "RUNNING"
      BY <2>5, LockAnswers, Zenon DEF StillRunning
    <3>2. /\ e \in AttemptRow /\ e.status = "FAILED_RETRYABLE" /\ e.generation = a.generation
          /\ e.no = a.no /\ e.unresolved = a.unresolved /\ e.success = a.success /\ e.work = a.work
          /\ e.ckpt = a.ckpt /\ e.unsaved = a.unsaved
      BY <2>2 DEF AttemptRow, AttemptStatus
    <3>3. d \in ClaimState /\ d.phase = "returned"
      BY <2>1, <2>2, Zenon DEF ClaimState, Phase
    <3>4. /\ SetClaim(j, n, d) /\ SetHandler(j, n, NoHandler) /\ SetAttempt(j, n, e)
          /\ UNCHANGED <<job, business, claims, final>> /\ NoHandler \in HandlerState
          /\ outages' \in 0 .. MaxOutages
      BY <2>5, NullExecTypes, OutageType DEF Returns, HandlerReturns
    <3> HIDE DEF e, d
    <3>5. ~Dangling(e)
      BY <2>3, <3>2, Zenon DEF Dangling
    <3>6. AttemptOK(job[j], business[j], claims[j], n, e)
      BY <2>2, <3>1, <3>2, <3>5, Zenon DEF AttemptOK
    <3>7. HandlerOK(job[j], n, d, NoHandler, e)
      BY <3>3, <3>5, Zenon DEF HandlerOK
    <3> HIDE DEF a
    <3> QED BY <2>2, <3>1, <3>2, <3>3, <3>4, <3>6, <3>7, QuietStep, Zenon DEF a
  <2> QED BY <2>4, <2>5, Zenon DEF FinalizeRetryable

(* The attempt, the run and the job end together.                          *)
<1>CloseStep.
  ASSUME ExecInv, IInv', NEW j \in Jobs, NEW n \in Tokens, RowKeeps(job[j], job'[j], claims[j], claims'[j]),
         Phased(j, n, "running"), NEW cancellation \in BOOLEAN, Lock(j, n, cancellation) = "ok",
         NEW status \in {"SUCCEEDED", "FAILED_TERMINAL", "CANCELLED"}, NEW outcome \in Terminal,
         status = "SUCCEEDED" <=> outcome = "SUCCEEDED",
         status = "SUCCEEDED" => attempt[j][n].ckpt = "valid" /\ ~attempt[j][n].unresolved,
         NEW reason, NEW retryable, NEW acknowledged \in BOOLEAN,
         Closes(j, n, status, outcome, reason, retryable, acknowledged)
  PROVE  ExecInv'
  <2> USE <1>CloseStep
  <2> DEFINE r == job[j]
             s == EndedRow(r, outcome, reason, retryable)
             a == attempt[j][n]
             e == [a EXCEPT !.status = status]
             c == claim[j][n]
  <2>1. /\ r \in JobRow /\ a \in AttemptRow /\ TypeOK /\ ExecTypeOK /\ c.phase = "running"
        /\ c \in ClaimState
    BY ExecUnfold, Zenon DEF Phased
  <2>2. a.status = "RUNNING" /\ a.generation = r.generation
    BY LockAnswers, Zenon DEF StillRunning
  <2>3. s.status = outcome /\ s.generation = r.generation
    BY <2>1 DEF EndedRow, Succeeded, Cancelled, Failed, Terminal, JobRow
  <2>4. e \in AttemptRow /\ e.status = status /\ SameWork(a, e)
    BY <2>1, <2>2, StatusEdited DEF AttemptStatus
  <2>5. \E d : SetClaim(j, n, d) /\ d.phase = "returned"
    <3>1. \E ret : HandlerReturns(j, n, ret)
      BY DEF Closes, HandlerCommits
    <3>2. PICK ret : HandlerReturns(j, n, ret)
      BY <3>1, Zenon
    <3>3. [c EXCEPT !.phase = "returned", !.ret = ret].phase = "returned"
      BY <2>1 DEF ClaimState
    <3> QED BY <3>2, <3>3, Zenon DEF HandlerReturns
  <2>6. PICK d : SetClaim(j, n, d) /\ d.phase = "returned"
    BY <2>5, Zenon
  <2>7. /\ SetRow(j, s) /\ SetBusiness(j, outcome) /\ SetAttempt(j, n, e)
        /\ final' = [final EXCEPT ![j] = n] /\ SetHandler(j, n, NoHandler)
        /\ UNCHANGED <<claims, outages>>
    BY DEF Closes, HandlerCommits
  <2> HIDE DEF s, e
  <2>8. /\ job'[j] = s /\ business'[j] = outcome /\ final'[j] = n
        /\ attempt'[j][n] = e /\ handler'[j][n] = NoHandler /\ claim'[j][n] = d
        /\ \A m \in Tokens \ {n} : /\ attempt'[j][m] = attempt[j][m]
                                   /\ handler'[j][m] = handler[j][m] /\ claim'[j][m] = claim[j][m]
    BY <2>1, <2>6, <2>7 DEF TypeOK, ExecTypeOK, SetRow, SetBusiness, SetAttempt, SetHandler, SetClaim
  <2>9. \A k \in Jobs \ {j} :
          /\ job'[k] = job[k] /\ business'[k] = business[k] /\ claims'[k] = claims[k]
          /\ claim'[k] = claim[k] /\ final'[k] = final[k] /\ attempt'[k] = attempt[k]
          /\ handler'[k] = handler[k]
    BY <2>1, <2>6, <2>7 DEF TypeOK, ExecTypeOK, SetRow, SetBusiness, SetAttempt, SetHandler, SetClaim
  <2>10. ExecTypeOK'
    <3>1. n \in 0 .. MaxClaims
      BY BoundsAssumption DEF Tokens
    <3> QED BY <2>1, <2>4, <2>7, <3>1, NullExecTypes, Zenon DEF ExecTypeOK, SetAttempt, SetHandler
  <2>11. business[j] = "RUNNING"
    BY LockAnswers, Zenon
  <2>12. FinalOK(job'[j], business'[j], final'[j], attempt'[j])
    <3>1. e.status = status /\ e.generation = a.generation /\ e.ckpt = a.ckpt
          /\ e.unresolved = a.unresolved
      BY <2>4, Zenon DEF SameWork
    <3>2. n # 0
      BY BoundsAssumption DEF Tokens
    <3>3. job'[j].generation = r.generation /\ business'[j] = outcome
      BY <2>3, <2>8, Zenon
    <3>4. attempt'[j][final'[j]] = e /\ final'[j] = n
      BY <2>8, Zenon
    <3>5. e.status \notin {"none", "RUNNING"} /\ (e.status = "SUCCEEDED" <=> outcome = "SUCCEEDED")
      BY <3>1, Zenon
    <3> QED BY <2>2, <3>1, <3>2, <3>3, <3>4, <3>5, Zenon DEF FinalOK
  <2>13. ~Holds(job'[j], n) /\ job'[j].status \in Terminal
    BY <2>3, <2>8, Zenon DEF Holds, Terminal
  <2>14. ASSUME NEW m \in Tokens
         PROVE  /\ SameWork(attempt[j][m], attempt'[j][m])
                /\ GoesOn(job'[j], m, claim[j][m], claim'[j][m], attempt[j][m])
                /\ handler'[j][m] = IF claim'[j][m].phase = "running" THEN handler[j][m] ELSE NoHandler
                /\ attempt'[j][m].status # attempt[j][m].status =>
                     /\ attempt'[j][m].status = status
                     /\ status = "SUCCEEDED" => business'[j] = "SUCCEEDED"
    <3>1. CASE m = n
      BY <2>1, <2>4, <2>6, <2>8, <2>13, <3>1, Zenon DEF GoesOn, Proceeds
    <3>2. CASE m # n
      <4>1. SameWork(attempt[j][m], attempt[j][m])
        BY Zenon DEF SameWork
      <4>2. claim[j][m].phase # "running" => handler[j][m] = NoHandler
        BY IdleHandler, Zenon
      <4> QED BY <2>8, <3>2, <4>1, <4>2, Zenon DEF GoesOn, Proceeds
    <3> QED BY <3>1, <3>2, Zenon
  <2>15. RunInv(j)'
    BY <2>10, <2>11, <2>12, <2>13, <2>14, RunStep, Zenon
  <2> QED BY <2>9, <2>10, <2>15, OtherRuns, Zenon

(* FinalizeSuccess.                                                        *)
<1>FinalizeSuccessInv.
  ASSUME ExecInv, IInv', NEW j \in Jobs, NEW n \in Tokens, RowKeeps(job[j], job'[j], claims[j], claims'[j]),
         Phased(j, n, "running"), FinalizeSuccess(j, n)
  PROVE  ExecInv'
  <2> USE <1>FinalizeSuccessInv
  <2>1. handler[j][n].pc = "finish" /\ handler[j][n].err = "none" /\ "atomicSucceeded" \in Return
    BY DEF FinalizeSuccess, At, Return, Atomic
  <2>2. attempt[j][n].ckpt = "valid" /\ ~attempt[j][n].unresolved
    BY <2>1, <1>PastExecutor, Zenon DEF PlaceOK
  <2>3. ASSUME NEW acknowledged \in BOOLEAN, Lock(j, n, FALSE) = "ok",
               Closes(j, n, "SUCCEEDED", "SUCCEEDED", "PERMANENT", FALSE, acknowledged)
        PROVE  ExecInv'
    BY <2>2, <2>3, <1>CloseStep, Zenon DEF Terminal
  <2>4. CASE /\ SetHandler(j, n, [handler[j][n] EXCEPT !.pc = "decide", !.err = "tooLarge"])
             /\ UNCHANGED <<vars, attempt, final, outages>>
    BY <2>1, <2>4, <1>TooLargeStep, Zenon
  <2>5. CASE Refused(j, n, Lock(j, n, FALSE), "atomicSucceeded")
    BY <2>1, <2>2, <2>5, <1>RefusedStep, Zenon DEF Dangling
  <2> QED BY <2>3, <2>4, <2>5, Zenon DEF FinalizeSuccess

(* FinalizeInvalidStructuredReport and FinalizeDiagnosisFailure.           *)
<1>FinalizeFailureInv.
  ASSUME ExecInv, IInv', NEW j \in Jobs, NEW n \in Tokens, RowKeeps(job[j], job'[j], claims[j], claims'[j]),
         Phased(j, n, "running"), FinalizeFailure(j, n)
  PROVE  ExecInv'
  <2> USE <1>FinalizeFailureInv
  <2> DEFINE err == handler[j][n].err
             atomic == CASE err = "unknown" -> "atomicUnknown"
                         [] err = "retryable" -> "atomicExhausted"
                         [] OTHER -> "atomicPermanent"
  <2>1. handler[j][n].pc = "finish" /\ atomic \in Return
    BY DEF FinalizeFailure, At, Return, Atomic, AtomicFailure
  <2>2. Dangling(attempt[j][n]) => atomic = "atomicUnknown"
    BY <2>1, <1>PastExecutor DEF PlaceOK
  <2>3. ASSUME NEW retryable, NEW reason, NEW acknowledged \in BOOLEAN, Lock(j, n, FALSE) = "ok",
               Closes(j, n, "FAILED_TERMINAL", "FAILED", reason, retryable, acknowledged)
        PROVE  ExecInv'
    BY <2>3, <1>CloseStep, Zenon DEF Terminal
  <2>4. CASE Refused(j, n, Lock(j, n, FALSE), atomic)
    <3> HIDE DEF atomic
    <3> QED BY <2>1, <2>2, <2>4, <1>RefusedStep, Zenon
  <2> QED BY <2>3, <2>4, Zenon DEF FinalizeFailure

(* FinalizeCancellation.                                                   *)
<1>FinalizeCancellationInv.
  ASSUME ExecInv, IInv', NEW j \in Jobs, NEW n \in Tokens, RowKeeps(job[j], job'[j], claims[j], claims'[j]),
         Phased(j, n, "running"), FinalizeCancellation(j, n)
  PROVE  ExecInv'
  <2> USE <1>FinalizeCancellationInv
  <2>1. handler[j][n].pc = "cancel" /\ "atomicCancelled" \in Return
    BY DEF FinalizeCancellation, At, Return, Atomic
  <2>2. Holds(job[j], n) => job[j].cancel
    BY <2>1, <1>PastExecutor, Zenon
  <2>3. ASSUME NEW acknowledged \in BOOLEAN, Lock(j, n, TRUE) = "ok",
               Closes(j, n, "CANCELLED", "CANCELLED", "PERMANENT", FALSE, acknowledged)
        PROVE  ExecInv'
    BY <2>3, <1>CloseStep, Zenon DEF Terminal
  <2>4. CASE Refused(j, n, Lock(j, n, TRUE), "atomicCancelled")
    BY <2>1, <2>2, <2>4, <1>RefusedStep, Zenon
  <2> QED BY <2>3, <2>4, Zenon DEF FinalizeCancellation

<1>1. ASSUME ExecInv, IInv', NEW j \in Jobs, NEW n \in Tokens, Phased(j, n, "running"),
             RowKeeps(job[j], job'[j], claims[j], claims'[j])
      PROVE  \/ VerifyDispatch(j, n) \/ SaveCheckpoint(j, n) \/ Decide(j, n)
             \/ FinalizeSuccess(j, n) \/ FinalizeFailure(j, n)
             \/ FinalizeRetryable(j, n) \/ FinalizeCancellation(j, n)
             => ExecInv'
  <2>1. VerifyDispatch(j, n) \/ SaveCheckpoint(j, n) \/ Decide(j, n) => ExecInv'
    BY <1>1, <1>VerifyDispatchInv, <1>SaveCheckpointInv, <1>DecideInv, Zenon
  <2>2. FinalizeSuccess(j, n) \/ FinalizeFailure(j, n) => ExecInv'
    BY <1>1, <1>FinalizeSuccessInv, <1>FinalizeFailureInv, Zenon
  <2>3. FinalizeRetryable(j, n) \/ FinalizeCancellation(j, n) => ExecInv'
    BY <1>1, <1>FinalizeRetryableInv, <1>FinalizeCancellationInv, Zenon
  <2> QED BY <2>1, <2>2, <2>3, Zenon
<1> QED BY <1>1, Zenon

(* Every step of Execute keeps the invariant.                              *)
LEMMA ExecuteInv ==
  ExecInv /\ IInv' => \A j \in Jobs, n \in Tokens :
    RowKeeps(job[j], job'[j], claims[j], claims'[j]) /\ Execute(j, n) => ExecInv'
<1>1. ASSUME ExecInv, IInv', NEW j \in Jobs, NEW n \in Tokens,
             RowKeeps(job[j], job'[j], claims[j], claims'[j]), Execute(j, n)
      PROVE  ExecInv'
  <2> USE <1>1
  <2>1. Phased(j, n, "running")
    BY Zenon DEF Execute, LoadRun, StartAttempt, StartAttemptRefused, StartAttemptFails, LoadCheckpoint,
           MarkDispatch, AuthorizeDispatch, ProviderCall, RecordSuccess, RecordDefiniteFailure,
           ExecutorReturns, VerifyDispatch, SaveCheckpoint, Decide, FinalizeSuccess,
           FinalizeFailure, FinalizeRetryable, FinalizeCancellation, At
  <2>2. CASE \/ LoadRun(j, n) \/ \E acknowledged \in BOOLEAN : StartAttempt(j, n, acknowledged)
             \/ StartAttemptRefused(j, n) \/ StartAttemptFails(j, n)
    BY <2>1, <2>2, BeginInv, Zenon
  <2>3. CASE LoadCheckpoint(j, n)
    BY <2>1, <2>3, LoadCheckpointInv, Zenon
  <2>4. CASE \/ MarkDispatch(j, n) \/ AuthorizeDispatch(j, n) \/ ProviderCall(j, n)
             \/ RecordSuccess(j, n) \/ RecordDefiniteFailure(j, n) \/ ExecutorReturns(j, n)
    BY <2>1, <2>4, ExecutorInv, Zenon
  <2>5. CASE \/ VerifyDispatch(j, n) \/ SaveCheckpoint(j, n) \/ Decide(j, n)
             \/ FinalizeSuccess(j, n) \/ FinalizeFailure(j, n)
             \/ FinalizeRetryable(j, n) \/ FinalizeCancellation(j, n)
    BY <2>1, <2>5, ReportInv, Zenon
  <2> QED BY <2>2, <2>3, <2>4, <2>5, Zenon DEF Execute
<1> QED BY <1>1, Zenon

-----------------------------------------------------------------------------
(* The reaper, an explicit retry and the sweeper *)

(* A set of numbers has a least element (LeastNumber of                    *)
(* DiagnosisExecution_proofs).                                             *)
WellOrdered == \A T \in SUBSET Nat : T # {} => \E t \in T : \A u \in T : t <= u

(* ORDER BY attempt_no DESC LIMIT 1 finds an attempt of the set unless the *)
(* set is empty.                                                           *)
LEMMA LatestIsOne ==
  ASSUME WellOrdered, ExecInv, NEW j \in Jobs, NEW S \in SUBSET Tokens,
         \A n \in S : attempt[j][n].status # "none"
  PROVE  (S = {} /\ Latest(j, S) = 0) \/ Latest(j, S) \in S
<1>1. CASE S = {}
  BY <1>1 DEF Latest
<1>2. CASE S # {}
  <2> DEFINE no(n) == attempt[j][n].no
             T == {MaxAttempts - no(n) : n \in S}
  <2>1. \A n \in S : no(n) \in Nat /\ no(n) <= MaxAttempts
    BY ExecUnfold, Zenon DEF AttemptOK, AttemptRow
  <2> HIDE DEF no
  <2>2. T \in SUBSET Nat /\ T # {}
    BY <1>2, <2>1, BoundsAssumption
  <2>3. \E t \in T : \A u \in T : t <= u
    BY <2>2, Zenon DEF WellOrdered
  <2>4. \E n \in S : \A m \in S : no(m) <= no(n)
    <3>1. PICK n \in S : \A u \in T : MaxAttempts - no(n) <= u
      BY <2>3
    <3>2. ASSUME NEW m \in S PROVE no(m) <= no(n)
      <4>1. MaxAttempts - no(n) <= MaxAttempts - no(m)
        BY <3>1
      <4> QED BY <2>1, <4>1, BoundsAssumption
    <3> QED BY <3>2
  <2>5. Latest(j, S) = CHOOSE n \in S : \A m \in S : no(m) <= no(n)
    BY <1>2 DEF Latest, no
  <2> QED BY <2>4, <2>5
<1> QED BY <1>1, <1>2

(* The attempts after some of them were ended.                             *)
LEMMA EndedAttempts ==
  ASSUME ExecInv, NEW j \in Jobs, NEW S, NEW status \in {"FAILED_TERMINAL", "ABANDONED"}
  PROVE  /\ Ended(j, S, status) \in [Tokens -> AttemptRow]
         /\ \A n \in Tokens :
              LET e == Ended(j, S, status)[n] IN
              /\ SameWork(attempt[j][n], e)
              /\ e.status = attempt[j][n].status \/ e.status = status
              /\ n \in S => e.status # "RUNNING"
<1>1. ASSUME NEW n \in Tokens
      PROVE  LET e == IF n \in S /\ attempt[j][n].status = "RUNNING"
                        THEN [attempt[j][n] EXCEPT !.status = status] ELSE attempt[j][n]
             IN /\ e \in AttemptRow /\ SameWork(attempt[j][n], e)
                /\ e.status = attempt[j][n].status \/ e.status = status
                /\ n \in S => e.status # "RUNNING"
  <2>1. attempt[j][n] \in AttemptRow
    BY ExecUnfold
  <2>2. CASE n \in S /\ attempt[j][n].status = "RUNNING"
    BY <2>1, <2>2, StatusEdited DEF AttemptStatus
  <2>3. CASE ~(n \in S /\ attempt[j][n].status = "RUNNING")
    BY <2>1, <2>3 DEF SameWork
  <2> QED BY <2>2, <2>3
<1> QED BY <1>1 DEF Ended

(* A run whose RUNNING job is settled from outside the handler.            *)
LEMMA SettleRun ==
  ASSUME ExecInv, IInv', ExecTypeOK', NEW j \in Jobs, job[j].status = "RUNNING",
         RowKeeps(job[j], job'[j], claims[j], claims'[j]), job'[j].generation = job[j].generation, handler'[j] = handler[j],
         \A m \in Tokens :
           /\ claim'[j][m] = claim[j][m] \/ (claim'[j][m] = NoClaim /\ claim[j][m].phase # "running")
           /\ SameWork(attempt[j][m], attempt'[j][m])
           /\ \/ attempt'[j][m].status = attempt[j][m].status
              \/ attempt'[j][m].status = "ABANDONED"
              \/ attempt'[j][m].status = "FAILED_TERMINAL" /\ job'[j].status \in Terminal
           /\ Dangling(attempt[j][m]) /\ Holds(job[j], m) /\ job[j].started
                => job'[j].status \in Terminal,
         \/ final'[j] = final[j] /\ business'[j] = business[j]
         \/ /\ business'[j] \in {"FAILED", "CANCELLED"}
            /\ \/ final'[j] = 0
               \/ /\ final'[j] \in Attempts(j, job[j].generation)
                  /\ attempt'[j][final'[j]].status # "RUNNING"
  PROVE  RunInv(j)'
<1>1. business[j] \notin Terminal
  BY Zenon DEF ExecInv, IInv, JobInv, RowOK, Terminal
<1>2. FinalOK(job'[j], business'[j], final'[j], attempt'[j])
  <2>1. CASE final'[j] = final[j] /\ business'[j] = business[j]
    <3>1. FinalOK(job[j], business[j], final[j], attempt[j])
      BY Zenon DEF ExecInv, RunInv
    <3> QED BY <1>1, <2>1, <3>1, Zenon DEF FinalOK, Terminal
  <2>2. CASE business'[j] \in {"FAILED", "CANCELLED"} /\ final'[j] = 0
    BY <2>2, Zenon DEF FinalOK
  <2>3. CASE /\ business'[j] \in {"FAILED", "CANCELLED"}
             /\ final'[j] \in Attempts(j, job[j].generation)
             /\ attempt'[j][final'[j]].status # "RUNNING"
    <3> DEFINE f == final'[j]
    <3>1. f \in Tokens /\ attempt[j][f].status # "none" /\ attempt[j][f].generation = job[j].generation
      BY <2>3, Zenon DEF Attempts
    <3>2. attempt[j][f].status # "SUCCEEDED"
      BY <1>1, <3>1, ExecUnfold, Zenon DEF AttemptOK, Terminal
    <3>3. /\ attempt'[j][f].generation = job'[j].generation
          /\ attempt'[j][f].status \notin {"none", "RUNNING", "SUCCEEDED"}
      <4> HIDE DEF f
      <4> QED BY <2>3, <3>1, <3>2, Zenon DEF SameWork, f
    <3> QED BY <2>3, <3>3, Zenon DEF FinalOK, Terminal
  <2> QED BY <2>1, <2>2, <2>3, Zenon
<1>3. ASSUME NEW m \in Tokens
      PROVE  /\ GoesOn(job'[j], m, claim[j][m], claim'[j][m], attempt[j][m])
             /\ handler'[j][m] = IF claim'[j][m].phase = "running" THEN handler[j][m] ELSE NoHandler
  <2>1. NoClaim.phase = "none"
    BY Zenon DEF NoClaim
  <2>2. claim[j][m].phase # "running" => handler[j][m] = NoHandler
    BY IdleHandler, Zenon
  <2> QED BY <2>1, <2>2, Zenon DEF GoesOn, Proceeds
<1>4. business[j] # "SUCCEEDED"
  BY <1>1, Zenon DEF Terminal
<1> QED BY <1>2, <1>3, <1>4, RunStep, Zenon

(* An attempt that dangles under the token that holds its job carries the  *)
(* marker the reaper looks for.                                            *)
LEMMA DanglingIsUnknown ==
  ASSUME ExecInv, NEW j \in Jobs, NEW m \in Tokens, job[j].status = "RUNNING",
         Dangling(attempt[j][m]), Holds(job[j], m)
  PROVE  m \in OutcomeUnknown(j)
<1> DEFINE a == attempt[j][m]
           r == job[j]
<1>1. /\ a \in AttemptRow /\ AttemptOK(r, business[j], claims[j], m, a)
      /\ RowOK(j, r, business[j], claims[j])
  BY ExecUnfold, Zenon
<1>2. a.status # "none"
  BY <1>1, NoAttemptFields, Zenon DEF AttemptOK, Dangling
<1>3. a.generation = r.generation /\ a.no = r.attempts
  BY <1>1, <1>2, Zenon DEF AttemptOK
<1>4. r.status \notin Terminal /\ business[j] # "SUCCEEDED"
  BY <1>1, Zenon DEF RowOK, Terminal
<1>5. a.status \notin {"FAILED_TERMINAL", "CANCELLED", "SUCCEEDED", "FAILED_RETRYABLE"}
  BY <1>1, <1>2, <1>3, <1>4, Zenon DEF AttemptOK
<1>6. a.status \in {"RUNNING", "ABANDONED"} /\ a.unresolved
  BY <1>1, <1>2, <1>5 DEF AttemptRow, AttemptStatus, Dangling
<1> QED BY <1>2, <1>3, <1>6 DEF OutcomeUnknown, Current, Attempts

(* What the reaper makes of one expired job.                               *)
LEMMA ReapedRun ==
  ASSUME WellOrdered, ExecInv, NEW j \in Jobs, job[j].status = "RUNNING",
         job'[j] = Reaped(job[j], OutcomeUnknown(j) # {})
  PROVE  /\ job'[j].generation = job[j].generation
         /\ job'[j].status \in {"CANCELLED", "PENDING", "RETRY_WAIT", "FAILED"}
         /\ job'[j].status \notin Terminal => final[j] = ReapedFinal(j)
         /\ job'[j].status \in Terminal =>
              \/ ReapedFinal(j) = 0
              \/ /\ ReapedFinal(j) \in Attempts(j, job[j].generation)
                 /\ ReapedAttempts(j)[ReapedFinal(j)].status # "RUNNING"
         /\ ReapedAttempts(j) \in [Tokens -> AttemptRow] /\ ReapedFinal(j) \in 0 .. MaxClaims
         /\ \A m \in Tokens :
              LET a == attempt[j][m]
                  e == ReapedAttempts(j)[m]
              IN /\ SameWork(a, e)
                 /\ \/ e.status = a.status
                    \/ e.status = "ABANDONED"
                    \/ e.status = "FAILED_TERMINAL" /\ job'[j].status \in Terminal
                 /\ Dangling(a) /\ Holds(job[j], m) /\ job[j].started
                      => job'[j].status \in Terminal
<1> DEFINE r == job[j]
           s == job'[j]
           G == Attempts(j, r.generation)
           C == Current(j)
           U == OutcomeUnknown(j)
<1>1. /\ r \in JobRow /\ ExecTypeOK /\ attempt[j] \in [Tokens -> AttemptRow]
      /\ final[j] \in 0 .. MaxClaims
  BY DEF ExecInv, ExecTypeOK, IInv, TypeOK
<1>2. s.generation = r.generation /\ s.status \in {"CANCELLED", "PENDING", "RETRY_WAIT", "FAILED"}
  BY <1>1 DEF Reaped, Cancelled, Unclaimed, Failed, RetryWait, JobRow
<1>3. r.started /\ U # {} => s.status \in Terminal
  BY <1>1 DEF Reaped, Cancelled, Failed, JobRow, Terminal
<1>4. \A m \in Tokens : Dangling(attempt[j][m]) /\ Holds(r, m) /\ r.started => s.status \in Terminal
  <2>1. \A m \in Tokens : Dangling(attempt[j][m]) /\ Holds(r, m) => m \in U
    BY DanglingIsUnknown, Zenon
  <2> QED BY <1>3, <2>1, Zenon
<1>5. /\ G \in SUBSET Tokens /\ C \subseteq G /\ U \subseteq C
      /\ \A m \in G : attempt[j][m].status # "none"
  BY Zenon DEF OutcomeUnknown, Current, Attempts
<1>6. /\ \A T \in {G, C, U} : (T = {} /\ Latest(j, T) = 0) \/ Latest(j, T) \in T
      /\ \A T \in {G, C, U} : Latest(j, T) \in 0 .. MaxClaims
  <2>1. ASSUME NEW T \in {G, C, U} PROVE (T = {} /\ Latest(j, T) = 0) \/ Latest(j, T) \in T
    BY <1>5, LatestIsOne
  <2>2. ASSUME NEW T \in {G, C, U} PROVE Latest(j, T) \in 0 .. MaxClaims
    <3>1. T \subseteq Tokens
      BY <1>5, Zenon
    <3> QED BY <2>1, <3>1, TokenNumbers, Zenon
  <2> QED BY <2>1, <2>2, Zenon
<1>7. \A T \in {G, C} :
        /\ Ended(j, T, "ABANDONED") \in [Tokens -> AttemptRow]
        /\ \A m \in Tokens :
             LET e == Ended(j, T, "ABANDONED")[m] IN
             /\ SameWork(attempt[j][m], e)
             /\ e.status = attempt[j][m].status \/ e.status = "ABANDONED"
             /\ m \in T => e.status # "RUNNING"
  BY EndedAttempts
<1>8. \A m \in Tokens : SameWork(attempt[j][m], attempt[j][m])
  BY DEF SameWork
<1> HIDE DEF G, C, U, r, s
<1>9. CASE s.status = "CANCELLED"
  <2>1. ReapedAttempts(j) = Ended(j, C, "ABANDONED") /\ ReapedFinal(j) = Latest(j, C)
    BY <1>9 DEF ReapedAttempts, ReapedFinal, C, s, Claimable
  <2>2. s.status \in Terminal
    BY <1>9 DEF Terminal
  <2> QED BY <1>2, <1>4, <1>5, <1>6, <1>7, <2>1, <2>2, Zenon DEF G, r, s
<1>10. CASE s.status = "RETRY_WAIT"
  <2>1. ReapedAttempts(j) = Ended(j, C, "ABANDONED") /\ ReapedFinal(j) = final[j]
    BY <1>10 DEF ReapedAttempts, ReapedFinal, C, s, Claimable
  <2>2. s.status \notin Terminal
    BY <1>10 DEF Terminal
  <2> QED BY <1>1, <1>2, <1>4, <1>7, <2>1, <2>2, Zenon DEF r, s
<1>11. CASE s.status = "PENDING"
  <2>1. ReapedAttempts(j) = attempt[j] /\ ReapedFinal(j) = final[j]
    BY <1>11 DEF ReapedAttempts, ReapedFinal, s, Claimable
  <2>2. s.status \notin Terminal
    BY <1>11 DEF Terminal
  <2> QED BY <1>1, <1>2, <1>4, <1>8, <2>1, <2>2, Zenon DEF r, s
<1>12. CASE s.status = "FAILED" /\ U = {}
  <2>1. ReapedAttempts(j) = Ended(j, G, "ABANDONED") /\ ReapedFinal(j) = Latest(j, G)
    BY <1>12 DEF ReapedAttempts, ReapedFinal, G, U, s, r, Claimable
  <2>2. s.status \in Terminal
    BY <1>12 DEF Terminal
  <2> QED BY <1>2, <1>4, <1>5, <1>6, <1>7, <2>1, <2>2, Zenon DEF G, r, s
<1>13. CASE s.status = "FAILED" /\ U # {}
  <2> DEFINE A == [m \in Tokens |-> IF m \in U THEN [attempt[j][m] EXCEPT !.status = "FAILED_TERMINAL"]
                                    ELSE attempt[j][m]]
  <2>1. ReapedAttempts(j) = A /\ ReapedFinal(j) = Latest(j, U)
    BY <1>13 DEF ReapedAttempts, ReapedFinal, U, s, Claimable
  <2>2. s.status \in Terminal
    BY <1>13 DEF Terminal
  <2>3. ASSUME NEW m \in Tokens
        PROVE  /\ A[m] \in AttemptRow /\ SameWork(attempt[j][m], A[m])
               /\ A[m].status = attempt[j][m].status \/ A[m].status = "FAILED_TERMINAL"
               /\ m \in U => A[m].status = "FAILED_TERMINAL"
    <3>1. CASE m \in U
      <4>1. attempt[j][m].status # "none" /\ "FAILED_TERMINAL" \in AttemptStatus \ {"none"}
        BY <1>5, <3>1 DEF AttemptStatus
      <4> QED BY <1>1, <3>1, <4>1, StatusEdited, Zenon
    <3>2. CASE m \notin U
      BY <1>1, <1>8, <3>2
    <3> QED BY <3>1, <3>2
  <2>4. A \in [Tokens -> AttemptRow]
    BY <2>3
  <2> HIDE DEF A
  <2>5. Latest(j, U) \in U /\ Latest(j, U) \in G /\ A[Latest(j, U)].status # "RUNNING"
    BY <1>5, <1>6, <1>13, <2>3
  <2> QED BY <1>2, <1>4, <1>6, <2>1, <2>2, <2>3, <2>4, <2>5, Zenon DEF G, r, s
<1> QED BY <1>2, <1>9, <1>10, <1>11, <1>12, <1>13, Zenon

(* What ReapExpiredJobs writes to the rows of the jobs it reaps.           *)
LEMMA ReapWrites ==
  ASSUME NEW S \in SUBSET Jobs, Reap(S)
  PROVE  /\ attempt' = [j \in Jobs |-> IF j \in S THEN ReapedAttempts(j) ELSE attempt[j]]
         /\ final' = [j \in Jobs |-> IF j \in S THEN ReapedFinal(j) ELSE final[j]]
         /\ UNCHANGED <<handler, outages>> /\ UNCHANGED <<claims, claim>>
         /\ \A j \in S : job[j].status = "RUNNING"
         /\ \A j \in Jobs :
              /\ job'[j] = IF j \in S THEN Reaped(job[j], OutcomeUnknown(j) # {}) ELSE job[j]
              /\ business'[j] = IF j \in S THEN Follows(business[j], job'[j]) ELSE business[j]
<1> DEFINE U == {j \in S : OutcomeUnknown(j) # {}}
<1>1. /\ ReapExpiredJobs(S, U)
      /\ attempt' = [j \in Jobs |-> IF j \in S THEN ReapedAttempts(j) ELSE attempt[j]]
      /\ final' = [j \in Jobs |-> IF j \in S THEN ReapedFinal(j) ELSE final[j]]
      /\ UNCHANGED <<handler, outages>>
  BY DEF Reap
<1>2. \A j \in S : (j \in U) = (OutcomeUnknown(j) # {})
  OBVIOUS
<1> HIDE DEF U
<1>3. /\ UNCHANGED <<claims, claim>>
      /\ \A j \in S : job[j].status = "RUNNING"
      /\ \A j \in Jobs :
           /\ job'[j] = IF j \in S THEN Reaped(job[j], OutcomeUnknown(j) # {}) ELSE job[j]
           /\ business'[j] = IF j \in S THEN Follows(business[j], job'[j]) ELSE business[j]
  BY <1>1, <1>2, Zenon DEF ReapExpiredJobs, Expired
<1> QED BY <1>1, <1>3, Zenon

(* A batch of the reaper.                                                  *)
LEMMA ReapStep ==
  ASSUME WellOrdered, ExecInv, IInv', NEW S \in SUBSET Jobs, Reap(S),
         \A j \in Jobs : RowKeeps(job[j], job'[j], claims[j], claims'[j])
  PROVE  ExecInv'
<1>1. /\ attempt' = [j \in Jobs |-> IF j \in S THEN ReapedAttempts(j) ELSE attempt[j]]
      /\ final' = [j \in Jobs |-> IF j \in S THEN ReapedFinal(j) ELSE final[j]]
      /\ UNCHANGED <<handler, outages>>
  BY ReapWrites, Zenon
<1>2. /\ UNCHANGED <<claims, claim>>
      /\ \A j \in S : job[j].status = "RUNNING"
      /\ \A j \in Jobs :
           /\ job'[j] = IF j \in S THEN Reaped(job[j], OutcomeUnknown(j) # {}) ELSE job[j]
           /\ business'[j] = IF j \in S THEN Follows(business[j], job'[j]) ELSE business[j]
  BY ReapWrites, Zenon
<1>3. ExecTypeOK
  BY DEF ExecInv
<1>4. ExecTypeOK'
  <2>1. \A j \in S : ReapedAttempts(j) \in [Tokens -> AttemptRow] /\ ReapedFinal(j) \in 0 .. MaxClaims
    BY <1>2, ReapedRun, Zenon
  <2>2. attempt' \in [Jobs -> [Tokens -> AttemptRow]]
    BY <1>1, <1>3, <2>1 DEF ExecTypeOK
  <2>3. final' \in [Jobs -> 0 .. MaxClaims]
    BY <1>1, <1>3, <2>1 DEF ExecTypeOK
  <2> QED BY <1>1, <1>3, <2>2, <2>3, Zenon DEF ExecTypeOK
<1>5. ASSUME NEW j \in S PROVE RunInv(j)'
  <2>1. /\ j \in Jobs /\ job[j].status = "RUNNING"
        /\ job'[j] = Reaped(job[j], OutcomeUnknown(j) # {})
        /\ attempt'[j] = ReapedAttempts(j) /\ final'[j] = ReapedFinal(j)
    BY <1>1, <1>2, Zenon
  <2>2. /\ job'[j].generation = job[j].generation
        /\ job'[j].status \in {"CANCELLED", "PENDING", "RETRY_WAIT", "FAILED"}
        /\ job'[j].status \notin Terminal => final'[j] = final[j]
        /\ job'[j].status \in Terminal =>
              \/ final'[j] = 0
              \/ /\ final'[j] \in Attempts(j, job[j].generation)
                 /\ attempt'[j][final'[j]].status # "RUNNING"
        /\ \A m \in Tokens :
             /\ SameWork(attempt[j][m], attempt'[j][m])
             /\ \/ attempt'[j][m].status = attempt[j][m].status
                \/ attempt'[j][m].status = "ABANDONED"
                \/ attempt'[j][m].status = "FAILED_TERMINAL" /\ job'[j].status \in Terminal
             /\ Dangling(attempt[j][m]) /\ Holds(job[j], m) /\ job[j].started
                  => job'[j].status \in Terminal
    <3>1. /\ job'[j].generation = job[j].generation
          /\ job'[j].status \in {"CANCELLED", "PENDING", "RETRY_WAIT", "FAILED"}
          /\ job'[j].status \notin Terminal => ReapedFinal(j) = final[j]
          /\ job'[j].status \in Terminal =>
                \/ ReapedFinal(j) = 0
                \/ /\ ReapedFinal(j) \in Attempts(j, job[j].generation)
                   /\ ReapedAttempts(j)[ReapedFinal(j)].status # "RUNNING"
      BY <2>1, ReapedRun, Zenon
    <3>2. ASSUME NEW m \in Tokens
          PROVE  /\ SameWork(attempt[j][m], ReapedAttempts(j)[m])
                 /\ \/ ReapedAttempts(j)[m].status = attempt[j][m].status
                    \/ ReapedAttempts(j)[m].status = "ABANDONED"
                    \/ ReapedAttempts(j)[m].status = "FAILED_TERMINAL" /\ job'[j].status \in Terminal
                 /\ Dangling(attempt[j][m]) /\ Holds(job[j], m) /\ job[j].started
                      => job'[j].status \in Terminal
      BY <2>1, ReapedRun, Zenon
    <3> QED BY <2>1, <3>1, <3>2, Zenon
  <2>3. IF job'[j].status \in Terminal THEN business'[j] \in {"FAILED", "CANCELLED"}
        ELSE business'[j] = business[j]
    BY <1>2, <2>2, Zenon DEF Follows, Terminal
  <2>4. handler'[j] = handler[j] /\ \A m \in Tokens : claim'[j][m] = claim[j][m]
    BY <1>1, <1>2, Zenon
  <2> QED BY <1>4, <2>1, <2>2, <2>3, <2>4, SettleRun, Zenon
<1>6. ASSUME NEW k \in Jobs \ S PROVE RunInv(k)'
  <2>1. /\ RunInv(k) /\ job'[k] = job[k] /\ business'[k] = business[k]
        /\ claims'[k] = claims[k] /\ claim'[k] = claim[k] /\ final'[k] = final[k]
        /\ attempt'[k] = attempt[k] /\ handler'[k] = handler[k]
    BY <1>1, <1>2, Zenon DEF ExecInv
  <2> QED BY <2>1, SameRun, Zenon
<1> QED BY <1>3, <1>4, <1>5, <1>6 DEF ExecInv

(* An explicit retry: a new generation, in which nothing has happened.     *)
LEMMA RetryRunInv ==
  ASSUME ExecInv, IInv', NEW j \in Jobs, RetryRun(j),
         RowKeeps(job[j], job'[j], claims[j], claims'[j])
  PROVE  ExecInv'
<1>1. ExecTypeOK /\ TypeOK
  BY Zenon DEF ExecInv, IInv
<1>2. /\ job[j].status = "FAILED" /\ business[j] = "FAILED"
      /\ SetRow(j, NextGeneration(job[j])) /\ SetBusiness(j, "QUEUED")
      /\ UNCHANGED <<claims, claim, attempt, handler, outages>>
      /\ final' = [final EXCEPT ![j] = 0]
  BY DEF RetryRun, RetryDiagnosis, RestartGeneration
<1>3. /\ business'[j] = "QUEUED" /\ final'[j] = 0
      /\ \A k \in Jobs \ {j} : /\ job'[k] = job[k] /\ business'[k] = business[k]
                               /\ final'[k] = final[k]
  BY <1>1, <1>2 DEF TypeOK, ExecTypeOK, SetRow, SetBusiness
<1>4. ExecTypeOK'
  <2>1. final' \in [Jobs -> 0 .. MaxClaims]
    BY <1>1, <1>2, TokenNumbers, Zenon DEF ExecTypeOK
  <2> QED BY <1>1, <1>2, <2>1, Zenon DEF ExecTypeOK
<1>5. FinalOK(job'[j], business'[j], final'[j], attempt'[j])
  BY <1>3, Zenon DEF FinalOK
<1>6. ASSUME NEW m \in Tokens
      PROVE  /\ SameWork(attempt[j][m], attempt'[j][m])
             /\ GoesOn(job'[j], m, claim[j][m], claim'[j][m], attempt[j][m])
             /\ handler'[j][m] = IF claim'[j][m].phase = "running" THEN handler[j][m] ELSE NoHandler
             /\ ~Holds(job[j], m) /\ attempt'[j][m].status = attempt[j][m].status
  <2>1. claim[j][m].phase # "running" => handler[j][m] = NoHandler
    BY IdleHandler, Zenon
  <2> QED BY <1>2, <2>1, Zenon DEF SameWork, GoesOn, Proceeds, Holds
<1>7. RunInv(j)'
  BY <1>1, <1>2, <1>4, <1>5, <1>6, RunStep, Zenon
<1> QED BY <1>1, <1>2, <1>3, <1>4, <1>7, OtherRuns, Zenon

(* The sweeper abandons a RUNNING attempt and nothing else.                *)
LEMMA RecoverInv ==
  ASSUME ExecInv, IInv', NEW j \in Jobs, NEW n \in Tokens, RecoverStaleAttempt(j, n),
         RowKeeps(job[j], job'[j], claims[j], claims'[j])
  PROVE  ExecInv'
<1> DEFINE a == attempt[j][n]
           e == [a EXCEPT !.status = "ABANDONED"]
<1>1. ExecTypeOK /\ TypeOK /\ a \in AttemptRow
  BY ExecUnfold, Zenon
<1>2. /\ a.status = "RUNNING" /\ SetAttempt(j, n, e)
      /\ UNCHANGED <<vars, final, handler, outages>>
  BY DEF RecoverStaleAttempt
<1>3. e \in AttemptRow /\ e.status = "ABANDONED" /\ SameWork(a, e)
  BY <1>1, <1>2, StatusEdited DEF AttemptStatus
<1> HIDE DEF e
<1>4. /\ attempt'[j][n] = e
      /\ \A m \in Tokens \ {n} : attempt'[j][m] = attempt[j][m]
      /\ \A k \in Jobs \ {j} : attempt'[k] = attempt[k]
  BY <1>1, <1>2 DEF ExecTypeOK, SetAttempt
<1>5. ExecTypeOK'
  BY <1>1, <1>2, <1>3, Zenon DEF ExecTypeOK, SetAttempt
<1>6. UNCHANGED <<job, business, claims, claim>>
  BY <1>2, Zenon DEF vars
<1>7. FinalOK(job'[j], business'[j], final'[j], attempt'[j])
  <2>1. FinalOK(job[j], business[j], final[j], attempt[j]) /\ final[j] \in 0 .. MaxClaims
    BY Zenon DEF ExecInv, RunInv, ExecTypeOK
  <2>2. final[j] # n
    BY <1>2, <2>1, TokenNumbers, Zenon DEF FinalOK
  <2>3. final[j] # 0 => attempt'[j][final[j]] = attempt[j][final[j]]
    BY <1>4, <2>1, <2>2, TokenNumbers, Zenon
  <2> QED BY <1>2, <1>6, <2>1, <2>3, Zenon DEF FinalOK
<1>8. ASSUME NEW m \in Tokens
      PROVE  /\ SameWork(attempt[j][m], attempt'[j][m])
             /\ GoesOn(job'[j], m, claim[j][m], claim'[j][m], attempt[j][m])
             /\ handler'[j][m] = IF claim'[j][m].phase = "running" THEN handler[j][m] ELSE NoHandler
             /\ attempt'[j][m].status # attempt[j][m].status => attempt'[j][m].status = "ABANDONED"
             /\ Holds(job[j], m) => Holds(job'[j], m)
  <2>1. claim[j][m].phase # "running" => handler[j][m] = NoHandler
    BY IdleHandler
  <2>2. SameWork(attempt[j][m], attempt[j][m])
    BY DEF SameWork
  <2>3. SameWork(attempt[j][m], attempt'[j][m])
        /\ (attempt'[j][m].status # attempt[j][m].status => attempt'[j][m].status = "ABANDONED")
    BY <1>3, <1>4, <2>2
  <2> QED BY <1>2, <1>6, <2>1, <2>3, Zenon DEF GoesOn, Proceeds
<1>9. business[j] = "SUCCEEDED" => business'[j] = "SUCCEEDED"
  BY <1>6
<1>10. RunInv(j)'
  BY <1>1, <1>5, <1>7, <1>8, <1>9, RunStep, Zenon
<1> QED BY <1>1, <1>2, <1>4, <1>5, <1>6, <1>10, OtherRuns, Zenon

=============================================================================

---------------------- MODULE DiagnosisExecution_proofs ----------------------
(***************************************************************************)
(* Proofs about the execution of diagnoses, for any diagnoses, workers,    *)
(* attempt limit and number of faults and outages:                         *)
(*   - the handler, its attempts and its checkpoints do nothing that       *)
(*     AnalysisJobs does not let a handler do, so the composed system      *)
(*     implements the queue and inherits its theorems;                     *)
(*   - every step preserves the inductive invariant ExecInv;               *)
(*   - the invariants and the action properties that follow.               *)
(***************************************************************************)
EXTENDS DiagnosisHandler_proofs, AnalysisJobs_proofs, WellFoundedInduction

-----------------------------------------------------------------------------
(* Steps of the queue around the handlers *)

(* A set of numbers has a least element.                                   *)
LEMMA LeastNumber == WellOrdered
<1>1. ASSUME NEW T \in SUBSET Nat, T # {}
      PROVE  \E t \in T : \A u \in T : <<u, t>> \notin OpToRel(<, Nat)
  BY <1>1, NatLessThanWellFounded, WFMin, Zenon
<1>2. \A t, u \in Nat : <<u, t>> \notin OpToRel(<, Nat) => t <= u
  BY DEF OpToRel
<1> QED BY <1>1, <1>2, Zenon DEF WellOrdered

(* The queue's own invariant survives every step, which does to a job's    *)
(* row what the queue may do to it.                                        *)
LEMMA QueueInvKept ==
  ASSUME ExecInv, [ExecNext]_allVars
  PROVE  IInv' /\ \A j \in Jobs : RowKeeps(job[j], job'[j], claims[j], claims'[j])
<1>1. IInv /\ [Next]_vars
  BY ExecStepRefines, Zenon DEF ExecInv
<1>2. IInv'
  BY <1>1, NextInv, Zenon
<1> QED BY <1>1, <1>2, RowsKept, Zenon

-----------------------------------------------------------------------------
(* The steps of the queue *)

(* The new state of one goroutine, and the others.                         *)
LEMMA OneClaim ==
  ASSUME ExecInv, NEW j \in Jobs, NEW n \in Tokens, NEW d, SetClaim(j, n, d),
         NEW k \in Jobs, NEW m \in Tokens
  PROVE  claim'[k][m] = IF k = j /\ m = n THEN d ELSE claim[k][m]
BY DEF SetClaim, ExecInv, IInv, TypeOK

(* Goroutines on their way to the handler have no attempt yet.             *)
LEMMA StartProceeds ==
  ASSUME ExecInv, NEW j \in Jobs, NEW n \in Tokens, StartBoundary(j, n),
         NEW k \in Jobs, NEW m \in Tokens
  PROVE  Proceeds(claim[k][m], claim'[k][m], attempt[k][m])
<1> DEFINE c == claim[j][n]
           Before == {"starting", "resolving", "returning", "launching"}
<1>1. /\ c \in ClaimState /\ ClaimOK(job[j], claims[j], n, c)
      /\ HandlerOK(job[j], n, c, handler[j][n], attempt[j][n])
  BY ExecUnfold
<1>2. LateStart(j, n) => c.phase \in Before
  <2>1. LateStart(j, n) => c.late /\ Holds(job[j], n) /\ ~job[j].started
    BY DEF LateStart, StartCommits, HoldsClaim, Holds
  <2>2. LateStart(j, n) => c.phase # "none" /\ c.phase \notin Executing
    BY <1>1, <2>1 DEF ClaimOK, NoClaim
  <2>3. c.phase \in Phase
    BY <1>1 DEF ClaimState
  <2> QED BY <2>2, <2>3 DEF Phase, Executing
<1>3. \E d : SetClaim(j, n, d) /\ (c.phase \in Before \/ d = NoClaim)
  BY <1>2 DEF StartBoundary, MarkExecutionStarted, MarkExecutionStartedRefused,
         MarkExecutionStartedError, LateStart, ResolveExecutionStart, StopBeforeStart,
         ReturnUndispatchedClaim, AbandonClaim, Launch, Gone, Goto, Phased
<1>4. PICK d : SetClaim(j, n, d) /\ (c.phase \in Before \/ d = NoClaim)
  BY <1>3
<1>5. c.phase \in Before => attempt[j][n].status = "none" /\ c.phase # "running"
  BY <1>1 DEF HandlerOK
<1>6. NoClaim.phase = "none"
  BY DEF NoClaim
<1>7. claim'[k][m] = IF k = j /\ m = n THEN d ELSE claim[k][m]
  BY <1>4, OneClaim
<1> QED BY <1>4, <1>5, <1>6, <1>7 DEF Proceeds

(* The watchers of a handler and executeJob after it.                      *)
LEMMA WatchProceeds ==
  ASSUME ExecInv, NEW j \in Jobs, NEW n \in Tokens,
         \/ RenewalFails(j, n) \/ CancelPoll(j, n) \/ AfterHandler(j, n)
         \/ AtomicReadFails(j, n) \/ FinalizeEnds(j, n),
         NEW k \in Jobs, NEW m \in Tokens
  PROVE  Proceeds(claim[k][m], claim'[k][m], attempt[k][m])
<1> DEFINE c == claim[j][n]
<1>1. c \in ClaimState
  BY ExecUnfold
<1>2. NoClaim.phase = "none"
  BY DEF NoClaim
<1>3. ASSUME NEW d, SetClaim(j, n, d), Proceeds(c, d, attempt[j][n])
      PROVE  Proceeds(claim[k][m], claim'[k][m], attempt[k][m])
  <2>1. claim'[k][m] = IF k = j /\ m = n THEN d ELSE claim[k][m]
    BY <1>3, OneClaim
  <2>2. CASE k = j /\ m = n
    BY <1>3, <2>1, <2>2
  <2>3. CASE ~(k = j /\ m = n)
    BY <2>1, <2>3 DEF Proceeds
  <2> QED BY <2>2, <2>3
<1>4. CASE Gone(j, n)
  BY <1>2, <1>3, <1>4 DEF Gone, Proceeds
<1>5. ASSUME NEW x, CancelContext(j, n, x), c.phase \in {"running", "returned"}
      PROVE  Proceeds(claim[k][m], claim'[k][m], attempt[k][m])
  <2> DEFINE d == [c EXCEPT !.cause = x]
  <2>1. SetClaim(j, n, d) /\ c.cause = "none"
    BY <1>5 DEF CancelContext
  <2>2. d.phase = c.phase /\ d.ret = c.ret /\ d.generation = c.generation
    BY <1>1 DEF ClaimState
  <2> HIDE DEF d
  <2>3. Proceeds(c, d, attempt[j][n])
    BY <1>5, <2>1, <2>2 DEF Proceeds
  <2> QED BY <1>3, <2>1, <2>3
<1>6. ASSUME NEW p \in Plans(c), p # "none", c.phase = "returned",
             SetClaim(j, n, [c EXCEPT !.phase = "finalizing", !.plan = p])
      PROVE  Proceeds(claim[k][m], claim'[k][m], attempt[k][m])
  <2> DEFINE d == [c EXCEPT !.phase = "finalizing", !.plan = p]
  <2>1. d.phase = "finalizing" /\ d.plan = p /\ SetClaim(j, n, d)
    BY <1>1, <1>6 DEF ClaimState
  <2> HIDE DEF d
  <2>2. Proceeds(c, d, attempt[j][n])
    BY <1>6, <2>1 DEF Proceeds
  <2> QED BY <1>3, <2>1, <2>2
<1>7. CASE RenewalFails(j, n) \/ CancelPoll(j, n)
  BY <1>5, <1>7 DEF RenewalFails, CancelPoll
<1>8. CASE AfterHandler(j, n)
  BY <1>4, <1>6, <1>8, Zenon DEF AfterHandler, Phased
<1>9. CASE AtomicReadFails(j, n) \/ FinalizeEnds(j, n)
  BY <1>4, <1>9 DEF AtomicReadFails, FinalizeEnds
<1> QED BY <1>7, <1>8, <1>9

(* Polls, shutdowns and crashes.                                           *)
LEMMA WorkerProceeds ==
  ASSUME ExecInv, NEW w \in Workers, WorkerStep(w), NEW k \in Jobs, NEW m \in Tokens
  PROVE  Proceeds(claim[k][m], claim'[k][m], attempt[k][m])
<1> DEFINE c == claim[k][m]
           d == claim'[k][m]
           a == attempt[k][m]
<1>1. /\ c \in ClaimState /\ ClaimOK(job[k], claims[k], m, c) /\ TypeOK /\ claims[k] \in Nat
      /\ AttemptOK(job[k], business[k], claims[k], m, a)
  BY ExecUnfold, BoundsAssumption
<1>2. CASE d = c
  BY <1>2 DEF Proceeds
<1>3. ASSUME NEW delivered \in BOOLEAN, ClaimJobs(w, delivered)
      PROVE  Proceeds(c, d, a)
  <2>1. \/ claim'[k] = claim[k]
        \/ claim'[k] = [claim[k] EXCEPT ![claims[k] + 1] = NewClaim(w, job[k])]
    BY <1>3 DEF ClaimJobs
  <2>2. d = c \/ m = claims[k] + 1
    BY <1>1, <2>1 DEF TypeOK
  <2>3. m = claims[k] + 1 => a.status = "none" /\ c.phase # "running"
    <3>1. m = claims[k] + 1 => ~(m <= claims[k])
      BY <1>1
    <3> QED BY <1>1, <3>1, Zenon DEF ClaimOK, AttemptOK
  <2> QED BY <2>2, <2>3 DEF Proceeds
<1>4. CASE CancelActive(w)
  <2>1. \/ d = c
        \/ c.cause = "none" /\ c.phase \in {"running", "returned"} /\ d = [c EXCEPT !.cause = "shutdown"]
    BY <1>4 DEF CancelActive
  <2>2. LET x == [c EXCEPT !.cause = "shutdown"] IN
          x.phase = c.phase /\ x.ret = c.ret /\ x.generation = c.generation
    BY <1>1 DEF ClaimState
  <2> QED BY <2>1, <2>2, Zenon DEF Proceeds
<1>5. CASE WorkerEnds(w)
  <2>1. d = c \/ d = NoClaim
    BY <1>5 DEF WorkerEnds
  <2> QED BY <2>1 DEF Proceeds, NoClaim
<1>6. CASE RequestStop(w) \/ Restart(w)
  BY <1>2, <1>6 DEF RequestStop, Restart
<1> QED BY <1>3, <1>4, <1>5, <1>6 DEF WorkerStep, Exit, Crash

(* What a step of the queue may do to a row and its resource: a started    *)
(* execution keeps its token, no generation begins, and a resource only    *)
(* opens or is cancelled.                                                  *)
LEMMA QueueRows ==
  ASSUME ExecInv, QueueStep, NEW k \in Jobs
  PROVE  /\ job'[k].generation = job[k].generation
         /\ job[k].status = "RUNNING" /\ job[k].started
              => job'[k].status = "RUNNING" /\ job'[k].token = job[k].token
         /\ business'[k] = business[k] \/ (business[k] \notin Terminal /\ business'[k] # "SUCCEEDED")
<1> DEFINE r == job[k]
           Calm(s) == /\ s.generation = r.generation
                      /\ r.status = "RUNNING" /\ r.started => s.status = "RUNNING" /\ s.token = r.token
<1>0. TypeOK /\ r \in JobRow /\ RowOK(k, r, business[k], claims[k])
  BY DEF ExecInv, IInv, JobInv, TypeOK
<1>1. CASE UNCHANGED <<job, business>>
  BY <1>1
<1>2. ASSUME NEW j \in Jobs, NEW s, SetRow(j, s), j = k => Calm(s) PROVE Calm(job'[k])
  <2>1. job'[k] = IF k = j THEN s ELSE r
    BY <1>0, <1>2, OneRow
  <2> QED BY <1>2, <2>1
<1>3. ASSUME NEW j \in Jobs, CreateJob(j) \/ LeaseExpires(j) \/ BackoffElapses(j) \/ RequestCancellation(j)
      PROVE  Calm(job'[k])
  <2>1. CASE CreateJob(j)
    <3> DEFINE s == [AbsentRow EXCEPT !.status = "PENDING"]
    <3>1. SetRow(j, s) /\ job[j].status = "ABSENT" /\ s.generation = 1 /\ AbsentRow.generation = 1
      BY <2>1 DEF CreateJob, AbsentRow
    <3>2. j = k => r = AbsentRow /\ r.status = "ABSENT"
      BY <1>0, <3>1 DEF RowOK
    <3> HIDE DEF s
    <3> QED BY <1>2, <3>1, <3>2
  <2>2. CASE LeaseExpires(j)
    <3> DEFINE s == [job[j] EXCEPT !.lease = "expired"]
    <3>1. SetRow(j, s) /\ (j = k => Calm(s))
      BY <1>0, <2>2 DEF LeaseExpires, JobRow
    <3> QED BY <1>2, <3>1, Zenon
  <2>3. CASE BackoffElapses(j)
    <3> DEFINE s == [job[j] EXCEPT !.due = TRUE]
    <3>1. SetRow(j, s) /\ (j = k => Calm(s))
      BY <1>0, <2>3 DEF BackoffElapses, JobRow
    <3> QED BY <1>2, <3>1, Zenon
  <2>4. CASE RequestCancellation(j) /\ job[j].status = "RUNNING"
    <3> DEFINE s == [job[j] EXCEPT !.cancel = TRUE]
    <3>1. SetRow(j, s) /\ (j = k => Calm(s))
      BY <1>0, <2>4 DEF RequestCancellation, JobRow
    <3> QED BY <1>2, <3>1, Zenon
  <2>5. CASE RequestCancellation(j) /\ job[j].status # "RUNNING"
    <3> DEFINE s == [Cancelled(job[j]) EXCEPT !.cancel = TRUE]
    <3>1. SetRow(j, s) /\ (j = k => Calm(s))
      BY <1>0, <2>5 DEF RequestCancellation, Cancelled, JobRow
    <3> QED BY <1>2, <3>1, Zenon
  <2> QED BY <1>3, <2>1, <2>2, <2>3, <2>4, <2>5
<1>4. ASSUME NEW j \in Jobs, CreateJob(j) \/ LeaseExpires(j) \/ BackoffElapses(j) \/ RequestCancellation(j)
      PROVE  business'[k] = business[k] \/ (business[k] \notin Terminal /\ business'[k] # "SUCCEEDED")
  <2>1. CASE LeaseExpires(j) \/ BackoffElapses(j)
    BY <2>1 DEF LeaseExpires, BackoffElapses
  <2>2. CASE CreateJob(j)
    <3>1. SetBusiness(j, "QUEUED") /\ (j = k => r.status = "ABSENT")
      BY <2>2 DEF CreateJob
    <3>2. j = k => business[k] = "ABSENT"
      BY <1>0, <3>1 DEF RowOK
    <3> QED BY <1>0, <3>1, <3>2 DEF SetBusiness, TypeOK, Terminal
  <2>3. CASE RequestCancellation(j)
    <3>1. /\ UNCHANGED business \/ SetBusiness(j, "CANCELLED")
          /\ business[j] \in {"QUEUED", "RUNNING"}
      BY <2>3 DEF RequestCancellation, CancelAccepted
    <3> QED BY <1>0, <3>1 DEF SetBusiness, TypeOK, Terminal
  <2> QED BY <1>4, <2>1, <2>2, <2>3
<1>5. ASSUME NEW j \in Jobs, NEW n \in Tokens, StartBoundary(j, n)
      PROVE  UNCHANGED business /\ Calm(job'[k])
  <2>1. UNCHANGED business
    BY <1>5 DEF StartBoundary, MarkExecutionStarted, MarkExecutionStartedRefused,
         MarkExecutionStartedError, LateStart, ResolveExecutionStart, StopBeforeStart,
         ReturnUndispatchedClaim, AbandonClaim, Launch
  <2>2. \/ UNCHANGED job
        \/ job[j].status = "RUNNING" /\ ~job[j].started /\ SetRow(j, Charged(job[j]))
        \/ job[j].status = "RUNNING" /\ ~job[j].started /\ SetRow(j, Unclaimed(job[j]))
    BY <1>5 DEF StartBoundary, MarkExecutionStarted, MarkExecutionStartedRefused,
         MarkExecutionStartedError, LateStart, ResolveExecutionStart, StopBeforeStart,
         ReturnUndispatchedClaim, AbandonClaim, Launch, ChargeAttempt, Charged, HoldsClaim,
         StartCommits
  <2>3. Charged(r).generation = r.generation /\ Unclaimed(r).generation = r.generation
    BY <1>0 DEF Charged, Unclaimed, JobRow
  <2>4. CASE UNCHANGED job
    BY <2>1, <2>4
  <2>5. CASE ~job[j].started /\ SetRow(j, Charged(job[j]))
    BY <1>2, <2>1, <2>3, <2>5
  <2>6. CASE ~job[j].started /\ SetRow(j, Unclaimed(job[j]))
    BY <1>2, <2>1, <2>3, <2>6
  <2> QED BY <2>1, <2>2, <2>4, <2>5, <2>6
<1>6. ASSUME NEW w \in Workers, WorkerStep(w) PROVE UNCHANGED business /\ Calm(job'[k])
  <2>1. CASE UNCHANGED <<job, business>>
    BY <2>1
  <2>2. ASSUME NEW delivered \in BOOLEAN, ClaimJobs(w, delivered)
        PROVE  UNCHANGED business /\ Calm(job'[k])
    <3>1. /\ UNCHANGED business
          /\ \/ job'[k] = r
             \/ r.status \in Claimable /\ job'[k] = ClaimedRow(r, claims[k] + 1)
      BY <2>2 DEF ClaimJobs
    <3>2. ClaimedRow(r, claims[k] + 1).generation = r.generation
      BY <1>0 DEF ClaimedRow, JobRow
    <3> QED BY <3>1, <3>2 DEF Claimable
  <2> QED BY <1>6, <2>1, <2>2
          DEF WorkerStep, RequestStop, CancelActive, Exit, Crash, Restart, WorkerEnds
<1>7. ASSUME NEW j \in Jobs, NEW n \in Tokens,
             \/ RenewalFails(j, n) \/ CancelPoll(j, n) \/ AfterHandler(j, n)
             \/ AtomicReadFails(j, n) \/ FinalizeEnds(j, n)
      PROVE  UNCHANGED <<job, business>>
  BY <1>7, Zenon DEF RenewalFails, CancelPoll, AfterHandler, AtomicReadFails, FinalizeEnds
<1> QED BY <1>1, <1>3, <1>4, <1>5, <1>6, <1>7 DEF QueueStep

(* What a run was closed as stays true of it while its generation lasts    *)
(* and its resource is not touched.                                        *)
LEMMA FinalKept ==
  ASSUME NEW r, NEW s, NEW b, NEW b2, NEW f, NEW A, FinalOK(r, b, f, A),
         s.generation = r.generation,
         b2 = b \/ (b \notin Terminal /\ b2 # "SUCCEEDED")
  PROVE  FinalOK(s, b2, f, A)
BY DEF FinalOK, Terminal

(* No step of the queue is a handler's return.                             *)
LEMMA QueueProceeds ==
  ASSUME ExecInv, QueueStep, NEW k \in Jobs, NEW m \in Tokens
  PROVE  Proceeds(claim[k][m], claim'[k][m], attempt[k][m])
<1>1. CASE UNCHANGED claim
  BY <1>1 DEF Proceeds
<1>2. ASSUME NEW j \in Jobs, CreateJob(j) \/ LeaseExpires(j) \/ BackoffElapses(j) \/ RequestCancellation(j)
      PROVE  UNCHANGED claim
  BY <1>2 DEF CreateJob, LeaseExpires, BackoffElapses, RequestCancellation
<1> QED BY <1>1, <1>2, StartProceeds, WatchProceeds, WorkerProceeds DEF QueueStep

(* Every step of the queue around the handler keeps the invariant.         *)
LEMMA QueueInv ==
  ASSUME ExecInv, IInv', ExecNext, QueueStep, HandlersFollow,
         UNCHANGED <<attempt, final, outages>>
  PROVE  ExecInv'
<1>1. ASSUME NEW k \in Jobs, NEW m \in Tokens
      PROVE  GoesOn(job'[k], m, claim[k][m], claim'[k][m], attempt[k][m])
  BY QueueProceeds DEF GoesOn
<1>2. \A k \in Jobs : \A m \in Tokens :
        handler'[k][m] = IF claim'[k][m].phase = "running" THEN handler[k][m] ELSE NoHandler
  BY DEF HandlersFollow
<1>3. ExecTypeOK'
  <2>1. ExecTypeOK
    BY DEF ExecInv
  <2>2. handler' \in [Jobs -> [Tokens -> HandlerState]]
    BY <2>1, NullExecTypes DEF HandlersFollow, ExecTypeOK
  <2> QED BY <2>1, <2>2 DEF ExecTypeOK
<1>4. [Next]_vars
  BY ExecStepRefines
<1>5. ASSUME NEW k \in Jobs PROVE RunInv(k)'
  <2>1. RowKeeps(job[k], job'[k], claims[k], claims'[k])
    BY <1>4, RowsKept DEF ExecInv
  <2>2. /\ job'[k].generation = job[k].generation
        /\ job[k].status = "RUNNING" /\ job[k].started
             => job'[k].status = "RUNNING" /\ job'[k].token = job[k].token
        /\ business'[k] = business[k] \/ (business[k] \notin Terminal /\ business'[k] # "SUCCEEDED")
    BY QueueRows
  <2>3. business[k] = "SUCCEEDED" => business'[k] = "SUCCEEDED"
    BY <2>2 DEF Terminal
  <2>4. FinalOK(job'[k], business'[k], final'[k], attempt'[k])
    <3>1. FinalOK(job[k], business[k], final[k], attempt[k])
      BY DEF ExecInv, RunInv
    <3> QED BY <2>2, <3>1, FinalKept
  <2>5. ASSUME NEW n \in Tokens
        PROVE  /\ SameWork(attempt[k][n], attempt'[k][n])
               /\ attempt'[k][n].status = attempt[k][n].status
               /\ (Dangling(attempt[k][n]) /\ Holds(job[k], n) /\ job[k].started =>
                     job'[k].status \in Terminal \/ Holds(job'[k], n))
    BY <2>2 DEF SameWork, Holds
  <2> QED BY <1>1, <1>2, <1>3, <2>1, <2>3, <2>4, <2>5, RunStep, Zenon
<1> QED BY <1>3, <1>5 DEF ExecInv

-----------------------------------------------------------------------------
(* The job store's finalizers *)

(* The job store's finalizers.                                             *)
LEMMA FinalizeJobInv ==
  ASSUME ExecInv, [ExecNext]_allVars, NEW j \in Jobs, NEW n \in Tokens,
         NEW acknowledged \in BOOLEAN, FinalizeJob(j, n, acknowledged)
  PROVE  ExecInv'
<1> DEFINE r == job[j]
           c == claim[j][n]
           S == Attempts(j, r.generation)
           last == Latest(j, S)
<1>1. /\ r \in JobRow /\ c \in ClaimState /\ TypeOK /\ ExecTypeOK
      /\ ClaimOK(r, claims[j], n, c)
      /\ HandlerOK(r, n, c, handler[j][n], attempt[j][n])
  BY ExecUnfold
<1>2. Finalize(j, n, acknowledged)
  BY DEF FinalizeJob
<1>3. PICK s \in FinalRows(j, n) : SetRow(j, s) /\ SetBusiness(j, Follows(business[j], s))
  BY <1>2 DEF Finalize
<1>4. /\ c.phase = "finalizing" /\ r.status = "RUNNING" /\ Holds(r, n)
      /\ Gone(j, n) \/ UNCHANGED claim
      /\ UNCHANGED claims
  BY <1>2 DEF Finalize, Phased, FinalizeCommits, Owned, Holds
<1>5. /\ s.generation = r.generation
      /\ s.status \in {"CANCELLED", "FAILED", "RETRY_WAIT"}
      /\ s.status = "RETRY_WAIT" => c.plan = "retry" /\ ~r.cancel
  <2>1. /\ s.generation = r.generation
        /\ s.status \in {"SUCCEEDED", "CANCELLED", "FAILED", "RETRY_WAIT"}
        /\ s.status = "SUCCEEDED" => c.plan = "success"
        /\ s.status = "RETRY_WAIT" => c.plan = "retry"
        /\ r.cancel => s.status = "CANCELLED"
    BY <1>1, FinalRowsOK
  <2>2. c.plan # "success"
    BY <1>1, <1>4, Zenon DEF ClaimOK
  <2> QED BY <2>1, <2>2
<1>6. /\ job'[j] = s /\ business'[j] = Follows(business[j], s)
      /\ UNCHANGED <<handler, outages>>
      /\ \A k \in Jobs \ {j} : /\ job'[k] = job[k] /\ business'[k] = business[k]
                               /\ claim'[k] = claim[k] /\ claims'[k] = claims[k]
      /\ \A m \in Tokens : \/ claim'[j][m] = claim[j][m]
                           \/ claim'[j][m] = NoClaim /\ claim[j][m].phase # "running"
  <2>1. UNCHANGED <<handler, outages>>
    BY DEF FinalizeJob
  <2>2. /\ job'[j] = s /\ business'[j] = Follows(business[j], s)
        /\ \A k \in Jobs \ {j} : job'[k] = job[k] /\ business'[k] = business[k]
    BY <1>1, <1>3, Zenon DEF TypeOK, SetRow, SetBusiness
  <2>3. /\ \A k \in Jobs \ {j} : claim'[k] = claim[k] /\ claims'[k] = claims[k]
        /\ \A m \in Tokens : \/ claim'[j][m] = claim[j][m]
                             \/ claim'[j][m] = NoClaim /\ claim[j][m].phase # "running"
    BY <1>1, <1>4 DEF TypeOK, Gone, SetClaim
  <2> QED BY <2>1, <2>2, <2>3, Zenon
<1>7. \A m \in Tokens : Dangling(attempt[j][m]) /\ Holds(r, m) => job'[j].status \in Terminal
  <2>1. \A m \in Tokens : Holds(r, m) => m = n
    BY <1>4 DEF Holds
  <2>2. Dangling(attempt[j][n]) => s.status # "RETRY_WAIT"
    BY <1>1, <1>4, <1>5, Zenon DEF HandlerOK
  <2> QED BY <1>5, <1>6, <2>1, <2>2 DEF Terminal
<1>8. IInv' /\ RowKeeps(r, job'[j], claims[j], claims'[j])
  BY QueueInvKept, Zenon
<1>9. S \in SUBSET Tokens /\ ((S = {} /\ last = 0) \/ last \in S) /\ last \in 0 .. MaxClaims
  <2>1. S \in SUBSET Tokens /\ \A m \in S : attempt[j][m].status # "none"
    BY DEF Attempts
  <2>2. (S = {} /\ last = 0) \/ last \in S
    BY <2>1, LatestIsOne, LeastNumber
  <2> QED BY <2>1, <2>2, BoundsAssumption DEF Tokens
<1>10. final[j] = 0
  <2>1. business[j] \notin Terminal
    BY <1>4, ExecUnfold, Zenon DEF RowOK, Terminal
  <2> QED BY <2>1, Zenon DEF ExecInv, RunInv, FinalOK
<1>11. ASSUME NEW status \in {"FAILED_TERMINAL", "ABANDONED"}, s.status \in {"FAILED", "CANCELLED"},
              attempt' = [attempt EXCEPT ![j] = Ended(j, S, status)],
              final' = [final EXCEPT ![j] = last]
       PROVE  ExecInv'
  <2> DEFINE A == Ended(j, S, status)
  <2>1. /\ A \in [Tokens -> AttemptRow]
        /\ \A m \in Tokens : /\ SameWork(attempt[j][m], A[m])
                             /\ A[m].status = attempt[j][m].status \/ A[m].status = status
                             /\ m \in S => A[m].status # "RUNNING"
    BY EndedAttempts
  <2>2. attempt' = [attempt EXCEPT ![j] = A]
    BY <1>11
  <2> HIDE DEF A, S, last
  <2>3. /\ attempt'[j] = A /\ final'[j] = last
        /\ \A k \in Jobs \ {j} : attempt'[k] = attempt[k] /\ final'[k] = final[k]
    BY <1>1, <1>11, <2>2 DEF ExecTypeOK
  <2>4. ExecTypeOK'
    BY <1>1, <1>6, <1>9, <1>11, <2>1, <2>2, Zenon DEF ExecTypeOK
  <2>5. business'[j] \in {"FAILED", "CANCELLED"} /\ job'[j].status \in Terminal
    BY <1>6, <1>11, Zenon DEF Follows, Terminal
  <2>6. \/ final'[j] = 0
        \/ final'[j] \in S /\ attempt'[j][final'[j]].status # "RUNNING"
    BY <1>9, <2>1, <2>3
  <2>7. RunInv(j)'
    <3>1. handler'[j] = handler[j] /\ job'[j].generation = r.generation
      BY <1>5, <1>6, Zenon
    <3> QED BY <1>4, <1>6, <1>7, <1>8, <2>1, <2>3, <2>4, <2>5, <2>6, <3>1, SettleRun, Zenon DEF S
  <2> QED BY <1>6, <1>8, <2>3, <2>4, <2>7, OtherRuns
<1>12. CASE s.status = "FAILED"
  BY <1>6, <1>11, <1>12 DEF FinalizeJob
<1>13. CASE s.status = "CANCELLED"
  <2>1. /\ attempt' = [attempt EXCEPT ![j] = Ended(j, S, "ABANDONED")]
        /\ final' = [final EXCEPT ![j] = IF last = 0 THEN final[j] ELSE last]
    BY <1>6, <1>13 DEF FinalizeJob
  <2>2. (IF last = 0 THEN final[j] ELSE last) = last
    BY <1>10
  <2> QED BY <1>11, <1>13, <2>1, <2>2, Zenon
<1>14. CASE s.status = "RETRY_WAIT"
  <2>1. UNCHANGED <<attempt, final>>
    BY <1>6, <1>14 DEF FinalizeJob
  <2>2. business'[j] = business[j]
    BY <1>6, <1>14 DEF Follows
  <2>3. ExecTypeOK'
    BY <1>1, <1>6, <2>1, Zenon DEF ExecTypeOK
  <2>4. RunInv(j)'
    <3>1. \A m \in Tokens : SameWork(attempt[j][m], attempt'[j][m])
      BY <2>1 DEF SameWork
    <3>2. handler'[j] = handler[j] /\ job'[j].generation = r.generation
      BY <1>5, <1>6, Zenon
    <3> QED BY <1>4, <1>6, <1>7, <1>8, <2>1, <2>2, <2>3, <3>1, <3>2, SettleRun, Zenon
  <2> QED BY <1>6, <1>8, <2>1, <2>3, <2>4, OtherRuns, Zenon
<1> QED BY <1>5, <1>12, <1>13, <1>14

-----------------------------------------------------------------------------
(* The theorems *)

(* Nothing has happened yet.                                               *)
LEMMA ExecInitInv == ExecInit => ExecInv
<1> SUFFICES ASSUME ExecInit PROVE ExecInv
  OBVIOUS
<1>1. IInv /\ Init
  BY InitInv DEF ExecInit
<1>2. ExecTypeOK
  BY NullExecTypes, BoundsAssumption, OutagesAssumption DEF ExecInit, ExecTypeOK
<1>3. NoClaim.phase = "none"
  BY DEF NoClaim
<1>4. ASSUME NEW j \in Jobs PROVE RunInv(j)
  <2>1. /\ job[j] = AbsentRow /\ business[j] = "ABSENT" /\ final[j] = 0
        /\ \A n \in Tokens : /\ attempt[j][n] = NoAttempt /\ handler[j][n] = NoHandler
                             /\ claim[j][n] = NoClaim
    BY <1>1 DEF Init, ExecInit
  <2>2. FinalOK(job[j], business[j], final[j], attempt[j])
    BY <2>1, Zenon DEF FinalOK
  <2>3. ASSUME NEW n \in Tokens
        PROVE  AttemptOK(job[j], business[j], claims[j], n, attempt[j][n])
    BY <2>1, NoAttemptFields, Zenon DEF AttemptOK, Dangling
  <2>4. ASSUME NEW n \in Tokens
        PROVE  HandlerOK(job[j], n, claim[j][n], handler[j][n], attempt[j][n])
    BY <1>3, <2>1, NoAttemptFields, Zenon DEF HandlerOK, Dangling
  <2>5. ASSUME NEW m \in Tokens, NEW n \in Tokens
        PROVE  ReplayOK(job[j], n, claim[j][n], handler[j][n], attempt[j][m], attempt[j][n])
    BY <1>3, <2>1, NoAttemptFields, Zenon DEF ReplayOK
  <2> QED BY <2>2, <2>3, <2>4, <2>5, Zenon DEF RunInv
<1> QED BY <1>1, <1>2, <1>4 DEF ExecInv

(* Every step of the composed system keeps the inductive invariant.        *)
LEMMA ExecNextInv == ExecInv /\ [ExecNext]_allVars => ExecInv'
<1> SUFFICES ASSUME ExecInv, [ExecNext]_allVars PROVE ExecInv'
  OBVIOUS
<1>0. IInv' /\ \A j \in Jobs : RowKeeps(job[j], job'[j], claims[j], claims'[j])
  BY QueueInvKept, Zenon
<1>1. CASE UNCHANGED allVars
  <2>1. UNCHANGED <<job, business, claims, claim, final, attempt, handler, outages>>
    BY <1>1 DEF allVars, vars, execVars
  <2>2. ExecTypeOK'
    BY <2>1 DEF ExecInv, ExecTypeOK
  <2>3. ASSUME NEW k \in Jobs PROVE RunInv(k)'
    BY <2>1, SameRun DEF ExecInv
  <2> QED BY <1>0, <2>2, <2>3 DEF ExecInv
<1>2. CASE ExecNext /\ QueueStep
  <2>1. HandlersFollow /\ UNCHANGED <<attempt, final, outages>>
    BY <1>2 DEF QueueStep
  <2> QED BY <1>0, <1>2, <2>1, QueueInv
<1>3. ASSUME NEW j \in Jobs, RetryRun(j) PROVE ExecInv'
  BY <1>0, <1>3, RetryRunInv, Zenon
<1>4. ASSUME NEW j \in Jobs, NEW n \in Tokens, NEW acknowledged \in BOOLEAN,
             FinalizeJob(j, n, acknowledged)
      PROVE  ExecInv'
  BY <1>4, FinalizeJobInv, Zenon
<1>5. ASSUME NEW S \in SUBSET Jobs, Reap(S) PROVE ExecInv'
  BY <1>0, <1>5, ReapStep, LeastNumber, Zenon
<1>6. ASSUME NEW j \in Jobs, NEW n \in Tokens, Execute(j, n) \/ RecoverStaleAttempt(j, n)
      PROVE  ExecInv'
  BY <1>0, <1>6, ExecuteInv, RecoverInv, Zenon
<1> QED BY <1>1, <1>2, <1>3, <1>4, <1>5, <1>6 DEF ExecNext

(* ExecInv holds in every reachable state.                                 *)
THEOREM ExecInvariance == ExecSpec => []ExecInv
BY ExecInitInv, ExecNextInv, PTL DEF ExecSpec

(* DiagnosisJobHandler.Execute, its store, the reaper's and the sweeper's  *)
(* work on attempts implement the abstract handler of the job queue: every *)
(* theorem about AnalysisJobs holds of the composed system.                *)
THEOREM ImplementsJobs == ExecSpec => RefinesJobs
<1>1. ExecInit => Init
  BY DEF ExecInit
<1>2. ExecInv /\ [ExecNext]_allVars => [Next]_vars
  BY ExecStepRefines
<1> QED BY <1>1, <1>2, ExecInvariance, PTL DEF ExecSpec, RefinesJobs, Spec

(* Whatever Execute returns, and has written by then, is what executeJob   *)
(* expects of a handler.                                                   *)
THEOREM HandlerContractKept == ExecSpec => KeepsHandlerContract
<1> DEFINE Kept == \A j \in Jobs, n \in Tokens :
             claim[j][n].phase = "running" /\ claim'[j][n].phase = "returned" => Handler(j, n)
<1>1. ASSUME ExecInv, [ExecNext]_allVars, NEW j \in Jobs, NEW n \in Tokens,
             claim[j][n].phase = "running", claim'[j][n].phase = "returned"
      PROVE  Handler(j, n)
  <2>0. TypeOK
    BY <1>1 DEF ExecInv, IInv
  <2>1. claim' # claim
    BY <1>1
  <2>2. CASE QueueStep
    <3>1. Proceeds(claim[j][n], claim'[j][n], attempt[j][n])
      BY <1>1, <2>2, QueueProceeds
    <3> QED BY <1>1, <3>1 DEF Proceeds
  <2>3. ASSUME NEW k \in Jobs, NEW m \in Tokens, Execute(k, m) PROVE Handler(j, n)
    <3>1. Handler(k, m)
      BY <1>1, <2>1, <2>3, ExecuteRefines DEF vars
    <3>2. UNCHANGED claim \/ \E d : SetClaim(k, m, d)
      BY <3>1, Zenon DEF Handler, HandlerBegins, HandlerStops, HandlerFails, HandlerFinalizationFails,
                  HandlerFinalizes, HandlerCommits, HandlerReturns
    <3>3. PICK d : SetClaim(k, m, d)
      BY <2>1, <3>2
    <3>4. k = j /\ m = n
      BY <1>1, <3>3, OneClaim
    <3> QED BY <3>1, <3>4
  <2>4. ASSUME NEW k \in Jobs, NEW m \in Tokens, NEW acknowledged \in BOOLEAN,
               FinalizeJob(k, m, acknowledged)
        PROVE  FALSE
    <3>1. Gone(k, m)
      BY <2>1, <2>4 DEF FinalizeJob, Finalize
    <3>2. claim'[j][n] = claim[j][n] \/ claim'[j][n] = NoClaim
      BY <1>1, <3>1, OneClaim DEF Gone
    <3> QED BY <1>1, <3>2 DEF NoClaim
  <2>5. ASSUME NEW k \in Jobs, RetryRun(k) PROVE UNCHANGED claim
    BY <2>5 DEF RetryRun, RetryDiagnosis, RestartGeneration
  <2>6. ASSUME NEW S \in SUBSET Jobs, Reap(S) PROVE UNCHANGED claim
    BY <2>6, Zenon DEF Reap, ReapExpiredJobs
  <2>7. ASSUME NEW k \in Jobs, NEW m \in Tokens, RecoverStaleAttempt(k, m) PROVE UNCHANGED claim
    BY <2>7 DEF RecoverStaleAttempt, vars
  <2>8. CASE UNCHANGED allVars
    BY <2>1, <2>8 DEF allVars, vars
  <2> QED BY <1>1, <2>1, <2>2, <2>3, <2>4, <2>5, <2>6, <2>7, <2>8 DEF ExecNext
<1>2. ExecInv /\ [ExecNext]_allVars => [Kept]_allVars
  BY <1>1
<1> QED BY <1>2, ExecInvariance, PTL DEF ExecSpec, KeepsHandlerContract

(* Work the provider may have done is marked or checkpointed in the        *)
(* attempt's row, between any two statements of BeginProviderDispatch,     *)
(* GuardProvider and saveAttemptCheckpoint.                                *)
THEOREM WorkMarked == ExecSpec => []WorkIsMarked
<1>1. ExecInv => WorkIsMarked
  <2> SUFFICES ASSUME ExecInv, NEW j \in Jobs, NEW n \in Tokens, attempt[j][n].work # "none"
               PROVE  attempt[j][n].unresolved \/ attempt[j][n].ckpt \in FinalKind
    BY Zenon DEF WorkIsMarked
  <2> QED BY ExecUnfold, Zenon DEF AttemptOK
<1> QED BY <1>1, ExecInvariance, PTL

(* The reaper, the retries of the queue and the resumption from            *)
(* checkpoints repeat provider work of a generation only after a           *)
(* checkpoint of it could not be saved.                                    *)
THEOREM ReplayOnlyAfterLostCheckpoint == ExecSpec => []ReplayNeedsLostCheckpoint
<1>1. ExecInv => ReplayNeedsLostCheckpoint
  <2> SUFFICES ASSUME ExecInv, NEW j \in Jobs, NEW m \in Tokens, NEW n \in Tokens,
                      Replayed(j, m, n)
               PROVE  attempt[j][m].unsaved
    BY DEF ReplayNeedsLostCheckpoint
  <2>1. m # n
    BY DEF Replayed
  <2>2. ReplayOK(job[j], n, claim[j][n], handler[j][n], attempt[j][m], attempt[j][n])
    BY <2>1, Zenon DEF ExecInv, RunInv
  <2> QED BY <2>2 DEF ReplayOK, Replayed
<1> QED BY <1>1, ExecInvariance, PTL

(* Whichever of the transactions set final_attempt_id, it names a closed   *)
(* attempt of the job's generation that agrees with the run.               *)
THEOREM FinalAgrees == ExecSpec => []FinalAttemptAgrees
<1>1. ExecInv => FinalAttemptAgrees
  BY Zenon DEF ExecInv, RunInv, FinalOK, FinalAttemptAgrees
<1> QED BY <1>1, ExecInvariance, PTL

(* FinalizeSuccess commits only what SaveAttemptCheckpoint has stored as a *)
(* valid report, with the dispatch marker resolved.                        *)
THEOREM SuccessIsCheckpointed == ExecSpec => []SuccessCheckpointed
<1>1. ExecInv => SuccessCheckpointed
  BY Zenon DEF ExecInv, RunInv, FinalOK, SuccessCheckpointed
<1> QED BY <1>1, ExecInvariance, PTL

(* The rows a and e of an attempt before and after a step that may write   *)
(* an open attempt only, and s, its job's status after it.                 *)
StaysClosed(a, e, s) ==
  a.status \notin {"none", "RUNNING"} =>
    /\ e.ckpt = a.ckpt
    /\ e.status = a.status \/ (a.status = "ABANDONED" /\ e.status = "FAILED_TERMINAL" /\ s = "FAILED")

(* What a handler writes to its own attempt: anything while the lock finds *)
(* the attempt RUNNING or before it exists; otherwise only what the        *)
(* columns of a closed attempt do not show.                                *)
LEMMA HandlerWrites ==
  ASSUME ExecInv, NEW j \in Jobs, NEW n \in Tokens, Execute(j, n)
  PROVE  \/ UNCHANGED attempt
         \/ \E e : /\ SetAttempt(j, n, e)
                   /\ \/ attempt[j][n].status \in {"none", "RUNNING"}
                      \/ e.ckpt = attempt[j][n].ckpt /\ e.status = attempt[j][n].status
<1> DEFINE a == attempt[j][n]
           Goal == \/ UNCHANGED attempt
                   \/ \E e : /\ SetAttempt(j, n, e)
                             /\ \/ a.status \in {"none", "RUNNING"}
                                \/ e.ckpt = a.ckpt /\ e.status = a.status
<1>1. a \in AttemptRow /\ HandlerOK(job[j], n, claim[j][n], handler[j][n], a)
  BY ExecUnfold, Zenon
<1>2. /\ \A cancellation \in BOOLEAN : Lock(j, n, cancellation) = "ok" => a.status = "RUNNING"
      /\ LiveLock(j, n) = "ok" => a.status = "RUNNING"
  BY LockAnswers, Zenon DEF StillRunning, LiveLock
<1>3. ASSUME NEW e, SetAttempt(j, n, e), a.status \in {"none", "RUNNING"} PROVE Goal
  BY <1>3, Zenon
<1>4. CASE UNCHANGED attempt
  BY <1>4, Zenon
<1>5. ASSUME NEW e, SetAttempt(j, n, e), e.ckpt = a.ckpt, e.status = a.status PROVE Goal
  BY <1>5
<1>6. CASE SetAttempt(j, n, [a EXCEPT !.unsaved = TRUE])
  <2> DEFINE e == [a EXCEPT !.unsaved = TRUE]
  <2>1. e.ckpt = a.ckpt /\ e.status = a.status /\ SetAttempt(j, n, e)
    BY <1>1, <1>6 DEF AttemptRow
  <2> HIDE DEF e
  <2> QED BY <2>1
<1> HIDE DEF Goal
<1>7. CASE \/ LoadRun(j, n) \/ StartAttemptRefused(j, n) \/ StartAttemptFails(j, n)
           \/ LoadCheckpoint(j, n) \/ ExecutorReturns(j, n) \/ VerifyDispatch(j, n) \/ Decide(j, n)
  <2>1. UNCHANGED attempt
    BY <1>7, Zenon DEF LoadRun, StartAttemptRefused, StartAttemptFails, LoadCheckpoint, ExecutorReturns,
                VerifyDispatch, Decide
  <2> QED BY <1>4, <2>1
<1>8. ASSUME NEW acknowledged \in BOOLEAN, StartAttempt(j, n, acknowledged) PROVE Goal
  <2>1. a.status = "none"
    BY <1>1, <1>8 DEF StartAttempt, At, Phased, HandlerOK
  <2>2. \E e : SetAttempt(j, n, e)
    BY <1>8 DEF StartAttempt
  <2> QED BY <1>3, <2>1, <2>2
<1>9. CASE MarkDispatch(j, n)
  <2>1. UNCHANGED attempt \/ (a.status = "RUNNING" /\ \E e : SetAttempt(j, n, e))
    BY <1>2, <1>9 DEF MarkDispatch
  <2> QED BY <1>3, <1>4, <2>1
<1>10. CASE AuthorizeDispatch(j, n)
  <2>1. UNCHANGED attempt \/ (a.status = "RUNNING" /\ \E e : SetAttempt(j, n, e))
    BY <1>2, <1>10 DEF AuthorizeDispatch
  <2> QED BY <1>3, <1>4, <2>1
<1>11. CASE ProviderCall(j, n)
  <2>1. \E w : SetAttempt(j, n, [a EXCEPT !.work = w])
    BY <1>11, Zenon DEF ProviderCall
  <2>2. \A w : [a EXCEPT !.work = w].ckpt = a.ckpt /\ [a EXCEPT !.work = w].status = a.status
    BY <1>1 DEF AttemptRow
  <2>3. PICK w : SetAttempt(j, n, [a EXCEPT !.work = w])
    BY <2>1, Zenon
  <2> DEFINE e == [a EXCEPT !.work = w]
  <2>4. SetAttempt(j, n, e) /\ e.ckpt = a.ckpt /\ e.status = a.status
    BY <2>2, <2>3
  <2> HIDE DEF e
  <2> QED BY <1>5, <2>4
<1>12. CASE RecordSuccess(j, n)
  <2>1. UNCHANGED attempt \/ (a.status = "RUNNING" /\ \E e : SetAttempt(j, n, e))
    BY <1>2, <1>12 DEF RecordSuccess
  <2> QED BY <1>3, <1>4, <2>1
<1>13. CASE RecordDefiniteFailure(j, n)
  <2>1. UNCHANGED attempt \/ (a.status = "RUNNING" /\ \E e : SetAttempt(j, n, e))
    BY <1>2, <1>13 DEF RecordDefiniteFailure
  <2> QED BY <1>3, <1>4, <2>1
<1>14. CASE SaveCheckpoint(j, n)
  <2>1. \/ SetAttempt(j, n, [a EXCEPT !.unsaved = TRUE])
        \/ a.status = "RUNNING" /\ \E e : SetAttempt(j, n, e)
    BY <1>2, <1>14 DEF SaveCheckpoint
  <2> QED BY <1>3, <1>6, <2>1
<1>15. CASE FinalizeSuccess(j, n) \/ FinalizeFailure(j, n) \/ FinalizeCancellation(j, n)
            \/ FinalizeRetryable(j, n)
  <2>1. UNCHANGED attempt \/ (a.status = "RUNNING" /\ \E e : SetAttempt(j, n, e))
    BY <1>2, <1>15, Zenon DEF FinalizeSuccess, FinalizeFailure, FinalizeCancellation, FinalizeRetryable,
                       Closes, Refused
  <2> QED BY <1>3, <1>4, <2>1
<1> QED BY <1>7, <1>8, <1>9, <1>10, <1>11, <1>12, <1>13, <1>14, <1>15, Zenon DEF Execute, Goal

(* An attempt the store or the reaper ends was RUNNING, or is one the      *)
(* reaper fails on account of its marker.                                  *)
LEMMA EndedStays ==
  ASSUME ExecInv, NEW j \in Jobs, NEW S, NEW status, NEW n \in Tokens
  PROVE  StaysClosed(attempt[j][n], Ended(j, S, status)[n], job'[j].status)
BY DEF Ended, StaysClosed

LEMMA ReapedStays ==
  ASSUME ExecInv, NEW j \in Jobs, NEW n \in Tokens, job[j].status = "RUNNING",
         job'[j] = Reaped(job[j], OutcomeUnknown(j) # {})
  PROVE  StaysClosed(attempt[j][n], ReapedAttempts(j)[n], job'[j].status)
<1> DEFINE a == attempt[j][n]
           e == ReapedAttempts(j)[n]
<1>1. /\ job'[j].status \in {"CANCELLED", "PENDING", "RETRY_WAIT", "FAILED"}
      /\ SameWork(a, e) /\ a \in AttemptRow
  BY ReapedRun, LeastNumber, ExecUnfold, Zenon
<1>2. CASE job'[j].status # "FAILED" \/ OutcomeUnknown(j) = {}
  <2>1. \/ ReapedAttempts(j) = attempt[j]
        \/ \E S : ReapedAttempts(j) = Ended(j, S, "ABANDONED")
    BY <1>1, <1>2 DEF ReapedAttempts
  <2>2. CASE ReapedAttempts(j) = attempt[j]
    BY <2>2 DEF StaysClosed
  <2> QED BY <2>1, <2>2, EndedStays
<1>3. CASE job'[j].status = "FAILED" /\ OutcomeUnknown(j) # {}
  <2>1. e = IF n \in OutcomeUnknown(j) THEN [a EXCEPT !.status = "FAILED_TERMINAL"] ELSE a
    BY <1>3 DEF ReapedAttempts
  <2>2. n \in OutcomeUnknown(j) => a.status \in {"RUNNING", "ABANDONED"}
    BY DEF OutcomeUnknown
  <2> QED BY <1>1, <1>3, <2>1, <2>2 DEF StaysClosed, AttemptRow
<1> QED BY <1>2, <1>3

(* No statement of the store, the reaper, the sweeper or a handler that    *)
(* outlived its claim touches the status or the checkpoint of a closed     *)
(* attempt, except that ReapExpiredJobs fails an abandoned one.            *)
THEOREM ClosedStay == ExecSpec => ClosedAttemptsStay
<1> DEFINE Stay == \A j \in Jobs, n \in Tokens :
       attempt[j][n].status \notin {"none", "RUNNING"} =>
         /\ attempt'[j][n].ckpt = attempt[j][n].ckpt
         /\ \/ attempt'[j][n].status = attempt[j][n].status
            \/ /\ attempt[j][n].status = "ABANDONED"
               /\ attempt'[j][n].status = "FAILED_TERMINAL"
               /\ job'[j].status = "FAILED"
<1>1. ASSUME ExecInv, [ExecNext]_allVars, NEW j \in Jobs, NEW n \in Tokens
      PROVE  StaysClosed(attempt[j][n], attempt'[j][n], job'[j].status)
  <2>0. ExecTypeOK
    BY <1>1 DEF ExecInv
  <2>1. CASE attempt'[j][n] = attempt[j][n]
    BY <2>1 DEF StaysClosed
  <2>2. ASSUME NEW k \in Jobs, NEW m \in Tokens, NEW e, SetAttempt(k, m, e)
        PROVE  attempt'[j][n] = IF j = k /\ n = m THEN e ELSE attempt[j][n]
    BY <2>0, <2>2 DEF ExecTypeOK, SetAttempt
  <2>3. ASSUME NEW k \in Jobs, NEW m \in Tokens, Execute(k, m)
        PROVE  StaysClosed(attempt[j][n], attempt'[j][n], job'[j].status)
    <3>1. CASE UNCHANGED attempt
      BY <2>1, <3>1
    <3>2. CASE \E e : /\ SetAttempt(k, m, e)
                      /\ \/ attempt[k][m].status \in {"none", "RUNNING"}
                         \/ e.ckpt = attempt[k][m].ckpt /\ e.status = attempt[k][m].status
      <4>1. PICK e : /\ SetAttempt(k, m, e)
                     /\ \/ attempt[k][m].status \in {"none", "RUNNING"}
                        \/ e.ckpt = attempt[k][m].ckpt /\ e.status = attempt[k][m].status
        BY <3>2
      <4>2. attempt'[j][n] = IF j = k /\ n = m THEN e ELSE attempt[j][n]
        BY <2>2, <4>1
      <4> QED BY <4>1, <4>2 DEF StaysClosed
    <3> QED BY <1>1, <2>3, <3>1, <3>2, HandlerWrites
  <2>4. ASSUME NEW k \in Jobs, NEW m \in Tokens, RecoverStaleAttempt(k, m)
        PROVE  StaysClosed(attempt[j][n], attempt'[j][n], job'[j].status)
    <3>1. attempt[k][m].status = "RUNNING" /\ \E e : SetAttempt(k, m, e)
      BY <2>4 DEF RecoverStaleAttempt
    <3>2. attempt'[j][n] = attempt[j][n] \/ attempt[j][n].status = "RUNNING"
      BY <2>2, <3>1
    <3> QED BY <3>2 DEF StaysClosed
  <2>5. ASSUME NEW k \in Jobs, NEW m \in Tokens, NEW acknowledged \in BOOLEAN,
               FinalizeJob(k, m, acknowledged)
        PROVE  StaysClosed(attempt[j][n], attempt'[j][n], job'[j].status)
    <3>1. \/ UNCHANGED attempt
          \/ \E S, status : attempt' = [attempt EXCEPT ![k] = Ended(k, S, status)]
      BY <2>5 DEF FinalizeJob
    <3>2. \/ attempt'[j][n] = attempt[j][n]
          \/ \E S, status : attempt'[j][n] = Ended(j, S, status)[n]
      BY <2>0, <3>1 DEF ExecTypeOK
    <3> QED BY <1>1, <2>1, <3>2, EndedStays
  <2>6. ASSUME NEW S \in SUBSET Jobs, Reap(S)
        PROVE  StaysClosed(attempt[j][n], attempt'[j][n], job'[j].status)
    <3>1. attempt'[j] = IF j \in S THEN ReapedAttempts(j) ELSE attempt[j]
      BY <2>6 DEF Reap
    <3>2. j \in S => job[j].status = "RUNNING" /\ job'[j] = Reaped(job[j], OutcomeUnknown(j) # {})
      BY <2>6, ReapWrites, Zenon
    <3> QED BY <1>1, <2>1, <3>1, <3>2, ReapedStays
  <2>7. QueueStep \/ (\E k \in Jobs : RetryRun(k)) \/ UNCHANGED allVars => UNCHANGED attempt
    BY DEF QueueStep, RetryRun, allVars, execVars
  <2> QED BY <1>1, <2>1, <2>3, <2>4, <2>5, <2>6, <2>7 DEF ExecNext
<1>2. ExecInv /\ [ExecNext]_allVars => [Stay]_allVars
  BY <1>1 DEF StaysClosed
<1> QED BY <1>2, ExecInvariance, PTL DEF ExecSpec, ClosedAttemptsStay

=============================================================================

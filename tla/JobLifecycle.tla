------------------------------ MODULE JobLifecycle ------------------------------
(***************************************************************************)
(* What one analysis_jobs row promises its readers (internal/jobs/model.go *)
(* and the API's status responses), with no worker, claim, lease or        *)
(* database fault in sight: the status diagram, the generation, the        *)
(* attempts charged and the cancellation flag.  AnalysisJobs implements it *)
(* for every job.                                                          *)
(***************************************************************************)
EXTENDS Integers

CONSTANTS MaxAttempts, MaxGeneration

VARIABLES status, generation, attempts, started, cancel

vars == <<status, generation, attempts, started, cancel>>

Waiting == {"PENDING", "RETRY_WAIT"}
Executing == status = "RUNNING" /\ started /\ ~cancel

Init ==
  /\ status = "ABSENT" /\ generation = 1 /\ attempts = 0
  /\ started = FALSE /\ cancel = FALSE

Becomes(s) == status' = s /\ UNCHANGED <<generation, attempts, started, cancel>>

Create == status = "ABSENT" /\ Becomes("PENDING")

Claim ==
  /\ status \in Waiting
  /\ status' = "RUNNING" /\ started' = FALSE
  /\ UNCHANGED <<generation, attempts, cancel>>

(* The start boundary charges one attempt, and there is one left.          *)
Start ==
  /\ status = "RUNNING" /\ ~started /\ attempts < MaxAttempts
  /\ started' = TRUE /\ attempts' = attempts + 1
  /\ UNCHANGED <<status, generation, cancel>>

PutBack == status = "RUNNING" /\ ~started /\ Becomes("PENDING")

Succeed == Executing /\ Becomes("SUCCEEDED")
Fail == Executing /\ Becomes("FAILED")
Retry == Executing /\ attempts < MaxAttempts /\ Becomes("RETRY_WAIT")

(* A waiting job is cancelled at once; a running one is flagged, and then  *)
(* can only end CANCELLED.                                                 *)
RequestCancel ==
  /\ status \in Waiting \cup {"RUNNING"}
  /\ status' = IF status = "RUNNING" THEN status ELSE "CANCELLED"
  /\ cancel' = TRUE
  /\ UNCHANGED <<generation, attempts, started>>

Cancel == status = "RUNNING" /\ cancel /\ Becomes("CANCELLED")

(* An explicit retry: a new generation with every attempt available.       *)
Requeue ==
  /\ status = "FAILED" /\ generation < MaxGeneration
  /\ status' = "PENDING" /\ generation' = generation + 1
  /\ attempts' = 0 /\ started' = FALSE /\ cancel' = FALSE

Next ==
  \/ Create \/ Claim \/ Start \/ PutBack \/ Succeed \/ Fail \/ Retry
  \/ RequestCancel \/ Cancel \/ Requeue

Spec == Init /\ [][Next]_vars

=============================================================================

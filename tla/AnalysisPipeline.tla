--------------------------- MODULE AnalysisPipeline ---------------------------
(***************************************************************************)
(* The preparation of one AnalysisRevision (internal/analysispipeline): a  *)
(* snapshot of the repository, a code index of the snapshot and a          *)
(* retrieval index of the code index, each built by a job of its own       *)
(* (internal/indexing, internal/codeintel, internal/retrieval).            *)
(*                                                                         *)
(* The revision row, the three resource rows and the three job rows are    *)
(* changed by API requests, by the claim loop and the reaper, and by       *)
(* handlers that may still be running long after their lease was taken     *)
(* away.  A handler reads and marks its resource without the claim fence;  *)
(* only the transaction that publishes its result is fenced, and that one  *)
(* transaction also creates the next stage and moves the revision.         *)
(*                                                                         *)
(* Abstracted: the leases, start boundary and finalizer of a claim are the *)
(* subject of AnalysisJobs, so here a claim and its start are one step and *)
(* an expired lease is a reaper step enabled whenever a job runs.  Source  *)
(* trees, symbols and index artifacts are named by the claim that produced *)
(* them, which is how the code names their directories.  Rows that do not  *)
(* belong to a revision (the legacy flow) are not modelled.                *)
(***************************************************************************)
EXTENDS Integers, FiniteSets

CONSTANTS
    MaxAttempts,    \* analysis_jobs.max_attempts
    MaxGeneration,  \* bound: generations a revision goes through
    MaxClaims,      \* bound: claims of one stage's job
    MaxLive         \* bound: handlers alive at once, stale ones included

ASSUME PipelineAssumption ==
    /\ MaxAttempts \in Nat \ {0}
    /\ MaxGeneration \in Nat \ {0}
    /\ MaxClaims \in Nat \ {0}
    /\ MaxLive \in Nat \ {0}

VARIABLES
    revision,   \* the analysis_revisions row
    build,      \* per stage: the snapshot, code index or retrieval build row
    job,        \* per stage: its analysis_jobs row
    claims,     \* per stage: claim tokens issued so far
    handler     \* per stage and claim: where its Execute is

vars == <<revision, build, job, claims, handler>>

Stages == {"snapshot", "code", "retrieval"}
Claims == 1 .. MaxClaims

\* The revision stage during which a stage's job runs.
StageName(s) ==
    CASE s = "snapshot"  -> "MATERIALIZING"
      [] s = "code"      -> "BUILDING_CODE_INDEX"
      [] s = "retrieval" -> "BUILDING_RETRIEVAL"

StageNames == {"MATERIALIZING", "BUILDING_CODE_INDEX", "BUILDING_RETRIEVAL", "READY"}

\* WORKING stands for a snapshot's MATERIALIZING and a build's BUILDING.
BuildStatuses == {"ABSENT", "CREATED", "WORKING", "READY", "FAILED"}

\* "by" is the claim whose output the row publishes, "from" the claim whose
\* output that one was computed from; 0 is none.
Builds == [status : BuildStatuses, by : 0 .. MaxClaims, from : 0 .. MaxClaims]

Jobs == [status     : {"ABSENT", "PENDING", "RUNNING", "RETRY_WAIT", "SUCCEEDED", "FAILED"},
         generation : 0 .. MaxGeneration,
         attempts   : 0 .. MaxAttempts,
         claim      : 0 .. MaxClaims]

Handlers == [at   : {"idle", "loading", "parent", "marking", "reading", "working",
                     "finalizing", "succeeding", "retryable", "permanent", "done"},
             from : 0 .. MaxClaims]

NoBuild == [status |-> "ABSENT", by |-> 0, from |-> 0]
NoJob == [status |-> "ABSENT", generation |-> 0, attempts |-> 0, claim |-> 0]

\* A pending job row as every creator of one writes it.
NewJob(g) == [status |-> "PENDING", generation |-> g, attempts |-> 0, claim |-> 0]

NewBuild(status) == [status |-> status, by |-> 0, from |-> 0]

Live(s, n) == handler[s][n].at \notin {"idle", "done"}

\* Mutant: the claim token is not compared.
Owned_anyClaim(s, n) == job[s].status = "RUNNING"

\* The fence of every publishing and finalizing transaction: the row is still
\* RUNNING under this claim.
Owned(s, n) == job[s].status = "RUNNING" /\ job[s].claim = n

Init ==
    /\ revision = [status |-> "NONE", stage |-> "MATERIALIZING", generation |-> 0]
    /\ build = [s \in Stages |-> NoBuild]
    /\ job = [s \in Stages |-> NoJob]
    /\ claims = [s \in Stages |-> 0]
    /\ handler = [s \in Stages |-> [n \in Claims |-> [at |-> "idle", from |-> 0]]]

-----------------------------------------------------------------------------
(* Requests.                                                               *)

\* The revision, its snapshot and the snapshot's job in one transaction.  The
\* unique identity of a revision makes a second creation fail, and the losing
\* request returns the winner.
CreatePreparation ==
    /\ revision.status = "NONE"
    /\ revision' = [status |-> "PREPARING", stage |-> "MATERIALIZING", generation |-> 1]
    /\ build' = [build EXCEPT !["snapshot"] = NewBuild("WORKING")]
    /\ job' = [job EXCEPT !["snapshot"] = NewJob(1)]
    /\ UNCHANGED <<claims, handler>>

\* The first stage that is not READY, which a retry starts again; an absent
\* build has never been linked to the revision.
FirstUnready(b) ==
    CASE b["snapshot"].status # "READY"  -> "snapshot"
      [] b["snapshot"].status = "READY" /\ b["code"].status # "READY" -> "code"
      [] OTHER -> "retrieval"

\* resetJobTx overwrites the row whatever its state, or inserts it.
resetJobTx(s, g) == [job EXCEPT ![s] = NewJob(g)]

\* Mutant: only the snapshot's row is reset, not a failed build.
resetBuilds_snapshotOnly(s) ==
    [build EXCEPT !["snapshot"].status = IF s = "snapshot" THEN "WORKING" ELSE @]

\* A snapshot goes back to MATERIALIZING and takes every linked build behind
\* it back to CREATED; a code or retrieval build goes back to CREATED alone.
resetBuilds(s) ==
    [t \in Stages |->
        CASE t = s /\ s = "snapshot" -> [build[t] EXCEPT !.status = "WORKING"]
          [] t = s /\ s = "code"     -> [build[t] EXCEPT !.status = "CREATED"]
          [] t = s /\ s = "retrieval" -> NewBuild("CREATED")
          [] t = "code" /\ s = "snapshot" /\ build[t].status # "ABSENT" ->
                [build[t] EXCEPT !.status = "CREATED"]
          [] t = "retrieval" /\ s = "snapshot" /\ build[t].status # "ABSENT" ->
                NewBuild("CREATED")
          [] OTHER -> build[t]]

\* Mutant: the stage written with the new generation is not moved on to the
\* stage that restarts.
RetryPreparation_firstStage ==
    /\ revision.status = "FAILED"
    /\ revision.generation < MaxGeneration
    /\ revision' = [status |-> "PREPARING", stage |-> "MATERIALIZING",
                    generation |-> revision.generation + 1]
    /\ build' = resetBuilds(FirstUnready(build))
    /\ job' = resetJobTx(FirstUnready(build), revision.generation + 1)
    /\ UNCHANGED <<claims, handler>>

\* Mutant: a revision that is still preparing can be retried as well.
RetryPreparation_anyTime ==
    /\ revision.status \in {"FAILED", "PREPARING"}
    /\ revision.generation < MaxGeneration
    /\ LET s == FirstUnready(build)
       IN  /\ revision' = [status |-> "PREPARING", stage |-> StageName(s),
                           generation |-> revision.generation + 1]
           /\ build' = resetBuilds(s)
           /\ job' = resetJobTx(s, revision.generation + 1)
    /\ UNCHANGED <<claims, handler>>

\* RetryPreparation: only a FAILED revision, whose row it locks first.
RetryPreparation ==
    /\ revision.status = "FAILED"
    /\ revision.generation < MaxGeneration
    /\ LET g == revision.generation + 1
           s == FirstUnready(build)
       IN  IF build[s].status = "READY"
           THEN /\ revision' = [status |-> "READY", stage |-> "READY", generation |-> g]
                /\ UNCHANGED <<build, job>>
           ELSE /\ revision' = [status |-> "PREPARING", stage |-> StageName(s), generation |-> g]
                /\ build' = resetBuilds(s)
                /\ job' = resetJobTx(s, g)
    /\ UNCHANGED <<claims, handler>>

-----------------------------------------------------------------------------
(* Jobs.                                                                   *)

\* ClaimJobs followed by MarkExecutionStarted: a fresh token, the attempt
\* charged, and the handler entered.
Claim(s) ==
    /\ job[s].status \in {"PENDING", "RETRY_WAIT"}
    /\ claims[s] < MaxClaims
    /\ Cardinality({c \in Stages \X Claims : Live(c[1], c[2])}) < MaxLive
    /\ claims' = [claims EXCEPT ![s] = @ + 1]
    /\ job' = [job EXCEPT ![s] = [job[s] EXCEPT !.status = "RUNNING",
                                                !.attempts = job[s].attempts + 1,
                                                !.claim = claims[s] + 1]]
    /\ handler' = [handler EXCEPT ![s][claims[s] + 1].at = "loading"]
    /\ UNCHANGED <<revision, build>>

\* failBusinessTx and failAnalysisRevisionTx accept the terminal failure of a
\* stage's job: its resource is open, or FAILED already, and the revision is
\* in this stage.
FailureAccepted(s) ==
    /\ build[s].status \in {"CREATED", "WORKING", "FAILED"}
    /\ revision.status \in {"PREPARING", "FAILED"}
    /\ revision.stage = StageName(s)

\* Job, resource and revision fail in one transaction.
FailStage(s) ==
    /\ FailureAccepted(s)
    /\ job' = [job EXCEPT ![s].status = "FAILED"]
    /\ build' = [build EXCEPT ![s].status = "FAILED"]
    /\ revision' = [revision EXCEPT !.status = "FAILED"]

\* The job waits for its next attempt; resource and revision are left alone.
RetryLater(s) ==
    /\ job' = [job EXCEPT ![s].status = "RETRY_WAIT"]
    /\ UNCHANGED <<build, revision>>

\* Mutant: the reaper skips a job on its last attempt.
Reap_notLast(s) ==
    /\ job[s].status = "RUNNING"
    /\ job[s].attempts < MaxAttempts
    /\ RetryLater(s)
    /\ UNCHANGED <<claims, handler>>

\* The reaper takes a job whose lease ran out, whether its handler died or
\* merely stalled.
Reap(s) ==
    /\ job[s].status = "RUNNING"
    /\ IF job[s].attempts < MaxAttempts THEN RetryLater(s) ELSE FailStage(s)
    /\ UNCHANGED <<claims, handler>>

-----------------------------------------------------------------------------
(* Handlers.  Goto leaves every row alone.                                 *)

Goto(s, n, at) ==
    /\ handler' = [handler EXCEPT ![s][n].at = at]
    /\ UNCHANGED <<revision, build, job, claims>>

\* Execute loads its resource.  One that is READY already needs nothing; a
\* snapshot is marked only when it was loaded as CREATED.
Load(s, n) ==
    /\ handler[s][n].at = "loading"
    /\ LET status == build[s].status
       IN  Goto(s, n,
             CASE status = "READY" -> "succeeding"
               [] status # "READY" /\ s = "snapshot" ->
                    IF status = "CREATED" THEN "marking" ELSE "working"
               [] status # "READY" /\ s = "code" -> "marking"
               [] status # "READY" /\ s = "retrieval" -> "parent")

\* The retrieval handler looks at its code index before it marks anything.
CheckCodeIndex(n) ==
    /\ handler["retrieval"][n].at = "parent"
    /\ Goto("retrieval", n,
            IF build["code"].status = "READY" THEN "marking" ELSE "retryable")

\* Mutant: the row is marked whatever its state.
Mark_unconditional(s, n) ==
    /\ handler[s][n].at = "marking"
    /\ build' = [build EXCEPT ![s].status = "WORKING"]
    /\ handler' = [handler EXCEPT ![s][n].at = "reading"]
    /\ UNCHANGED <<revision, job, claims>>

\* MarkBuildBuilding and MarkRetrievalBuilding take a row that is CREATED or
\* BUILDING, UpdateStatus a snapshot that is CREATED.  There is no claim fence,
\* so a handler whose claim is gone can still do this to a row that was reset.
Mark(s, n) ==
    /\ handler[s][n].at = "marking"
    /\ IF build[s].status = "CREATED" \/ (s # "snapshot" /\ build[s].status = "WORKING")
       THEN /\ build' = [build EXCEPT ![s].status = "WORKING"]
            /\ handler' = [handler EXCEPT ![s][n].at = IF s = "snapshot" THEN "working" ELSE "reading"]
            /\ UNCHANGED <<revision, job, claims>>
       ELSE Goto(s, n, "retryable")

\* The handler checks that the snapshot is READY and takes its input from the
\* stage before it.
ReadInputs(s, n) ==
    /\ handler[s][n].at = "reading"
    /\ IF build["snapshot"].status = "READY"
       THEN /\ handler' = [handler EXCEPT ![s][n] =
                             [at |-> "working",
                              from |-> build[IF s = "code" THEN "snapshot" ELSE "code"].by]]
            /\ UNCHANGED <<revision, build, job, claims>>
       ELSE Goto(s, n, "retryable")

\* Cloning and sealing, analysing, or building and publishing the index: the
\* output goes to a place named after the claim, and may fail.
Work(s, n) ==
    /\ handler[s][n].at = "working"
    /\ \E at \in {"finalizing", "retryable", "permanent"} : Goto(s, n, at)

Published(s, n) == [build[s] EXCEPT !.status = "READY", !.by = n, !.from = handler[s][n].from]

\* What the publishing transaction of a stage asks of the other rows.
PublishAccepted(s) ==
    /\ build[s].status = "WORKING"
    /\ revision.status = "PREPARING"
    /\ s = "retrieval" => build["code"].status = "READY"

\* The stage's output, the next stage with its job unless they exist, the
\* revision's stage and the stage's own job, in one transaction.  g is the
\* generation of the new job.
HandOff(s, t, g, n) ==
    /\ build' = [build EXCEPT ![s] = Published(s, n),
                              ![t] = IF @.status = "ABSENT" THEN NewBuild("CREATED") ELSE @]
    /\ job' = [job EXCEPT ![s].status = "SUCCEEDED",
                          ![t] = IF @.status = "ABSENT" THEN NewJob(g) ELSE @]
    /\ revision' = [revision EXCEPT !.stage = StageName(t)]

\* FinalizeSnapshotSuccessWithRevision takes the generation of its own job,
\* FinalizeCodeIndexSuccessWithRevision that of the revision.
FinalizeSnapshot(n) == HandOff("snapshot", "code", job["snapshot"].generation, n)

FinalizeCodeIndex(n) == HandOff("code", "retrieval", revision.generation, n)

FinalizeRetrieval(n) ==
    /\ build' = [build EXCEPT !["retrieval"] = Published("retrieval", n)]
    /\ job' = [job EXCEPT !["retrieval"].status = "SUCCEEDED"]
    /\ revision' = [revision EXCEPT !.status = "READY", !.stage = "READY"]

PublishStage(s, n) ==
    /\ \/ s = "snapshot" /\ FinalizeSnapshot(n)
       \/ s = "code" /\ FinalizeCodeIndex(n)
       \/ s = "retrieval" /\ FinalizeRetrieval(n)
    /\ handler' = [handler EXCEPT ![s][n].at = "done"]
    /\ UNCHANGED claims

\* The publishing transaction of the handler's stage.  A claim that is gone
\* ends here; a refused transaction is reported as a retryable failure.
Publish(s, n) ==
    /\ handler[s][n].at = "finalizing"
    /\ IF ~Owned(s, n) THEN Goto(s, n, "done")
       ELSE IF PublishAccepted(s) THEN PublishStage(s, n)
       ELSE Goto(s, n, "retryable")

\* The publishing transaction rolls back on a database error.
PublishFails(s, n) ==
    /\ handler[s][n].at = "finalizing"
    /\ Goto(s, n, "retryable")

\* Execute returned nil without publishing: ConditionalFinalizeSuccess.
FinalizeSuccess(s, n) ==
    /\ handler[s][n].at = "succeeding"
    /\ IF Owned(s, n)
       THEN /\ job' = [job EXCEPT ![s].status = "SUCCEEDED"]
            /\ handler' = [handler EXCEPT ![s][n].at = "done"]
            /\ UNCHANGED <<revision, build, claims>>
       ELSE Goto(s, n, "done")

\* Execute returned an error: another attempt while there is one, else the
\* terminal failure of job, resource and revision.
FinalizeFailure(s, n) ==
    /\ handler[s][n].at \in {"retryable", "permanent"}
    /\ IF Owned(s, n)
       THEN /\ IF handler[s][n].at = "retryable" /\ job[s].attempts < MaxAttempts
               THEN RetryLater(s)
               ELSE FailStage(s)
            /\ handler' = [handler EXCEPT ![s][n].at = "done"]
            /\ UNCHANGED claims
       ELSE Goto(s, n, "done")

\* The worker process dies under the handler.
Die(s, n) == Live(s, n) /\ Goto(s, n, "done")

HandlerStep(s, n) ==
    \/ Load(s, n)
    \/ s = "retrieval" /\ CheckCodeIndex(n)
    \/ Mark(s, n)
    \/ ReadInputs(s, n)
    \/ Work(s, n)
    \/ Publish(s, n)
    \/ FinalizeSuccess(s, n)
    \/ FinalizeFailure(s, n)

Next ==
    \/ CreatePreparation
    \/ RetryPreparation
    \/ \E s \in Stages : Claim(s) \/ Reap(s)
    \/ \E s \in Stages, n \in Claims :
          HandlerStep(s, n) \/ PublishFails(s, n) \/ Die(s, n)

Spec == Init /\ [][Next]_vars

\* The claim loop and the reaper poll for ever, and a handler that is running
\* goes on or dies.  Git commands have a timeout; that database calls and
\* local work return is assumed.
Fairness ==
    /\ \A s \in Stages : WF_vars(Claim(s)) /\ WF_vars(Reap(s))
    /\ \A s \in Stages, n \in Claims : WF_vars(HandlerStep(s, n))

FairSpec == Spec /\ Fairness

-----------------------------------------------------------------------------
(* Properties.                                                             *)

\* The revision, the three resources, their jobs and the handlers have the
\* statuses and places the schema and the handlers know.
PipelineTypeOK ==
    /\ revision \in [status : {"NONE", "PREPARING", "READY", "FAILED"},
                     stage : StageNames, generation : 0 .. MaxGeneration]
    /\ build \in [Stages -> Builds]
    /\ job \in [Stages -> Jobs]
    /\ claims \in [Stages -> 0 .. MaxClaims]
    /\ handler \in [Stages -> [Claims -> Handlers]]

Before(s) ==
    CASE s = "snapshot" -> {} [] s = "code" -> {"snapshot"} [] s = "retrieval" -> {"snapshot", "code"}

\* A stage that is done: published by the claim that completed its job, from
\* the output its predecessor still publishes.
StageDone(s) ==
    /\ build[s].status = "READY" /\ job[s].status = "SUCCEEDED"
    /\ build[s].by = job[s].claim
    /\ s = "code" => build[s].from = build["snapshot"].by
    /\ s = "retrieval" => build[s].from = build["code"].by

StageAbsent(s) == build[s] = NoBuild /\ job[s] = NoJob

\* A revision that is preparing is in a stage that somebody will still finish:
\* everything before it is done, nothing behind it exists, and its own job is
\* live in the revision's generation with an open resource.  A crash, a reap
\* or a retry between any two steps never leaves it waiting for nobody.
PreparingHasWork ==
    revision.status = "PREPARING" =>
        \E s \in Stages :
            /\ revision.stage = StageName(s)
            /\ \A t \in Before(s) : StageDone(t)
            /\ \A t \in Stages \ (Before(s) \cup {s}) : StageAbsent(t)
            /\ job[s].status \in {"PENDING", "RUNNING", "RETRY_WAIT"}
            /\ job[s].generation = revision.generation
            /\ build[s].status \in {"CREATED", "WORKING"}

\* A READY revision names three READY resources, each published by the claim
\* that completed the stage's job and computed from the one before it, as
\* ResolveReadyLineage demands of what a diagnosis is pinned to.
ReadyLineage ==
    revision.status = "READY" => revision.stage = "READY" /\ \A s \in Stages : StageDone(s)

\* A FAILED revision can be retried: the stage it names has a FAILED resource
\* and a FAILED job that nobody owns, the stages before it are done and
\* nothing exists behind it, so RetryPreparation restarts exactly that stage.
FailedIsRetryable ==
    revision.status = "FAILED" =>
        \E s \in Stages :
            /\ revision.stage = StageName(s)
            /\ job[s].status = "FAILED" /\ build[s].status = "FAILED"
            /\ \A t \in Before(s) : StageDone(t)
            /\ \A t \in Stages \ (Before(s) \cup {s}) : StageAbsent(t)

\* The terminal failure of a job that is running is never refused by
\* failBusinessTx or failAnalysisRevisionTx, neither for its handler nor for
\* the reaper: a refusal would roll the job back to RUNNING for ever.
FailureCanCommit ==
    \A s \in Stages : job[s].status = "RUNNING" => FailureAccepted(s)

\* What a stage has published is never taken back or replaced, whatever a
\* stale handler, the reaper or a retry does afterwards; nor is a READY
\* revision.
PublishedStays ==
    [][/\ \A s \in Stages : build[s].status = "READY" => build'[s] = build[s]
       /\ revision.status = "READY" => revision' = revision]_vars

\* Two generations of a revision never overlap: when a retry starts a new
\* generation no job of the revision is pending or running, so resetJobTx,
\* which checks nothing, takes no job away from a claim.
RetryTakesNoClaim ==
    [][revision'.generation > revision.generation =>
          \A s \in Stages : job[s].status \in {"ABSENT", "SUCCEEDED", "FAILED"}]_vars

\* The one stage a revision that is not READY is in.
InStage(s) ==
    /\ revision.stage = StageName(s)
    /\ \A t \in Before(s) : StageDone(t)
    /\ \A t \in Stages \ (Before(s) \cup {s}) : StageAbsent(t)
    /\ \/ /\ revision.status = "PREPARING"
          /\ job[s].status \in {"PENDING", "RUNNING", "RETRY_WAIT"}
          /\ job[s].generation = revision.generation
          /\ build[s].status \in {"CREATED", "WORKING"}
       \/ /\ revision.status = "FAILED"
          /\ job[s].status = "FAILED"
          /\ build[s].status = "FAILED"

PipelineShape ==
    \/ revision.status = "NONE" /\ \A s \in Stages : StageAbsent(s)
    \/ \E s \in Stages : InStage(s)
    \/ revision.status = "READY" /\ revision.stage = "READY" /\ \A s \in Stages : StageDone(s)

\* What a handler in the middle of its work has read is still so: the input
\* it took is the one its predecessor publishes, and a resource it found
\* READY is READY.
HandlerHolds(b, s, h) ==
    /\ s = "code" /\ h.at \in {"working", "finalizing"} =>
          b["snapshot"].status = "READY" /\ h.from = b["snapshot"].by
    /\ s = "retrieval" /\ h.at \in {"marking", "reading", "working", "finalizing"} =>
          b["code"].status = "READY"
    /\ s = "retrieval" /\ h.at \in {"working", "finalizing"} => h.from = b["code"].by
    /\ h.at = "succeeding" => b[s].status = "READY"

HandlersHold == \A s \in Stages, n \in Claims : HandlerHolds(build, s, handler[s][n])

AttemptsLeft ==
    \A s \in Stages :
        job[s].status \in {"PENDING", "RETRY_WAIT"} => job[s].attempts < MaxAttempts

\* The inductive invariant the proofs rest on: at any time the revision is in
\* exactly one stage, with everything before it published and nothing behind
\* it, no handler's input is out of date, and a waiting job has an attempt left.
PipelineInv == PipelineTypeOK /\ PipelineShape /\ HandlersHold /\ AttemptsLeft

\* A preparation is eventually READY or FAILED, through any crash, stall or
\* failure of its handlers.
PreparationSettles ==
    revision.status = "PREPARING" ~> revision.status \in {"READY", "FAILED"}
=============================================================================

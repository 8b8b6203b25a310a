----------------------- MODULE AnalysisPipeline_proofs -----------------------
(***************************************************************************)
(* Proofs about AnalysisPipeline for every number of attempts, generations *)
(* and claims.  The argument: PipelineInv is inductive.  Its core is that  *)
(* a revision is always in exactly one stage; a published row never        *)
(* changes, so what a handler has read stays true; and every transaction   *)
(* that moves one of the three rows of a stage moves the other two.        *)
(***************************************************************************)
EXTENDS AnalysisPipeline, TLAPS

\* A step as the disjunction the proofs split on.
LEMMA NextCases ==
    ASSUME Next
    PROVE  \/ CreatePreparation
           \/ RetryPreparation
           \/ \E s \in Stages : Claim(s) \/ Reap(s)
           \/ \E s \in Stages, n \in Claims :
                 \/ Load(s, n) \/ Mark(s, n) \/ ReadInputs(s, n) \/ Work(s, n)
                 \/ (s = "retrieval" /\ CheckCodeIndex(n))
                 \/ Publish(s, n) \/ FinalizeSuccess(s, n) \/ FinalizeFailure(s, n)
                 \/ PublishFails(s, n) \/ Die(s, n)
  BY DEF Next, HandlerStep

\* Nothing is stored yet, so nothing disagrees.
LEMMA InitInv == Init => PipelineInv
  <1> SUFFICES ASSUME Init PROVE PipelineInv
    OBVIOUS
  <1> USE PipelineAssumption DEF Init
  <1>1. PipelineTypeOK
    BY DEF PipelineTypeOK, StageNames, Builds, Jobs, Handlers, BuildStatuses, NoBuild, NoJob, Stages
  <1>2. PipelineShape
    BY DEF PipelineShape, StageAbsent
  <1>3. HandlersHold
    BY DEF HandlersHold, HandlerHolds
  <1>4. AttemptsLeft
    BY DEF AttemptsLeft, NoJob
  <1> QED
    BY <1>1, <1>2, <1>3, <1>4 DEF PipelineInv

-----------------------------------------------------------------------------
(* Type correctness.                                                       *)

Places == {"idle", "loading", "parent", "marking", "reading", "working",
           "finalizing", "succeeding", "retryable", "permanent", "done"}

\* A handler that is somewhere else.
LEMMA PlaceType ==
    ASSUME PipelineTypeOK, NEW s \in Stages, NEW n \in Claims, NEW at \in Places
    PROVE  [handler EXCEPT ![s][n].at = at] \in [Stages -> [Claims -> Handlers]]
  <1>1. handler \in [Stages -> [Claims -> Handlers]]
    BY DEF PipelineTypeOK
  <1>2. [handler[s][n] EXCEPT !.at = at] \in Handlers
    BY <1>1 DEF Handlers, Places
  <1>3. [handler[s] EXCEPT ![n] = [handler[s][n] EXCEPT !.at = at]] \in [Claims -> Handlers]
    BY <1>1, <1>2
  <1>4. [handler EXCEPT ![s] = [handler[s] EXCEPT ![n] = [handler[s][n] EXCEPT !.at = at]]]
           \in [Stages -> [Claims -> Handlers]]
    BY <1>1, <1>3
  <1> QED
    BY <1>4

\* A handler that moves on without touching a row.
LEMMA GotoType ==
    ASSUME PipelineTypeOK, NEW s \in Stages, NEW n \in Claims,
           NEW at \in Places, Goto(s, n, at)
    PROVE  PipelineTypeOK'
  <1>1. handler' \in [Stages -> [Claims -> Handlers]]
    BY PlaceType DEF Goto
  <1> QED
    BY <1>1 DEF PipelineTypeOK, Goto

\* The rows as they are written when they are new or reset.
LEMMA NewRows ==
    /\ \A g \in 0 .. MaxGeneration : NewJob(g) \in Jobs
    /\ \A x \in BuildStatuses : NewBuild(x) \in Builds
  BY PipelineAssumption DEF NewJob, NewBuild, Jobs, Builds

\* Changing the status of a row keeps it a row.
LEMMA StatusRows ==
    /\ \A b \in Builds, x \in BuildStatuses : [b EXCEPT !.status = x] \in Builds
    /\ \A j \in Jobs : /\ [j EXCEPT !.status = "FAILED"] \in Jobs
                       /\ [j EXCEPT !.status = "SUCCEEDED"] \in Jobs
                       /\ [j EXCEPT !.status = "RETRY_WAIT"] \in Jobs
  BY DEF Builds, Jobs

\* What RetryPreparation writes has the type of the rows it resets.
LEMMA ResetType ==
    ASSUME PipelineTypeOK, NEW s \in Stages, NEW g \in 0 .. MaxGeneration
    PROVE  resetBuilds(s) \in [Stages -> Builds] /\ resetJobTx(s, g) \in [Stages -> Jobs]
  <1>1. ASSUME NEW t \in Stages PROVE resetBuilds(s)[t] \in Builds
    BY NewRows, StatusRows DEF resetBuilds, PipelineTypeOK, BuildStatuses
  <1>2. resetBuilds(s) \in [Stages -> Builds]
    BY <1>1 DEF resetBuilds
  <1>3. resetJobTx(s, g) \in [Stages -> Jobs]
    BY NewRows DEF resetJobTx, PipelineTypeOK
  <1> QED
    BY <1>2, <1>3

\* The stage a retry restarts is a stage.
LEMMA FirstUnreadyType == FirstUnready(build) \in Stages
  BY DEF FirstUnready, Stages

\* A failed attempt leaves rows of the right type.
LEMMA FailStageType ==
    ASSUME PipelineTypeOK, NEW s \in Stages, FailStage(s) \/ RetryLater(s)
    PROVE  /\ revision' \in [status : {"NONE", "PREPARING", "READY", "FAILED"},
                             stage : StageNames, generation : 0 .. MaxGeneration]
           /\ build' \in [Stages -> Builds]
           /\ job' \in [Stages -> Jobs]
  <1>1. CASE FailStage(s)
    BY <1>1, StatusRows DEF FailStage, PipelineTypeOK, BuildStatuses
  <1>2. CASE RetryLater(s)
    BY <1>2, StatusRows DEF RetryLater, PipelineTypeOK
  <1> QED
    BY <1>1, <1>2

\* A handler that has returned.
LEMMA DoneType ==
    ASSUME PipelineTypeOK, NEW s \in Stages, NEW n \in Claims,
           handler' = [handler EXCEPT ![s][n].at = "done"]
    PROVE  handler' \in [Stages -> [Claims -> Handlers]]
  BY PlaceType DEF Places

\* The three finalizers write rows of the right type.
LEMMA PublishType ==
    ASSUME PipelineTypeOK, NEW s \in Stages, NEW n \in Claims, PublishStage(s, n)
    PROVE  PipelineTypeOK'
  <1>1. handler' \in [Stages -> [Claims -> Handlers]] /\ claims' = claims
    BY DoneType DEF PublishStage
  <1>2. Published(s, n) \in Builds
    <2>1. build[s] \in Builds
      BY DEF PipelineTypeOK
    <2>2. handler[s][n] \in Handlers
      BY DEF PipelineTypeOK
    <2>3. handler[s][n].from \in 0 .. MaxClaims /\ n \in 0 .. MaxClaims
      BY <2>2, PipelineAssumption DEF Handlers, Claims
    <2> QED
      BY <2>1, <2>3 DEF Published, Builds, BuildStatuses
  <1>3. ASSUME NEW t \in Stages, NEW g \in 0 .. MaxGeneration, HandOff(s, t, g, n)
        PROVE  /\ revision' \in [status : {"NONE", "PREPARING", "READY", "FAILED"},
                                 stage : StageNames, generation : 0 .. MaxGeneration]
               /\ build' \in [Stages -> Builds]
               /\ job' \in [Stages -> Jobs]
    <2>1. build' \in [Stages -> Builds]
      BY <1>2, <1>3, NewRows DEF HandOff, PipelineTypeOK, BuildStatuses
    <2>2. job' \in [Stages -> Jobs]
      BY <1>3, NewRows, StatusRows DEF HandOff, PipelineTypeOK
    <2>3. StageName(t) \in StageNames
      BY DEF StageName, StageNames, Stages
    <2> QED
      BY <1>3, <2>1, <2>2, <2>3 DEF HandOff, PipelineTypeOK
  <1>4. CASE s = "snapshot"
    <2>1. job["snapshot"].generation \in 0 .. MaxGeneration
      BY DEF PipelineTypeOK, Jobs, Stages
    <2>2. HandOff("snapshot", "code", job["snapshot"].generation, n)
      BY <1>4 DEF PublishStage, FinalizeSnapshot
    <2> QED
      BY <1>1, <1>3, <1>4, <2>1, <2>2 DEF PipelineTypeOK, Stages
  <1>5. CASE s = "code"
    <2>1. revision.generation \in 0 .. MaxGeneration
      BY DEF PipelineTypeOK
    <2>2. HandOff("code", "retrieval", revision.generation, n)
      BY <1>5 DEF PublishStage, FinalizeCodeIndex
    <2> QED
      BY <1>1, <1>3, <1>5, <2>1, <2>2 DEF PipelineTypeOK, Stages
  <1>6. CASE s = "retrieval"
    <2>1. FinalizeRetrieval(n)
      BY <1>6 DEF PublishStage
    <2> QED
      BY <1>1, <1>2, <1>6, <2>1, StatusRows
      DEF FinalizeRetrieval, PipelineTypeOK, StageNames
  <1> QED
    BY <1>4, <1>5, <1>6 DEF Stages

\* A claim puts a new handler beside the claimed row.
LEMMA ClaimType ==
    ASSUME PipelineTypeOK, AttemptsLeft, NEW s \in Stages, Claim(s)
    PROVE  PipelineTypeOK'
  <1>1. claims[s] + 1 \in 1 .. MaxClaims
    BY PipelineAssumption DEF PipelineTypeOK, Claim
  <1>2. job[s] \in Jobs /\ job[s].attempts + 1 \in 0 .. MaxAttempts
    BY PipelineAssumption DEF PipelineTypeOK, Claim, AttemptsLeft, Jobs
  <1>3. job' \in [Stages -> Jobs]
    <2> DEFINE row == [job[s] EXCEPT !.status = "RUNNING",
                                     !.attempts = job[s].attempts + 1,
                                     !.claim = claims[s] + 1]
    <2>1. claims[s] + 1 \in 0 .. MaxClaims
      BY <1>1
    <2>2. row \in Jobs
      BY <1>2, <2>1 DEF Jobs
    <2>3. job' = [job EXCEPT ![s] = row]
      BY DEF Claim
    <2> HIDE DEF row
    <2> QED
      BY <2>2, <2>3 DEF PipelineTypeOK
  <1>4. handler' \in [Stages -> [Claims -> Handlers]]
    BY <1>1, PlaceType DEF Claim, Claims, Places
  <1>5. claims' \in [Stages -> 0 .. MaxClaims]
    BY <1>1 DEF Claim, PipelineTypeOK
  <1> QED
    BY <1>3, <1>4, <1>5 DEF Claim, PipelineTypeOK

\* Every step keeps every row in its type.
LEMMA NextType ==
    ASSUME PipelineTypeOK, AttemptsLeft, Next
    PROVE  PipelineTypeOK'
  <1>1. CASE CreatePreparation
    BY <1>1, NewRows, PipelineAssumption
    DEF CreatePreparation, PipelineTypeOK, StageNames, BuildStatuses, Stages
  <1>2. CASE RetryPreparation
    <2> DEFINE g == revision.generation + 1
               s == FirstUnready(build)
    <2>1. g \in 0 .. MaxGeneration
      BY <1>2, PipelineAssumption DEF RetryPreparation, PipelineTypeOK
    <2>2. s \in Stages /\ StageName(s) \in StageNames
      BY FirstUnreadyType DEF StageName, StageNames, Stages
    <2>3. resetBuilds(s) \in [Stages -> Builds] /\ resetJobTx(s, g) \in [Stages -> Jobs]
      BY <2>1, <2>2, ResetType
    <2>4. CASE build[s].status = "READY"
      BY <1>2, <2>1, <2>4 DEF RetryPreparation, PipelineTypeOK, StageNames
    <2>5. CASE build[s].status # "READY"
      <3>1. /\ revision' = [status |-> "PREPARING", stage |-> StageName(s), generation |-> g]
            /\ build' = resetBuilds(s) /\ job' = resetJobTx(s, g)
            /\ UNCHANGED <<claims, handler>>
        BY <1>2, <2>5 DEF RetryPreparation
      <3> HIDE DEF g, s
      <3> QED
        BY <3>1, <2>1, <2>2, <2>3 DEF PipelineTypeOK
    <2> QED
      BY <2>4, <2>5
  <1>3. ASSUME NEW s \in Stages, Claim(s) PROVE PipelineTypeOK'
    BY <1>3, ClaimType
  <1>4. ASSUME NEW s \in Stages, Reap(s) PROVE PipelineTypeOK'
    <2>1. FailStage(s) \/ RetryLater(s)
      BY <1>4 DEF Reap
    <2> QED
      BY <1>4, <2>1, FailStageType DEF Reap, PipelineTypeOK
  <1>5. ASSUME NEW s \in Stages, NEW n \in Claims, Load(s, n) PROVE PipelineTypeOK'
    BY <1>5, GotoType DEF Load, Stages, Places
  <1>6. ASSUME NEW n \in Claims, CheckCodeIndex(n) PROVE PipelineTypeOK'
    BY <1>6, GotoType DEF CheckCodeIndex, Stages, Places
  <1>7. ASSUME NEW s \in Stages, NEW n \in Claims, Mark(s, n) PROVE PipelineTypeOK'
    <2>1. CASE Goto(s, n, "retryable")
      BY <2>1, GotoType DEF Places
    <2>2. CASE ~Goto(s, n, "retryable")
      <3>1. build' = [build EXCEPT ![s].status = "WORKING"]
        BY <1>7, <2>2 DEF Mark
      <3>2. build' \in [Stages -> Builds]
        BY <3>1, StatusRows DEF PipelineTypeOK, BuildStatuses
      <3>3. handler' \in [Stages -> [Claims -> Handlers]] /\ UNCHANGED <<revision, job, claims>>
        <4> DEFINE at == IF s = "snapshot" THEN "working" ELSE "reading"
        <4>1. at \in Places
          BY DEF Places
        <4>2. handler' = [handler EXCEPT ![s][n].at = at] /\ UNCHANGED <<revision, job, claims>>
          BY <1>7, <2>2 DEF Mark
        <4> HIDE DEF at
        <4> QED
          BY <4>1, <4>2, PlaceType
      <3> QED
        BY <3>2, <3>3 DEF PipelineTypeOK
    <2> QED
      BY <2>1, <2>2
  <1>8. ASSUME NEW s \in Stages, NEW n \in Claims, ReadInputs(s, n) PROVE PipelineTypeOK'
    <2>1. CASE Goto(s, n, "retryable")
      BY <2>1, GotoType DEF Places
    <2>2. CASE ~Goto(s, n, "retryable")
      <3>1. build[IF s = "code" THEN "snapshot" ELSE "code"].by \in 0 .. MaxClaims
        BY DEF PipelineTypeOK, Builds, Stages
      <3> DEFINE h == [at |-> "working",
                       from |-> build[IF s = "code" THEN "snapshot" ELSE "code"].by]
      <3>2. h \in Handlers
        BY <3>1 DEF Handlers
      <3>3. handler' = [handler EXCEPT ![s][n] = h] /\ UNCHANGED <<revision, build, job, claims>>
        BY <1>8, <2>2 DEF ReadInputs
      <3> HIDE DEF h
      <3>4. handler' \in [Stages -> [Claims -> Handlers]]
        BY <3>2, <3>3 DEF PipelineTypeOK
      <3> QED
        BY <3>3, <3>4 DEF PipelineTypeOK
    <2> QED
      BY <2>1, <2>2
  <1>9. ASSUME NEW s \in Stages, NEW n \in Claims, Work(s, n) \/ PublishFails(s, n) \/ Die(s, n)
        PROVE  PipelineTypeOK'
    BY <1>9, GotoType DEF Work, PublishFails, Die, Places
  <1>10. ASSUME NEW s \in Stages, NEW n \in Claims, Publish(s, n) PROVE PipelineTypeOK'
    BY <1>10, GotoType, PublishType DEF Publish, Places
  <1>11. ASSUME NEW s \in Stages, NEW n \in Claims, FinalizeSuccess(s, n) PROVE PipelineTypeOK'
    <2>1. CASE Goto(s, n, "done")
      BY <2>1, GotoType DEF Places
    <2>2. CASE ~Goto(s, n, "done")
      <3>1. /\ job' = [job EXCEPT ![s].status = "SUCCEEDED"]
            /\ handler' = [handler EXCEPT ![s][n].at = "done"]
            /\ UNCHANGED <<revision, build, claims>>
        BY <1>11, <2>2 DEF FinalizeSuccess
      <3>2. handler' \in [Stages -> [Claims -> Handlers]]
        BY <3>1, DoneType
      <3>3. job' \in [Stages -> Jobs]
        BY <3>1, StatusRows DEF PipelineTypeOK
      <3> QED
        BY <3>1, <3>2, <3>3 DEF PipelineTypeOK
    <2> QED
      BY <2>1, <2>2
  <1>12. ASSUME NEW s \in Stages, NEW n \in Claims, FinalizeFailure(s, n) PROVE PipelineTypeOK'
    <2>1. CASE Goto(s, n, "done")
      BY <2>1, GotoType DEF Places
    <2>2. CASE ~Goto(s, n, "done")
      <3>1. (FailStage(s) \/ RetryLater(s)) /\ handler' = [handler EXCEPT ![s][n].at = "done"]
            /\ UNCHANGED claims
        BY <1>12, <2>2 DEF FinalizeFailure
      <3> QED
        BY <3>1, FailStageType, DoneType DEF PipelineTypeOK
    <2> QED
      BY <2>1, <2>2
  <1> QED
    BY NextCases, <1>1, <1>2, <1>3, <1>4, <1>5, <1>6, <1>7, <1>8, <1>9, <1>10, <1>11, <1>12

-----------------------------------------------------------------------------
(* The shape of a revision.                                                *)

\* The order of the stages.
LEMMA StageFacts ==
    /\ \A s \in Stages : Before(s) \subseteq Stages /\ s \notin Before(s)
    /\ Before("snapshot") = {} /\ Before("code") = {"snapshot"}
    /\ Before("retrieval") = {"snapshot", "code"}
    /\ \A s, t \in Stages : StageName(s) = StageName(t) => s = t
    /\ \A s \in Stages : StageName(s) \in StageNames /\ StageName(s) # "READY"
  BY DEF Before, Stages, StageName, StageNames

\* Only the current stage has a live job, and only while the revision is
\* preparing.
LEMMA LiveJob ==
    ASSUME PipelineShape, NEW s \in Stages, job[s].status \in {"PENDING", "RUNNING", "RETRY_WAIT"}
    PROVE  InStage(s) /\ revision.status = "PREPARING"
  <1>1. ~StageAbsent(s) /\ ~StageDone(s)
    BY DEF StageAbsent, StageDone, NoJob
  <1>2. PICK t \in Stages : InStage(t)
    BY <1>1 DEF PipelineShape
  <1>3. t = s
    BY <1>1, <1>2 DEF InStage
  <1> QED
    BY <1>2, <1>3 DEF InStage

\* Likewise the only open resource.
LEMMA OpenBuild ==
    ASSUME PipelineShape, NEW s \in Stages, build[s].status \in {"CREATED", "WORKING"}
    PROVE  InStage(s) /\ revision.status = "PREPARING"
  <1>1. ~StageAbsent(s) /\ ~StageDone(s)
    BY DEF StageAbsent, StageDone, NoBuild
  <1>2. PICK t \in Stages : InStage(t)
    BY <1>1 DEF PipelineShape
  <1>3. t = s
    BY <1>1, <1>2 DEF InStage
  <1> QED
    BY <1>2, <1>3 DEF InStage

\* Every row but those of stage s is as it was.
OtherRows(s) == \A t \in Stages \ {s} : build'[t] = build[t] /\ job'[t] = job[t]

\* What is published is kept.
PublishedKept == \A t \in Stages : build[t].status = "READY" => build'[t] = build[t]

\* The stages before the current one stay done while what is published stays.
LEMMA BeforeKept ==
    ASSUME NEW s \in Stages, OtherRows(s), \A t \in Before(s) : StageDone(t)
    PROVE  \A t \in Before(s) : StageDone(t)'
  <1>1. CASE s = "snapshot"
    BY <1>1, StageFacts
  <1>2. CASE s = "code"
    BY <1>2, StageFacts DEF OtherRows, StageDone, Stages
  <1>3. CASE s = "retrieval"
    BY <1>3, StageFacts DEF OtherRows, StageDone, Stages
  <1> QED
    BY <1>1, <1>2, <1>3 DEF Stages

\* A step that changes the rows of the current stage and keeps it current.
LEMMA SameStage ==
    ASSUME NEW s \in Stages, InStage(s), OtherRows(s), revision'.stage = revision.stage,
           \/ /\ revision'.status = "PREPARING"
              /\ job'[s].status \in {"PENDING", "RUNNING", "RETRY_WAIT"}
              /\ job'[s].generation = revision'.generation
              /\ build'[s].status \in {"CREATED", "WORKING"}
           \/ /\ revision'.status = "FAILED"
              /\ job'[s].status = "FAILED"
              /\ build'[s].status = "FAILED"
    PROVE  PipelineShape'
  <1>1. \A t \in Before(s) : StageDone(t)'
    BY BeforeKept DEF InStage
  <1>2. \A t \in Stages \ (Before(s) \cup {s}) : StageAbsent(t)'
    BY DEF InStage, StageAbsent, OtherRows
  <1>3. InStage(s)'
    BY <1>1, <1>2 DEF InStage
  <1> QED
    BY <1>3 DEF PipelineShape

\* The stage moves on: s is done and t, which comes next, is current.
LEMMA MovesOn ==
    ASSUME PipelineTypeOK, PipelineShape, HandlersHold,
           NEW s \in Stages, NEW n \in Claims, NEW t \in Stages, NEW g,
           (s = "snapshot" /\ t = "code") \/ (s = "code" /\ t = "retrieval"),
           handler[s][n].at = "finalizing", Owned(s, n), HandOff(s, t, g, n),
           g = revision.generation
    PROVE  PipelineShape' /\ PublishedKept
  <1>1. InStage(s) /\ revision.status = "PREPARING"
    BY LiveJob DEF Owned
  <1>2. StageAbsent(t)
    BY <1>1, StageFacts DEF InStage, Stages
  <1>3. build[s] \in Builds /\ job[s] \in Jobs /\ build \in [Stages -> Builds] /\ job \in [Stages -> Jobs]
    BY DEF PipelineTypeOK
  <1>4. /\ build'[s] = Published(s, n) /\ build'[t] = NewBuild("CREATED")
        /\ job'[s] = [job[s] EXCEPT !.status = "SUCCEEDED"] /\ job'[t] = NewJob(g)
        /\ \A u \in Stages \ {s, t} : build'[u] = build[u] /\ job'[u] = job[u]
    BY <1>2, <1>3 DEF HandOff, StageAbsent, NoBuild, NoJob
  <1>5. /\ build'[s].status = "READY" /\ build'[s].by = n /\ build'[s].from = handler[s][n].from
        /\ job'[s].status = "SUCCEEDED" /\ job'[s].claim = n
    BY <1>3, <1>4 DEF Published, Builds, Jobs, Owned
  <1>6. /\ revision'.stage = StageName(t) /\ revision'.status = "PREPARING"
        /\ revision'.generation = revision.generation
    BY <1>1 DEF HandOff, PipelineTypeOK
  <1>7. StageDone(s)' /\ \A u \in Before(s) : StageDone(u)'
    <2>1. CASE s = "snapshot"
      BY <1>5, <2>1, StageFacts DEF StageDone
    <2>2. CASE s = "code"
      <3>1. handler[s][n].from = build["snapshot"].by
        BY <2>2 DEF HandlersHold, HandlerHolds
      <3>2. build'["snapshot"] = build["snapshot"] /\ job'["snapshot"] = job["snapshot"]
        BY <1>4, <2>2 DEF Stages
      <3>3. StageDone("snapshot")
        BY <1>1, <2>2, StageFacts DEF InStage
      <3> QED
        BY <1>5, <2>2, <3>1, <3>2, <3>3, StageFacts DEF StageDone
    <2> QED
      BY <2>1, <2>2
  <1>8. \A u \in Before(t) : StageDone(u)'
    BY <1>7, StageFacts
  <1>9. \A u \in Stages \ (Before(t) \cup {t}) : StageAbsent(u)'
    <2> SUFFICES ASSUME NEW u \in Stages \ (Before(t) \cup {t}) PROVE StageAbsent(u)'
      OBVIOUS
    <2>1. u \in Stages \ (Before(s) \cup {s}) /\ u # t /\ u # s
      BY StageFacts DEF Stages
    <2> QED
      BY <1>1, <1>4, <2>1 DEF InStage, StageAbsent
  <1>10. InStage(t)'
    BY <1>4, <1>6, <1>8, <1>9 DEF InStage, NewJob, NewBuild
  <1>11. PublishedKept
    <2> SUFFICES ASSUME NEW u \in Stages, build[u].status = "READY" PROVE build'[u] = build[u]
      BY DEF PublishedKept
    <2>1. u # s /\ u # t
      BY <1>1, <1>2 DEF InStage, StageAbsent, NoBuild
    <2> QED
      BY <1>4, <2>1
  <1> QED
    BY <1>10, <1>11 DEF PipelineShape

\* The retrieval build is published and the revision becomes READY.
LEMMA LastStage ==
    ASSUME PipelineTypeOK, PipelineShape, HandlersHold, NEW n \in Claims,
           handler["retrieval"][n].at = "finalizing", Owned("retrieval", n), FinalizeRetrieval(n)
    PROVE  PipelineShape' /\ PublishedKept
  <1>0. "retrieval" \in Stages
    BY DEF Stages
  <1>1. InStage("retrieval") /\ revision.status = "PREPARING"
    BY <1>0, LiveJob DEF Owned
  <1>2. build["retrieval"] \in Builds /\ job["retrieval"] \in Jobs
    BY <1>0 DEF PipelineTypeOK
  <1>3. OtherRows("retrieval")
    BY DEF FinalizeRetrieval, OtherRows, PipelineTypeOK
  <1>4. /\ build'["retrieval"].status = "READY" /\ build'["retrieval"].by = n
        /\ build'["retrieval"].from = handler["retrieval"][n].from
        /\ job'["retrieval"].status = "SUCCEEDED" /\ job'["retrieval"].claim = n
    BY <1>0, <1>2 DEF FinalizeRetrieval, PipelineTypeOK, Published, Builds, Jobs, Owned
  <1>5. handler["retrieval"][n].from = build["code"].by
    BY <1>0 DEF HandlersHold, HandlerHolds
  <1>6. build'["code"] = build["code"]
    BY <1>3 DEF OtherRows, Stages
  <1>7. StageDone("retrieval")'
    BY <1>4, <1>5, <1>6 DEF StageDone
  <1>8. \A u \in Before("retrieval") : StageDone(u)'
    BY <1>0, <1>1, <1>3, BeforeKept DEF InStage
  <1>9. \A u \in Stages : StageDone(u)'
    BY <1>7, <1>8, StageFacts DEF Stages
  <1>10. revision'.status = "READY" /\ revision'.stage = "READY"
    BY DEF FinalizeRetrieval, PipelineTypeOK
  <1>11. PublishedKept
    BY <1>1, <1>3 DEF PublishedKept, OtherRows, InStage
  <1> QED
    BY <1>9, <1>10, <1>11 DEF PipelineShape

-----------------------------------------------------------------------------
(* What handlers have read.                                                *)

\* What a handler relies on is published, so it outlives every step that
\* keeps what is published.
LEMMA HoldsKept ==
    ASSUME NEW b, NEW c, \A t \in Stages : b[t].status = "READY" => c[t] = b[t],
           NEW s \in Stages, NEW h, HandlerHolds(b, s, h)
    PROVE  HandlerHolds(c, s, h)
  BY DEF HandlerHolds, Stages

\* One handler moves, and what is published stays.
LEMMA OneHandler ==
    ASSUME HandlersHold, PublishedKept, NEW s \in Stages, NEW n \in Claims,
           \A t \in Stages, m \in Claims :
              (t # s \/ m # n) => handler'[t][m] = handler[t][m],
           HandlerHolds(build', s, handler'[s][n])
    PROVE  HandlersHold'
  <1> SUFFICES ASSUME NEW t \in Stages, NEW m \in Claims
               PROVE  HandlerHolds(build', t, handler'[t][m])
    BY DEF HandlersHold
  <1>1. CASE t = s /\ m = n
    BY <1>1
  <1>2. CASE t # s \/ m # n
    <2>1. HandlerHolds(build, t, handler[t][m])
      BY DEF HandlersHold
    <2>2. HandlerHolds(build', t, handler[t][m])
      BY <2>1, HoldsKept DEF PublishedKept
    <2> QED
      BY <1>2, <2>2
  <1> QED
    BY <1>1, <1>2

\* No handler moves.
LEMMA NoHandler ==
    ASSUME HandlersHold, PublishedKept, handler' = handler
    PROVE  HandlersHold'
  <1> SUFFICES ASSUME NEW t \in Stages, NEW m \in Claims
               PROVE  HandlerHolds(build', t, handler'[t][m])
    BY DEF HandlersHold
  <1>1. HandlerHolds(build, t, handler[t][m])
    BY DEF HandlersHold
  <1> QED
    BY <1>1, HoldsKept DEF PublishedKept

MovesTo(s, n, at) == handler' = [handler EXCEPT ![s][n].at = at]

\* What an update of one handler's place does.
LEMMA PlaceValue ==
    ASSUME PipelineTypeOK, NEW s \in Stages, NEW n \in Claims, NEW at, MovesTo(s, n, at)
    PROVE  /\ handler'[s][n].at = at /\ handler'[s][n].from = handler[s][n].from
           /\ \A t \in Stages, m \in Claims :
                 (t # s \/ m # n) => handler'[t][m] = handler[t][m]
  <1>1. handler \in [Stages -> [Claims -> Handlers]]
    BY DEF PipelineTypeOK
  <1>2. handler' = [handler EXCEPT ![s] = [handler[s] EXCEPT ![n] = [handler[s][n] EXCEPT !.at = at]]]
    BY DEF MovesTo
  <1>3. handler'[s] = [handler[s] EXCEPT ![n] = [handler[s][n] EXCEPT !.at = at]]
        /\ \A t \in Stages : t # s => handler'[t] = handler[t]
    BY <1>1, <1>2
  <1>4. handler'[s][n] = [handler[s][n] EXCEPT !.at = at]
        /\ \A m \in Claims : m # n => handler'[s][m] = handler[s][m]
    BY <1>1, <1>3
  <1>5. handler[s][n] \in Handlers
    BY <1>1
  <1> QED
    BY <1>3, <1>4, <1>5 DEF Handlers

\* Places at which a handler relies on nothing it has read.
Free == {"loading", "parent", "retryable", "permanent", "done"}

\* A handler that moves to a place where it relies on nothing.
LEMMA FreePlace ==
    ASSUME PipelineTypeOK, HandlersHold, PublishedKept, NEW s \in Stages, NEW n \in Claims,
           NEW at \in Free, MovesTo(s, n, at)
    PROVE  HandlersHold'
  <1>1. HandlerHolds(build', s, handler'[s][n])
    BY PlaceValue DEF HandlerHolds, Free
  <1>2. \A t \in Stages, m \in Claims :
           (t # s \/ m # n) => handler'[t][m] = handler[t][m]
    BY PlaceValue
  <1> QED
    BY <1>1, <1>2, OneHandler

-----------------------------------------------------------------------------
(* The inductive invariant, action by action.                              *)

\* The invariant without its type part, and what every step preserves.
Core == PipelineShape /\ HandlersHold /\ AttemptsLeft

\* A handler that moves without touching a row.
LEMMA GotoCore ==
    ASSUME PipelineTypeOK, Core, NEW s \in Stages, NEW n \in Claims, NEW at, Goto(s, n, at),
           \/ at \in Free
           \/ HandlerHolds(build, s, [at |-> at, from |-> handler[s][n].from])
    PROVE  Core' /\ PublishedKept
  <1>1. PublishedKept
    BY DEF PublishedKept, Goto
  <1>2. PipelineShape' /\ AttemptsLeft'
    BY DEF Core, PipelineShape, InStage, StageDone, StageAbsent, AttemptsLeft, Goto
  <1>0. MovesTo(s, n, at)
    BY DEF Goto, MovesTo
  <1>3. /\ handler'[s][n].at = at /\ handler'[s][n].from = handler[s][n].from
        /\ \A t \in Stages, m \in Claims :
              (t # s \/ m # n) => handler'[t][m] = handler[t][m]
    BY <1>0, PlaceValue
  <1>4. HandlerHolds(build', s, handler'[s][n])
    BY <1>3 DEF Goto, HandlerHolds, Free
  <1>5. HandlersHold'
    BY <1>1, <1>3, <1>4, OneHandler DEF Core
  <1> QED
    BY <1>1, <1>2, <1>5 DEF Core

\* A new revision starts in its first stage.
LEMMA CreateCore ==
    ASSUME PipelineTypeOK, Core, CreatePreparation
    PROVE  Core' /\ PublishedKept
  <1>1. \A s \in Stages : StageAbsent(s)
    BY DEF Core, PipelineShape, InStage, CreatePreparation
  <1>2. /\ build'["snapshot"] = NewBuild("WORKING") /\ job'["snapshot"] = NewJob(1)
        /\ OtherRows("snapshot")
        /\ revision' = [status |-> "PREPARING", stage |-> "MATERIALIZING", generation |-> 1]
    BY DEF CreatePreparation, PipelineTypeOK, OtherRows, Stages
  <1>3. InStage("snapshot")'
    <2>1. \A t \in Stages \ (Before("snapshot") \cup {"snapshot"}) : StageAbsent(t)'
      BY <1>1, <1>2 DEF OtherRows, StageAbsent
    <2> QED
      BY <1>2, <2>1, StageFacts DEF InStage, NewJob, NewBuild, StageName
  <1>4. PipelineShape'
    BY <1>3 DEF PipelineShape, Stages
  <1>5. PublishedKept
    BY <1>1 DEF PublishedKept, StageAbsent, NoBuild
  <1>6. HandlersHold'
    BY <1>5, NoHandler DEF Core, CreatePreparation
  <1>7. AttemptsLeft'
    BY <1>2, PipelineAssumption DEF Core, AttemptsLeft, OtherRows, NewJob, Stages
  <1> QED
    BY <1>4, <1>5, <1>6, <1>7 DEF Core

\* A retry restarts the stage the revision failed in, and no other.
LEMMA RetryStage ==
    ASSUME PipelineShape, NEW s \in Stages, InStage(s), build[s].status # "READY"
    PROVE  FirstUnready(build) = s
  <1>1. \A t \in Before(s) : build[t].status = "READY"
    BY DEF InStage, StageDone
  <1> QED
    BY <1>1, StageFacts DEF FirstUnready, Stages

\* A retry opens the failed stage again under a new generation.
LEMMA RetryCore ==
    ASSUME PipelineTypeOK, Core, RetryPreparation
    PROVE  Core' /\ PublishedKept
  <1>1. PICK s \in Stages : InStage(s) /\ revision.status = "FAILED"
    BY DEF Core, PipelineShape, RetryPreparation
  <1>2. build[s].status = "FAILED" /\ job[s].status = "FAILED"
    BY <1>1 DEF InStage
  <1>3. FirstUnready(build) = s
    BY <1>1, <1>2, RetryStage DEF Core
  <1> DEFINE g == revision.generation + 1
  <1>4. /\ revision' = [status |-> "PREPARING", stage |-> StageName(s), generation |-> g]
        /\ build' = resetBuilds(s) /\ job' = resetJobTx(s, g) /\ handler' = handler
    BY <1>2, <1>3 DEF RetryPreparation
  <1>5. job'[s] = NewJob(g) /\ \A t \in Stages \ {s} : job'[t] = job[t]
    BY <1>4 DEF resetJobTx, PipelineTypeOK
  <1>6. /\ build'[s].status \in {"CREATED", "WORKING"}
        /\ \A t \in Stages \ {s} : build'[t] = build[t]
    <2>1. build \in [Stages -> Builds]
      BY DEF PipelineTypeOK
    <2>2. CASE s = "snapshot"
      <3>1. StageAbsent("code") /\ StageAbsent("retrieval")
        BY <1>1, <2>2, StageFacts DEF InStage, Stages
      <3>2. build'["snapshot"] = [build["snapshot"] EXCEPT !.status = "WORKING"]
            /\ build'["code"] = build["code"] /\ build'["retrieval"] = build["retrieval"]
        BY <1>4, <2>2, <3>1 DEF resetBuilds, StageAbsent, NoBuild, Stages
      <3> QED
        BY <2>1, <2>2, <3>2 DEF Stages, Builds
    <2>3. CASE s = "code"
      <3>1. build'["code"] = [build["code"] EXCEPT !.status = "CREATED"]
            /\ build'["snapshot"] = build["snapshot"] /\ build'["retrieval"] = build["retrieval"]
        BY <1>4, <2>3 DEF resetBuilds, Stages
      <3> QED
        BY <2>1, <2>3, <3>1 DEF Stages, Builds
    <2>4. CASE s = "retrieval"
      <3>1. build'["retrieval"] = NewBuild("CREATED")
            /\ build'["snapshot"] = build["snapshot"] /\ build'["code"] = build["code"]
        BY <1>4, <2>4 DEF resetBuilds, Stages
      <3> QED
        BY <2>4, <3>1 DEF Stages, NewBuild
    <2> QED
      BY <2>2, <2>3, <2>4 DEF Stages
  <1>7. OtherRows(s)
    BY <1>5, <1>6 DEF OtherRows
  <1>8. PipelineShape'
    <2>1. revision'.stage = revision.stage
      BY <1>1, <1>4 DEF InStage
    <2>2. /\ revision'.status = "PREPARING" /\ job'[s].status = "PENDING"
          /\ job'[s].generation = revision'.generation
      BY <1>4, <1>5 DEF NewJob
    <2> QED
      BY <1>1, <1>6, <1>7, <2>1, <2>2, SameStage
  <1>9. PublishedKept
    BY <1>2, <1>6 DEF PublishedKept
  <1>10. HandlersHold'
    BY <1>4, <1>9, NoHandler DEF Core
  <1>11. AttemptsLeft'
    BY <1>5, PipelineAssumption DEF Core, AttemptsLeft, NewJob
  <1> QED
    BY <1>8, <1>9, <1>10, <1>11 DEF Core

\* A claim starts a handler that has read nothing.
LEMMA ClaimCore ==
    ASSUME PipelineTypeOK, Core, NEW s \in Stages, Claim(s)
    PROVE  Core' /\ PublishedKept
  <1>1. InStage(s) /\ revision.status = "PREPARING"
    BY LiveJob DEF Core, Claim
  <1>2. job[s] \in Jobs /\ claims[s] + 1 \in Claims
    BY PipelineAssumption DEF PipelineTypeOK, Claim, Claims
  <1>3. /\ job'[s].status = "RUNNING" /\ job'[s].generation = job[s].generation
        /\ OtherRows(s) /\ build' = build /\ revision' = revision
    BY <1>2 DEF Claim, PipelineTypeOK, Jobs, OtherRows
  <1>4. PipelineShape'
    BY <1>1, <1>3, SameStage DEF InStage
  <1>5. PublishedKept
    BY <1>3 DEF PublishedKept
  <1>6. MovesTo(s, claims[s] + 1, "loading")
    BY DEF Claim, MovesTo
  <1>7. HandlersHold'
    BY <1>2, <1>5, <1>6, FreePlace DEF Core, Free
  <1>8. AttemptsLeft'
    BY <1>3 DEF Core, AttemptsLeft, OtherRows
  <1> QED
    BY <1>4, <1>5, <1>7, <1>8 DEF Core

\* A job that is running fails or waits for its next attempt.
LEMMA EndAttempt ==
    ASSUME PipelineTypeOK, Core, NEW s \in Stages, job[s].status = "RUNNING",
           FailStage(s) \/ (RetryLater(s) /\ job[s].attempts < MaxAttempts)
    PROVE  PipelineShape' /\ AttemptsLeft' /\ PublishedKept
  <1>1. InStage(s) /\ revision.status = "PREPARING"
    BY LiveJob DEF Core
  <1>2. job[s] \in Jobs /\ build[s] \in Builds
    BY DEF PipelineTypeOK
  <1>3. CASE FailStage(s)
    <2>1. /\ job'[s].status = "FAILED" /\ build'[s].status = "FAILED" /\ OtherRows(s)
          /\ revision'.status = "FAILED" /\ revision'.stage = revision.stage
      BY <1>2, <1>3 DEF FailStage, PipelineTypeOK, Jobs, Builds, OtherRows
    <2>2. PipelineShape'
      BY <1>1, <2>1, SameStage
    <2> QED
      BY <1>1, <2>1, <2>2 DEF Core, AttemptsLeft, PublishedKept, OtherRows, InStage
  <1>4. CASE RetryLater(s) /\ job[s].attempts < MaxAttempts
    <2>1. /\ job'[s].status = "RETRY_WAIT" /\ job'[s].attempts = job[s].attempts
          /\ job'[s].generation = job[s].generation
          /\ OtherRows(s) /\ build' = build /\ revision' = revision
      BY <1>2, <1>4 DEF RetryLater, PipelineTypeOK, Jobs, OtherRows
    <2>2. PipelineShape'
      BY <1>1, <2>1, SameStage DEF InStage
    <2> QED
      BY <1>4, <2>1, <2>2 DEF Core, AttemptsLeft, PublishedKept, OtherRows
  <1> QED
    BY <1>3, <1>4

\* The reaper ends an attempt as a failing handler would.
LEMMA ReapCore ==
    ASSUME PipelineTypeOK, Core, NEW s \in Stages, Reap(s)
    PROVE  Core' /\ PublishedKept
  <1>1. PipelineShape' /\ AttemptsLeft' /\ PublishedKept
    BY EndAttempt DEF Reap
  <1>2. HandlersHold'
    BY <1>1, NoHandler DEF Core, Reap
  <1> QED
    BY <1>1, <1>2 DEF Core

\* A handler fails its own attempt, or has lost it and changes nothing.
LEMMA FinalizeFailureCore ==
    ASSUME PipelineTypeOK, Core, NEW s \in Stages, NEW n \in Claims, FinalizeFailure(s, n)
    PROVE  Core' /\ PublishedKept
  <1>1. CASE Goto(s, n, "done")
    BY <1>1, GotoCore DEF Free
  <1>2. CASE ~Goto(s, n, "done")
    <2>1. /\ job[s].status = "RUNNING" /\ MovesTo(s, n, "done")
          /\ FailStage(s) \/ (RetryLater(s) /\ job[s].attempts < MaxAttempts)
      BY <1>2 DEF FinalizeFailure, Owned, MovesTo
    <2>2. PipelineShape' /\ AttemptsLeft' /\ PublishedKept
      BY <2>1, EndAttempt
    <2>3. HandlersHold'
      BY <2>1, <2>2, FreePlace DEF Core, Free
    <2> QED
      BY <2>2, <2>3 DEF Core
  <1> QED
    BY <1>1, <1>2

\* A handler that found its resource READY no longer owns the job.
LEMMA FinalizeSuccessCore ==
    ASSUME PipelineTypeOK, Core, NEW s \in Stages, NEW n \in Claims, FinalizeSuccess(s, n)
    PROVE  Core' /\ PublishedKept
  <1>1. build[s].status = "READY"
    BY DEF FinalizeSuccess, Core, HandlersHold, HandlerHolds
  <1>2. job[s].status # "RUNNING"
    BY <1>1, LiveJob DEF Core, InStage
  <1>3. Goto(s, n, "done")
    BY <1>2 DEF FinalizeSuccess, Owned
  <1> QED
    BY <1>3, GotoCore DEF Free

\* A handler reads its own row.
LEMMA LoadCore ==
    ASSUME PipelineTypeOK, Core, NEW s \in Stages, NEW n \in Claims, Load(s, n)
    PROVE  Core' /\ PublishedKept
  <1>1. CASE build[s].status = "READY"
    <2>1. Goto(s, n, "succeeding")
      BY <1>1 DEF Load
    <2> QED
      BY <1>1, <2>1, GotoCore DEF HandlerHolds
  <1>2. CASE build[s].status # "READY" /\ s = "snapshot"
    <2>1. Goto(s, n, "marking") \/ Goto(s, n, "working")
      BY <1>2 DEF Load
    <2> QED
      BY <1>2, <2>1, GotoCore DEF HandlerHolds
  <1>3. CASE build[s].status # "READY" /\ s = "code"
    <2>1. Goto(s, n, "marking")
      BY <1>3 DEF Load
    <2> QED
      BY <1>3, <2>1, GotoCore DEF HandlerHolds
  <1>4. CASE build[s].status # "READY" /\ s = "retrieval"
    <2>1. Goto(s, n, "parent")
      BY <1>4 DEF Load
    <2> QED
      BY <1>4, <2>1, GotoCore DEF Free
  <1> QED
    BY <1>1, <1>2, <1>3, <1>4 DEF Stages

\* A retrieval handler reads the code index it is built from.
LEMMA CheckCodeIndexCore ==
    ASSUME PipelineTypeOK, Core, NEW n \in Claims, CheckCodeIndex(n)
    PROVE  Core' /\ PublishedKept
  <1>1. "retrieval" \in Stages
    BY DEF Stages
  <1>2. CASE build["code"].status = "READY"
    <2>1. Goto("retrieval", n, "marking")
      BY <1>2 DEF CheckCodeIndex
    <2> QED
      BY <1>1, <1>2, <2>1, GotoCore DEF HandlerHolds
  <1>3. CASE build["code"].status # "READY"
    <2>1. Goto("retrieval", n, "retryable")
      BY <1>3 DEF CheckCodeIndex
    <2> QED
      BY <1>1, <2>1, GotoCore DEF Free
  <1> QED
    BY <1>2, <1>3

\* The work itself stores no row.
LEMMA WorkCore ==
    ASSUME PipelineTypeOK, Core, NEW s \in Stages, NEW n \in Claims, Work(s, n)
    PROVE  Core' /\ PublishedKept
  <1>1. CASE Goto(s, n, "finalizing")
    <2>1. HandlerHolds(build, s, handler[s][n]) /\ handler[s][n].at = "working"
      BY DEF Core, HandlersHold, Work
    <2>2. HandlerHolds(build, s, [at |-> "finalizing", from |-> handler[s][n].from])
      BY <2>1 DEF HandlerHolds
    <2> QED
      BY <1>1, <2>2, GotoCore
  <1>2. CASE Goto(s, n, "retryable") \/ Goto(s, n, "permanent")
    BY <1>2, GotoCore DEF Free
  <1> QED
    BY <1>1, <1>2 DEF Work

\* A row that can be marked is the current stage's; marking it opens nothing
\* that was closed.
LEMMA MarkCore ==
    ASSUME PipelineTypeOK, Core, NEW s \in Stages, NEW n \in Claims, Mark(s, n)
    PROVE  Core' /\ PublishedKept
  <1>1. CASE Goto(s, n, "retryable")
    BY <1>1, GotoCore DEF Free
  <1>2. CASE ~Goto(s, n, "retryable")
    <2> DEFINE at == IF s = "snapshot" THEN "working" ELSE "reading"
    <2>1. /\ build[s].status \in {"CREATED", "WORKING"}
          /\ build' = [build EXCEPT ![s].status = "WORKING"]
          /\ MovesTo(s, n, at) /\ UNCHANGED <<revision, job, claims>>
      BY <1>2 DEF Mark, MovesTo
    <2>2. InStage(s) /\ revision.status = "PREPARING"
      BY <2>1, OpenBuild DEF Core
    <2>3. build[s] \in Builds
      BY DEF PipelineTypeOK
    <2>4. build'[s].status = "WORKING" /\ OtherRows(s)
      BY <2>1, <2>3 DEF PipelineTypeOK, Builds, OtherRows
    <2>5. PipelineShape'
      BY <2>1, <2>2, <2>4, SameStage DEF InStage
    <2>6. PublishedKept
      BY <2>1, <2>4 DEF PublishedKept, OtherRows
    <2>7. /\ handler'[s][n].at = at
          /\ \A t \in Stages, m \in Claims : (t # s \/ m # n) => handler'[t][m] = handler[t][m]
      <3> HIDE DEF at
      <3> QED
        BY <2>1, PlaceValue
    <2>8. s = "retrieval" => build'["code"].status = "READY"
      <3>1. s = "retrieval" => build["code"].status = "READY"
        BY DEF Core, HandlersHold, HandlerHolds, Mark
      <3> QED
        BY <2>6, <3>1 DEF PublishedKept, Stages
    <2>9. HandlerHolds(build', s, handler'[s][n])
      BY <2>7, <2>8 DEF HandlerHolds
    <2>10. HandlersHold'
      BY <2>6, <2>7, <2>9, OneHandler DEF Core
    <2>11. AttemptsLeft'
      BY <2>1 DEF Core, AttemptsLeft
    <2> QED
      BY <2>5, <2>6, <2>10, <2>11 DEF Core
  <1> QED
    BY <1>1, <1>2

\* A handler records which published input it read.
LEMMA ReadInputsCore ==
    ASSUME PipelineTypeOK, Core, NEW s \in Stages, NEW n \in Claims, ReadInputs(s, n)
    PROVE  Core' /\ PublishedKept
  <1>1. CASE Goto(s, n, "retryable")
    BY <1>1, GotoCore DEF Free
  <1>2. CASE ~Goto(s, n, "retryable")
    <2> DEFINE h == [at |-> "working",
                     from |-> build[IF s = "code" THEN "snapshot" ELSE "code"].by]
    <2>1. /\ build["snapshot"].status = "READY"
          /\ handler' = [handler EXCEPT ![s][n] = h] /\ UNCHANGED <<revision, build, job, claims>>
      BY <1>2 DEF ReadInputs
    <2>2. s = "retrieval" => build["code"].status = "READY"
      BY DEF Core, HandlersHold, HandlerHolds, ReadInputs
    <2>3. HandlerHolds(build, s, h)
      BY <2>1, <2>2 DEF HandlerHolds
    <2>4. handler'[s][n] = h
          /\ \A t \in Stages, m \in Claims : (t # s \/ m # n) => handler'[t][m] = handler[t][m]
      <3> HIDE DEF h
      <3> QED
        BY <2>1 DEF PipelineTypeOK
    <2>5. PublishedKept
      BY <2>1 DEF PublishedKept
    <2>6. HandlersHold'
      <3> HIDE DEF h
      <3>1. HandlerHolds(build', s, handler'[s][n])
        BY <2>1, <2>3, <2>4
      <3> QED
        BY <2>4, <2>5, <3>1, OneHandler DEF Core
    <2>7. PipelineShape' /\ AttemptsLeft'
      BY <2>1 DEF Core, PipelineShape, InStage, StageDone, StageAbsent, AttemptsLeft
    <2> QED
      BY <2>5, <2>6, <2>7 DEF Core
  <1> QED
    BY <1>1, <1>2

\* A finalizer publishes its stage and opens the next.
LEMMA PublishCore ==
    ASSUME PipelineTypeOK, Core, NEW s \in Stages, NEW n \in Claims, Publish(s, n)
    PROVE  Core' /\ PublishedKept
  <1>1. CASE Goto(s, n, "done") \/ Goto(s, n, "retryable")
    BY <1>1, GotoCore DEF Free
  <1>2. CASE Owned(s, n) /\ PublishStage(s, n)
    <2>1. handler[s][n].at = "finalizing" /\ MovesTo(s, n, "done")
      BY <1>2 DEF Publish, PublishStage, MovesTo
    <2>2. PipelineShape /\ HandlersHold /\ InStage(s) /\ job[s].generation = revision.generation
      <3>1. InStage(s) /\ revision.status = "PREPARING"
        BY <1>2, LiveJob DEF Owned, Core
      <3> QED
        BY <3>1 DEF InStage, Core
    <2>3. PipelineShape' /\ PublishedKept /\ AttemptsLeft'
      <3>1. CASE s = "snapshot"
        <4>1. HandOff("snapshot", "code", revision.generation, n)
          <5>1. HandOff("snapshot", "code", job["snapshot"].generation, n)
            BY <1>2, <3>1 DEF PublishStage, FinalizeSnapshot
          <5>2. job["snapshot"].generation = revision.generation
            BY <2>2, <3>1
          <5> QED
            BY <5>1, <5>2
        <4>2. "code" \in Stages
          BY DEF Stages
        <4>3. PipelineShape' /\ PublishedKept
          BY <1>2, <2>1, <2>2, <3>1, <4>1, <4>2, MovesOn
        <4>4. AttemptsLeft'
          BY <3>1, <4>1, PipelineAssumption
          DEF HandOff, Core, AttemptsLeft, PipelineTypeOK, NewJob, Jobs
        <4> QED
          BY <4>3, <4>4
      <3>2. CASE s = "code"
        <4>1. HandOff("code", "retrieval", revision.generation, n)
          BY <1>2, <3>2 DEF PublishStage, FinalizeCodeIndex
        <4>2. "retrieval" \in Stages
          BY DEF Stages
        <4>3. PipelineShape' /\ PublishedKept
          BY <1>2, <2>1, <2>2, <3>2, <4>1, <4>2, MovesOn
        <4>4. AttemptsLeft'
          BY <3>2, <4>1, PipelineAssumption
          DEF HandOff, Core, AttemptsLeft, PipelineTypeOK, NewJob, Jobs
        <4> QED
          BY <4>3, <4>4
      <3>3. CASE s = "retrieval"
        <4>1. FinalizeRetrieval(n)
          BY <1>2, <3>3 DEF PublishStage
        <4>2. PipelineShape' /\ PublishedKept
          BY <1>2, <2>1, <2>2, <3>3, <4>1, LastStage
        <4>3. AttemptsLeft'
          BY <3>3, <4>1 DEF FinalizeRetrieval, Core, AttemptsLeft, PipelineTypeOK, Jobs
        <4> QED
          BY <4>2, <4>3
      <3> QED
        BY <3>1, <3>2, <3>3 DEF Stages
    <2>4. HandlersHold'
      BY <2>1, <2>2, <2>3, FreePlace DEF Free
    <2> QED
      BY <2>3, <2>4 DEF Core
  <1> QED
    BY <1>1, <1>2 DEF Publish

\* Every step keeps the inductive invariant and what is published.
LEMMA NextCore ==
    ASSUME PipelineTypeOK, Core, Next
    PROVE  Core' /\ PublishedKept
  <1>1. ASSUME NEW s \in Stages, NEW n \in Claims, PublishFails(s, n) \/ Die(s, n)
        PROVE  Core' /\ PublishedKept
    BY <1>1, GotoCore DEF PublishFails, Die, Free
  <1> QED
    BY NextCases, <1>1, CreateCore, RetryCore, ClaimCore, ReapCore, LoadCore, CheckCodeIndexCore,
       MarkCore, ReadInputsCore, WorkCore, PublishCore, FinalizeSuccessCore, FinalizeFailureCore

\* PipelineInv holds in every reachable state: whatever crashes, stalls, reaps
\* and retries happen, the revision is in one stage and its rows agree.
THEOREM PipelineInvariance == Spec => []PipelineInv
  <1>1. Init => PipelineInv
    BY InitInv
  <1>2. PipelineInv /\ [Next]_vars => PipelineInv'
    <2> SUFFICES ASSUME PipelineInv, [Next]_vars PROVE PipelineInv'
      OBVIOUS
    <2>1. CASE Next
      <3>1. PipelineTypeOK /\ Core /\ AttemptsLeft
        BY DEF PipelineInv, Core
      <3>2. PipelineTypeOK'
        BY <2>1, <3>1, NextType
      <3>3. Core'
        BY <2>1, <3>1, NextCore
      <3> QED
        BY <3>2, <3>3 DEF PipelineInv, Core
    <2>2. CASE UNCHANGED vars
      BY <2>2, ZenonT(60) DEF vars, PipelineInv, PipelineTypeOK, PipelineShape, InStage, StageDone, StageAbsent,
                  HandlersHold, AttemptsLeft
    <2> QED
      BY <2>1, <2>2
  <1> QED
    BY <1>1, <1>2, PTL DEF Spec

-----------------------------------------------------------------------------
(* What follows.                                                           *)

\* Every row has its type.
THEOREM PipelineTypeCorrect == Spec => []PipelineTypeOK
  <1>1. PipelineInv => PipelineTypeOK
    BY DEF PipelineInv
  <1> QED
    BY <1>1, PipelineInvariance, PTL

\* A preparing revision always has a live job in its stage and generation,
\* with its inputs published: the hand-offs, the reaper and RetryPreparation
\* never leave it waiting for nobody.
THEOREM PreparingIsDriven == Spec => []PreparingHasWork
  <1>1. PipelineInv => PreparingHasWork
    BY DEF PipelineInv, PipelineShape, PreparingHasWork, InStage
  <1> QED
    BY <1>1, PipelineInvariance, PTL

\* A READY revision names one consistent chain of published resources.
THEOREM ReadyIsConsistent == Spec => []ReadyLineage
  <1>1. PipelineInv => ReadyLineage
    BY DEF PipelineInv, PipelineShape, ReadyLineage, InStage
  <1> QED
    BY <1>1, PipelineInvariance, PTL

\* A FAILED revision failed in one stage, which a retry restarts.
THEOREM FailedCanRetry == Spec => []FailedIsRetryable
  <1>1. PipelineInv => FailedIsRetryable
    BY DEF PipelineInv, PipelineShape, FailedIsRetryable, InStage
  <1> QED
    BY <1>1, PipelineInvariance, PTL

\* failBusinessTx and failAnalysisRevisionTx never refuse the failure of a
\* running job.
THEOREM FailureCommits == Spec => []FailureCanCommit
  <1>1. PipelineInv => FailureCanCommit
    <2> SUFFICES ASSUME PipelineInv, NEW s \in Stages, job[s].status = "RUNNING"
                 PROVE  FailureAccepted(s)
      BY DEF FailureCanCommit
    <2>1. InStage(s) /\ revision.status = "PREPARING"
      BY LiveJob DEF PipelineInv
    <2> QED
      BY <2>1 DEF InStage, FailureAccepted
  <1> QED
    BY <1>1, PipelineInvariance, PTL

\* What a step may do to the revision row.
LEMMA RevisionMoves ==
    ASSUME PipelineTypeOK, Core, Next
    PROVE  /\ revision.status = "READY" => revision' = revision
           /\ revision'.generation > revision.generation => revision.status # "PREPARING"
  <1> DEFINE Goal == /\ revision.status = "READY" => revision' = revision
                     /\ revision'.generation > revision.generation => revision.status # "PREPARING"
  <1>1. revision.generation \in Nat /\ ~(revision.generation > revision.generation)
    BY PipelineAssumption DEF PipelineTypeOK
  <1>2. revision' = revision => Goal
    BY <1>1
  <1>3. ASSUME NEW s \in Stages, job[s].status = "RUNNING", revision'.generation = revision.generation
        PROVE  Goal
    <2>1. revision.status = "PREPARING"
      BY <1>3, LiveJob DEF Core
    <2> QED
      BY <1>1, <1>3, <2>1
  <1>4. ASSUME CreatePreparation \/ RetryPreparation PROVE Goal
    BY <1>4 DEF CreatePreparation, RetryPreparation
  <1>5. ASSUME NEW s \in Stages, Claim(s) \/ Reap(s) PROVE Goal
    <2>1. CASE revision' = revision
      BY <1>2, <2>1
    <2>2. CASE revision' # revision
      <3>1. job[s].status = "RUNNING" /\ FailStage(s)
        BY <1>5, <2>2 DEF Claim, Reap, RetryLater
      <3>2. revision'.generation = revision.generation
        BY <3>1 DEF FailStage, PipelineTypeOK
      <3> QED
        BY <1>3, <3>1, <3>2
    <2> QED
      BY <2>1, <2>2
  <1>6. ASSUME NEW s \in Stages, NEW n \in Claims, Publish(s, n) \/ FinalizeFailure(s, n)
        PROVE  Goal
    <2>1. CASE revision' = revision
      BY <1>2, <2>1
    <2>2. CASE revision' # revision
      <3>1. job[s].status = "RUNNING" /\ (FailStage(s) \/ PublishStage(s, n))
        BY <1>6, <2>2 DEF Publish, FinalizeFailure, Goto, RetryLater, Owned
      <3>2. revision'.generation = revision.generation
        BY <3>1 DEF FailStage, PublishStage, FinalizeSnapshot, FinalizeCodeIndex, HandOff,
                    FinalizeRetrieval, PipelineTypeOK
      <3> QED
        BY <1>3, <3>1, <3>2
    <2> QED
      BY <2>1, <2>2
  <1>7. ASSUME NEW s \in Stages, NEW n \in Claims,
               \/ Load(s, n) \/ Mark(s, n) \/ ReadInputs(s, n) \/ Work(s, n)
               \/ (s = "retrieval" /\ CheckCodeIndex(n))
               \/ FinalizeSuccess(s, n) \/ PublishFails(s, n) \/ Die(s, n)
        PROVE  Goal
    <2>1. revision' = revision
      BY <1>7 DEF Load, Mark, ReadInputs, Work, CheckCodeIndex, FinalizeSuccess, PublishFails, Die, Goto
    <2> QED
      BY <1>2, <2>1
  <1> HIDE DEF Goal
  <1>8. Goal
    <2>1. CASE \E s \in Stages : Claim(s) \/ Reap(s)
      BY <2>1, <1>5
    <2>2. CASE \E s \in Stages, n \in Claims : Publish(s, n) \/ FinalizeFailure(s, n)
      BY <2>2, <1>6
    <2>3. CASE \E s \in Stages, n \in Claims :
                 \/ Load(s, n) \/ Mark(s, n) \/ ReadInputs(s, n) \/ Work(s, n)
                 \/ (s = "retrieval" /\ CheckCodeIndex(n))
                 \/ FinalizeSuccess(s, n) \/ PublishFails(s, n) \/ Die(s, n)
      BY <2>3, <1>7
    <2> QED
      BY NextCases, <1>4, <2>1, <2>2, <2>3
  <1> QED
    BY <1>8 DEF Goal

\* Nothing published is taken back or replaced: READY rows never change.
THEOREM PublishedIsFinal == Spec => PublishedStays
  <1>1. PipelineInv /\ [Next]_vars =>
           [/\ \A s \in Stages : build[s].status = "READY" => build'[s] = build[s]
            /\ revision.status = "READY" => revision' = revision]_vars
    <2> SUFFICES ASSUME PipelineInv, Next
                 PROVE  /\ \A s \in Stages : build[s].status = "READY" => build'[s] = build[s]
                        /\ revision.status = "READY" => revision' = revision
      BY DEF vars
    <2>1. PipelineTypeOK /\ Core
      BY DEF PipelineInv, Core
    <2>2. PublishedKept
      BY <2>1, NextCore
    <2> QED
      BY <2>1, <2>2, RevisionMoves DEF PublishedKept
  <1> QED
    BY <1>1, PipelineInvariance, PTL DEF Spec, PublishedStays

\* A new generation starts only when no job of the revision is claimed or
\* claimable, so resetJobTx never takes a job from its claim.
THEOREM RetryIsExclusive == Spec => RetryTakesNoClaim
  <1>1. PipelineInv /\ [Next]_vars =>
           [revision'.generation > revision.generation =>
              \A s \in Stages : job[s].status \in {"ABSENT", "SUCCEEDED", "FAILED"}]_vars
    <2> SUFFICES ASSUME PipelineInv, Next, revision'.generation > revision.generation,
                        NEW s \in Stages
                 PROVE  job[s].status \in {"ABSENT", "SUCCEEDED", "FAILED"}
      BY DEF vars
    <2>1. PipelineTypeOK /\ Core
      BY DEF PipelineInv, Core
    <2>2. revision.status # "PREPARING"
      BY <2>1, RevisionMoves
    <2>3. job[s].status \notin {"PENDING", "RUNNING", "RETRY_WAIT"}
      BY <2>1, <2>2, LiveJob DEF Core
    <2>4. job[s] \in Jobs
      BY <2>1 DEF PipelineTypeOK
    <2> QED
      BY <2>3, <2>4 DEF Jobs
  <1> QED
    BY <1>1, PipelineInvariance, PTL DEF Spec, RetryTakesNoClaim
=============================================================================

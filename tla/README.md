# RepoLens: TLA+ models and proofs

RepoLens is a local, single-user code-diagnosis service: a Go API process, one
or more Go worker processes and a MySQL database. A user registers a
repository, RepoLens prepares an *analysis revision* of it (a snapshot, a code
index, a retrieval index), and then answers *diagnosis* requests on that
revision with a bounded LLM agent. Everything that lasts longer than a request
is a row of `analysis_jobs` that a worker claims, leases, executes and
finalizes.

This directory models the parts of that system whose correctness depends on
the order of steps of several actors, checks them with TLC on small instances,
and proves the main results with TLAPS for every value of the constants.
`PROJECT.json` maps each definition to the lines of code it stands for.

## 1. The parts and how they interact

| Part | Code | State it owns | Operations |
|---|---|---|---|
| job store | `internal/jobs/store.go`, `model.go` | `analysis_jobs` rows; writes the business row of a job in the same transaction | claim, start, return, renew, finalize (success, failure, retry, cancel), reap, requeue, retry |
| job worker | `internal/jobs/worker.go`, `lease.go`, `internal/worker` | slots, the context of each execution, stop mode | poll, start boundary, dispatch, renew, cancel poll, finalize with resolution, graceful stop |
| diagnosis execution | `internal/worker/job_handler.go`, `internal/diagnosis/store.go` | `diagnosis_runs`, `diagnosis_attempts`, checkpoints, provider dispatch markers | create attempt, mark and clear dispatch, checkpoint, finalize, abandon, cancel |
| analysis pipeline | `internal/analysispipeline`, `internal/snapshot`, `internal/indexing`, `internal/codeintel`, `internal/retrieval` | `analysis_revisions`, snapshots, code index and retrieval builds | create, retry, three handlers, three publishing transactions |
| diagnosis creation, provider configuration | `internal/diagnosis`, `internal/provider` | runs, idempotency keys, the provider's secret file, MySQL's named lock | create with idempotency key, retry, save and clear the configuration, build the client for an execution |
| agent loop, provider client | `internal/agent`, `internal/llm` | conversation, budgets | rounds, tool calls, forced final answer, provider retry |
| evidence and citations | `internal/evidence`, `internal/tools`, `internal/platform/snapshotstore` | `attempt_evidence_items`, the report's citations | read line ranges, issue handles, rebind a checkpoint's draft, resolve and classify a report |
| snapshots and retrieval artifacts on disk | `internal/indexing`, `internal/retrieval/artifact`, `internal/platform/artifactcleanup` | directories on disk | stage, publish by rename, commit the path, clean up what no row names |
| schema migrations | `internal/platform/mysql` | the schema and its ledger | apply, resume |
| code analysis, ranking, most of the HTTP API, evaluation, web | the rest | no shared mutable state of their own | sequential computation, I/O |

The job store is the hub. A job's status, its lease and its *claim token*
decide who may write the job's business row; the pipeline, diagnosis creation
and cancellation reach a resource only through a transaction that also looks
at, or writes, its job. The behaviours that make this hard:

* a lease expires while its handler still runs; the job is claimed again and
  two handlers of one job overlap;
* a transaction commits and its answer is lost, so the worker must find out
  what happened from the row;
* the reaper, the sweeper, the API (cancel, retry, requeue) and two workers
  write the same rows between any two steps of a handler;
* a call to the provider costs money and cannot be undone, and a crash may hit
  between the call and the record of its answer;
* some writes are fenced by the claim token and some are not;
* directories are removed by age and by a list of references that was read
  before the last commit;
* a request that holds the provider lock needs further connections of the pool
  in which the other requests wait;
* MySQL commits each DDL statement, so a process that dies leaves a migration
  half done.

## 2. Modules

| Module | Models | Lines of the argument |
|---|---|---|
| `JobLifecycle` | abstract: what the API can see of one job | six visible state changes |
| `AnalysisJobs` | job store and job workers | implements `JobLifecycle` |
| `DiagnosisExecution` | the diagnosis handler, its attempts and markers, composed with `AnalysisJobs` | implements `AnalysisJobs` |
| `AnalysisPipeline` | one revision through snapshot, code index and retrieval index | uses claims as `AnalysisJobs` guarantees them |
| `AgentLoop` | one execution of the agent: rounds, tools, budgets, provider retries | what `DiagnosisExecution` sees as a number of guarded calls |
| `ArtifactStore` | executions that publish directories, cleanup passes that remove them | a claim is fenced as `AnalysisJobs` guarantees |
| `DiagnosisCreation` | creation, retry and configuration requests under the named lock, executions that build a provider client | hands runs to `DiagnosisExecution` |
| `Migrations` | `ApplyMigrations` for any program of steps | |
| `MigrationFiles` | the steps of this repository's files | the instance `Migrations` is checked for |
| `SnapshotReads` | the two readers of line ranges, and what a bounded read promises | operators |
| `Evidence` | from the index build's bodies to the citations of a persisted report | uses `SnapshotReads`; the resume of `DiagnosisExecution` seen from the draft |
| `MC...` | constants of the runs | |
| `AnalysisJobsRefinement` | `JobLifecycle` instantiated for every job | `RefinesLifecycle` |
| `AnalysisJobs_proofs` | proofs about `AnalysisJobs` | |
| `DiagnosisHandler_proofs` | the handler, the reaper, the sweeper and an explicit retry preserve `ExecInv` | lemmas only |
| `DiagnosisExecution_proofs` | the queue's steps and finalizers preserve it; the theorems about the composition | uses both proof modules above |
| `AnalysisPipeline_proofs` | proofs about `AnalysisPipeline` | |
| `AgentLoop_proofs` | proofs about `AgentLoop` | |
| `ArtifactStore_proofs`, `DiagnosisCreation_proofs`, `Migrations_proofs` | proofs about these modules | |

Definitions named `X_something` that precede a definition `X` are variants of
it with one plausible mistake. They occur in no specification; they document
what each property would catch.

### AnalysisJobs

`job[j]` is the row, `business[j]` the status of the resource it works on
(diagnosis run, snapshot, build), `claims[j]` the last token issued and
`claim[j][n]` the goroutine of the n-th claim: its phase, the context's cause,
what the handler returned and what the finalizer plans. `mode[w]` is a
worker's stop state. Each database round trip is an action: `ClaimJobs`,
`MarkExecutionStarted` (and its refused and lost forms),
`ResolveExecutionStart`, `ReturnUndispatchedClaim`, `Launch`, the handler's
outcomes, `RenewalFails`, `CancelPoll`, `AfterHandler`, `Finalize`,
`FinalizeEnds`, `ReapExpiredJobs` (a batch in one transaction),
`RequestCancellation`, `ManualRequeue`, `RetryDiagnosis`, `RequestStop`,
`CancelActive`, `Exit`, `Crash`, `Restart`.

Time is two flags: a lease is live or expired, a backoff is over or not. A
token is the ordinal of its claim; the code uses UUIDs and compares them for
equality only. Faults (a failed transaction, a lost answer, a stall, a crash,
a shutdown) draw on the budget `MaxFaults`.

### DiagnosisExecution

`AnalysisJobs` leaves a handler's inside open. This module fills it in for a
diagnosis: where `Execute` is, the attempt row of each claim (status,
checkpoint, dispatch marker, failure code), the run's `final_attempt_id`, and
the dispatch guard around each provider call. The composition is proved to
implement `AnalysisJobs` (`RefinesJobs`), so what is proved about the queue
holds for it. `KeepsHandlerContract` is the part of that refinement that is
about the handler's return; it is the one TLC checks, because evaluating the
queue's whole next-state relation on every step of the composition more than
doubles the time of the run. `MaxOutages` bounds database failures inside a
handler.

### AnalysisPipeline

`revision` is the `analysis_revisions` row, `build[s]` and `job[s]` the
resource and the job of stage s, `handler[s][n]` where the n-th claim's
`Execute` is and which input it has read. `Load`, `CheckCodeIndex`, `Mark`,
`ReadInputs`, `Work`, `Publish`, `PublishFails`, `FinalizeSuccess` and
`FinalizeFailure` are a handler's steps; `Publish` is the one fenced
transaction that stores the result, creates the next stage's build and job,
and moves the revision. `Mark` is deliberately unfenced, as `MarkBuildBuilding`
is. `Claim` merges claim and start, and `Reap` is enabled whenever a job runs,
because the lease protocol is the subject of `AnalysisJobs`. An output is
named by the claim that produced it, so a chain built from two different
inputs would be visible.

### AgentLoop

`at` is where `Execute` is, `guard` the `AgentGuard`, `batch` and `answers`
the tool calls of the last reply and how many of them have a tool message,
`try` the attempt of `RetryingProvider`, `seen` the attempt's
`provider_dispatch_success_seen`, `result` the counters of `LoopResult`. `Round`
is the head of the loop with `RecordStep`; a request ends as `FinalReply`,
`ToolReply`, `DefiniteFailure`, `RetryableFailure`, `DispatchRefused` or
`UnknownOutcome`; `ToolCall` is one call of a batch with `RecordSearchCall`,
`RecordToolCall` and, on refusal, `appendBudgetResults` and `finalizeOnly`.
The history variables `made`, `doubt` and `ran` record what really happened.
The dispatch guard is always present, as the worker installs it. A tool call is
a model value, a reply one of the four kinds the loop tells apart. The guard's
own counters are not advanced by a refused tool call: nothing reads them
afterwards.

### ArtifactStore

An execution (one claim of a snapshot's or a retrieval build's job) goes
through `Stage`, `Publish` (the rename), for a snapshot `Seal` (manifest and
read-only modes), and `Commit`, which names its directory in the READY row
unless a later claim owns the job. `stage[e]` and `out[e]` are its two
directories, `stageAge` and `outAge` the time since their modification time,
which a rename keeps. A cleanup pass is `CleanStart` (reads the clock), two
queries for the referenced paths, a walk over listed entries (`Skip`,
`Vanished`, `Choose`) and a removal of at least two steps; it runs in every
worker. `Tick` moves all ages together. Two durations are bounded: a pass
(`MaxPass`; the code gives it one minute) and the time from a directory's last
change to its commit (`MaxStall`), for which the model assumes
`MaxStall <= TTL`. The code has no such bound, only a TTL of 24 hours. A
claim directory without a source ("shell") stays on disk: cleanup looks for a
`source` in it and passes over one that has none.

### DiagnosisCreation

Each request takes a connection (`TakeConn`), waits for the lock (`Acquire`,
`LockTimeout`) and does its queries with a second connection (`Querying`):
`CheckKey`, `PinProvider`, `Insert` for a creation, `Examine` and `WriteFile`
for a configuration change, `LoadRun` and `Requeue` for a retry. `file` is the
identity in the secret file, `Current` the provider in force. `Reads` has the
code's fallback: a file that cannot be read counts as absent and the
environment's provider is taken; this and the loss of the lock's session draw
on `MaxFaults`. `BuildForExecution` compares the pinned identity with the one
it reads. An identity is endpoint, model and authentication mode; keys are
left out because a new key for the same identity is always accepted.

### Migrations and MigrationFiles

A step of `Program` inspects objects (tables, columns, indexes), and is done,
executable from a known older definition, or a conflict; or it converts the
rows of a table, in version 013 only after it has seen the type of the column
(`typed`): a redefined column may then be refused before the conversion, for
its type, or after it, for its default. `Die` may happen at any point under the lock, before or after
MySQL carries the statement out; `Restart` follows. `rows[t]` says whether a
table may hold rows of an older release ("legacy") or of this one ("fresh").
The database a process meets is the one any number of recorded versions left,
with up to `MaxDrift` objects redefined by somebody else. `MigrationFiles`
contains fifteen of the nineteen files with every `MODIFY`, every changed
default, the replaced index and every conversion of rows. Tables, columns and
indexes that one statement defines for good are left out, the tables and
columns of files 004, 005, 007 and 017 among them, since they all go through
the step that creates the jobs table or adds `build_tags`. `MCMigrations` spells
the program out for TLC and asserts that it is what `Files` gives.

### Evidence and SnapshotReads

A file is the sequence of its lines' lengths. `ScanLine` and `IndexBuilt` are
the one-pass reader of the index build. An attempt issues handles
(`InitialEvidence`, `SearchCode`, `ReadFile`), the model concludes with a
draft that cites handles of the attempt, made-up ones or none (`Conclude`).
A citation is a slot of the draft, and `finding` says which finding a slot
belongs to, so that a finding may have a good citation beside a made-up one.
Then `ResolveReportDraft`, `SaveCheckpoint` and `Finalize` turn it into a
report. `Interrupted` may come before every step; the next attempt starts at
`rebindCheckpointDraft` if there is a checkpoint. `meant` is a history
variable: what the model cited. A failing read or query is a subset of the
citations for which rebinding or resolution fails. Of the lineage that
resolution compares again after `Resolve` (`SameAttempt`), only the attempt
can differ: a run has one snapshot and one index build.

## 3. Runs

| Run | Question | Bounds |
|---|---|---|
| `jobs_safety` | ownership, agreement of job and resource, finalizers and reaper never stuck, refinement of the lifecycle | a diagnosis and a pipeline job, 1 worker with 2 slots, batch of 2, 2 attempts, 2 generations, 2 claims each, 1 fault |
| `jobs_liveness` | attempts are charged once and bounded, every job ends, every stopping worker exits | 1 job, 1 worker, 2 attempts, 4 claims, 2 faults |
| `jobs_cancel_refused` | violated: see findings | 1 job, 2 workers, 3 claims, 2 faults |
| `diagnosis` | provider work is never forgotten or silently repeated, the run names the attempt that decided it, the handler keeps its contract with the queue | 2 generations, 2 overlapping claims, sweeper and reaper active, 1 queue fault, 1 handler outage |
| `diagnosis_replay` | violated: see findings | 1 generation, 2 outages |
| `pipeline` | no revision waits for nobody, READY is one chain, nothing published is taken back, every preparation ends | 2 attempts, 2 generations, 4 claims per stage, 2 live handlers |
| `agent_loop` | complete conversations, budgets, no repeated paid work, termination | 3 tool calls (1 search), batches of 2, 4 rounds, 7 tool calls, 2 searches, 2 repeats, 2 retries |
| `agent_calls` | violated: see findings | as `agent_loop` |
| `artifacts` | a READY row names a complete directory, a live execution keeps its own, a dead one's are removed | a snapshot or an index; 2 claims and 1 cleaning worker, or 1 claim and 2; TTL, stall and pass of 1 tick; 1 failing pass |
| `creation` | active runs are pinned to the provider in force and executed with no other, one run per key, every request is answered | 2 creations with one key (same or other payload), 1 save or clear, 1 retry; pool of 3; any file and environment; 1 fault |
| `migrations` | serving means the final schema, own work is never a conflict, no row of this release is converted, snapshots keep a unique index, the schema is completed | 2 processes, every starting version, 1 redefined object, 2 deaths |
| `evidence` | the two readers agree with each other and with their contract; VALID citations are the model's and survive interruption | files of up to 3 lines of 0, 1 or 3 bytes, all pairs of ranges, limit 2; 2 of the files diagnosed with 2 citations (of two findings or of one), 3 attempts, 1 tool call each, 1 fault |

Why the bounds suffice. Two claims of one generation make a stale handler
overlap a fresh one, and two claims in two generations let a new generation
meet a handler of the old. Two attempts give "retry" and "last attempt" one
case each. Two faults reach "the answer is lost, then the worker dies". Two
jobs suffice for a batch: the reaper's transaction treats its rows
independently except that one refusal aborts all. More jobs, workers and
claims are the subject of the proofs. In the pipeline four claims
per stage are two attempts in each of two generations, so a bound never keeps
a job from using its attempts. Claim counters grow without limit in the code;
they are capped by `MaxClaims`, and `jobs_liveness` uses enough claims (two
attempts plus two faults) for the cap not to matter there.

In `agent_loop` the four rounds of two calls exceed each of the budgets, so
every refusal occurs, also in the middle of a batch. The limit of three
identical calls in all is in the code (`guard.go:82`).

In `artifacts` a directory is fresh, at the TTL or beyond it, which is all
that the comparison tells apart; two passes may choose one entry. In
`creation` three connections are fewer than four requests and can all be held
by waiters, the case `EveryRequestEnds` is about. In `migrations` the program
is the repository's own, and two deaths reach "resumed, and cut short again".
In `evidence` the limit lies between the lengths, so that lines fit exactly,
miss by the separator, or are too long alone, and a handle is truncated.

Deadlock is not checked: a system whose jobs and requests have all ended may
stop.

### Fairness

`jobs_liveness` assumes weak fairness of: the expiry of a lease nobody renews,
a backoff's end, the poll and reap tickers, each goroutine's next step, a
handler's return, the drain timeout and the restart of a stopped container.
Nothing is assumed about faults: they may or may not happen.
`pipeline` assumes weak fairness of the claim loop per stage, of the
reaper and of the next step of a handler that has not died. `agent_loop`
assumes weak fairness of the loop's one goroutine. `artifacts` assumes that
time passes, that every worker keeps running its hourly pass and that an
execution at work returns or dies. `creation` assumes that a request which can
go on does, `GET_LOCK`'s timeout of 30 seconds included; where all connections
are held by waiters, that timeout is the only way on. `migrations` assumes that
MySQL answers the lock's owner and gives a free lock to some waiter, and that
the container manager restarts what exited. `evidence` has safety properties
only.

That handlers and tools return is in part an assumption. Provider requests
(`internal/llm/openai_compatible.go:110`), git commands
(`internal/indexing/clone.go`), renewals and finalizers have timeouts. The
context of an execution has none (`internal/jobs/worker.go:587`), so a handler
stuck in a database call or in local work would have its lease renewed for
ever, and the liveness results say nothing about it.

## 4. What is proved

All theorems hold for every set of jobs and workers and every value of the
bounds allowed by the named assumptions (`JobsAssumption`,
`WorkersAssumption`, `BoundsAssumption`, `OutagesAssumption`,
`PipelineAssumption`, `AgentAssumption`, `ArtifactAssumption`,
`CreationAssumption`: subsets and natural numbers, positive where the code's
are; `ArtifactAssumption` adds `MaxStall <= TTL`). `OnlyDiagnoses` says that
`DiagnosisExecution` is about diagnosis jobs; pipeline jobs have their own
handlers. `ProgramAssumption`, `AtAssumption` and
`ResumableAssumption` say which programs of migration steps are resumable; the
run `migrations` evaluates them on the repository's files.

**The queue.** None of the safety properties is inductive. The fence of the
finalizers compares token and status but not generation or lease, so "only
the owner writes" needs: the token of a RUNNING row is the last one issued;
a goroutine's generation is not in the future, and equals the row's while its
token holds; its attempt is the row's while it holds the row, and smaller
once a later claim has started. `IInv` states this per row (`RowOK`), per goroutine
(`ClaimOK`) and per pair of goroutines (`PairOK`). `AnalysisJobs_proofs`
begins with lemmas on single rows and goroutines, has one lemma per action and
`Invariance`, then the consequences: `TypeCorrect`, `JobsAgree`,
`AttemptsAreBounded`, `LatestClaimOwns`, `AttemptsAreDistinct`,
`FinalizersCommit`, `ReaperProceeds`, `CancellationIsFinal`. From the
invariant follow the step properties `ChargedOnce` and `TerminalStays` and
the refinement `ImplementsLifecycle`. The last lemma, `RowsKept`, says what
any step of the queue keeps of a row (`RowKeeps`).

**The diagnosis handler.** Nothing the runs check of `DiagnosisExecution` is
inductive: a handler decides on what it read several steps earlier, and by
then the reaper, the sweeper, another claim or a new generation may have
changed every row it relies on. `ExecInv` is the queue's `IInv` with, for
every run, four parts:

* `AttemptOK`, an attempt beside its job's row: provider work is marked or
  checkpointed; the attempt is of a generation that has begun and, while its
  token holds the job, of the job's own execution; it is closed for good only
  with its job; and a marker that no refused checkpoint accounts for
  (`Dangling`) is found only while the token still holds the job or once the
  job has ended, so the generation never runs again over it;
* `HandlerOK`, the place of a handler in `Execute` beside its attempt: whether
  the provider was called, marked and checkpointed there (`PlaceOK`), that a
  handler which met a lost claim or a cancellation is still right about it,
  and that a dangling marker is never planned to be retried;
* `ReplayOK`, two attempts of one run: a handler that owns the job and has
  entered the executor found no final checkpoint to resume from, and work of
  one generation is repeated only after an unsaved one;
* `FinalOK`: what `final_attempt_id` names, and that a successful run has one.

A step of one handler writes one attempt, one goroutine and perhaps its job.
`RunStep` reduces it to that attempt and to `RowKeeps`, the little that the
attempts of all other claims need to know about a change of their job's row:
generations do not go back, an end is final within its generation, a new
execution has a larger attempt number, and a token that lost the row never
gets it back. Since `RowKeeps` holds of every step of the queue (`RowsKept`),
and every step of the composition is a step of the queue (`ExecStepRefines`),
refinement comes first and the invariant of the handler is proved on top of
it. The order of attempts by number, which `Latest` takes a maximum over,
rests on the well-ordering of the natural numbers (`WellOrdered`, proved as
`LeastNumber`). `ExecInvariance`, `ImplementsJobs`,
`HandlerContractKept`, `WorkMarked`, `ReplayOnlyAfterLostCheckpoint`,
`FinalAgrees`, `SuccessIsCheckpointed` and `ClosedStay` follow, for any number
of jobs, workers, claims, attempts, generations, faults and outages.

**The pipeline.** `PipelineInv` says that the revision is in exactly one
stage: earlier stages are published and their jobs done, later ones have no
rows yet, and the current one is open with a live job (preparing) or closed
with a failed one (failed), in the revision's generation. A handler past the
point where it read an input holds an input that is published and unchanged
(`HandlerHolds`); that is what makes the unfenced `Mark` harmless, since a
stale handler can only mark a row that is open. `PipelineInvariance` goes by
action; every action lemma also shows that published rows stay
(`PublishedKept`), which the induction itself needs. From it follow
`PreparingIsDriven`, `ReadyIsConsistent`, `FailedCanRetry`, `FailureCommits`,
`PublishedIsFinal` and `RetryIsExclusive`.

**The agent loop.** That requests stay within `MaxSteps + 1 + MaxRetry` is
not evident: the retry budget is per request. `LoopInv` relates the number of
calls made to the rounds begun (`RequestInv`): while no answer was seen the
loop is at its first request, and once one was seen a definite failure is no
longer resolved, so each later request is made once. `GuardInv` ties the guard's
counters to what ran. `LoopInvariance` goes by action; `ConversationsComplete`,
`BudgetsHold` and `WorkIsNotRepeated` follow.

**Cleanup.** That a READY row stays whole is not inductive: a pass may hold a
list of references older than the row. `CleanupInv` adds why this is harmless:
a row the pass has not read was committed after the query, hence its directory
was at most `MaxStall` old then, and so was not older than the TTL when the
pass read its clock (`UnreadRowsYoung`); this depends on the order "clock,
rows, directories" in `artifactcleanup.Cleanup`. What a pass has chosen
belongs to an execution that is over and to no row (`TargetsInv`).
`CleanupInvariance`, `ReadyRowsAreWhole` and `ExecutionsUndisturbed` follow.

**Creation.** `CreationInv` says that what a request found out under the lock
still holds when it acts (`Prepared`): no run has its key, the identity it
read is in force, no run is active. `RunsStayPinned` and
`CreationIsIdempotent` follow; both need that no session lost the lock and no
read of the file failed, where their statements say so. The half of
`RunsKeepProvider` about executions (`UsesPinned`) needs neither: whatever
happens, an execution talks to its run's provider or to none.

**Migrations.** `MigrationInv` describes a database in the middle of a
version: steps before a point are done, steps after it are not, recorded
versions are complete, and whoever inspects or executes owns the lock and is
not past that point. From `ResumableAssumption` follow `ServesOnFinalSchema`,
`ResumesWithoutConflict` and `ConversionsMeetNoFreshRow`, for any number of
processes, versions and deaths.

Some theorems are about properties that no run lists because others are
deeper on the same instances: the type invariants, `DistinctAttempts`,
`TerminalIsFinal`, `FailedIsRetryable`, `RefinesJobs` and the
inductive invariants themselves.

Only model-checked:

* `JobSettles`, `StopCompletes`, `PreparationSettles`, `LoopEnds`,
  `OrphansRemoved`, `EveryRequestEnds`, `SchemaCompleted`: liveness under
  fairness, which the prover does not support.
* `BodiesAgree`: it compares two readers that fold over the lines of a file,
  and a statement for every file needs induction over data.
* `NothingForged` and `CitationsSurvive`: both need that reading a handle's
  range back without a limit gives the same range, again a fact about that
  fold (`readBoundedLines`) for every file.
* `IdentityGuarded`: it is about one index of one table in this repository's
  list of files, which the run `migrations` goes through completely; the
  theorems about migrations are for any resumable program.

## 5. Findings

* `jobs_cancel_refused`: the state diagram lets any PENDING diagnosis job be
  cancelled. After a retried attempt the run is RUNNING; if the next claim is
  returned before it starts, the job is PENDING beside a RUNNING run, and
  `RequestCancellation` (`internal/diagnosis/store.go:1155`) refuses that pair
  until a worker claims the job.
* `diagnosis_replay`: when neither the checkpoint nor the terminal failure can
  be written, the handler returns a terminal policy that refuses an automatic
  retry. If a renewal or a cancel poll fails in the same outage, the cause of
  the cancelled context replaces that error and the policy is dropped
  (`internal/jobs/worker.go:731`); the job is retried and the provider called
  a second time. `ReplayNeedsLostCheckpoint` shows that a second call needs
  such a lost checkpoint: nothing else leads to one.
* `agent_calls`: `Run` counts provider retries, `finalizeOnly` computes
  `ProviderCalls` from the rounds (`internal/agent/loop.go:424`). A retry of
  the first request is missing from `provider_calls` when a budget later
  forces the report. It needs `REPOLENS_PROVIDER_RETRY_ATTEMPTS` above its
  default of 0.

## 6. Not modelled, and why

* The legacy flow without a revision (`TriggerIndex` and its hand-offs,
  requeue of a single build): its rows go through the same job store and
  publishing code, so `AnalysisJobs` and `ArtifactStore` hold for them; what
  is left out is the order of its stages, which a client triggers one by one.
* The older validation of citations that carry no handle, for reports of
  earlier releases.
* Migrations: `AutoMigrate` (SQLite in tests), processes of an older release
  that keep writing during the upgrade, the refusal of duplicate attempts in
  version 009, and that version 012 fails old builds without their jobs.
* The provider's connection test: a request without effect on any state.
* Parsing, type checking, ranking and scoring: sequential computation, in part
  in floating point, whose result only reaches the rest through one publish.
* Loading and caching of a published index at query time: reads of immutable
  files.
* The remaining HTTP handlers: request parsing and rendering. Their state
  changes are actions above.
* The evaluation harness and the web client: they change no state of the
  service except through the API.

------------------------ MODULE AnalysisJobsRefinement ------------------------
(***************************************************************************)
(* The job queue of AnalysisJobs implements JobLifecycle, what one         *)
(* analysis_jobs row promises its readers.                                 *)
(***************************************************************************)
EXTENDS AnalysisJobs

(* Every job, seen through its status, generation, charged attempts and    *)
(* cancel flag, behaves as JobLifecycle says: claims, leases, stale        *)
(* workers, faults and batches add nothing to what the API can observe.    *)
Lifecycle(j) == INSTANCE JobLifecycle WITH
  status <- job[j].status, generation <- job[j].generation, attempts <- job[j].attempts,
  started <- job[j].started, cancel <- job[j].cancel
RefinesLifecycle ==
  /\ \A j \in Jobs : Lifecycle(j)!Init
  /\ [][\A j \in Jobs : UNCHANGED Lifecycle(j)!vars \/ Lifecycle(j)!Next]_vars

=============================================================================

---------------------------- MODULE MCAnalysisJobs ----------------------------
(* Small instances of AnalysisJobs.                                        *)
EXTENDS AnalysisJobsRefinement, TLC

CONSTANTS w1, w2

MCJobs == {1}
MCPair == {1, 2}
MCWorkers == {w1, w2}
MCOneWorker == {w1}

=============================================================================

------------------------- MODULE MCDiagnosisExecution -------------------------
(* Small instances of DiagnosisExecution.                                  *)
EXTENDS DiagnosisExecution

CONSTANT w1

MCJobs == {1}
MCWorkers == {w1}

=============================================================================

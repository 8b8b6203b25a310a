--------------------------- MODULE MCArtifactStore ---------------------------
(* A small instance of ArtifactStore: a snapshot or an index with two      *)
(* claims and one worker that cleans up, or one claim and two workers.     *)
EXTENDS ArtifactStore, TLC

CONSTANTS resource, c1, c2

MCExecutions == {1, 2}
MCOf == [e \in MCExecutions |-> resource]
MCCleaners == {c1, c2}

=============================================================================

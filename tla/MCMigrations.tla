----------------------------- MODULE MCMigrations -----------------------------
(* The repository's own migrations, run by an API and a worker process.    *)
EXTENDS Migrations, MigrationFiles, SequencesExt

(* Spelled out, because TLC evaluates them anew at every step of a         *)
(* liveness check; MCAssumption says that they are what Files makes them.  *)
MCProgram ==
  Initial001 \o Revisions002 \o Closure003 \o EvidenceHandles006 \o AgentConfig008
  \o Recovery009 \o CitationReason010 \o ChunkLength011 \o BuildTags012
  \o SnapshotIdentity013 \o RelationDetail014 \o RefLength015 \o ExecutionStart016
  \o ReportCapacity018 \o TextCapacity019
MCEnds == <<8, 10, 11, 12, 13, 16, 17, 18, 20, 24, 25, 28, 30, 33, 36>>
MCObjects ==
  {"snapshots", "jobs", "old_identity", "new_identity", "attempt_identity",
   "default_ref", "ref", "requested_ref", "signature", "doc", "reason_detail", "reason",
   "issue_description", "findings", "recommended_checks", "limitations", "revision_id",
   "retrieval_chunk_id", "max_output_tokens", "checkpoint_kind", "build_tags",
   "execution_started"}

ASSUME MCAssumption ==
  /\ MCProgram = FlattenSeq(Files)
  /\ MCEnds = [v \in 1..Len(Files) |-> Len(FlattenSeq(SubSeq(Files, 1, v)))]
  /\ MCObjects = UNION {DOMAIN MCProgram[p].want : p \in 1..Len(MCProgram)}

MCAt ==
  [p \in 0..Len(MCProgram) |-> [o \in MCObjects |->
     LET D == {i \in 1..p : o \in DOMAIN MCProgram[i].want} IN
     IF D = {} THEN "absent" ELSE MCProgram[Max(D)].want[o]]]

(* Snapshots of one repository and commit are told apart by a unique index *)
(* at every moment of the upgrade, even where it is cut short: the new     *)
(* index is there before the old one is dropped.                           *)
IdentityGuarded ==
  drift = {} /\ schema["snapshots"] # "absent" =>
    schema["old_identity"] = "unique" \/ schema["new_identity"] = "unique"

=============================================================================

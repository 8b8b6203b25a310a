---------------------------- MODULE MigrationFiles ----------------------------
(* The migration files: every change of a column's definition, the change  *)
(* of the snapshots' identity and every conversion of rows. Tables,        *)
(* columns and indexes that one statement defines for good are left out,   *)
(* and with them files 004, 005, 007 and 017, which have nothing else; the *)
(* jobs table and build_tags stand for them.                               *)
EXTENDS Integers, Sequences

(* A step inspects the objects it is about and starts from nothing, or     *)
(* from the one older definition the code knows.                           *)
Adds(defs) ==
  [want |-> defs, from |-> [o \in DOMAIN defs |-> {"absent"}], rows |-> {}, typed |-> {}]
Changes(o, old, new) ==
  [want |-> [x \in {o} |-> new], from |-> [x \in {o} |-> {old}], rows |-> {}, typed |-> {}]

(* CREATE TABLE makes the columns and indexes of the table at once.        *)
CreateTable(defs) == Adds(defs)
AddColumn(column, def) == Adds([x \in {column} |-> def])
AddUniqueIndex(index) == Adds([x \in {index} |-> "unique"])

(* MODIFY starts from the definition migrationLegacyColumnDefinition has,  *)
(* SET DEFAULT from the default that applyAlterDefault names.              *)
ModifyColumn(column, old, new) == Changes(column, old, new)
AlterDefault(column, old, new) == Changes(column, old, new)
DropIndex(index) == Changes(index, "unique", "absent")

(* An UPDATE of the rows of a table is run again when a version resumes.   *)
(* ConvertsTyped asks for the presence and the type of a column first.     *)
Converts(t) == [want |-> <<>>, from |-> <<>>, rows |-> {t}, typed |-> {}]
ConvertsTyped(t, column) == [want |-> <<>>, from |-> <<>>, rows |-> {t}, typed |-> {column}]

Initial001 ==
  <<CreateTable([default_ref |-> "varchar128"]),
    CreateTable([snapshots |-> "table", old_identity |-> "unique",
                 ref |-> "varchar128", requested_ref |-> "varchar128"]),
    CreateTable([signature |-> "text", doc |-> "text"]),
    CreateTable([reason_detail |-> "varchar255"]),
    CreateTable([jobs |-> "table"]),
    CreateTable([issue_description |-> "text"]),
    CreateTable([findings |-> "text", recommended_checks |-> "text"]),
    CreateTable([reason |-> "varchar255"])>>

Revisions002 == <<AddColumn("revision_id", "null"), AddColumn("limitations", "text")>>

Closure003 == <<AddColumn("max_output_tokens", "default_2048")>>

EvidenceHandles006 == <<CreateTable([retrieval_chunk_id |-> "varchar128"])>>

AgentConfig008 == <<AlterDefault("max_output_tokens", "default_2048", "default_4096")>>

(* Attempts get a generation before their identity includes it.            *)
Recovery009 ==
  <<AddColumn("checkpoint_kind", "none"), Converts("attempts"),
    AddUniqueIndex("attempt_identity")>>

CitationReason010 == <<ModifyColumn("reason", "varchar255", "varchar2048")>>

ChunkLength011 == <<ModifyColumn("retrieval_chunk_id", "varchar128", "varchar1024")>>

BuildTags012 == <<AddColumn("build_tags", "text"), Converts("builds")>>

(* Mutant of SnapshotIdentity013: the old index is dropped first.          *)
SnapshotIdentity013_DropFirst ==
  <<ConvertsTyped("snapshots", "revision_id"),
    ModifyColumn("revision_id", "null", "not_null"),
    DropIndex("old_identity"),
    AddUniqueIndex("new_identity")>>

(* The column has its type before the rows are converted and its null-     *)
(* ability after; the replacing index exists before the replaced one goes. *)
SnapshotIdentity013 ==
  <<ConvertsTyped("snapshots", "revision_id"),
    ModifyColumn("revision_id", "null", "not_null"),
    AddUniqueIndex("new_identity"),
    DropIndex("old_identity")>>

RelationDetail014 == <<ModifyColumn("reason_detail", "varchar255", "text")>>

RefLength015 ==
  <<ModifyColumn("default_ref", "varchar128", "varchar255"),
    ModifyColumn("ref", "varchar128", "varchar255"),
    ModifyColumn("requested_ref", "varchar128", "varchar255")>>

ExecutionStart016 == <<AddColumn("execution_started", "boolean"), Converts("jobs")>>

ReportCapacity018 ==
  <<ModifyColumn("findings", "text", "mediumtext"),
    ModifyColumn("recommended_checks", "text", "mediumtext"),
    ModifyColumn("limitations", "text", "mediumtext")>>

TextCapacity019 ==
  <<ModifyColumn("issue_description", "text", "mediumtext"),
    ModifyColumn("signature", "text", "mediumtext"),
    ModifyColumn("doc", "text", "mediumtext")>>

Files ==
  <<Initial001, Revisions002, Closure003, EvidenceHandles006, AgentConfig008, Recovery009,
    CitationReason010, ChunkLength011, BuildTags012, SnapshotIdentity013, RelationDetail014,
    RefLength015, ExecutionStart016, ReportCapacity018, TextCapacity019>>

=============================================================================

---------------------------- MODULE ArtifactStore ----------------------------
(* The directories that job executions publish and cleanup removes:        *)
(* SnapshotJobHandler.Execute and RetrievalJobHandler.Execute stage their  *)
(* output, rename it to a path of their own claim and commit that path to  *)
(* the READY row; artifactcleanup.Cleanup runs in every worker and removes *)
(* what no row names.  Nothing locks the two against each other: only ages *)
(* and the order in which cleanup takes the time, reads the rows and looks *)
(* at the directories keep it from removing an output about to be named.   *)
(*                                                                         *)
(* Time is relative.  An age is the time since a directory's modification  *)
(* time, "since" the time since a pass read the clock, and Tick advances   *)
(* them together; ages stop at AgeCap, past which none is told apart.      *)
EXTENDS Integers, FiniteSets

CONSTANTS
  Executions,      \* claims of the resources' jobs, numbered as issued
  Resources,       \* repository_snapshots and retrieval_builds rows
  Of,              \* the resource an execution works for
  Cleaners,        \* worker processes, each with its cleanup goroutine
  TTL,             \* the age cleanup waits for (24 hours)
  MaxStall,        \* bound: from a directory's last change to its commit
  MaxPass,         \* bound: the duration of one cleanup pass
  MaxActors,       \* bound: claims issued plus workers that clean up
  MaxFaults,       \* bound: cleanup passes that die or fail half way
  None

AgeCap == TTL + MaxPass + 1

ASSUME ArtifactAssumption ==
  /\ Executions \subseteq Nat
  /\ Of \in [Executions -> Resources]
  /\ None \notin Executions
  /\ TTL \in Nat \ {0} /\ MaxStall \in Nat /\ MaxPass \in Nat /\ MaxFaults \in Nat
  /\ MaxStall <= TTL

VARIABLES
  setup,           \* what the resources are, which claims and workers there will be
  exec,            \* what each execution is doing
  stage,           \* its staging directory: none, open or torn
  out,             \* its published directory
  stageAge, outAge,
  holder,          \* the claim that owns the resource's job
  row,             \* the execution whose path the READY row names
  pass,            \* where each cleanup pass is
  since,           \* the time since it read the clock
  refs,            \* the paths it read from the database
  todo,            \* the directory entries it has listed and not yet seen
  target,          \* the entry it has chosen to remove
  removing,        \* the passes that have begun to remove their target
  faults

execVars == <<exec, holder, row>>
dirVars == <<stage, out, stageAge, outAge>>
passVars == <<pass, since, refs, todo, target, removing, faults, setup>>
vars == <<execVars, dirVars, passVars>>

Phases == {"waiting", "claimed", "staging", "published", "sealed", "over"}
(* "shell" is a claim directory without its source, "bare" one whose source *)
(* has no manifest yet, "torn" one that a removal has begun to empty.       *)
Outputs == {"none", "shell", "bare", "whole", "torn"}
Stages == {"none", "open", "torn"}
Passes == {"idle", "refs", "moreRefs", "snapshots", "artifacts"}

Kind(e) == setup.kind[Of[e]]
IsSnapshot(e) == Kind(e) = "snapshot"
Live(e) == exec[e] \notin {"waiting", "over"}

Entries == [dir : {"stage", "out"}, of : Executions]

Setups ==
  [kind : [Resources -> {"snapshot", "index"}],
   claims : SUBSET Executions, workers : SUBSET Cleaners]

Init ==
  /\ setup \in {s \in Setups : Cardinality(s.claims) + Cardinality(s.workers) = MaxActors}
  /\ setup.workers # {}
  /\ exec = [e \in Executions |-> "waiting"]
  /\ stage = [e \in Executions |-> "none"]
  /\ out = [e \in Executions |-> "none"]
  /\ stageAge = [e \in Executions |-> 0]
  /\ outAge = [e \in Executions |-> 0]
  /\ holder = [r \in Resources |-> None]
  /\ row = [r \in Resources |-> None]
  /\ pass = [c \in Cleaners |-> "idle"]
  /\ since = [c \in Cleaners |-> 0]
  /\ refs = [c \in Cleaners |-> {}]
  /\ todo = [c \in Cleaners |-> {}]
  /\ target = [c \in Cleaners |-> None]
  /\ removing = {}
  /\ faults = 0

-----------------------------------------------------------------------------
(* Executions.                                                             *)

(* The job store hands the job of a resource that is not READY to a new    *)
(* claim; an earlier claim whose lease expired keeps running.              *)
Claim(e) ==
  /\ exec[e] = "waiting"
  /\ e \in setup.claims
  /\ \A d \in setup.claims : Of[d] = Of[e] /\ d < e => exec[d] # "waiting"
  /\ row[Of[e]] = None
  /\ exec' = [exec EXCEPT ![e] = "claimed"]
  /\ holder' = [holder EXCEPT ![Of[e]] = e]
  /\ UNCHANGED <<row, dirVars, passVars>>

(* A handler that finds its resource READY returns.                        *)
AlreadyReady(e) ==
  /\ exec[e] = "claimed"
  /\ row[Of[e]] # None
  /\ exec' = [exec EXCEPT ![e] = "over"]
  /\ UNCHANGED <<holder, row, dirVars, passVars>>

(* The snapshot handler makes the claim's directory first and stages next  *)
(* to it; the publisher stages under .tmp and makes nothing else.          *)
Stage(e) ==
  /\ exec[e] = "claimed"
  /\ row[Of[e]] = None
  /\ exec' = [exec EXCEPT ![e] = "staging"]
  /\ stage' = [stage EXCEPT ![e] = "open"]
  /\ stageAge' = [stageAge EXCEPT ![e] = 0]
  /\ out' = [out EXCEPT ![e] = IF IsSnapshot(e) THEN "shell" ELSE @]
  /\ UNCHANGED <<outAge, holder, row, passVars>>

(* The clone, or the index with its manifest, is complete and renamed to   *)
(* the claim's path.  The rename keeps the modification time, that of the  *)
(* last entry added.  A published index brings its manifest along, a       *)
(* snapshot's source has none yet.                                         *)
Publish(e) ==
  /\ exec[e] = "staging"
  /\ stage[e] = "open"
  /\ exec' = [exec EXCEPT ![e] = "published"]
  /\ stage' = [stage EXCEPT ![e] = "none"]
  /\ stageAge' = [stageAge EXCEPT ![e] = 0]
  /\ out' = [out EXCEPT ![e] = IF IsSnapshot(e) THEN "bare" ELSE "whole"]
  /\ \E age \in 0 .. stageAge[e] : outAge' = [outAge EXCEPT ![e] = age]
  /\ UNCHANGED <<holder, row, passVars>>

(* The snapshot handler walks the files, writes the manifest beside the    *)
(* source and makes both read-only; the source's modification time stays.  *)
Seal(e) ==
  /\ IsSnapshot(e)
  /\ exec[e] = "published"
  /\ out[e] = "bare"
  /\ exec' = [exec EXCEPT ![e] = "sealed"]
  /\ out' = [out EXCEPT ![e] = "whole"]
  /\ UNCHANGED <<stage, stageAge, outAge, holder, row, passVars>>

Finalizing(e) == exec[e] = IF IsSnapshot(e) THEN "sealed" ELSE "published"

(* The claim-fenced transaction that makes the row READY with the path;    *)
(* a claim that was superseded is refused and leaves its output behind.    *)
Commit(e) ==
  /\ Finalizing(e)
  /\ exec' = [exec EXCEPT ![e] = "over"]
  /\ row' = [row EXCEPT ![Of[e]] = IF holder[Of[e]] = e /\ @ = None THEN e ELSE @]
  /\ UNCHANGED <<holder, dirVars, passVars>>

(* An error while staging removes the staging directory on the way out; a  *)
(* later one leaves the published directory.                               *)
Fail(e) ==
  /\ Live(e)
  /\ exec' = [exec EXCEPT ![e] = "over"]
  /\ stage' = [stage EXCEPT ![e] = "none"]
  /\ stageAge' = [stageAge EXCEPT ![e] = 0]
  /\ UNCHANGED <<out, outAge, holder, row, passVars>>

(* The process dies and leaves everything where it is.                     *)
Crash(e) ==
  /\ Live(e)
  /\ exec' = [exec EXCEPT ![e] = "over"]
  /\ UNCHANGED <<holder, row, dirVars, passVars>>

-----------------------------------------------------------------------------
(* Cleanup.                                                                *)

(* now is read before the rows.                                            *)
CleanStart(c) ==
  /\ c \in setup.workers
  /\ pass[c] = "idle"
  /\ pass' = [pass EXCEPT ![c] = "refs"]
  /\ since' = [since EXCEPT ![c] = 0]
  /\ UNCHANGED <<refs, todo, target, removing, faults, setup, execVars, dirVars>>

Named(k) == {e \in Executions : Kind(e) = k /\ row[Of[e]] = e}

SnapshotRefs(c) ==
  /\ pass[c] = "refs"
  /\ pass' = [pass EXCEPT ![c] = "moreRefs"]
  /\ refs' = [refs EXCEPT ![c] = Named("snapshot")]
  /\ UNCHANGED <<since, todo, target, removing, faults, setup, execVars, dirVars>>

(* Mutant of Listed: the pass overlooks staging directories.               *)
Listed_NoStage(k) ==
  {x \in Entries : x.dir = "out" /\ Kind(x.of) = k /\ out[x.of] # "none"}
Listed(k) ==
  {x \in Entries : /\ Kind(x.of) = k
                   /\ (IF x.dir = "stage" THEN stage[x.of] ELSE out[x.of]) # "none"}

(* The second query, and the start of the walk over the snapshots, whose   *)
(* staging and claim directories share a parent.                           *)
ArtifactRefs(c) ==
  /\ pass[c] = "moreRefs"
  /\ pass' = [pass EXCEPT ![c] = "snapshots"]
  /\ refs' = [refs EXCEPT ![c] = @ \cup Named("index")]
  /\ todo' = [todo EXCEPT ![c] = Listed("snapshot")]
  /\ UNCHANGED <<since, target, removing, faults, setup, execVars, dirVars>>

Present(x) == IF x.dir = "stage" THEN stage[x.of] # "none" ELSE out[x.of] \notin {"none", "shell"}
Torn(x) == (IF x.dir = "stage" THEN stage[x.of] ELSE out[x.of]) = "torn"
Age(x) == IF x.dir = "stage" THEN stageAge[x.of] ELSE outAge[x.of]

(* Mutant of Older: a staging directory is taken whatever its age.         *)
Older_AnyStage(c, x) == x.dir = "stage" \/ Age(x) > since[c] + TTL
(* ModTime().Before(now - ttl).                                            *)
Older(c, x) == Age(x) > since[c] + TTL

(* Mutant of Referenced: the pass asks only for the age.                   *)
Referenced_Never(c, x) == FALSE
Referenced(c, x) == x.dir = "out" /\ x.of \in refs[c]

Kept(c, x) ==
  /\ todo' = [todo EXCEPT ![c] = @ \ {x}]
  /\ UNCHANGED <<pass, since, refs, target, removing, faults, setup, execVars, dirVars>>

PassOver(c) ==
  /\ pass' = [pass EXCEPT ![c] = "idle"]
  /\ since' = [since EXCEPT ![c] = 0]
  /\ refs' = [refs EXCEPT ![c] = {}]
  /\ todo' = [todo EXCEPT ![c] = {}]
  /\ target' = [target EXCEPT ![c] = None]
  /\ removing' = removing \ {c}

(* One listed entry that stays: referenced, too young, or gone since the   *)
(* listing.  The walk over the snapshots ignores an entry that is gone.    *)
Skip(c, x) ==
  /\ x \in todo[c] /\ target[c] = None
  /\ \/ Referenced(c, x)
     \/ Present(x) /\ ~Older(c, x)
     \/ ~Present(x) /\ pass[c] = "snapshots"
  /\ Kept(c, x)

(* The publisher's cleanup returns the error of Info: the pass ends.       *)
Vanished(c, x) ==
  /\ x \in todo[c] /\ target[c] = None
  /\ pass[c] # "snapshots"
  /\ ~Referenced(c, x) /\ ~Present(x)
  /\ PassOver(c)
  /\ UNCHANGED <<faults, setup, execVars, dirVars>>

(* Stat and removal are two steps, so two passes may choose one entry.     *)
Choose(c, x) ==
  /\ x \in todo[c] /\ target[c] = None
  /\ ~Referenced(c, x) /\ Present(x) /\ Older(c, x)
  /\ target' = [target EXCEPT ![c] = x]
  /\ todo' = [todo EXCEPT ![c] = @ \ {x}]
  /\ UNCHANGED <<pass, since, refs, removing, faults, setup, execVars, dirVars>>

Becomes(x, state) ==
  IF x.dir = "stage"
  THEN /\ stage' = [stage EXCEPT ![x.of] = state]
       /\ stageAge' = [stageAge EXCEPT ![x.of] = 0]
       /\ UNCHANGED <<out, outAge>>
  ELSE /\ out' = [out EXCEPT ![x.of] = state]
       /\ outAge' = [outAge EXCEPT ![x.of] = 0]
       /\ UNCHANGED <<stage, stageAge>>

(* RemoveAll unlinks the first child, which makes the directory young; it  *)
(* succeeds as well where another pass has removed an index's tree.        *)
RemoveBegin(c) ==
  /\ target[c] # None /\ c \notin removing
  /\ \/ Present(target[c]) /\ Becomes(target[c], "torn")
     \/ ~Present(target[c]) /\ ~IsSnapshot(target[c].of) /\ UNCHANGED dirVars
  /\ removing' = removing \cup {c}
  /\ UNCHANGED <<pass, since, refs, todo, target, faults, setup, execVars>>

RemoveEnd(c) ==
  /\ c \in removing
  /\ IF Torn(target[c]) THEN Becomes(target[c], "none") ELSE UNCHANGED dirVars
  /\ removing' = removing \ {c}
  /\ target' = [target EXCEPT ![c] = None]
  /\ UNCHANGED <<pass, since, refs, todo, faults, setup, execVars>>

(* The walk that removeSnapshotTree makes first fails where another pass   *)
(* is removing the tree or has removed it: this pass ends.                 *)
RemoveCollides(c) ==
  /\ target[c] # None /\ c \notin removing
  /\ IsSnapshot(target[c].of)
  /\ ~Present(target[c]) \/ \E d \in removing : target[d] = target[c]
  /\ PassOver(c)
  /\ UNCHANGED <<faults, setup, execVars, dirVars>>

(* A pass dies or meets an error it returns.  A removal of a snapshot cut  *)
(* short after the source leaves a claim directory.                        *)
PassFails(c) ==
  /\ pass[c] # "idle"
  /\ faults < MaxFaults
  /\ faults' = faults + 1
  /\ PassOver(c)
  /\ \/ UNCHANGED out
     \/ /\ c \in removing
        /\ target[c].dir = "out" /\ IsSnapshot(target[c].of) /\ Torn(target[c])
        /\ out' = [out EXCEPT ![target[c].of] = "shell"]
  /\ UNCHANGED <<stage, stageAge, outAge, setup, execVars>>

(* Past the snapshots, the publisher's .tmp and its published indexes.     *)
NextDirectory(c) ==
  /\ todo[c] = {} /\ target[c] = None
  /\ \/ /\ pass[c] = "snapshots"
        /\ pass' = [pass EXCEPT ![c] = "artifacts"]
        /\ todo' = [todo EXCEPT ![c] = Listed("index")]
        /\ UNCHANGED <<since, refs, target, removing>>
     \/ /\ pass[c] = "artifacts"
        /\ PassOver(c)
  /\ UNCHANGED <<faults, setup, execVars, dirVars>>

-----------------------------------------------------------------------------
AgeOf(e) == IF stage[e] # "none" THEN stageAge[e] ELSE outAge[e]

Older1(age) == IF age < AgeCap THEN age + 1 ELSE age

(* The two bounds on durations: an execution that is still going to change *)
(* or to commit its directory does so within MaxStall, and a pass ends     *)
(* within MaxPass.                                                         *)
Tick ==
  /\ \A e \in Executions :
       Live(e) /\ exec[e] # "claimed" => AgeOf(e) < MaxStall
  /\ \A c \in Cleaners : pass[c] # "idle" => since[c] < MaxPass
  /\ stageAge' = [e \in Executions |-> IF stage[e] = "none" THEN 0 ELSE Older1(stageAge[e])]
  /\ outAge' = [e \in Executions |->
       IF out[e] \in {"none", "shell"} THEN 0 ELSE Older1(outAge[e])]
  /\ since' = [c \in Cleaners |-> IF pass[c] = "idle" THEN 0 ELSE since[c] + 1]
  /\ UNCHANGED <<stage, out, pass, refs, todo, target, removing, faults, setup, execVars>>

ExecStep(e) ==
  \/ Claim(e) \/ AlreadyReady(e) \/ Stage(e) \/ Publish(e) \/ Seal(e)
  \/ Commit(e) \/ Fail(e) \/ Crash(e)

CleanStep(c) ==
  \/ CleanStart(c) \/ SnapshotRefs(c) \/ ArtifactRefs(c)
  \/ \E x \in Entries : Skip(c, x) \/ Vanished(c, x) \/ Choose(c, x)
  \/ RemoveBegin(c) \/ RemoveEnd(c) \/ RemoveCollides(c) \/ NextDirectory(c)

Next ==
  \/ \E e \in Executions : ExecStep(e)
  \/ \E c \in Cleaners : CleanStep(c) \/ PassFails(c)
  \/ Tick

Spec == Init /\ [][Next]_vars

(* Executions return or die, time passes, and every worker keeps running   *)
(* its hourly pass.                                                        *)
FairSpec ==
  /\ Spec
  /\ WF_vars(Tick)
  /\ \A c \in Cleaners : WF_vars(CleanStep(c))
  /\ \A e \in Executions : WF_vars(Live(e) /\ ExecStep(e))

-----------------------------------------------------------------------------
ArtifactTypeOK ==
  /\ setup \in Setups
  /\ exec \in [Executions -> Phases]
  /\ stage \in [Executions -> Stages]
  /\ out \in [Executions -> Outputs]
  /\ stageAge \in [Executions -> Nat]
  /\ outAge \in [Executions -> Nat]
  /\ holder \in [Resources -> Executions \cup {None}]
  /\ row \in [Resources -> Executions \cup {None}]
  /\ pass \in [Cleaners -> Passes]
  /\ since \in [Cleaners -> Nat]
  /\ refs \in [Cleaners -> SUBSET Executions]
  /\ todo \in [Cleaners -> SUBSET Entries]
  /\ target \in [Cleaners -> Entries \cup {None}]
  /\ removing \subseteq Cleaners
  /\ faults \in Nat

(* A READY row names a complete directory: the one it was given, with its  *)
(* manifest, whatever the cleanup passes of any worker are doing.          *)
ReadyIsWhole == \A r \in Resources : row[r] # None => out[row[r]] = "whole"

(* Cleanup never takes a directory from under an execution at work: its    *)
(* staging directory stays until the rename, its output until the commit.  *)
LiveUndisturbed ==
  \A e \in Executions :
    /\ exec[e] = "staging" => stage[e] = "open"
    /\ exec[e] = "published" => out[e] = (IF IsSnapshot(e) THEN "bare" ELSE "whole")
    /\ exec[e] = "sealed" => out[e] = "whole"

(* The rows that a pass has read before it looks at a kind of directory.   *)
HasRead(c, e) == pass[c] \in {"snapshots", "artifacts"} \/ (pass[c] = "moreRefs" /\ IsSnapshot(e))
Walking(c) == pass[c] \in {"snapshots", "artifacts"}

RowsInv == \A r \in Resources : row[r] # None => Of[row[r]] = r /\ exec[row[r]] = "over"

DirsInv ==
  \A e \in Executions :
    /\ exec[e] \in {"waiting", "claimed"} => stage[e] = "none" /\ out[e] = "none"
    /\ exec[e] = "staging" => out[e] \in {"none", "shell"} /\ stageAge[e] <= MaxStall
    /\ exec[e] \in {"published", "sealed"} => stage[e] = "none" /\ outAge[e] <= MaxStall

TargetsInv ==
  \A c \in Cleaners :
    /\ ~Walking(c) => todo[c] = {} /\ target[c] = None
    /\ c \in removing => target[c] # None
    /\ target[c] # None =>
         /\ exec[target[c].of] = "over"
         /\ target[c].dir = "out" => row[Of[target[c].of]] # target[c].of

(* A pass takes the time before it reads the rows: a row committed after   *)
(* the read names a directory that was at most MaxStall old by then, so it *)
(* was not yet TTL old when the pass began.                                *)
UnreadRowsYoung ==
  \A c \in Cleaners, e \in Executions :
    row[Of[e]] = e /\ HasRead(c, e) /\ e \notin refs[c] => outAge[e] <= since[c] + TTL

(* Why cleanup is safe without a lock against the executions: the          *)
(* inductive invariant of publishing, committing and cleaning up.          *)
CleanupInv ==
  /\ ArtifactTypeOK
  /\ LiveUndisturbed
  /\ ReadyIsWhole
  /\ RowsInv
  /\ DirsInv
  /\ TargetsInv
  /\ UnreadRowsYoung

(* What a failed, superseded or crashed execution leaves behind is removed *)
(* in the end, all but an empty claim directory of a snapshot.             *)
OrphansRemoved ==
  \A e \in Executions :
    (exec[e] = "over" /\ row[Of[e]] # e)
      ~> (stage[e] = "none" /\ out[e] \in {"none", "shell"})

=============================================================================

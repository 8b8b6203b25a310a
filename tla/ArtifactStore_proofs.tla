------------------------- MODULE ArtifactStore_proofs -------------------------
(* Cleanup is safe for any number of executions, resources and workers, as *)
(* long as an execution commits within TTL of its directory's last change. *)
EXTENDS ArtifactStore, TLAPS

LEMMA InitInv == Init => CleanupInv
<1> SUFFICES ASSUME Init PROVE CleanupInv
  OBVIOUS
<1> USE ArtifactAssumption
<1>1. ArtifactTypeOK
  BY DEF Init, ArtifactTypeOK, Phases, Stages, Outputs, Passes
<1>2. LiveUndisturbed /\ ReadyIsWhole /\ RowsInv /\ DirsInv
  BY DEF Init, LiveUndisturbed, ReadyIsWhole, RowsInv, DirsInv
<1>3. TargetsInv /\ UnreadRowsYoung
  BY DEF Init, TargetsInv, UnreadRowsYoung, HasRead, Walking
<1> QED
  BY <1>1, <1>2, <1>3 DEF CleanupInv

(* The type of the state is kept by every step.                            *)
LEMMA TypeStep == ASSUME ArtifactTypeOK, Next PROVE ArtifactTypeOK'
<1> USE ArtifactAssumption DEF ArtifactTypeOK, execVars, dirVars, passVars, Phases, Stages, Outputs, Passes
<1>1. ASSUME NEW e \in Executions, ExecStep(e) PROVE ArtifactTypeOK'
  <2>1. CASE Claim(e) \/ AlreadyReady(e) \/ Stage(e)
    BY <2>1 DEF Claim, AlreadyReady, Stage
  <2>2. CASE Publish(e)
    BY <2>2 DEF Publish
  <2>3. CASE Seal(e) \/ Commit(e)
    BY <2>3 DEF Seal, Commit
  <2>4. CASE Fail(e) \/ Crash(e)
    BY <2>4 DEF Fail, Crash
  <2> QED
    BY <1>1, <2>1, <2>2, <2>3, <2>4 DEF ExecStep
<1>2. ASSUME NEW c \in Cleaners, CleanStep(c) \/ PassFails(c) PROVE ArtifactTypeOK'
  <2>1. CASE CleanStart(c)
    BY <2>1 DEF CleanStart
  <2>2. CASE SnapshotRefs(c)
    BY <2>2 DEF SnapshotRefs, Named
  <2>3. CASE ArtifactRefs(c)
    BY <2>3 DEF ArtifactRefs, Named, Listed
  <2>4. ASSUME NEW x \in Entries, Skip(c, x) \/ Choose(c, x) PROVE ArtifactTypeOK'
    BY <2>4 DEF Skip, Kept, Choose
  <2>o. /\ PassOver(c) => /\ pass' \in [Cleaners -> Passes] /\ since' \in [Cleaners -> Nat]
                          /\ refs' \in [Cleaners -> SUBSET Executions]
                          /\ todo' \in [Cleaners -> SUBSET Entries]
                          /\ target' \in [Cleaners -> Entries \cup {None}]
                          /\ removing' \subseteq Cleaners
    BY DEF PassOver
  <2>v. ASSUME NEW x \in Entries, Vanished(c, x) PROVE ArtifactTypeOK'
    BY <2>v, <2>o DEF Vanished
  <2>b. ASSUME NEW x, NEW s \in {"none", "torn"}, Becomes(x, s)
        PROVE  /\ stage' \in [Executions -> Stages] /\ out' \in [Executions -> Outputs]
               /\ stageAge' \in [Executions -> Nat] /\ outAge' \in [Executions -> Nat]
    BY <2>b DEF Becomes
  <2>5. CASE RemoveBegin(c)
    <3>1. removing' \subseteq Cleaners
      BY <2>5 DEF RemoveBegin
    <3>2. UNCHANGED dirVars \/ Becomes(target[c], "torn")
      BY <2>5 DEF RemoveBegin
    <3>3. UNCHANGED <<pass, since, refs, todo, target, faults, setup, exec, holder, row>>
      BY <2>5 DEF RemoveBegin
    <3> QED
      BY <2>b, <3>1, <3>2, <3>3
  <2>6. CASE RemoveEnd(c)
    <3>1. UNCHANGED dirVars \/ Becomes(target[c], "none")
      BY <2>6 DEF RemoveEnd
    <3>2. /\ UNCHANGED <<pass, since, refs, todo, faults, setup, exec, holder, row>>
          /\ removing' \subseteq Cleaners /\ target' \in [Cleaners -> Entries \cup {None}]
      BY <2>6 DEF RemoveEnd
    <3> QED
      BY <2>b, <3>1, <3>2
  <2>7. CASE RemoveCollides(c)
    BY <2>7, <2>o DEF RemoveCollides
  <2>8. CASE NextDirectory(c)
    <3>1. CASE PassOver(c)
      BY <2>8, <2>o, <3>1 DEF NextDirectory
    <3>2. CASE ~PassOver(c)
      BY <2>8, <3>2 DEF NextDirectory, Listed
    <3> QED
      BY <3>1, <3>2
  <2>9. CASE PassFails(c)
    BY <2>9, <2>o DEF PassFails, Entries
  <2> QED
    BY <1>2, <2>1, <2>2, <2>3, <2>4, <2>v, <2>5, <2>6, <2>7, <2>8, <2>9 DEF CleanStep
<1>3. CASE Tick
  BY <1>3 DEF Tick, Older1, AgeCap
<1> QED
  BY <1>1, <1>2, <1>3 DEF Next

-----------------------------------------------------------------------------
Rest == LiveUndisturbed /\ ReadyIsWhole /\ RowsInv /\ DirsInv /\ TargetsInv /\ UnreadRowsYoung

(* The step of an execution disturbs its own directories only; the commit  *)
(* names a whole directory that is young for every pass.                   *)
LEMMA ExecStepInv ==
  ASSUME CleanupInv, NEW e \in Executions, ExecStep(e) PROVE Rest'
<1> USE DEF execVars, dirVars, passVars
<1>1. (LiveUndisturbed /\ ReadyIsWhole /\ RowsInv /\ DirsInv)'
  <2> USE ArtifactAssumption DEF CleanupInv, ArtifactTypeOK, LiveUndisturbed, ReadyIsWhole, RowsInv,
                                 DirsInv, IsSnapshot, Kind
  <2>1. CASE Claim(e)
    BY <2>1 DEF Claim
  <2>2. CASE AlreadyReady(e)
    BY <2>2 DEF AlreadyReady
  <2>3. CASE Stage(e)
    BY <2>3 DEF Stage
  <2>4. CASE Publish(e)
    BY <2>4 DEF Publish
  <2>5. CASE Seal(e)
    BY <2>5 DEF Seal
  <2>6. CASE Commit(e)
    BY <2>6 DEF Commit, Finalizing
  <2>7. CASE Fail(e)
    BY <2>7 DEF Fail, Live
  <2>8. CASE Crash(e)
    BY <2>8 DEF Crash, Live
  <2> QED
    BY <2>1, <2>2, <2>3, <2>4, <2>5, <2>6, <2>7, <2>8 DEF ExecStep
<1>t. /\ exec \in [Executions -> Phases] /\ row \in [Resources -> Executions \cup {None}]
      /\ outAge \in [Executions -> Nat] /\ since \in [Cleaners -> Nat]
      /\ target \in [Cleaners -> Entries \cup {None}]
      /\ Of \in [Executions -> Resources] /\ None \notin Executions
      /\ TTL \in Nat /\ MaxStall \in Nat /\ MaxStall <= TTL
      /\ TargetsInv /\ UnreadRowsYoung /\ DirsInv /\ RowsInv
  BY ArtifactAssumption DEF CleanupInv, ArtifactTypeOK
<1>p. UNCHANGED passVars
  BY DEF ExecStep, Claim, AlreadyReady, Stage, Publish, Seal, Commit, Fail, Crash
<1>x. /\ exec[e] # "over"
      /\ \A d \in Executions : d # e => exec'[d] = exec[d]
  <2>1. exec[e] # "over" /\ exec' = [exec EXCEPT ![e] = exec'[e]]
    BY <1>t DEF ExecStep, Claim, AlreadyReady, Stage, Publish, Seal, Commit, Fail, Crash, Finalizing, Live
  <2> QED
    BY <1>t, <2>1
<1>r. \/ UNCHANGED row
      \/ /\ Finalizing(e) /\ UNCHANGED outAge
         /\ \A r \in Resources : row'[r] \in {row[r], e}
  <2>1. CASE Commit(e)
    BY <1>t, <2>1 DEF Commit
  <2>2. CASE ~Commit(e)
    BY <2>2 DEF ExecStep, Claim, AlreadyReady, Stage, Publish, Seal, Fail, Crash
  <2> QED
    BY <2>1, <2>2
<1>2. TargetsInv'
  <2>1. \A d \in Executions : exec[d] = "over" => exec'[d] = "over"
    BY <1>x
  <2>2. \A d \in Executions : exec[d] = "over" /\ row[Of[d]] # d => row'[Of[d]] # d
    BY <1>t, <1>r, <1>x
  <2>3. \A c \in Cleaners : target[c] # None => target[c].of \in Executions
    BY <1>t DEF Entries
  <2> QED
    BY <1>t, <1>p, <2>1, <2>2, <2>3 DEF TargetsInv, Walking
<1>3. UnreadRowsYoung'
  <2> SUFFICES ASSUME NEW c \in Cleaners, NEW d \in Executions,
                      row'[Of[d]] = d, HasRead(c, d), d \notin refs[c]
               PROVE  outAge'[d] <= since[c] + TTL
    BY <1>p DEF UnreadRowsYoung, HasRead, IsSnapshot, Kind
  <2>1. CASE row[Of[d]] = d
    <3>1. exec[d] = "over" /\ d # e
      BY <1>t, <1>x, <2>1 DEF RowsInv
    <3>2. outAge'[d] = outAge[d]
      BY <1>t, <3>1 DEF ExecStep, Claim, AlreadyReady, Stage, Publish, Seal, Commit, Fail, Crash
    <3> QED
      BY <1>t, <2>1, <3>2 DEF UnreadRowsYoung
  <2>2. CASE row[Of[d]] # d
    <3>1. d = e /\ Finalizing(e) /\ outAge' = outAge
      BY <1>t, <1>r, <2>2
    <3>2. outAge[e] <= MaxStall
      BY <1>t, <3>1 DEF DirsInv, Finalizing
    <3> QED
      BY <1>t, <3>1, <3>2
  <2> QED
    BY <2>1, <2>2
<1> QED
  BY <1>1, <1>2, <1>3 DEF Rest

(* What a pass chooses belongs to no execution at work and to no row.      *)
LEMMA ChosenIsOrphan ==
  ASSUME CleanupInv, NEW c \in Cleaners, NEW x \in Entries, Choose(c, x)
  PROVE  exec[x.of] = "over" /\ (x.dir = "out" => row[Of[x.of]] # x.of)
<1> DEFINE e == x.of
<1>t. e \in Executions /\ x.dir \in {"stage", "out"}
  BY DEF Entries
<1>n. since[c] \in Nat /\ TTL \in Nat /\ MaxStall \in Nat /\ MaxStall <= TTL
      /\ stageAge[e] \in Nat /\ outAge[e] \in Nat /\ exec[e] \in Phases
  BY <1>t, ArtifactAssumption DEF CleanupInv, ArtifactTypeOK
<1>p. Present(x) /\ Age(x) > since[c] + TTL /\ ~Referenced(c, x) /\ todo[c] # {}
  BY DEF Choose, Older
<1>1. HasRead(c, e)
  BY <1>p DEF CleanupInv, TargetsInv, Walking, HasRead
<1>2. x.dir = "stage" => stageAge[e] > TTL /\ stage[e] # "none"
  BY <1>n, <1>p DEF Age, Present
<1>3. x.dir = "out" => outAge[e] > since[c] + TTL /\ outAge[e] > TTL /\ out[e] \notin {"none", "shell"}
  BY <1>n, <1>p, <1>t DEF Age, Present
<1>4. exec[e] = "over"
  <2>1. DirsInv!(e)
    BY <1>t DEF CleanupInv, DirsInv
  <2> HIDE DEF e
  <2> QED
    BY <1>t, <1>n, <1>2, <1>3, <2>1 DEF Phases
<1>5. x.dir = "out" => row[Of[e]] # e
  BY <1>1, <1>3, <1>n, <1>t, <1>p DEF CleanupInv, UnreadRowsYoung, Referenced
<1> QED
  BY <1>4, <1>5

(* A removal touches an orphan only: no directory of an execution at work, *)
(* and no published directory that a row names.                            *)
LEMMA RemovalHarmless ==
  ASSUME CleanupInv, NEW c \in Cleaners, CleanStep(c) \/ PassFails(c)
  PROVE  /\ UNCHANGED <<execVars, setup>>
         /\ \A e \in Executions : exec[e] # "over" =>
              UNCHANGED <<stage[e], stageAge[e], out[e], outAge[e]>>
         /\ \A e \in Executions : row[Of[e]] = e => UNCHANGED <<out[e], outAge[e]>>
<1> DEFINE t == target[c]
<1>1. t # None => /\ t \in Entries
                  /\ t.of \in Executions
                  /\ exec[t.of] = "over"
                  /\ t.dir = "out" => row[Of[t.of]] # t.of
  <2>1. TargetsInv /\ target \in [Cleaners -> Entries \cup {None}]
    BY DEF CleanupInv, ArtifactTypeOK
  <2>2. t # None => t \in Entries /\ t.of \in Executions
    BY <2>1 DEF Entries
  <2> QED
    BY <2>1, <2>2 DEF TargetsInv
<1>2. c \in removing => t # None
  BY DEF CleanupInv, TargetsInv
<1>3. ASSUME NEW s, Becomes(t, s), t # None PROVE
         /\ \A e \in Executions : exec[e] # "over" =>
              UNCHANGED <<stage[e], stageAge[e], out[e], outAge[e]>>
         /\ \A e \in Executions : row[Of[e]] = e => UNCHANGED <<out[e], outAge[e]>>
  <2> DEFINE u == t.of
  <2>1. u \in Executions /\ exec[u] = "over" /\ (t.dir = "out" => row[Of[u]] # u)
    BY <1>1, <1>3
  <2>2. \/ /\ stage' = [stage EXCEPT ![u] = s] /\ stageAge' = [stageAge EXCEPT ![u] = 0]
           /\ UNCHANGED <<out, outAge>>
        \/ /\ out' = [out EXCEPT ![u] = s] /\ outAge' = [outAge EXCEPT ![u] = 0]
           /\ UNCHANGED <<stage, stageAge>> /\ t.dir = "out"
    BY <1>1, <1>3 DEF Becomes, Entries
  <2> HIDE DEF u
  <2> QED
    BY <2>1, <2>2 DEF CleanupInv, ArtifactTypeOK
<1> HIDE DEF t
<1>4. CASE UNCHANGED dirVars /\ UNCHANGED <<execVars, setup>>
  BY <1>4 DEF dirVars
<1>5. CASE RemoveBegin(c)
  BY <1>3, <1>4, <1>5 DEF RemoveBegin, t
<1>6. CASE RemoveEnd(c)
  BY <1>2, <1>3, <1>4, <1>6 DEF RemoveEnd, t
<1>7. CASE PassFails(c)
  <2>1. UNCHANGED <<stage, stageAge, outAge, execVars, setup>>
    BY <1>7 DEF PassFails
  <2>2. out' = out \/ (t # None /\ t.dir = "out" /\ out' = [out EXCEPT ![t.of] = "shell"])
    BY <1>2, <1>7 DEF PassFails, t
  <2> QED
    BY <1>1, <2>1, <2>2 DEF CleanupInv, ArtifactTypeOK
<1>8. CASE CleanStart(c) \/ SnapshotRefs(c) \/ ArtifactRefs(c) \/ RemoveCollides(c) \/ NextDirectory(c)
  BY <1>4, <1>8 DEF CleanStart, SnapshotRefs, ArtifactRefs, RemoveCollides, NextDirectory
<1>9. ASSUME NEW x \in Entries, Skip(c, x) \/ Vanished(c, x) \/ Choose(c, x)
      PROVE UNCHANGED dirVars /\ UNCHANGED <<execVars, setup>>
  BY <1>9 DEF Skip, Kept, Vanished, Choose
<1> QED
  BY <1>4, <1>5, <1>6, <1>7, <1>8, <1>9 DEF CleanStep

LEMMA CleanStepInv ==
  ASSUME CleanupInv, NEW c \in Cleaners, CleanStep(c) \/ PassFails(c) PROVE Rest'
<1>h. /\ UNCHANGED <<execVars, setup>>
      /\ \A e \in Executions : exec[e] # "over" =>
           UNCHANGED <<stage[e], stageAge[e], out[e], outAge[e]>>
      /\ \A e \in Executions : row[Of[e]] = e => UNCHANGED <<out[e], outAge[e]>>
  BY RemovalHarmless
<1>u. UNCHANGED <<exec, holder, row, setup>>
  BY <1>h DEF execVars
<1>1. LiveUndisturbed' /\ DirsInv'
  BY <1>h, <1>u DEF CleanupInv, LiveUndisturbed, DirsInv, IsSnapshot, Kind
<1>2. RowsInv' /\ ReadyIsWhole'
  <2>1. \A r \in Resources : row[r] # None => row[r] \in Executions /\ row[Of[row[r]]] = row[r]
    BY DEF CleanupInv, RowsInv, ArtifactTypeOK
  <2> QED
    BY <1>h, <1>u, <2>1 DEF CleanupInv, RowsInv, ReadyIsWhole
<1>3. TargetsInv'
  <2>t. /\ TargetsInv
        /\ pass \in [Cleaners -> Passes] /\ todo \in [Cleaners -> SUBSET Entries]
        /\ target \in [Cleaners -> Entries \cup {None}] /\ removing \subseteq Cleaners
    BY DEF CleanupInv, ArtifactTypeOK
  <2> USE <1>u, <2>t DEF TargetsInv, Walking
  <2>o. ASSUME PassOver(c) PROVE TargetsInv'
    <3>1. todo'[c] = {} /\ target'[c] = None /\ c \notin removing'
      BY <2>o DEF PassOver
    <3>2. \A d \in Cleaners : d # c =>
            /\ pass'[d] = pass[d] /\ todo'[d] = todo[d] /\ target'[d] = target[d]
            /\ d \in removing' => d \in removing
      BY <2>o DEF PassOver
    <3>3. SUFFICES ASSUME NEW d \in Cleaners
                   PROVE  /\ ~Walking(d)' => todo'[d] = {} /\ target'[d] = None
                          /\ d \in removing' => target'[d] # None
                          /\ target'[d] # None =>
                               /\ exec[target'[d].of] = "over"
                               /\ target'[d].dir = "out" => row[Of[target'[d].of]] # target'[d].of
      OBVIOUS
    <3>4. CASE d = c
      BY <3>1, <3>4
    <3>5. CASE d # c
      BY <3>2, <3>5
    <3> QED
      BY <3>4, <3>5
  <2>1. CASE CleanStart(c)
    BY <2>1 DEF CleanStart
  <2>r. CASE SnapshotRefs(c)
    BY <2>r DEF SnapshotRefs
  <2>2. CASE ArtifactRefs(c)
    BY <2>2 DEF ArtifactRefs
  <2>3. ASSUME NEW x \in Entries, Skip(c, x) PROVE TargetsInv'
    BY <2>3 DEF Skip, Kept
  <2>4. ASSUME NEW x \in Entries, Vanished(c, x) PROVE TargetsInv'
    <3> HIDE DEF TargetsInv
    <3> QED
      BY <2>4, <2>o DEF Vanished
  <2>5. ASSUME NEW x \in Entries, Choose(c, x) PROVE TargetsInv'
    <3>1. exec[x.of] = "over" /\ (x.dir = "out" => row[Of[x.of]] # x.of)
      BY <2>5, ChosenIsOrphan
    <3>2. Walking(c)
      BY <2>5 DEF Choose
    <3> QED
      BY <2>5, <3>1, <3>2 DEF Choose
  <2>6. CASE RemoveBegin(c)
    BY <2>6 DEF RemoveBegin
  <2>7. CASE RemoveEnd(c)
    BY <2>7 DEF RemoveEnd
  <2>8. CASE RemoveCollides(c) \/ PassFails(c)
    <3> HIDE DEF TargetsInv
    <3> QED
      BY <2>8, <2>o DEF RemoveCollides, PassFails
  <2>9. CASE NextDirectory(c)
    <3>1. CASE PassOver(c)
      BY <3>1, <2>o
    <3>2. CASE ~PassOver(c)
      <4>1. /\ pass[c] = "snapshots" /\ pass' = [pass EXCEPT ![c] = "artifacts"]
            /\ todo' = [todo EXCEPT ![c] = Listed("index")]
            /\ UNCHANGED <<target, removing>>
        BY <2>9, <3>2 DEF NextDirectory
      <4> QED
        BY <4>1
    <3> QED
      BY <3>1, <3>2
  <2> QED
    BY <2>1, <2>r, <2>2, <2>3, <2>4, <2>5, <2>6, <2>7, <2>8, <2>9 DEF CleanStep
<1>4. UnreadRowsYoung'
  <2>t. /\ UnreadRowsYoung /\ setup.kind \in [Resources -> {"snapshot", "index"}]
        /\ TTL \in Nat /\ Of \in [Executions -> Resources]
        /\ pass \in [Cleaners -> Passes] /\ refs \in [Cleaners -> SUBSET Executions]
        /\ since \in [Cleaners -> Nat] /\ outAge \in [Executions -> Nat]
    BY ArtifactAssumption DEF CleanupInv, ArtifactTypeOK, Setups
  <2>a. \A e \in Executions : row[Of[e]] = e => outAge'[e] = outAge[e]
    BY <1>h
  <2>y. ASSUME NEW d \in Cleaners, UNCHANGED <<pass[d], refs[d], since[d]>>, NEW e \in Executions,
               row'[Of[e]] = e, HasRead(d, e)', e \notin refs'[d]
        PROVE  outAge'[e] <= since'[d] + TTL
    BY <2>y, <2>t, <2>a, <1>u DEF UnreadRowsYoung, HasRead, IsSnapshot, Kind
  <2>f. \A d \in Cleaners \ {c} : UNCHANGED <<pass[d], refs[d], since[d]>>
    <3>1. \A x \in Entries : Skip(c, x) \/ Vanished(c, x) \/ Choose(c, x) =>
            \A d \in Cleaners \ {c} : UNCHANGED <<pass[d], refs[d], since[d]>>
      BY <2>t DEF Skip, Kept, Vanished, PassOver, Choose
    <3> QED
      BY <2>t, <3>1 DEF CleanStep, CleanStart, SnapshotRefs, ArtifactRefs, RemoveBegin, RemoveEnd,
                        RemoveCollides, NextDirectory, PassFails, PassOver
  <2> SUFFICES ASSUME NEW e \in Executions, row'[Of[e]] = e, HasRead(c, e)', e \notin refs'[c]
               PROVE  outAge'[e] <= since'[c] + TTL
    BY <2>f, <2>y DEF UnreadRowsYoung
  <2> USE <2>t
  <2>o. ~PassOver(c)
    BY DEF PassOver, HasRead
  <2>1. CASE CleanStart(c)
    BY <2>1 DEF CleanStart, HasRead
  <2>2. CASE SnapshotRefs(c)
    BY <2>2, <1>u DEF SnapshotRefs, Named, HasRead, IsSnapshot, Kind
  <2>3. CASE ArtifactRefs(c)
    <3>1. Kind(e) \in {"snapshot", "index"}
      BY DEF Kind
    <3>2. e \notin refs[c] /\ Kind(e) # "index" /\ HasRead(c, e) /\ row[Of[e]] = e
      BY <2>3, <1>u, <3>1 DEF ArtifactRefs, Named, HasRead, IsSnapshot
    <3>3. since'[c] = since[c]
      BY <2>3 DEF ArtifactRefs
    <3> QED
      BY <2>a, <3>2, <3>3 DEF UnreadRowsYoung
  <2>4. ASSUME NEW x \in Entries, Skip(c, x) \/ Vanished(c, x) \/ Choose(c, x)
        PROVE  UNCHANGED <<pass[c], refs[c], since[c]>>
    BY <2>4, <2>o DEF Skip, Kept, Vanished, Choose
  <2>5. CASE RemoveBegin(c) \/ RemoveEnd(c)
    <3>1. UNCHANGED <<pass[c], refs[c], since[c]>>
      BY <2>5 DEF RemoveBegin, RemoveEnd
    <3> QED
      BY <2>y, <3>1
  <2>6. CASE NextDirectory(c)
    <3>1. pass[c] = "snapshots" /\ UNCHANGED <<since, refs>>
      BY <2>6, <2>o DEF NextDirectory
    <3> QED
      BY <2>a, <3>1, <1>u DEF UnreadRowsYoung, HasRead
  <2>7. ~RemoveCollides(c) /\ ~PassFails(c)
    BY <2>o DEF RemoveCollides, PassFails
  <2> QED
    BY <2>1, <2>2, <2>3, <2>4, <2>5, <2>6, <2>7, <2>y DEF CleanStep
<1> QED
  BY <1>1, <1>2, <1>3, <1>4 DEF Rest

(* Time makes a directory and the passes older together.                   *)
LEMMA TickInv == ASSUME CleanupInv, Tick PROVE Rest'
<1>a. ASSUME NEW e \in Executions
      PROVE  /\ stageAge[e] \in Nat /\ stageAge'[e] \in Nat /\ stageAge'[e] <= stageAge[e] + 1
             /\ outAge[e] \in Nat /\ outAge'[e] \in Nat /\ outAge'[e] <= outAge[e] + 1
  <2>1. stageAge[e] \in Nat /\ outAge[e] \in Nat
    BY DEF CleanupInv, ArtifactTypeOK, AgeCap
  <2>2. stageAge'[e] \in {0, Older1(stageAge[e])} /\ outAge'[e] \in {0, Older1(outAge[e])}
    BY DEF Tick
  <2> QED BY <2>1, <2>2 DEF Older1
<1> USE ArtifactAssumption DEF CleanupInv, ArtifactTypeOK, Tick, execVars
<1>1. LiveUndisturbed' /\ ReadyIsWhole' /\ RowsInv'
  BY DEF LiveUndisturbed, ReadyIsWhole, RowsInv, IsSnapshot, Kind
<1>2. DirsInv'
  <2> SUFFICES ASSUME NEW e \in Executions
               PROVE  /\ exec[e] \in {"waiting", "claimed"} => stage[e] = "none" /\ out[e] = "none"
                      /\ exec[e] = "staging" =>
                           out[e] \in {"none", "shell"} /\ stageAge'[e] <= MaxStall
                      /\ exec[e] \in {"published", "sealed"} =>
                           stage[e] = "none" /\ outAge'[e] <= MaxStall
    BY DEF DirsInv
  <2>1. /\ stageAge[e] \in Nat /\ stageAge'[e] \in Nat /\ stageAge'[e] <= stageAge[e] + 1
        /\ outAge[e] \in Nat /\ outAge'[e] \in Nat /\ outAge'[e] <= outAge[e] + 1
    BY <1>a
  <2>2. exec[e] = "staging" => stageAge[e] < MaxStall
    BY DEF LiveUndisturbed, Live, AgeOf
  <2>3. exec[e] \in {"published", "sealed"} => outAge[e] < MaxStall
    BY DEF DirsInv, Live, AgeOf
  <2>4. /\ exec[e] \in {"waiting", "claimed"} => stage[e] = "none" /\ out[e] = "none"
        /\ exec[e] = "staging" => out[e] \in {"none", "shell"}
        /\ exec[e] \in {"published", "sealed"} => stage[e] = "none"
    BY DEF DirsInv
  <2>5. /\ exec[e] = "staging" => stageAge'[e] <= MaxStall
        /\ exec[e] \in {"published", "sealed"} => outAge'[e] <= MaxStall
    BY <2>1, <2>2, <2>3
  <2> QED
    BY <2>4, <2>5
<1>3. TargetsInv'
  BY DEF TargetsInv, Walking
<1>4. UnreadRowsYoung'
  <2> SUFFICES ASSUME NEW c \in Cleaners, NEW e \in Executions,
                      row[Of[e]] = e, HasRead(c, e), e \notin refs[c]
               PROVE  outAge'[e] <= since'[c] + TTL
    BY DEF UnreadRowsYoung, HasRead, IsSnapshot, Kind
  <2>1. outAge[e] \in Nat /\ outAge'[e] \in Nat /\ outAge'[e] <= outAge[e] + 1
    BY <1>a
  <2>2. since[c] \in Nat /\ since'[c] = since[c] + 1
    BY DEF HasRead
  <2>3. outAge[e] <= since[c] + TTL
    BY DEF UnreadRowsYoung
  <2> QED
    BY <2>1, <2>2, <2>3
<1> QED
  BY <1>1, <1>2, <1>3, <1>4 DEF Rest

-----------------------------------------------------------------------------
(* The inductive invariant of cleanup holds for any executions, resources  *)
(* and workers, whatever fails.                                            *)
THEOREM CleanupInvariance == Spec => []CleanupInv
<1>1. CleanupInv /\ [Next]_vars => CleanupInv'
  <2> SUFFICES ASSUME CleanupInv, [Next]_vars PROVE CleanupInv'
    OBVIOUS
  <2>1. CASE Next
    <3>1. ArtifactTypeOK'
      BY <2>1, TypeStep DEF CleanupInv
    <3>2. Rest'
      BY <2>1, ExecStepInv, CleanStepInv, TickInv DEF Next
    <3> QED
      BY <3>1, <3>2 DEF CleanupInv, Rest
  <2>2. CASE UNCHANGED vars
    BY <2>2 DEF vars, execVars, dirVars, passVars, CleanupInv, ArtifactTypeOK, LiveUndisturbed,
      ReadyIsWhole, RowsInv, DirsInv, TargetsInv, UnreadRowsYoung, HasRead, Walking, IsSnapshot, Kind
  <2> QED
    BY <2>1, <2>2
<1> QED
  BY <1>1, InitInv, PTL DEF Spec

(* A READY row names a complete directory for ever: no pass of             *)
(* artifactcleanup.Cleanup, in any worker, removes what a commit named.    *)
THEOREM ReadyRowsAreWhole == Spec => []ReadyIsWhole
<1>1. CleanupInv => ReadyIsWhole
  BY DEF CleanupInv
<1> QED
  BY <1>1, CleanupInvariance, PTL

(* No pass takes a staging or published directory from an execution at     *)
(* work.                                                                   *)
THEOREM ExecutionsUndisturbed == Spec => []LiveUndisturbed
<1>1. CleanupInv => LiveUndisturbed
  BY DEF CleanupInv
<1> QED
  BY <1>1, CleanupInvariance, PTL

=============================================================================

----------------------- MODULE DiagnosisCreation_proofs -----------------------
(* Proofs that the provider a run pinned stays in force while the run is   *)
(* active, whatever requests, workers and processes do.                    *)
EXTENDS DiagnosisCreation, TLAPS

(* The provider in force is one of the identities, or none.                *)
LEMMA CurrentType == CreationTypeOK => Current \in Identities \cup {None}
BY DEF CreationTypeOK, Current

(* The initial states satisfy the invariant: no run exists and nobody      *)
(* holds the lock.                                                         *)
LEMMA InitCreation == Init => CreationInv
<1> SUFFICES ASSUME Init PROVE CreationInv
  OBVIOUS
<1>1. CreationTypeOK
  BY CreationAssumption DEF Init, CreationTypeOK, Inner, Outcomes, Statuses
<1>2. \A q \in Requests : Prepared(q)
  BY DEF Init, Prepared, Inner
<1>3. ActivePinned /\ UsesPinned
  BY DEF Init, ActivePinned, UsesPinned
<1>4. AnswersMatch /\ NoDuplicateError
  BY DEF Init, AnswersMatch, NoDuplicateError
<1> QED
  BY <1>1, <1>2, <1>3, <1>4 DEF CreationInv

(* A step that inserts no run and gives no answer with one keeps answers.  *)
LEMMA AnswersKept ==
  ASSUME AnswersMatch, op' = op,
         \A s \in Requests : status'[s] # "absent" <=> status[s] # "absent",
         \A p \in Requests : answer'[p].what \in {"created", "existing"} => answer'[p] = answer[p]
  PROVE  AnswersMatch'
BY DEF AnswersMatch

(* WithProviderConfigLock, but for its function: no run, file or finding   *)
(* changes, and the lock goes from nobody to one, or from one to nobody.   *)
LEMMA LockingPreserves ==
  ASSUME CreationInv, NEW q \in Requests,
         TakeConn(q) \/ Acquire(q) \/ LockTimeout(q) \/ Refuse(q) \/ LockLost(q)
  PROVE  CreationInv'
<1> USE DEF CreationInv
<1>1. CreationTypeOK'
  BY DEF CreationTypeOK, TakeConn, Acquire, LockTimeout, Refuse, LockLost, Return, reqVars,
         runVars, Inner, Outcomes
<1>2. ASSUME faults' = 0, NEW p \in Requests PROVE Prepared(p)'
  <2>1. faults = 0 /\ ~LockLost(q)
    BY <1>2 DEF TakeConn, Acquire, LockTimeout, Refuse, LockLost, CreationTypeOK
  <2>2. Prepared(p) /\ Prepared(q)
    BY <2>1
  <2>3. lock = p \/ lock = None \/ pc[p] \notin Inner
    BY <2>2 DEF Prepared
  <2>4. pc'[p] \in Inner => lock' = p
    <3>1. CASE TakeConn(q) \/ Acquire(q)
      BY <2>2, <3>1, CreationAssumption DEF Prepared, CreationTypeOK, TakeConn, Acquire, Inner
    <3>2. CASE LockTimeout(q) \/ Refuse(q)
      BY <2>2, <3>2, CreationAssumption DEF Prepared, CreationTypeOK, LockTimeout, Refuse, Return, Inner
    <3> QED
      BY <2>1, <3>1, <3>2
  <2>5. /\ pc'[p] # pc[p] => pc'[p] \notin {"checked", "pinned", "examined"}
        /\ UNCHANGED <<op, env, seen, file, status, pin>>
    BY <2>1 DEF CreationTypeOK, TakeConn, Acquire, LockTimeout, Refuse, Return, runVars
  <2> QED
    BY <2>2, <2>4, <2>5 DEF Prepared, WithKey, HasActiveRuns, Current
<1>3. ActivePinned' /\ UsesPinned'
  BY DEF ActivePinned, UsesPinned, Current, CreationTypeOK, TakeConn, Acquire, LockTimeout, Refuse,
         LockLost, Return, reqVars, runVars
<1>4. /\ UNCHANGED <<op, status>>
      /\ \A p \in Requests :
           \/ answer'[p] = answer[p]
           \/ answer'[p].what \in {"lockTimeout", "refused"}
      /\ faults' = 0 => faults = 0
  BY DEF CreationTypeOK, TakeConn, Acquire, LockTimeout, Refuse, LockLost, Return, reqVars, runVars
<1>5. AnswersMatch'
  BY <1>4, AnswersKept
<1>6. NoDuplicateError'
  BY <1>4 DEF NoDuplicateError
<1> QED
  BY <1>1, <1>2, <1>3, <1>5, <1>6

(* A read of the file that did not fail finds the provider in force.       *)
LEMMA ReadsCurrent ==
  ASSUME CreationTypeOK, NEW id, Reads(id)
  PROVE  faults' \in Nat /\ (faults' = 0 => faults = 0 /\ id = Current)
BY DEF Reads, CreationTypeOK

(* As long as the lock was never lost, a request that runs under it is the *)
(* only one, so nobody else has findings that could go stale.              *)
LEMMA OnlyHolder ==
  ASSUME CreationInv, faults = 0, NEW q \in Requests, pc[q] \in Inner,
         NEW p \in Requests, p # q, pc'[p] = pc[p]
  PROVE  Prepared(p)'
<1>1. pc'[p] \notin Inner
  BY DEF CreationInv, Prepared
<1> QED
  BY <1>1 DEF Prepared, Inner

(* Service.Create: the request ends, or has found what it relies on.       *)
LEMMA CheckKeyPreserves ==
  ASSUME CreationInv, NEW q \in Requests, CheckKey(q)
  PROVE  CreationInv'
<1> USE DEF CreationInv
<1>1. CreationTypeOK'
  BY DEF CreationTypeOK, CheckKey, Goes, Return, WithKey, runVars, Inner, Outcomes
<1>2. ASSUME faults' = 0, NEW p \in Requests PROVE Prepared(p)'
  <2>1. faults = 0 /\ pc[q] \in Inner
    BY <1>2 DEF CheckKey, Inner
  <2>2. CASE p # q
    BY <2>1, <2>2, OnlyHolder DEF CheckKey, Goes, Return, CreationTypeOK
  <2>3. CASE p = q
    BY <2>1, <2>3 DEF CheckKey, Goes, Return, CreationTypeOK, Prepared, WithKey, runVars, Inner
  <2> QED
    BY <2>2, <2>3
<1>3. ActivePinned' /\ UsesPinned'
  BY DEF ActivePinned, UsesPinned, Current, CheckKey, Goes, Return, runVars
<1>4. /\ UNCHANGED <<op, status, faults>>
      /\ \A p \in Requests :
           \/ answer'[p] = answer[p]
           \/ answer'[p].what = "conflict"
           \/ /\ answer'[p].what = "existing" /\ answer'[p].run \in WithKey(p)
              /\ op[answer'[p].run].payload = op[p].payload
  BY DEF CreationTypeOK, CheckKey, Goes, Return, Replays, runVars
<1>5. AnswersMatch'
  BY <1>4 DEF AnswersMatch, WithKey
<1>6. NoDuplicateError'
  BY <1>4 DEF NoDuplicateError
<1> QED
  BY <1>1, <1>2, <1>3, <1>5, <1>6

LEMMA PinProviderPreserves ==
  ASSUME CreationInv, NEW q \in Requests, PinProvider(q)
  PROVE  CreationInv'
<1> USE DEF CreationInv
<1> PICK id \in Identities \cup {None} :
         /\ Reads(id)
         /\ \/ id = None /\ Return(q, "notConfigured", None)
            \/ /\ id # None
               /\ pc' = [pc EXCEPT ![q] = "pinned"]
               /\ seen' = [seen EXCEPT ![q] = id]
               /\ UNCHANGED <<op, env, answer, lock, free>>
  BY DEF PinProvider
<1>0. pc[q] = "checked" /\ UNCHANGED <<op, env, file, runVars>>
  BY DEF PinProvider, Return
<1>a. faults' \in Nat /\ (faults' = 0 => faults = 0 /\ id = Current)
  BY ReadsCurrent
<1>1. CreationTypeOK'
  <2>1. CASE id = None
    BY <1>0, <1>a, <2>1 DEF CreationTypeOK, Return, runVars, Inner, Outcomes
  <2>2. CASE id # None
    BY <1>0, <1>a, <2>2 DEF CreationTypeOK, Return, runVars, Inner, Outcomes
  <2> QED
    BY <2>1, <2>2
<1>2. ASSUME faults' = 0, NEW p \in Requests PROVE Prepared(p)'
  <2>1. faults = 0 /\ pc[q] \in Inner
    BY <1>0, <1>a, <1>2 DEF Inner
  <2>2. CASE p # q
    BY <2>1, <2>2, OnlyHolder DEF Return, CreationTypeOK
  <2>3. CASE p = q
    BY <1>0, <1>a, <1>2, <2>1, <2>3
       DEF Return, CreationTypeOK, Prepared, WithKey, Current, runVars, Inner
  <2> QED
    BY <2>2, <2>3
<1>3. ActivePinned' /\ UsesPinned'
  BY <1>0, <1>a DEF ActivePinned, UsesPinned, Current, runVars
<1>4. /\ UNCHANGED <<op, status>>
      /\ \A p \in Requests : answer'[p] = answer[p] \/ answer'[p].what = "notConfigured"
      /\ faults' = 0 => faults = 0
  BY <1>0, <1>a DEF CreationTypeOK, Return, runVars
<1>5. AnswersMatch'
  BY <1>4, AnswersKept
<1>6. NoDuplicateError'
  BY <1>4 DEF NoDuplicateError
<1> QED
  BY <1>1, <1>2, <1>3, <1>5, <1>6

LEMMA InsertPreserves ==
  ASSUME CreationInv, NEW q \in Requests, Insert(q)
  PROVE  CreationInv'
<1> USE DEF CreationInv
<1>0. pc[q] = "pinned" /\ UNCHANGED <<op, env, file, faults>>
  BY DEF Insert, Return
<1>1. CreationTypeOK'
  BY DEF CreationTypeOK, Insert, Return, runVars, Inner, Outcomes, Statuses
<1>2. ASSUME faults' = 0, NEW p \in Requests PROVE Prepared(p)'
  <2>1. faults = 0 /\ pc[q] \in Inner
    BY <1>0, <1>2 DEF Inner
  <2>2. CASE p # q
    BY <2>1, <2>2, OnlyHolder DEF Insert, Return, CreationTypeOK
  <2>3. CASE p = q
    BY <2>3 DEF Insert, Return, CreationTypeOK, Prepared, Inner
  <2> QED
    BY <2>2, <2>3
<1>3. CASE WithKey(q) # {}
  <2>1. /\ UNCHANGED <<op, runVars>> /\ faults # 0
        /\ \A p \in Requests : answer'[p] = answer[p] \/ answer'[p].what = "duplicate"
    BY <1>0, <1>3 DEF Insert, Return, CreationTypeOK, Prepared
  <2>2. ActivePinned' /\ UsesPinned' /\ NoDuplicateError'
    BY <1>0, <2>1 DEF ActivePinned, UsesPinned, NoDuplicateError, Current, runVars
  <2>3. AnswersMatch'
    BY <2>1, AnswersKept DEF runVars
  <2> QED
    BY <1>1, <1>2, <2>2, <2>3
<1>4. CASE WithKey(q) = {}
  <2>1. /\ status[q] = "absent"
        /\ \A r \in Requests : status[r] # "absent" => op[r].key # op[q].key
    BY <1>4 DEF WithKey
  <2>2. /\ status' = [status EXCEPT ![q] = "QUEUED"]
        /\ pin' = [pin EXCEPT ![q] = seen[q]]
        /\ answer' = [answer EXCEPT ![q] = [what |-> "created", run |-> q]]
        /\ UNCHANGED <<retryable, used>>
    BY <1>4 DEF Insert, Return
  <2>3. ActivePinned'
    BY <1>0, <2>2 DEF ActivePinned, Prepared, CreationTypeOK, Current
  <2>4. AnswersMatch'
    <3>1. \A r, s \in Requests :
            status'[r] # "absent" /\ status'[s] # "absent" /\ op'[r].key = op'[s].key => r = s
      BY <1>0, <2>1, <2>2 DEF AnswersMatch, CreationTypeOK
    <3>2. ASSUME NEW p \in Requests, answer'[p].what \in {"created", "existing"}
          PROVE  LET r == answer'[p].run IN
                 /\ r \in Requests /\ status'[r] # "absent"
                 /\ op'[r].key = op'[p].key /\ op'[r].payload = op'[p].payload
      <4>1. CASE p = q
        BY <1>0, <2>2, <4>1 DEF CreationTypeOK
      <4>2. CASE p # q
        BY <1>0, <2>2, <3>2, <4>2 DEF AnswersMatch, CreationTypeOK
      <4> QED
        BY <4>1, <4>2
    <3> QED
      BY <3>1, <3>2 DEF AnswersMatch
  <2>5. NoDuplicateError'
    BY <1>0, <2>2 DEF NoDuplicateError, CreationTypeOK
  <2>6. UsesPinned'
    BY <2>1, <2>2 DEF UsesPinned, CreationTypeOK
  <2> QED
    BY <1>1, <1>2, <2>3, <2>4, <2>5, <2>6
<1> QED
  BY <1>3, <1>4

(* Handler.SaveConfig and ClearConfig: the identity changes only when no   *)
(* run is active.                                                          *)
LEMMA ExaminePreserves ==
  ASSUME CreationInv, NEW q \in Requests, Examine(q)
  PROVE  CreationInv'
<1> USE DEF CreationInv
<1>0. /\ pc[q] = "holding" /\ op[q].kind \in {"save", "clear"}
      /\ UNCHANGED <<op, env, file, runVars>>
      /\ faults' \in Nat /\ (faults' = 0 => faults = 0)
  BY ReadsCurrent DEF Examine, CheckActive, Return, Goes, CreationTypeOK
<1>1. Return(q, "inUse", None) \/ Goes(q, "examined")
  BY DEF Examine, CheckActive
<1>2. Goes(q, "examined") /\ faults' = 0 =>
        (op[q].kind = "save" /\ op[q].identity = Current) \/ ~HasActiveRuns
  BY ReadsCurrent DEF Examine, CheckActive, Goes, Return, CreationTypeOK
<1>3. CreationTypeOK'
  <2>1. CASE Goes(q, "examined")
    BY <1>0, <2>1 DEF CreationTypeOK, Goes, runVars, Inner
  <2>2. CASE Return(q, "inUse", None)
    BY <1>0, <2>2 DEF CreationTypeOK, Return, runVars, Outcomes
  <2> QED
    BY <1>1, <2>1, <2>2
<1>4. ASSUME faults' = 0, NEW p \in Requests PROVE Prepared(p)'
  <2>1. faults = 0 /\ pc[q] \in Inner
    BY <1>0, <1>4 DEF Inner
  <2>2. CASE p # q
    BY <1>1, <2>1, <2>2, OnlyHolder DEF Goes, Return, CreationTypeOK
  <2>3. CASE p = q /\ Goes(q, "examined")
    BY <1>0, <1>2, <1>4, <2>1, <2>3
       DEF Goes, CreationTypeOK, Prepared, HasActiveRuns, Current, runVars, Inner
  <2>4. CASE p = q /\ Return(q, "inUse", None)
    BY <2>4 DEF Return, CreationTypeOK, Prepared, Inner
  <2> QED
    BY <1>1, <2>2, <2>3, <2>4
<1>5. ActivePinned' /\ UsesPinned'
  BY <1>0 DEF ActivePinned, UsesPinned, Current, runVars
<1>6. \A p \in Requests : answer'[p] = answer[p] \/ answer'[p].what = "inUse"
  BY <1>1 DEF CreationTypeOK, Goes, Return
<1>7. AnswersMatch'
  BY <1>0, <1>6, AnswersKept DEF runVars
<1>8. NoDuplicateError'
  BY <1>0, <1>6 DEF NoDuplicateError
<1> QED
  BY <1>3, <1>4, <1>5, <1>7, <1>8

LEMMA WriteFilePreserves ==
  ASSUME CreationInv, NEW q \in Requests, WriteFile(q)
  PROVE  CreationInv'
<1> USE DEF CreationInv
<1>0. /\ pc[q] = "examined" /\ op[q].kind \in {"save", "clear"}
      /\ UNCHANGED <<op, env, runVars, faults>>
      /\ pc' = [pc EXCEPT ![q] = "done"]
  BY DEF WriteFile, Return
<1>1. CreationTypeOK'
  <2>1. op[q].kind = "save" => op[q].identity \in Identities
    BY CreationAssumption DEF CreationTypeOK
  <2> QED
    BY <2>1 DEF CreationTypeOK, WriteFile, Return, runVars, Inner, Outcomes
<1>2. ASSUME faults' = 0, NEW p \in Requests PROVE Prepared(p)'
  <2>1. faults = 0 /\ pc[q] \in Inner
    BY <1>0, <1>2 DEF Inner
  <2>2. CASE p # q
    BY <1>0, <2>1, <2>2, OnlyHolder DEF CreationTypeOK
  <2>3. CASE p = q
    BY <1>0, <2>3 DEF CreationTypeOK, Prepared, Inner
  <2> QED
    BY <2>2, <2>3
<1>3. ActivePinned'
  <2> SUFFICES ASSUME faults = 0,
                      NEW r \in Requests, status[r] \in {"QUEUED", "RUNNING"}
               PROVE  pin[r] = Current'
    BY <1>0 DEF ActivePinned, runVars
  <2>1. HasActiveRuns /\ pin[r] = Current
    BY DEF HasActiveRuns, ActivePinned
  <2>2. op[q].kind = "save" /\ op[q].identity = Current
    BY <1>0, <2>1 DEF Prepared
  <2>3. file' = Current /\ Current # None
    BY <2>2, CreationAssumption DEF WriteFile, CreationTypeOK
  <2> QED
    BY <2>1, <2>3 DEF Current
<1>4. UsesPinned'
  BY <1>0 DEF UsesPinned, runVars
<1>5. \A p \in Requests : answer'[p] = answer[p] \/ answer'[p].what \in {"saved", "cleared"}
  BY DEF CreationTypeOK, WriteFile, Return
<1>6. AnswersMatch'
  <2>1. UNCHANGED <<op, status>>
    BY <1>0 DEF runVars
  <2>2. \A p \in Requests : answer'[p].what \in {"created", "existing"} => answer'[p] = answer[p]
    BY <1>5
  <2> QED
    BY <2>1, <2>2, AnswersKept
<1>7. NoDuplicateError'
  BY <1>0, <1>5 DEF NoDuplicateError
<1> QED
  BY <1>1, <1>2, <1>3, <1>4, <1>6, <1>7

(* Service.Retry: a run goes back to the queue only under the identity it  *)
(* pinned.                                                                 *)
LEMMA LoadRunPreserves ==
  ASSUME CreationInv, NEW q \in Requests, LoadRun(q)
  PROVE  CreationInv'
<1> USE DEF CreationInv
<1> DEFINE Refusals == {"refused", "notConfigured", "identityChanged"}
<1>0. /\ pc[q] = "holding" /\ op[q].kind = "retry"
      /\ UNCHANGED <<op, env, file, runVars>>
      /\ faults' \in Nat /\ (faults' = 0 => faults = 0)
  BY ReadsCurrent DEF LoadRun, Return, Goes, CreationTypeOK
<1>1. (\E what \in Refusals : Return(q, what, None)) \/ Goes(q, "examined")
  BY DEF LoadRun
<1>2. Goes(q, "examined") /\ faults' = 0 => pin[op[q].run] = Current
  BY ReadsCurrent DEF LoadRun, SameProvider, Goes, Return, CreationTypeOK
<1>3. CreationTypeOK'
  <2>1. CASE Goes(q, "examined")
    BY <1>0, <2>1 DEF CreationTypeOK, Goes, runVars, Inner
  <2>2. ASSUME NEW what \in Refusals, Return(q, what, None) PROVE CreationTypeOK'
    BY <1>0, <2>2 DEF CreationTypeOK, Return, runVars, Outcomes
  <2> QED
    BY <1>1, <2>1, <2>2
<1>4. ASSUME faults' = 0, NEW p \in Requests PROVE Prepared(p)'
  <2>1. faults = 0 /\ pc[q] \in Inner
    BY <1>0, <1>4 DEF Inner
  <2>2. CASE p # q
    BY <1>1, <2>1, <2>2, OnlyHolder DEF Goes, Return, CreationTypeOK
  <2>3. CASE p = q /\ Goes(q, "examined")
    BY <1>0, <1>2, <1>4, <2>1, <2>3 DEF Goes, CreationTypeOK, Prepared, Current, runVars, Inner
  <2>4. CASE p = q /\ ~Goes(q, "examined")
    BY <1>1, <2>4 DEF Return, CreationTypeOK, Prepared, Inner
  <2> QED
    BY <2>2, <2>3, <2>4
<1>5. ActivePinned' /\ UsesPinned'
  BY <1>0 DEF ActivePinned, UsesPinned, Current, runVars
<1>6. \A p \in Requests : answer'[p] = answer[p] \/ answer'[p].what \in Refusals
  BY <1>1 DEF CreationTypeOK, Goes, Return
<1>7. AnswersMatch'
  BY <1>0, <1>6, AnswersKept DEF Refusals, runVars
<1>8. NoDuplicateError'
  BY <1>0, <1>6 DEF NoDuplicateError
<1> QED
  BY <1>3, <1>4, <1>5, <1>7, <1>8

LEMMA RequeuePreserves ==
  ASSUME CreationInv, NEW q \in Requests, Requeue(q)
  PROVE  CreationInv'
<1> USE DEF CreationInv
<1> DEFINE r == op[q].run
<1>0. /\ pc[q] = "examined" /\ op[q].kind = "retry" /\ r \in Requests
      /\ UNCHANGED <<op, env, file, pin, used, faults>>
      /\ pc' = [pc EXCEPT ![q] = "done"]
  BY CreationAssumption DEF Requeue, Return, CreationTypeOK
<1>1. \/ UNCHANGED <<status, retryable>>
      \/ /\ status[r] = "FAILED" /\ status' = [status EXCEPT ![r] = "QUEUED"]
         /\ retryable' = [retryable EXCEPT ![r] = FALSE]
  BY DEF Requeue
<1>2. \E what \in {"requeued", "notRetryable"}, run \in {r, None} :
         answer' = [answer EXCEPT ![q] = [what |-> what, run |-> run]]
  BY DEF Requeue, Return
<1> HIDE DEF r
<1>3. CreationTypeOK'
  <2>1. lock' \in Requests \cup {None} /\ UNCHANGED seen
    BY DEF Requeue, Return, CreationTypeOK
  <2>2. /\ status' \in [Requests -> Statuses] /\ retryable' \in [Requests -> BOOLEAN]
        /\ \A s \in Requests : status'[s] = "absent" => used[s] = None
    BY <1>0, <1>1 DEF CreationTypeOK, Statuses
  <2>3. answer' \in [Requests -> [what : Outcomes, run : Requests \cup {None}]]
    <3>1. answer \in [Requests -> [what : Outcomes, run : Requests \cup {None}]]
      BY DEF CreationTypeOK
    <3>2. {"requeued", "notRetryable"} \subseteq Outcomes
      BY DEF Outcomes
    <3>3. PICK what \in {"requeued", "notRetryable"}, run \in {r, None} :
                 answer' = [answer EXCEPT ![q] = [what |-> what, run |-> run]]
      BY <1>2
    <3>4. [what |-> what, run |-> run] \in [what : Outcomes, run : Requests \cup {None}]
      BY <1>0, <3>2, <3>3
    <3> QED BY <3>1, <3>3, <3>4
  <2> QED
    BY <1>0, <2>1, <2>2, <2>3 DEF CreationTypeOK
<1>4. ASSUME faults' = 0, NEW p \in Requests PROVE Prepared(p)'
  <2>1. faults = 0 /\ pc[q] \in Inner
    BY <1>0, <1>4 DEF Inner
  <2>2. CASE p # q
    BY <1>0, <2>1, <2>2, OnlyHolder DEF CreationTypeOK
  <2>3. CASE p = q
    BY <1>0, <2>3 DEF CreationTypeOK, Prepared, Inner
  <2> QED
    BY <2>2, <2>3
<1>5. ActivePinned'
  <2>1. faults = 0 => pin[r] = Current
    BY <1>0 DEF Prepared, r
  <2> QED
    BY <1>0, <1>1, <2>1 DEF ActivePinned, Current, CreationTypeOK
<1>6. UsesPinned'
  BY <1>0 DEF UsesPinned
<1>7. /\ \A p \in Requests : answer'[p] = answer[p] \/ answer'[p].what \in {"requeued", "notRetryable"}
      /\ \A s \in Requests : status'[s] # "absent" <=> status[s] # "absent"
  <2>1. answer \in [Requests -> [what : Outcomes, run : Requests \cup {None}]]
        /\ status \in [Requests -> Statuses]
    BY DEF CreationTypeOK
  <2>2. PICK what \in {"requeued", "notRetryable"}, run \in {r, None} :
               answer' = [answer EXCEPT ![q] = [what |-> what, run |-> run]]
    BY <1>2
  <2>3. \A p \in Requests : answer'[p] = answer[p] \/ answer'[p].what \in {"requeued", "notRetryable"}
    BY <2>1, <2>2
  <2>4. \A s \in Requests : status'[s] # "absent" <=> status[s] # "absent"
    BY <1>0, <1>1, <2>1
  <2> QED BY <2>3, <2>4
<1>8. AnswersMatch'
  <2>1. \A p \in Requests : answer'[p].what \in {"created", "existing"} => answer'[p] = answer[p]
    BY <1>7
  <2>2. op' = op
    BY <1>0
  <2> QED
    BY <1>7, <2>1, <2>2, AnswersKept
<1>9. NoDuplicateError'
  BY <1>0, <1>7 DEF NoDuplicateError
<1> QED
  BY <1>3, <1>4, <1>5, <1>6, <1>8, <1>9

(* A worker touches no request, and no findings but those about active     *)
(* runs; it never makes an inactive run active.                            *)
LEMMA WorkPreserves ==
  ASSUME CreationInv, NEW r \in Requests, Work(r)
  PROVE  CreationInv'
<1> USE DEF CreationInv
<1>0. /\ UNCHANGED <<reqVars, lock, file, pin>>
      /\ faults' \in Nat /\ (faults' = 0 => faults = 0)
  BY ReadsCurrent DEF Work, Start, BuildForExecution, Settle, CancelQueued, CreationTypeOK
<1>1. /\ status[r] \in {"QUEUED", "RUNNING"}
      /\ \/ UNCHANGED status
         \/ \E new \in Statuses \ {"absent"} : status' = [status EXCEPT ![r] = new]
      /\ retryable' \in [Requests -> BOOLEAN]
  <2>1. CASE Start(r) \/ CancelQueued(r)
    BY <2>1 DEF Start, CancelQueued, CreationTypeOK, Statuses
  <2>2. CASE BuildForExecution(r)
    BY <2>2 DEF BuildForExecution, CreationTypeOK, Statuses
  <2>3. CASE Settle(r)
    BY <2>3 DEF Settle, CreationTypeOK, Statuses
  <2> QED
    BY <2>1, <2>2, <2>3 DEF Work
<1>2. \/ UNCHANGED used
      \/ used' = [used EXCEPT ![r] = None]
      \/ pin[r] \in Identities /\ used' = [used EXCEPT ![r] = pin[r]]
  BY DEF Work, Start, BuildForExecution, Settle, CancelQueued, PinHolds, CreationTypeOK
<1>3. /\ \A s \in Requests : status'[s] = "absent" <=> status[s] = "absent"
      /\ \A s \in Requests : status'[s] \in {"QUEUED", "RUNNING"}
                              => status[s] \in {"QUEUED", "RUNNING"}
      /\ status' \in [Requests -> Statuses]
  BY <1>1 DEF CreationTypeOK
<1>4. CreationTypeOK'
  <2>1. used' \in [Requests -> Identities \cup {None}]
    BY <1>2 DEF CreationTypeOK
  <2>2. \A s \in Requests : status'[s] = "absent" => used'[s] = None
    BY <1>1, <1>2, <1>3 DEF CreationTypeOK
  <2> QED
    BY <1>0, <1>1, <1>3, <2>1, <2>2 DEF CreationTypeOK, reqVars
<1>5. ASSUME faults' = 0, NEW p \in Requests PROVE Prepared(p)'
  <2>1. Prepared(p)
    BY <1>0, <1>5
  <2>2. WithKey(p)' = WithKey(p) /\ (HasActiveRuns' => HasActiveRuns) /\ Current' = Current
    BY <1>0, <1>3 DEF WithKey, HasActiveRuns, Current, reqVars
  <2> QED
    BY <1>0, <2>1, <2>2 DEF Prepared, reqVars
<1>6. ActivePinned'
  BY <1>0, <1>3 DEF ActivePinned, Current, reqVars
<1>7. UsesPinned'
  BY <1>0, <1>2 DEF UsesPinned, CreationTypeOK
<1>8. AnswersMatch'
  BY <1>0, <1>3 DEF AnswersMatch, reqVars
<1>9. NoDuplicateError'
  BY <1>0 DEF NoDuplicateError, reqVars
<1> QED
  BY <1>4, <1>5, <1>6, <1>7, <1>8, <1>9

(* The invariant of WithProviderConfigLock, Service.Create and Retry,      *)
(* Handler.SaveConfig and ClearConfig and BuildForExecution holds for any  *)
(* requests, identities, pool and number of faults.                        *)
THEOREM CreationInvariance == Spec => []CreationInv
<1>1. CreationInv /\ [Next]_vars => CreationInv'
  <2> SUFFICES ASSUME CreationInv, [Next]_vars PROVE CreationInv'
    OBVIOUS
  <2>1. ASSUME NEW q \in Requests, Serve(q) \/ Refuse(q) \/ LockLost(q) \/ Work(q)
        PROVE  CreationInv'
    BY <2>1, LockingPreserves, CheckKeyPreserves, PinProviderPreserves, InsertPreserves,
       ExaminePreserves, WriteFilePreserves, LoadRunPreserves, RequeuePreserves, WorkPreserves
       DEF Serve
  <2>2. CASE UNCHANGED vars
    <3> USE <2>2 DEF vars, reqVars, runVars
    <3>1. CreationTypeOK'
      BY DEF CreationInv, CreationTypeOK
    <3>2. faults' = 0 => \A q \in Requests : Prepared(q)'
      BY DEF CreationInv, Prepared, WithKey, HasActiveRuns, Current
    <3>3. ActivePinned' /\ UsesPinned'
      BY DEF CreationInv, ActivePinned, UsesPinned, Current
    <3>4. AnswersMatch' /\ NoDuplicateError'
      BY DEF CreationInv, AnswersMatch, NoDuplicateError
    <3> QED
      BY <3>1, <3>2, <3>3, <3>4 DEF CreationInv
  <2> QED
    BY <2>1, <2>2 DEF Next
<1> QED
  BY InitCreation, <1>1, PTL DEF Spec

(* No change of configuration, and no explicit retry, leaves an active run *)
(* with another provider in force than the one it pinned; and even when    *)
(* the lock is lost or the file cannot be read, no execution talks to a    *)
(* provider other than its run's.                                          *)
THEOREM RunsStayPinned == Spec => []RunsKeepProvider
<1>1. CreationInv => RunsKeepProvider
  BY DEF CreationInv, RunsKeepProvider
<1> QED
  BY <1>1, CreationInvariance, PTL

(* One run per idempotency key, whatever happens to the lock, and no       *)
(* answer with a run that was asked for differently.                       *)
THEOREM CreationIsIdempotent == Spec => []IdempotentCreation
<1>1. CreationInv => IdempotentCreation
  BY DEF CreationInv, IdempotentCreation
<1> QED
  BY <1>1, CreationInvariance, PTL

=============================================================================

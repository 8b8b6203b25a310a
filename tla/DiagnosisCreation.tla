-------------------------- MODULE DiagnosisCreation --------------------------
(* Diagnosis creation and retry against changes of the provider: requests  *)
(* of any API process run under MySQL's named lock (WithProviderConfigLock)*)
(* and use further connections of a bounded pool while they hold it; the   *)
(* provider's identity lives in a file; workers build their client from    *)
(* that file when a run executes and compare it with what the run pinned.  *)
EXTENDS Integers, FiniteSets

CONSTANTS
  Requests,        \* requests to the API; a create request names its run
  Workloads,       \* what the requests may ask for: a set of functions
  Identities,      \* provider endpoint, model and authentication mode
  EnvIdentities,   \* the environment's provider may be one of these, or None
  PoolSize,        \* SetMaxOpenConns
  MaxFaults,       \* bound: lock sessions lost, failed reads of the file
  None

ASSUME CreationAssumption ==
  /\ None \notin Requests /\ None \notin Identities
  /\ EnvIdentities \subseteq Identities \cup {None}
  /\ PoolSize \in Nat \ {0} /\ MaxFaults \in Nat
  /\ \A w \in Workloads : \A q \in Requests :
       /\ w[q].kind \in {"create", "save", "clear", "retry"}
       /\ w[q].kind = "save" => w[q].identity \in Identities
       /\ w[q].kind = "retry" => w[q].run \in Requests

VARIABLES
  op,              \* what each request asks for
  env,             \* the provider of the processes' environment
  pc,              \* how far it is
  seen,            \* the identity a create request has read
  answer,          \* its outcome
  lock,            \* the session that holds the named lock
  free,            \* connections left in the pool
  file,            \* the identity in the provider's file
  status, pin,     \* the run a create request inserted
  retryable,       \* whether its failure was the provider's
  used,            \* the identity its execution talks to
  faults

reqVars == <<op, env, pc, seen, answer>>
runVars == <<status, pin, retryable, used>>
vars == <<reqVars, lock, free, file, runVars, faults>>

Inner == {"holding", "checked", "pinned", "examined"}
Outcomes ==
  {"none", "created", "existing", "conflict", "duplicate", "refused", "notConfigured",
   "inUse", "saved", "cleared", "identityChanged", "notRetryable", "requeued", "lockTimeout"}
Statuses == {"absent", "QUEUED", "RUNNING", "SUCCEEDED", "FAILED", "CANCELLED"}

(* The provider in force: the file's, else the environment's.              *)
Current == IF file # None THEN file ELSE env

(* What a reader takes for it: a file that cannot be read counts as none.  *)
Reads(id) ==
  \/ id = Current /\ UNCHANGED faults
  \/ id = env /\ id # Current /\ faults < MaxFaults /\ faults' = faults + 1

(* Mutant of HasActiveRuns: QUEUED runs are forgotten.                     *)
HasActiveRuns_Running == \E r \in Requests : status[r] = "RUNNING"
HasActiveRuns == \E r \in Requests : status[r] \in {"QUEUED", "RUNNING"}

(* The run with the key of request q, if any.                              *)
WithKey(q) == {r \in Requests : status[r] # "absent" /\ op[r].key = op[q].key}

Init ==
  /\ op \in Workloads
  /\ env \in EnvIdentities
  /\ pc = [q \in Requests |-> "idle"]
  /\ seen = [q \in Requests |-> None]
  /\ answer = [q \in Requests |-> [what |-> "none", run |-> None]]
  /\ lock = None
  /\ free = PoolSize
  /\ file \in Identities \cup {None}
  /\ status = [r \in Requests |-> "absent"]
  /\ pin = [r \in Requests |-> None]
  /\ retryable = [r \in Requests |-> FALSE]
  /\ used = [r \in Requests |-> None]
  /\ faults = 0

-----------------------------------------------------------------------------
(* WithProviderConfigLock.                                                 *)

(* The lock takes a connection of its own, for as long as it is held.      *)
TakeConn(q) ==
  /\ pc[q] = "idle"
  /\ free > 0
  /\ pc' = [pc EXCEPT ![q] = "locking"]
  /\ free' = free - 1
  /\ UNCHANGED <<op, env, seen, answer, lock, file, runVars, faults>>

Acquire(q) ==
  /\ pc[q] = "locking"
  /\ lock = None
  /\ pc' = [pc EXCEPT ![q] = "holding"]
  /\ lock' = q
  /\ UNCHANGED <<op, env, seen, answer, free, file, runVars, faults>>

(* The function returned: the lock is released, the connection closed.     *)
Return(q, what, run) ==
  /\ pc' = [pc EXCEPT ![q] = "done"]
  /\ answer' = [answer EXCEPT ![q] = [what |-> what, run |-> run]]
  /\ lock' = IF lock = q THEN None ELSE lock
  /\ free' = free + 1
  /\ UNCHANGED <<op, env, seen>>

(* Mutant of LockTimeout: GET_LOCK without a timeout.                      *)
LockTimeout_Never(q) ==
  /\ FALSE
  /\ UNCHANGED vars

(* GET_LOCK waits 30 seconds at most, and a client may go away sooner.     *)
LockTimeout(q) ==
  /\ pc[q] = "locking"
  /\ Return(q, "lockTimeout", None)
  /\ UNCHANGED <<file, runVars, faults>>

(* The server drops the session and with it the lock; nobody notices       *)
(* before the function returns.                                            *)
LockLost(q) ==
  /\ lock = q
  /\ faults < MaxFaults
  /\ faults' = faults + 1
  /\ lock' = None
  /\ UNCHANGED <<reqVars, free, file, runVars>>

(* Any other error of the function, or the death of its process: invalid   *)
(* input, a lineage that is not READY, a database or file error.           *)
Refuse(q) ==
  /\ pc[q] \in Inner
  /\ Return(q, "refused", None)
  /\ UNCHANGED <<file, runVars, faults>>

(* Every query of the function takes a second connection of the pool.      *)
Querying == free > 0

Goes(q, where) ==
  /\ pc' = [pc EXCEPT ![q] = where]
  /\ UNCHANGED <<op, env, seen, answer, lock, free>>

-----------------------------------------------------------------------------
(* Service.Create.                                                         *)

(* Mutant of Replays: the key alone identifies the request.                *)
Replays_AnyPayload(q, r) == TRUE
Replays(q, r) == op[r].payload = op[q].payload

(* The idempotency key.                                                    *)
CheckKey(q) ==
  /\ pc[q] = "holding" /\ op[q].kind = "create"
  /\ Querying
  /\ \/ WithKey(q) = {} /\ Goes(q, "checked")
     \/ \E r \in WithKey(q) :
          IF Replays(q, r) THEN Return(q, "existing", r) ELSE Return(q, "conflict", None)
  /\ UNCHANGED <<file, runVars, faults>>

(* The lineage, then the provider's identity as it is now.                 *)
PinProvider(q) ==
  /\ pc[q] = "checked"
  /\ Querying
  /\ \E id \in Identities \cup {None} :
       /\ Reads(id)
       /\ \/ /\ id = None
             /\ Return(q, "notConfigured", None)
          \/ /\ id # None
             /\ pc' = [pc EXCEPT ![q] = "pinned"]
             /\ seen' = [seen EXCEPT ![q] = id]
             /\ UNCHANGED <<op, env, answer, lock, free>>
  /\ UNCHANGED <<file, runVars>>

(* One transaction inserts the run and its job; the key is unique.         *)
Insert(q) ==
  /\ pc[q] = "pinned"
  /\ Querying
  /\ \/ /\ WithKey(q) # {}
        /\ Return(q, "duplicate", None)
        /\ UNCHANGED runVars
     \/ /\ WithKey(q) = {}
        /\ status' = [status EXCEPT ![q] = "QUEUED"]
        /\ pin' = [pin EXCEPT ![q] = seen[q]]
        /\ Return(q, "created", q)
        /\ UNCHANGED <<retryable, used>>
  /\ UNCHANGED <<file, faults>>

-----------------------------------------------------------------------------
(* Handler.SaveConfig and Handler.ClearConfig.                             *)

(* An active run forbids a change of identity.                             *)
CheckActive(q) ==
  /\ Querying
  /\ IF HasActiveRuns THEN Return(q, "inUse", None) ELSE Goes(q, "examined")

(* A new key for the identity in force is always welcome.                  *)
Examine(q) ==
  /\ pc[q] = "holding"
  /\ \/ /\ op[q].kind = "save"
        /\ \E id \in Identities \cup {None} :
             /\ Reads(id)
             /\ IF op[q].identity = id THEN Goes(q, "examined") ELSE CheckActive(q)
     \/ /\ op[q].kind = "clear"
        /\ CheckActive(q)
        /\ UNCHANGED faults
  /\ UNCHANGED <<file, runVars>>

(* The new file is renamed over the old one, or the file is removed.       *)
WriteFile(q) ==
  /\ pc[q] = "examined" /\ op[q].kind \in {"save", "clear"}
  /\ file' = IF op[q].kind = "save" THEN op[q].identity ELSE None
  /\ Return(q, IF op[q].kind = "save" THEN "saved" ELSE "cleared", None)
  /\ UNCHANGED <<runVars, faults>>

-----------------------------------------------------------------------------
(* Service.Retry.                                                          *)

SameProvider(r, id) == pin[r] = id

LoadRun(q) ==
  /\ pc[q] = "holding" /\ op[q].kind = "retry"
  /\ Querying
  /\ LET r == op[q].run IN
     \/ /\ status[r] = "absent"
        /\ Return(q, "refused", None)
        /\ UNCHANGED faults
     \/ /\ status[r] # "absent"
        /\ \E id \in Identities \cup {None} :
             /\ Reads(id)
             /\ \/ id = None /\ Return(q, "notConfigured", None)
                \/ id # None /\ ~SameProvider(r, id) /\ Return(q, "identityChanged", None)
                \/ id # None /\ SameProvider(r, id) /\ Goes(q, "examined")
  /\ UNCHANGED <<file, runVars>>

(* RetryDiagnosis puts a run that failed for the provider's sake back.     *)
Requeue(q) ==
  /\ pc[q] = "examined" /\ op[q].kind = "retry"
  /\ Querying
  /\ LET r == op[q].run IN
     IF status[r] = "FAILED" /\ retryable[r]
     THEN /\ status' = [status EXCEPT ![r] = "QUEUED"]
          /\ retryable' = [retryable EXCEPT ![r] = FALSE]
          /\ Return(q, "requeued", r)
     ELSE /\ Return(q, "notRetryable", None)
          /\ UNCHANGED <<status, retryable>>
  /\ UNCHANGED <<file, pin, used, faults>>

-----------------------------------------------------------------------------
(* Workers.                                                                *)

Start(r) ==
  /\ status[r] = "QUEUED"
  /\ status' = [status EXCEPT ![r] = "RUNNING"]
  /\ used' = [used EXCEPT ![r] = None]
  /\ UNCHANGED <<reqVars, lock, free, file, pin, retryable, faults>>

PinHolds(r, id) == id # None /\ pin[r] = id

(* The client is built from the file as it is when the run executes; an    *)
(* identity other than the pinned one is a permanent error, the lack of    *)
(* any an error that an attempt may be left for.                           *)
BuildForExecution(r) ==
  /\ status[r] = "RUNNING" /\ used[r] = None
  /\ \E id \in Identities \cup {None} :
       /\ Reads(id)
       /\ \/ /\ PinHolds(r, id)
             /\ used' = [used EXCEPT ![r] = id]
             /\ UNCHANGED <<status, retryable>>
          \/ /\ ~PinHolds(r, id)
             /\ \/ status' = [status EXCEPT ![r] = "FAILED"]
                \/ id = None /\ status' = [status EXCEPT ![r] = "QUEUED"]
             /\ retryable' = [retryable EXCEPT ![r] = FALSE]
             /\ UNCHANGED used
  /\ UNCHANGED <<reqVars, lock, free, file, pin>>

(* The outcome of an execution: see AnalysisJobs and DiagnosisExecution.   *)
Settle(r) ==
  /\ status[r] = "RUNNING"
  /\ \/ status' = [status EXCEPT ![r] = "QUEUED"] /\ UNCHANGED retryable
     \/ used[r] # None /\ status' = [status EXCEPT ![r] = "SUCCEEDED"] /\ UNCHANGED retryable
     \/ /\ status' = [status EXCEPT ![r] = "FAILED"]
        /\ \E b \in BOOLEAN : retryable' = [retryable EXCEPT ![r] = b]
     \/ status' = [status EXCEPT ![r] = "CANCELLED"] /\ UNCHANGED retryable
  /\ UNCHANGED <<reqVars, lock, free, file, pin, used, faults>>

CancelQueued(r) ==
  /\ status[r] = "QUEUED"
  /\ status' = [status EXCEPT ![r] = "CANCELLED"]
  /\ UNCHANGED <<reqVars, lock, free, file, pin, retryable, used, faults>>

-----------------------------------------------------------------------------
Serve(q) ==
  \/ TakeConn(q) \/ Acquire(q) \/ LockTimeout(q)
  \/ CheckKey(q) \/ PinProvider(q) \/ Insert(q)
  \/ Examine(q) \/ WriteFile(q) \/ LoadRun(q) \/ Requeue(q)

Work(r) == Start(r) \/ BuildForExecution(r) \/ Settle(r) \/ CancelQueued(r)

Next == \E q \in Requests : Serve(q) \/ Refuse(q) \/ LockLost(q) \/ Work(q)

Spec == Init /\ [][Next]_vars

(* A request that can go on does: MySQL answers, and GET_LOCK times out.   *)
FairSpec == Spec /\ \A q \in Requests : WF_vars(Serve(q))

-----------------------------------------------------------------------------
CreationTypeOK ==
  /\ op \in Workloads
  /\ env \in Identities \cup {None}
  /\ pc \in [Requests -> {"idle", "locking", "done"} \cup Inner]
  /\ seen \in [Requests -> Identities \cup {None}]
  /\ answer \in [Requests -> [what : Outcomes, run : Requests \cup {None}]]
  /\ lock \in Requests \cup {None}
  /\ file \in Identities \cup {None}
  /\ status \in [Requests -> Statuses]
  /\ pin \in [Requests -> Identities \cup {None}]
  /\ retryable \in [Requests -> BOOLEAN]
  /\ used \in [Requests -> Identities \cup {None}]
  /\ \A r \in Requests : status[r] = "absent" => used[r] = None
  /\ faults \in Nat

(* What a request that holds the lock has found out still holds when it    *)
(* acts on it: no run has its key, the identity it read is in force, or no *)
(* run is active.                                                          *)
Prepared(q) ==
  /\ pc[q] \in Inner => lock = q
  /\ pc[q] \in {"checked", "pinned"} => WithKey(q) = {}
  /\ pc[q] = "pinned" => seen[q] = Current
  /\ pc[q] = "examined" =>
       \/ op[q].kind = "save" /\ op[q].identity = Current
       \/ op[q].kind \in {"save", "clear"} /\ ~HasActiveRuns
       \/ op[q].kind = "retry" /\ pin[op[q].run] = Current

(* While a run is queued or running, the provider in force is the one the  *)
(* run pinned, so a change of configuration never makes it fail; unless a  *)
(* session lost the lock, or the configuration file could not be read and  *)
(* the environment's provider was taken for the one in force.              *)
ActivePinned ==
  faults = 0 =>
    \A r \in Requests : status[r] \in {"QUEUED", "RUNNING"} => pin[r] = Current

(* Whatever happened to the lock or the file, an execution talks to no     *)
(* provider but the one its run pinned.                                    *)
UsesPinned == \A r \in Requests : used[r] # None => used[r] = pin[r]

(* A run keeps the provider it was created with: saving and clearing the   *)
(* configuration wait for active runs, and BuildForExecution refuses when  *)
(* a lost lock or an unreadable file let another provider in all the same. *)
RunsKeepProvider == ActivePinned /\ UsesPinned

(* A key names one run, and whoever is answered with a run asked for it.   *)
AnswersMatch ==
  /\ \A r, s \in Requests :
       status[r] # "absent" /\ status[s] # "absent" /\ op[r].key = op[s].key => r = s
  /\ \A q \in Requests :
       answer[q].what \in {"created", "existing"} =>
         LET r == answer[q].run IN
         /\ r \in Requests /\ status[r] # "absent"
         /\ op[r].key = op[q].key /\ op[r].payload = op[q].payload

(* Two requests with one key never race to the unique index: the second is *)
(* answered with the first one's run and not with an internal error.       *)
NoDuplicateError == faults = 0 => \A q \in Requests : answer[q].what # "duplicate"

(* Creation is idempotent: a repeated request gets the run its key names,  *)
(* never another run, a second run or an internal error.                   *)
IdempotentCreation == AnswersMatch /\ NoDuplicateError

(* Every request is answered, although waiting requests may hold all the   *)
(* connections that the lock's owner needs.                                *)
EveryRequestEnds == \A q \in Requests : <>(pc[q] = "done")

(* The inductive invariant: what the four properties rest on is what each  *)
(* request knows while it holds the lock.                                  *)
CreationInv ==
  /\ CreationTypeOK
  /\ faults = 0 => \A q \in Requests : Prepared(q)
  /\ ActivePinned
  /\ UsesPinned
  /\ AnswersMatch
  /\ NoDuplicateError

=============================================================================

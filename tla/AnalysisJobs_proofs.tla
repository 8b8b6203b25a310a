------------------------ MODULE AnalysisJobs_proofs -------------------------
(***************************************************************************)
(* Proofs about the job queue, for any jobs, workers, batch size,          *)
(* concurrency, attempt limit and number of faults:                        *)
(*   - every step of a claim (the start boundary, the handler, and         *)
(*     executeJob around it), of the API, the reaper and the workers       *)
(*     preserves the inductive invariant IInv;                             *)
(*   - the invariants that follow from it;                                 *)
(*   - the moves one step can make of one row, the action properties that  *)
(*     follow, and the refinement of JobLifecycle.                         *)
(***************************************************************************)
EXTENDS AnalysisJobsRefinement, TLAPS

-----------------------------------------------------------------------------
(* Rows and claims as values *)

(* The null row and the null claim are values the tables can hold.         *)
LEMMA NullTypes == NoClaim \in ClaimState /\ AbsentRow \in JobRow
BY BoundsAssumption
   DEF NoClaim, AbsentRow, ClaimState, JobRow, Phase, Cause, Return, Plan, Status, Lease, Reason

(* The row transitions of store.go stay within the columns' types.         *)
LEMMA RowTypes ==
  ASSUME NEW r \in JobRow
  PROVE  /\ Succeeded(r) \in JobRow /\ Cancelled(r) \in JobRow
         /\ RetryWait(r) \in JobRow /\ Unclaimed(r) \in JobRow
         /\ \A why \in Reason, x \in BOOLEAN : Failed(r, why, x) \in JobRow
         /\ \A t \in 0 .. MaxClaims : ClaimedRow(r, t) \in JobRow
         /\ r.generation < MaxGeneration => NextGeneration(r) \in JobRow
         /\ [r EXCEPT !.started = TRUE, !.attempts = @ + 1] \in JobRow
         /\ [r EXCEPT !.lease = "expired"] \in JobRow
         /\ [r EXCEPT !.due = TRUE] \in JobRow
         /\ [r EXCEPT !.cancel = TRUE] \in JobRow
<1>1. Succeeded(r) \in JobRow /\ Cancelled(r) \in JobRow /\ RetryWait(r) \in JobRow
  BY Zenon DEF Succeeded, Cancelled, RetryWait, JobRow, Status, Claimable, Terminal, Reason
<1>2. Unclaimed(r) \in JobRow
  <2>1. \A t \in 0 .. MaxClaims :
          [r EXCEPT !.status = "PENDING", !.token = t, !.lease = "none"] \in JobRow
    BY Zenon DEF JobRow, Status, Claimable, Lease
  <2>2. 0 \in 0 .. MaxClaims
    BY BoundsAssumption
  <2> QED BY <2>1, <2>2, Zenon DEF Unclaimed
<1>3. \A why \in Reason, x \in BOOLEAN : Failed(r, why, x) \in JobRow
  BY Zenon DEF Failed, JobRow, Status, Terminal
<1>4. \A t \in 0 .. MaxClaims : ClaimedRow(r, t) \in JobRow
  BY Zenon DEF ClaimedRow, JobRow, Status, Lease
<1>5. r.generation < MaxGeneration => NextGeneration(r) \in JobRow
  <2>1. \A g \in 1 .. MaxGeneration :
          [AbsentRow EXCEPT !.status = "PENDING", !.generation = g] \in JobRow
    BY NullTypes, Zenon DEF JobRow, Status, Claimable
  <2>2. r.generation < MaxGeneration => r.generation + 1 \in 1 .. MaxGeneration
    BY BoundsAssumption DEF JobRow
  <2> QED BY <2>1, <2>2, Zenon DEF NextGeneration
<1>6. [r EXCEPT !.started = TRUE, !.attempts = @ + 1] \in JobRow
  <2>1. \A x \in Nat : [r EXCEPT !.started = TRUE, !.attempts = x] \in JobRow
    BY Zenon DEF JobRow
  <2>2. r.attempts + 1 \in Nat
    BY DEF JobRow
  <2> QED BY <2>1, <2>2, Zenon
<1>7. [r EXCEPT !.lease = "expired"] \in JobRow /\ [r EXCEPT !.due = TRUE] \in JobRow
  BY Zenon DEF JobRow, Lease
<1>8. [r EXCEPT !.cancel = TRUE] \in JobRow
  BY Zenon DEF JobRow
<1> QED BY <1>1, <1>2, <1>3, <1>4, <1>5, <1>6, <1>7, <1>8

(* So do the assignments worker.go makes to a goroutine's state.           *)
LEMMA ClaimTypes ==
  ASSUME NEW c \in ClaimState
  PROVE  /\ \A p \in Phase : [c EXCEPT !.phase = p] \in ClaimState
         /\ \A a \in Nat : Started(c, a) \in ClaimState
         /\ [c EXCEPT !.phase = "resolving", !.late = TRUE] \in ClaimState
         /\ [c EXCEPT !.late = FALSE] \in ClaimState
         /\ [c EXCEPT !.phase = "finalizing", !.plan = "cancel", !.late = FALSE] \in ClaimState
         /\ [c EXCEPT !.phase = "running", !.late = FALSE] \in ClaimState
         /\ \A x \in Cause : [c EXCEPT !.cause = x] \in ClaimState
         /\ \A x \in Return : [c EXCEPT !.phase = "returned", !.ret = x] \in ClaimState
         /\ \A x \in Plan : [c EXCEPT !.phase = "finalizing", !.plan = x] \in ClaimState
BY Zenon DEF Started, ClaimState, Phase, Plan

(* A row that stops being RUNNING, within its generation and with its      *)
(* attempts as they were, leaves every goroutine's relation to it intact.  *)
LEMMA LeavesRunning ==
  ASSUME NEW r \in JobRow, NEW s \in JobRow, NEW last \in Nat, NEW n \in Tokens,
         NEW c \in ClaimState, ClaimOK(r, last, n, c),
         s.status # "RUNNING", s.generation = r.generation, s.attempts = r.attempts
  PROVE  ClaimOK(s, last, n, c)
BY DEF ClaimOK, Holds

(* So does one that starts a new generation.                               *)
LEMMA LeavesGeneration ==
  ASSUME NEW r \in JobRow, NEW s \in JobRow, NEW last \in Nat, NEW n \in Tokens,
         NEW c \in ClaimState, ClaimOK(r, last, n, c),
         s.status # "RUNNING", s.generation > r.generation
  PROVE  ClaimOK(s, last, n, c)
BY DEF ClaimOK, Holds, Executing, JobRow, ClaimState

(* And one that keeps its claim and may only gain the cancel flag.         *)
LEMMA KeepsClaim ==
  ASSUME NEW r \in JobRow, NEW s \in JobRow, NEW last \in Nat, NEW n \in Tokens,
         NEW c \in ClaimState, ClaimOK(r, last, n, c),
         s.status = r.status, s.token = r.token, s.generation = r.generation,
         s.attempts = r.attempts, s.started = r.started, r.cancel => s.cancel
  PROVE  ClaimOK(s, last, n, c)
BY DEF ClaimOK, Holds

(* The start boundary charges the row without disturbing any goroutine:    *)
(* those of the generation now work under an older attempt number.         *)
LEMMA Charges ==
  ASSUME NEW r \in JobRow, r.status = "RUNNING", ~r.started
  PROVE  LET s == [r EXCEPT !.started = TRUE, !.attempts = @ + 1] IN
         /\ \A j, b, last : RowOK(j, r, b, last) => RowOK(j, s, b, last)
         /\ \A last, n : \A c \in ClaimState : ClaimOK(r, last, n, c) => ClaimOK(s, last, n, c)
<1> DEFINE s == [r EXCEPT !.started = TRUE, !.attempts = @ + 1]
<1>1. /\ s.status = "RUNNING" /\ s.started /\ s.attempts = r.attempts + 1
      /\ s.token = r.token /\ s.generation = r.generation /\ s.cancel = r.cancel
      /\ r.attempts \in Nat
  BY DEF JobRow
<1> HIDE DEF s
<1>2. ASSUME NEW j, NEW b, NEW last, RowOK(j, r, b, last) PROVE RowOK(j, s, b, last)
  BY <1>1, <1>2, BoundsAssumption DEF RowOK, Claimable
<1>3. ASSUME NEW last, NEW n, NEW c \in ClaimState, ClaimOK(r, last, n, c)
      PROVE  ClaimOK(s, last, n, c)
  BY <1>1, <1>3 DEF ClaimOK, Holds, Executing, ClaimState
<1> QED BY <1>2, <1>3 DEF s

(* A goroutine that holds a started row may take up its attempt number.    *)
LEMMA StartedOK ==
  ASSUME NEW r \in JobRow, NEW c \in ClaimState, NEW last, NEW n,
         ClaimOK(r, last, n, c), c.phase \in {"starting", "resolving"},
         Holds(r, n), r.started
  PROVE  /\ ClaimOK(r, last, n, Started(c, r.attempts))
         /\ \A m : \A d \in ClaimState : m # n /\ ClaimOK(r, last, m, d) =>
              PairOK(Started(c, r.attempts), d) /\ PairOK(d, Started(c, r.attempts))
<1> DEFINE e == Started(c, r.attempts)
<1>1. /\ e.phase = "launching" /\ e.attempt = r.attempts /\ e.generation = c.generation
      /\ e.cancelSeen = c.cancelSeen /\ e.cause = c.cause /\ e.ret = c.ret /\ e.plan = c.plan
      /\ r.attempts \in Nat
  BY DEF Started, ClaimState, JobRow
<1>2. ClaimOK(r, last, n, e)
  BY <1>1 DEF ClaimOK, Holds, Executing
<1>3. ASSUME NEW m, NEW d \in ClaimState, m # n, ClaimOK(r, last, m, d)
      PROVE  PairOK(e, d) /\ PairOK(d, e)
  BY <1>1, <1>3 DEF ClaimOK, PairOK, Holds, ClaimState
<1> QED BY <1>2, <1>3

(* A goroutine that ends satisfies the invariant beside any row.           *)
LEMMA NoClaimOK ==
  ASSUME NEW r, NEW last, NEW n PROVE ClaimOK(r, last, n, NoClaim)
BY DEF ClaimOK, NoClaim, Executing

(* An ended goroutine never shares an attempt number with another.         *)
LEMMA NoClaimPair ==
  ASSUME NEW c PROVE PairOK(NoClaim, c) /\ PairOK(c, NoClaim)
BY DEF PairOK, NoClaim, Executing

-----------------------------------------------------------------------------
(* Steps *)

(* JobInv after a step, from the values the step leaves.                   *)
LEMMA NewJobInv ==
  ASSUME NEW k \in Jobs, RowOK(k, job'[k], business'[k], claims'[k]),
         \A n \in Tokens : ClaimOK(job'[k], claims'[k], n, claim'[k][n]),
         \A m, n \in Tokens : m # n => PairOK(claim'[k][m], claim'[k][n])
  PROVE  JobInv(k)'
<1>1. RowOK(k, job[k], business[k], claims[k])'
  BY DEF RowOK
<1>2. (\A n \in Tokens : ClaimOK(job[k], claims[k], n, claim[k][n]))'
  BY DEF ClaimOK
<1>3. (\A m, n \in Tokens : m # n => PairOK(claim[k][m], claim[k][n]))'
  BY DEF PairOK
<1> QED BY <1>1, <1>2, <1>3 DEF JobInv

(* A job no variable of which changes keeps its invariant.                 *)
LEMMA SameJob ==
  ASSUME NEW k \in Jobs, JobInv(k), job'[k] = job[k], business'[k] = business[k],
         claim'[k] = claim[k], claims'[k] = claims[k]
  PROVE  JobInv(k)'
<1>1. /\ RowOK(k, job'[k], business'[k], claims'[k])
      /\ \A n \in Tokens : ClaimOK(job'[k], claims'[k], n, claim'[k][n])
      /\ \A m, n \in Tokens : m # n => PairOK(claim'[k][m], claim'[k][n])
  BY DEF JobInv
<1> QED BY <1>1, NewJobInv

(* A step that writes one row, its resource and one of its goroutines.     *)
LEMMA LocalStep ==
  ASSUME IInv, NEW j \in Jobs, NEW n \in Tokens,
         NEW r \in JobRow, NEW b \in Business, NEW c \in ClaimState,
         SetRow(j, r), SetBusiness(j, b), SetClaim(j, n, c), claims' = claims,
         mode' \in [Workers -> Mode], faults' \in 0 .. MaxFaults,
         RowOK(j, r, b, claims[j]), ClaimOK(r, claims[j], n, c),
         \A m \in Tokens : m # n => ClaimOK(r, claims[j], m, claim[j][m]),
         \A m \in Tokens : m # n => PairOK(c, claim[j][m]) /\ PairOK(claim[j][m], c)
  PROVE  IInv'
<1>1. TypeOK'
  BY DEF IInv, TypeOK, SetRow, SetBusiness, SetClaim
<1>2. \A k \in Jobs : k # j => /\ job'[k] = job[k] /\ business'[k] = business[k]
                               /\ claim'[k] = claim[k] /\ claims'[k] = claims[k]
  BY DEF IInv, TypeOK, SetRow, SetBusiness, SetClaim
<1>3. /\ job'[j] = r /\ business'[j] = b /\ claims'[j] = claims[j]
      /\ \A m \in Tokens : claim'[j][m] = IF m = n THEN c ELSE claim[j][m]
  BY DEF IInv, TypeOK, SetRow, SetBusiness, SetClaim
<1>4. JobInv(j)'
  <2>1. RowOK(j, job'[j], business'[j], claims'[j])
    BY <1>3
  <2>2. \A m \in Tokens : ClaimOK(job'[j], claims'[j], m, claim'[j][m])
    BY <1>3
  <2>3. \A m, k \in Tokens : m # k => PairOK(claim'[j][m], claim'[j][k])
    BY <1>3 DEF IInv, JobInv
  <2> QED BY <2>1, <2>2, <2>3, NewJobInv
<1>5. \A k \in Jobs : k # j => JobInv(k)'
  BY <1>2, SameJob DEF IInv
<1> QED BY <1>1, <1>4, <1>5 DEF IInv

(* Its corollary for a step that only moves a goroutine: nothing new may   *)
(* become executing.                                                       *)
LEMMA ClaimStep ==
  ASSUME IInv, NEW j \in Jobs, NEW n \in Tokens, NEW c \in ClaimState,
         SetClaim(j, n, c), UNCHANGED <<job, business, claims>>,
         mode' \in [Workers -> Mode], faults' \in 0 .. MaxFaults,
         ClaimOK(job[j], claims[j], n, c),
         c.phase \in Executing =>
           /\ claim[j][n].phase \in Executing
           /\ c.generation = claim[j][n].generation /\ c.attempt = claim[j][n].attempt
  PROVE  IInv'
<1>1. job[j] \in JobRow /\ business[j] \in Business
  BY DEF IInv, TypeOK
<1>2. SetRow(j, job[j]) /\ SetBusiness(j, business[j]) /\ claims' = claims
  BY DEF IInv, TypeOK, SetRow, SetBusiness
<1>3. RowOK(j, job[j], business[j], claims[j])
  BY DEF IInv, JobInv
<1>4. \A m \in Tokens : m # n => ClaimOK(job[j], claims[j], m, claim[j][m])
  BY DEF IInv, JobInv
<1>5. \A m \in Tokens : m # n => PairOK(c, claim[j][m]) /\ PairOK(claim[j][m], c)
  BY DEF IInv, JobInv, PairOK
<1> QED BY <1>1, <1>2, <1>3, <1>4, <1>5, LocalStep

(* And for a step that only moves the row.                                 *)
LEMMA RowStep ==
  ASSUME IInv, NEW j \in Jobs, NEW r \in JobRow, NEW b \in Business,
         SetRow(j, r), SetBusiness(j, b), UNCHANGED <<claims, claim>>,
         mode' \in [Workers -> Mode], faults' \in 0 .. MaxFaults,
         RowOK(j, r, b, claims[j]),
         \A m \in Tokens : ClaimOK(r, claims[j], m, claim[j][m])
  PROVE  IInv'
<1>1. TypeOK'
  BY DEF IInv, TypeOK, SetRow, SetBusiness
<1>2. \A k \in Jobs : k # j => /\ job'[k] = job[k] /\ business'[k] = business[k]
                               /\ claim'[k] = claim[k] /\ claims'[k] = claims[k]
  BY DEF IInv, TypeOK, SetRow, SetBusiness
<1>3. job'[j] = r /\ business'[j] = b /\ claims'[j] = claims[j] /\ claim'[j] = claim[j]
  BY DEF IInv, TypeOK, SetRow, SetBusiness
<1>4. JobInv(j)'
  <2>1. \A m, n \in Tokens : m # n => PairOK(claim[j][m], claim[j][n])
    BY DEF IInv, JobInv
  <2> QED BY <1>3, <2>1, NewJobInv
<1>5. \A k \in Jobs : k # j => JobInv(k)'
  BY <1>2, SameJob DEF IInv
<1> QED BY <1>1, <1>4, <1>5 DEF IInv

(* A step that ends one goroutine and leaves its row alone.                *)
LEMMA GoneStep ==
  ASSUME IInv, NEW j \in Jobs, NEW n \in Tokens, Gone(j, n),
         UNCHANGED <<job, business, claims>>,
         mode' \in [Workers -> Mode], faults' \in 0 .. MaxFaults
  PROVE  IInv'
BY ClaimStep, NoClaimOK, NullTypes, Zenon DEF Gone, NoClaim, Executing

(* A goroutine that moves between the phases before the start.             *)
LEMMA StartMoves ==
  ASSUME IInv, NEW j \in Jobs, NEW n \in Tokens, NEW p \in {"starting", "resolving", "returning"},
         claim[j][n].phase \in {"starting", "resolving"}, Goto(j, n, p),
         UNCHANGED <<job, business, claims, mode, faults>>
  PROVE  IInv'
<1> DEFINE e == [claim[j][n] EXCEPT !.phase = p]
<1>1. claim[j][n] \in ClaimState /\ mode' \in [Workers -> Mode] /\ faults' \in 0 .. MaxFaults
  BY DEF IInv, TypeOK
<1>2. e \in ClaimState
  BY <1>1, ClaimTypes, Zenon DEF Phase
<1>3. ClaimOK(job[j], claims[j], n, claim[j][n])
  BY DEF IInv, JobInv
<1>4. ClaimOK(job[j], claims[j], n, e) /\ e.phase \notin Executing
  <2> DEFINE c == claim[j][n]
  <2>1. /\ e.phase = p /\ e.generation = c.generation /\ e.cancelSeen = c.cancelSeen
        /\ e.cause = c.cause /\ e.ret = c.ret /\ e.plan = c.plan
    BY <1>1 DEF ClaimState
  <2>2. p \notin Executing /\ c.phase \notin Executing /\ p # "none" /\ c.phase # "none"
    BY DEF Executing
  <2> HIDE DEF e, c
  <2>3. ClaimOK(job[j], claims[j], n, c)
    BY <1>3 DEF c
  <2> QED BY <2>1, <2>2, <2>3 DEF ClaimOK
<1> QED BY <1>1, <1>2, <1>4, ClaimStep, Zenon DEF Goto

(* A claim that never started is put back with its attempt still to come.  *)
LEMMA UnclaimedOK ==
  ASSUME NEW j, NEW r \in JobRow, NEW b, NEW last, RowOK(j, r, b, last),
         r.status = "RUNNING", ~r.started
  PROVE  RowOK(j, Unclaimed(r), b, last)
<1> DEFINE s == Unclaimed(r)
<1>1. /\ s.status = "PENDING" /\ s.started = r.started /\ s.attempts = r.attempts
      /\ s.cancel = r.cancel
  BY DEF Unclaimed, JobRow
<1> HIDE DEF s
<1> QED BY <1>1 DEF RowOK, Claimable, Terminal, s

(* A fault stays within the budget of faults.                              *)
LEMMA FaultType == ASSUME TypeOK, Fault PROVE faults' \in 0 .. MaxFaults
BY BoundsAssumption DEF Fault, TypeOK

-----------------------------------------------------------------------------
(* Every action preserves the invariant: the start boundary *)

(* Every step of startAndDispatchClaim, from the start boundary to the     *)
(* launch of the handler, preserves the invariant.                         *)
LEMMA StartInv ==
  ASSUME IInv, NEW j \in Jobs, NEW n \in Tokens, StartBoundary(j, n)
  PROVE  IInv'
<1> DEFINE c == claim[j][n]
           r == job[j]
<1>0. /\ TypeOK /\ c \in ClaimState /\ r \in JobRow /\ business[j] \in Business
      /\ claims[j] \in 0 .. MaxClaims
  BY DEF IInv, TypeOK
<1>a. /\ RowOK(j, r, business[j], claims[j]) /\ ClaimOK(r, claims[j], n, c)
      /\ \A m \in Tokens : ClaimOK(r, claims[j], m, claim[j][m])
      /\ \A m \in Tokens : m # n => PairOK(c, claim[j][m])
  BY DEF IInv, JobInv
<1>b. mode \in [Workers -> Mode] /\ faults \in 0 .. MaxFaults
  BY <1>0 DEF TypeOK
<1>1. CASE MarkExecutionStarted(j, n)
  <2>1. /\ c.phase = "starting" /\ Holds(r, n) /\ r.status = "RUNNING"
        /\ UNCHANGED <<business, claims, mode, faults>> /\ SetBusiness(j, business[j])
    BY <1>1, <1>0 DEF MarkExecutionStarted, Phased, HoldsClaim, Holds, TypeOK, SetBusiness
  <2>2. CASE r.started
    <3> DEFINE e == Started(c, r.attempts)
    <3>1. e \in ClaimState /\ SetClaim(j, n, e)
      BY <1>1, <1>0, <2>2, ClaimTypes, Zenon DEF MarkExecutionStarted, JobRow
    <3>2. SetRow(j, r)
      BY <1>1, <1>0, <2>2 DEF MarkExecutionStarted, SetRow, TypeOK
    <3>3. /\ ClaimOK(r, claims[j], n, e)
          /\ \A m \in Tokens : m # n => PairOK(e, claim[j][m]) /\ PairOK(claim[j][m], e)
      BY <1>0, <1>a, <2>1, <2>2, StartedOK DEF TypeOK
    <3> HIDE DEF e
    <3> QED BY <1>0, <1>a, <1>b, <2>1, <3>1, <3>2, <3>3, LocalStep
  <2>3. CASE ~r.started
    <3> DEFINE s == [r EXCEPT !.started = TRUE, !.attempts = @ + 1]
               e == Started(c, r.attempts + 1)
    <3>1. s \in JobRow /\ r.attempts + 1 = s.attempts /\ s.started /\ Holds(s, n)
      BY <1>0, <2>1, RowTypes, Zenon DEF JobRow, Holds
    <3>2. SetRow(j, s) /\ SetClaim(j, n, e)
      BY <1>1, <2>3 DEF MarkExecutionStarted, ChargeAttempt
    <3>3. e \in ClaimState
      <4>1. r.attempts + 1 \in Nat
        BY <1>0 DEF JobRow
      <4> QED BY <1>0, <4>1, ClaimTypes, Zenon
    <3>4. /\ RowOK(j, s, business[j], claims[j])
          /\ \A m \in Tokens : ClaimOK(s, claims[j], m, claim[j][m])
      BY <1>0, <1>a, <2>1, <2>3, Charges, Zenon DEF TypeOK
    <3> HIDE DEF s
    <3>5. /\ ClaimOK(s, claims[j], n, e)
          /\ \A m \in Tokens : m # n => PairOK(e, claim[j][m]) /\ PairOK(claim[j][m], e)
      BY <1>0, <2>1, <3>1, <3>4, StartedOK DEF TypeOK
    <3> HIDE DEF e
    <3> QED BY <1>0, <1>b, <2>1, <3>1, <3>2, <3>3, <3>4, <3>5, LocalStep
  <2> QED BY <2>2, <2>3
<1>2. CASE MarkExecutionStartedRefused(j, n)
  BY <1>2, <1>b, GoneStep DEF MarkExecutionStartedRefused
<1>3. CASE MarkExecutionStartedError(j, n)
  <2> DEFINE d == [c EXCEPT !.phase = "resolving", !.late = TRUE]
  <2>1. d \in ClaimState /\ SetClaim(j, n, d)
    BY <1>3, <1>0, ClaimTypes, Zenon DEF MarkExecutionStartedError
  <2>2. c.phase = "starting" /\ UNCHANGED <<job, business, claims>>
    BY <1>3 DEF MarkExecutionStartedError, Phased
  <2>3. mode' \in [Workers -> Mode] /\ faults' \in 0 .. MaxFaults
    BY <1>3, <1>0, <1>b, FaultType DEF MarkExecutionStartedError
  <2>4. ClaimOK(r, claims[j], n, d) /\ d.phase \notin Executing
    BY <1>0, <1>a, <2>2 DEF ClaimOK, ClaimState, Executing
  <2> QED BY <2>1, <2>2, <2>3, <2>4, ClaimStep, Zenon
<1>4. CASE LateStart(j, n)
  <2> DEFINE s == [r EXCEPT !.started = TRUE, !.attempts = @ + 1]
             e == [c EXCEPT !.late = FALSE]
  <2>1. /\ r.status = "RUNNING" /\ Holds(r, n) /\ ~r.started /\ SetRow(j, s) /\ SetClaim(j, n, e)
        /\ UNCHANGED <<business, claims, mode, faults>> /\ SetBusiness(j, business[j])
    BY <1>4, <1>0
       DEF LateStart, StartCommits, HoldsClaim, Holds, ChargeAttempt, TypeOK, SetBusiness
  <2>2. s \in JobRow /\ e \in ClaimState
    BY <1>0, RowTypes, ClaimTypes, Zenon
  <2>3. /\ RowOK(j, s, business[j], claims[j])
        /\ \A m \in Tokens : ClaimOK(s, claims[j], m, claim[j][m])
    BY <1>0, <1>a, <2>1, Charges, Zenon DEF TypeOK
  <2>4. c.phase \notin Executing /\ c.late
    BY <1>4, <1>a, <2>1 DEF ClaimOK, LateStart
  <2>5. e.phase \notin Executing /\ ClaimOK(s, claims[j], n, e)
    <3>1. c.phase # "none"
      <4>1. c.phase = "none" => c = NoClaim
        BY <1>a DEF ClaimOK
      <4>2. ~NoClaim.late
        BY DEF NoClaim
      <4> QED BY <2>4, <4>1, <4>2
    <3> HIDE DEF s
    <3> QED BY <1>0, <2>3, <2>4, <3>1 DEF ClaimOK, ClaimState
  <2>6. \A m \in Tokens : m # n => PairOK(e, claim[j][m]) /\ PairOK(claim[j][m], e)
    BY <2>5 DEF PairOK
  <2> HIDE DEF s, e
  <2> QED BY <1>0, <1>b, <2>1, <2>2, <2>3, <2>5, <2>6, LocalStep
<1>5. CASE ResolveExecutionStart(j, n)
  <2>1. c.phase = "resolving" /\ UNCHANGED <<job, business, claims, mode, faults>>
    BY <1>5 DEF ResolveExecutionStart, Phased
  <2>2. CASE Gone(j, n)
    BY <1>b, <2>1, <2>2, GoneStep
  <2>3. CASE Goto(j, n, "returning")
    BY <2>1, <2>3, StartMoves
  <2>4. CASE Goto(j, n, "starting")
    BY <2>1, <2>4, StartMoves
  <2>5. CASE /\ HoldsClaim(j, n) /\ r.started
             /\ SetClaim(j, n, Started(c, r.attempts))
    <3> DEFINE e == Started(c, r.attempts)
    <3>1. e \in ClaimState /\ SetClaim(j, n, e) /\ SetRow(j, r) /\ SetBusiness(j, business[j])
      BY <1>0, <2>1, <2>5, ClaimTypes, Zenon DEF JobRow, SetRow, SetBusiness, TypeOK
    <3>2. Holds(r, n)
      BY <2>5 DEF HoldsClaim, Holds
    <3>3. /\ ClaimOK(r, claims[j], n, e)
          /\ \A m \in Tokens : m # n => PairOK(e, claim[j][m]) /\ PairOK(claim[j][m], e)
      BY <1>0, <1>a, <2>1, <2>5, <3>2, StartedOK DEF TypeOK
    <3> HIDE DEF e
    <3> QED BY <1>0, <1>a, <1>b, <2>1, <3>1, <3>3, LocalStep
  <2> QED BY <1>5, <2>2, <2>3, <2>4, <2>5 DEF ResolveExecutionStart
<1>6. CASE StopBeforeStart(j, n)
  BY <1>6, StartMoves DEF StopBeforeStart, Phased
<1>7. CASE ReturnUndispatchedClaim(j, n)
  <2>1. UNCHANGED <<business, claims, mode, faults>> /\ Gone(j, n) /\ SetClaim(j, n, NoClaim)
    BY <1>7 DEF ReturnUndispatchedClaim, Gone
  <2>2. CASE HoldsClaim(j, n) /\ ~r.started
    <3> DEFINE s == Unclaimed(r)
    <3>1. s \in JobRow /\ SetRow(j, s) /\ SetBusiness(j, business[j])
      BY <1>7, <1>0, <2>1, <2>2, RowTypes, Zenon
         DEF ReturnUndispatchedClaim, SetBusiness, TypeOK
    <3>2. RowOK(j, s, business[j], claims[j])
      BY <1>0, <1>a, <2>2, UnclaimedOK DEF HoldsClaim
    <3>3. s.status # "RUNNING" /\ s.generation = r.generation /\ s.attempts = r.attempts
      BY <1>0 DEF Unclaimed, JobRow
    <3> HIDE DEF s
    <3>4. \A m \in Tokens : ClaimOK(s, claims[j], m, claim[j][m])
      BY <1>0, <1>a, <3>1, <3>3, LeavesRunning DEF TypeOK
    <3> QED BY <1>0, <1>b, <2>1, <3>1, <3>2, <3>4, NoClaimOK, NoClaimPair, NullTypes, LocalStep
  <2>3. CASE ~(HoldsClaim(j, n) /\ ~r.started)
    BY <1>7, <1>b, <2>1, <2>3, GoneStep DEF ReturnUndispatchedClaim
  <2> QED BY <2>2, <2>3
<1>8. CASE AbandonClaim(j, n)
  <2>1. mode' \in [Workers -> Mode] /\ faults' \in 0 .. MaxFaults
    BY <1>8, <1>0, <1>b, FaultType DEF AbandonClaim
  <2> QED BY <1>8, <2>1, GoneStep DEF AbandonClaim
<1>9. CASE Launch(j, n)
  <2>1. c.phase = "launching" /\ UNCHANGED <<job, business, claims, mode, faults>>
    BY <1>9 DEF Launch, Phased
  <2>2. CASE Gone(j, n)
    BY <1>b, <2>1, <2>2, GoneStep
  <2>3. CASE /\ c.cancelSeen
             /\ SetClaim(j, n, [c EXCEPT !.phase = "finalizing", !.plan = "cancel", !.late = FALSE])
    <3> DEFINE e == [c EXCEPT !.phase = "finalizing", !.plan = "cancel", !.late = FALSE]
    <3>1. e \in ClaimState
      BY <1>0, ClaimTypes, Zenon
    <3>2. ClaimOK(r, claims[j], n, e) /\ e.generation = c.generation /\ e.attempt = c.attempt
      BY <1>0, <1>a, <2>1, <2>3 DEF ClaimOK, ClaimState, Executing
    <3> HIDE DEF e
    <3> QED BY <1>b, <2>1, <2>3, <3>1, <3>2, ClaimStep, Zenon DEF e, Executing
  <2>4. CASE SetClaim(j, n, [c EXCEPT !.phase = "running", !.late = FALSE])
    <3> DEFINE e == [c EXCEPT !.phase = "running", !.late = FALSE]
    <3>1. e \in ClaimState
      BY <1>0, ClaimTypes, Zenon
    <3>2. ClaimOK(r, claims[j], n, e) /\ e.generation = c.generation /\ e.attempt = c.attempt
      BY <1>0, <1>a, <2>1 DEF ClaimOK, ClaimState, Executing
    <3> HIDE DEF e
    <3> QED BY <1>b, <2>1, <2>4, <3>1, <3>2, ClaimStep, Zenon DEF e, Executing
  <2> QED BY <1>9, <2>2, <2>3, <2>4 DEF Launch
<1> QED BY <1>1, <1>2, <1>3, <1>4, <1>5, <1>6, <1>7, <1>8, <1>9 DEF StartBoundary

-----------------------------------------------------------------------------
(* The handler *)

(* The two facts about job j and its token n the proofs below start from.  *)
LEMMA Unfold ==
  ASSUME IInv, NEW j \in Jobs, NEW n \in Tokens
  PROVE  /\ claim[j][n] \in ClaimState /\ job[j] \in JobRow /\ business[j] \in Business
         /\ claims[j] \in 0 .. MaxClaims
         /\ mode \in [Workers -> Mode] /\ faults \in 0 .. MaxFaults
         /\ RowOK(j, job[j], business[j], claims[j])
         /\ ClaimOK(job[j], claims[j], n, claim[j][n])
BY DEF IInv, JobInv, TypeOK

(* The row and the resource leave RUNNING together, for the same outcome.  *)
LEMMA EndsOK ==
  ASSUME NEW j, NEW r \in JobRow, NEW s \in JobRow, NEW b, NEW last,
         RowOK(j, r, b, last), s.status \in Terminal,
         s.attempts = r.attempts, s.cancel = r.cancel, r.cancel => s.status = "CANCELLED"
  PROVE  RowOK(j, s, s.status, last)
BY DEF RowOK, Terminal, Claimable

(* An executing goroutine may record anything but a success, a retry or a  *)
(* cancellation it has no ground for.                                      *)
LEMMA ExecutingStep ==
  ASSUME IInv, NEW j \in Jobs, NEW n \in Tokens, NEW e \in ClaimState,
         claim[j][n].phase \in Executing, e.phase \in Executing,
         e.generation = claim[j][n].generation, e.attempt = claim[j][n].attempt,
         e.cancelSeen = claim[j][n].cancelSeen, SetClaim(j, n, e),
         UNCHANGED <<job, business, claims>>,
         mode' \in [Workers -> Mode], faults' \in 0 .. MaxFaults,
         Holds(job[j], n) => /\ e.ret # "nil" /\ e.plan # "success"
                             /\ e.cause = "user" \/ e.ret = "user" \/ e.plan = "cancel"
                                  => job[j].cancel,
         e.plan = "retry" => e.attempt < MaxAttempts
  PROVE  IInv'
<1>1. ClaimOK(job[j], claims[j], n, claim[j][n])
  BY Unfold
<1>2. ClaimOK(job[j], claims[j], n, e)
  BY <1>1 DEF ClaimOK, Executing
<1> QED BY <1>2, ClaimStep

(* Ending a job leaves its counters and its cancellation flag alone.       *)
LEMMA EndedFields ==
  ASSUME NEW r \in JobRow, NEW why, NEW x
  PROVE  \A q \in {Succeeded(r), Cancelled(r), RetryWait(r), Failed(r, why, x)} :
           q.attempts = r.attempts /\ q.generation = r.generation /\ q.cancel = r.cancel
<1>1. /\ Succeeded(r).attempts = r.attempts /\ Succeeded(r).generation = r.generation
      /\ Succeeded(r).cancel = r.cancel
  BY DEF Succeeded, JobRow
<1>2. /\ Cancelled(r).attempts = r.attempts /\ Cancelled(r).generation = r.generation
      /\ Cancelled(r).cancel = r.cancel
  BY DEF Cancelled, JobRow
<1>3. /\ RetryWait(r).attempts = r.attempts /\ RetryWait(r).generation = r.generation
      /\ RetryWait(r).cancel = r.cancel
  BY DEF RetryWait, JobRow
<1>4. /\ Failed(r, why, x).attempts = r.attempts /\ Failed(r, why, x).generation = r.generation
      /\ Failed(r, why, x).cancel = r.cancel
  BY DEF Failed, JobRow
<1> QED BY <1>1, <1>2, <1>3, <1>4

(* Whatever a handler commits or returns, the invariant holds after it.    *)
LEMMA HandlerInv ==
  ASSUME IInv, NEW j \in Jobs, NEW n \in Tokens, Handler(j, n)
  PROVE  IInv'
<1> DEFINE c == claim[j][n]
           r == job[j]
           e(ret) == [c EXCEPT !.phase = "returned", !.ret = ret]
<1>0. /\ c \in ClaimState /\ r \in JobRow /\ business[j] \in Business
      /\ claims[j] \in 0 .. MaxClaims
      /\ mode \in [Workers -> Mode] /\ faults \in 0 .. MaxFaults
      /\ RowOK(j, r, business[j], claims[j]) /\ ClaimOK(r, claims[j], n, c)
      /\ TypeOK
  BY Unfold DEF IInv
<1>e. ASSUME NEW ret \in Return
      PROVE  /\ e(ret) \in ClaimState /\ e(ret).phase = "returned" /\ e(ret).ret = ret
             /\ e(ret).generation = c.generation /\ e(ret).attempt = c.attempt
             /\ e(ret).cancelSeen = c.cancelSeen /\ e(ret).cause = c.cause
             /\ e(ret).plan = c.plan
  <2>1. e(ret) \in ClaimState
    BY <1>0, ClaimTypes, Zenon
  <2>2. c \in ClaimState
    BY <1>0
  <2> HIDE DEF c
  <2> QED BY <2>1, <2>2 DEF ClaimState
<1>x. "running" \in Executing /\ "returned" \in Executing
  BY DEF Executing
<1>r. ASSUME NEW ret \in Return, c.phase = "running", HandlerReturns(j, n, ret),
             UNCHANGED <<job, business, claims>>,
             mode' \in [Workers -> Mode], faults' \in 0 .. MaxFaults,
             Holds(r, n) => ret # "nil" /\ (ret = "user" => r.cancel)
      PROVE  IInv'
  <2>1. SetClaim(j, n, e(ret))
    BY <1>r DEF HandlerReturns
  <2>2. Holds(r, n) => c.plan # "success" /\ (c.cause = "user" \/ c.plan = "cancel" => r.cancel)
    BY <1>0 DEF ClaimOK
  <2>3. c.plan = "retry" => c.attempt < MaxAttempts
    BY <1>0 DEF ClaimOK
  <2> HIDE DEF e
  <2>4. /\ e(ret) \in ClaimState /\ e(ret).phase \in Executing /\ c.phase \in Executing
        /\ e(ret).generation = c.generation /\ e(ret).attempt = c.attempt
        /\ e(ret).cancelSeen = c.cancelSeen
    BY <1>r, <1>e, <1>x
  <2>5. Holds(r, n) => /\ e(ret).ret # "nil" /\ e(ret).plan # "success"
                       /\ e(ret).cause = "user" \/ e(ret).ret = "user" \/ e(ret).plan = "cancel"
                            => r.cancel
    BY <1>r, <1>e, <2>2
  <2>6. e(ret).plan = "retry" => e(ret).attempt < MaxAttempts
    BY <1>e, <2>3
  <2> QED BY <1>r, <2>1, <2>4, <2>5, <2>6, ExecutingStep
<1>1. CASE HandlerBegins(j, n)
  <2>1. SetRow(j, r) /\ SetBusiness(j, "RUNNING") /\ UNCHANGED <<claims, claim, mode, faults>>
    BY <1>1, <1>0 DEF HandlerBegins, SetRow, TypeOK
  <2>2. RowOK(j, r, "RUNNING", claims[j])
    BY <1>1, <1>0 DEF HandlerBegins, RowOK, Terminal
  <2>3. \A m \in Tokens : ClaimOK(r, claims[j], m, claim[j][m])
    BY DEF IInv, JobInv
  <2>4. "RUNNING" \in Business
    BY DEF Business, Open
  <2> QED BY <1>0, <2>1, <2>2, <2>3, <2>4, RowStep
<1>2. CASE HandlerStops(j, n)
  <2>1. PICK ret \in {"nil", "finalized", "user", "ownershipLost", "shutdown"} :
          /\ ret = "nil" => business[j] \in Terminal
          /\ ret = "user" => Owned(j, n) /\ job[j].cancel
          /\ HandlerReturns(j, n, ret)
    BY <1>2 DEF HandlerStops
  <2>2. ret \in Return
    BY DEF Return
  <2>3. business[j] \in Terminal => ~Holds(r, n)
    BY <1>0 DEF RowOK, Holds, Terminal
  <2> QED BY <1>2, <1>0, <1>r, <2>1, <2>2, <2>3, Zenon DEF HandlerStops, Phased
<1>3. CASE HandlerFails(j, n)
  <2>1. PICK ret \in {"retryable", "permanent"} : HandlerReturns(j, n, ret)
    BY <1>3 DEF HandlerFails
  <2>2. ret \in Return /\ ret # "nil" /\ ret # "user"
    BY DEF Return
  <2> QED BY <1>3, <1>0, <1>r, <2>1, <2>2 DEF HandlerFails, Phased
<1>a. \A x \in Atomic : x \in Return /\ x # "nil" /\ x # "user"
  BY DEF Atomic, AtomicFailure, Return
<1>5. CASE HandlerFinalizationFails(j, n)
  <2>1. PICK ret \in Atomic : HandlerReturns(j, n, ret)
    BY <1>5 DEF HandlerFinalizationFails
  <2> QED BY <1>5, <1>0, <1>a, <1>r, <2>1, Zenon DEF HandlerFinalizationFails, Phased
<1>4. ASSUME NEW acknowledged \in BOOLEAN, HandlerFinalizes(j, n, acknowledged)
      PROVE  IInv'
  <2>2. PICK outcome \in HandlerOutcomes(j, n),
             reason \in {"PERMANENT", "RETRYABLE_EXHAUSTED"}, retryable \in BOOLEAN :
          HandlerCommits(j, n, outcome, reason, retryable, acknowledged)
    BY <1>4 DEF HandlerFinalizes
  <2>1. /\ c.phase = "running" /\ UNCHANGED <<claims, mode>> /\ faults' \in 0 .. MaxFaults
        /\ r.status = "RUNNING"
        /\ SetRow(j, EndedRow(job[j], outcome, reason, retryable)) /\ SetBusiness(j, outcome)
    BY <2>2, <1>0, FaultType DEF HandlerCommits, Phased, Owned
  <2>3. outcome \in Terminal /\ (r.cancel => outcome = "CANCELLED") /\ outcome \in Business
    BY DEF HandlerOutcomes, Terminal, Business
  <2>4. PICK ret \in Return : HandlerReturns(j, n, ret)
    <3>1. AtomicReturn(outcome, reason) \in Return
      BY <1>a, <2>3 DEF AtomicReturn, Atomic, AtomicFailure, Terminal
    <3>3. "nil" \in Return /\ "finalized" \in Return
      BY DEF Return
    <3> QED BY <2>2, <3>1, <3>3 DEF HandlerCommits
  <2> QED
    <3>1. PICK s \in JobRow : /\ SetRow(j, s) /\ s.status = outcome
                              /\ s.attempts = r.attempts /\ s.generation = r.generation
                              /\ s.cancel = r.cancel
      <4>1. EndedRow(r, outcome, reason, retryable) \in
              {Succeeded(r), Cancelled(r), Failed(r, reason, retryable)}
        BY <2>3 DEF EndedRow, Terminal
      <4>2. reason \in Reason
        BY DEF Reason
      <4>3. /\ Succeeded(r) \in JobRow /\ Cancelled(r) \in JobRow
            /\ Failed(r, reason, retryable) \in JobRow
        BY <1>0, <4>2, RowTypes, Zenon
      <4>4. \A x \in {Succeeded(r), Cancelled(r), Failed(r, reason, retryable)} :
              x.attempts = r.attempts /\ x.generation = r.generation /\ x.cancel = r.cancel
        <5>1. r \in JobRow
          BY <1>0
        <5> HIDE DEF r
        <5> QED BY <5>1, EndedFields
      <4>5. EndedRow(r, outcome, reason, retryable).status = outcome
        BY <1>0, <2>3 DEF EndedRow, Terminal, Succeeded, Cancelled, Failed, JobRow
      <4> QED BY <2>1, <4>1, <4>3, <4>4, <4>5
    <3>2. RowOK(j, s, outcome, claims[j])
      BY <1>0, <2>3, <3>1, EndsOK
    <3>3. s.status # "RUNNING"
      BY <2>3, <3>1 DEF Terminal
    <3>4. \A m \in Tokens : ClaimOK(s, claims[j], m, claim[j][m])
      BY <1>0, <3>1, <3>3, LeavesRunning DEF IInv, JobInv, TypeOK
    <3>5. ClaimOK(s, claims[j], n, e(ret))
      <4>1. ClaimOK(s, claims[j], n, c)
        BY <3>4, Zenon
      <4> HIDE DEF e
      <4> QED BY <1>e, <2>1, <3>3, <4>1, Zenon DEF ClaimOK, Holds, Executing
    <3>6. \A m \in Tokens : m # n => PairOK(e(ret), claim[j][m]) /\ PairOK(claim[j][m], e(ret))
      <4>1. \A m \in Tokens : m # n => PairOK(c, claim[j][m]) /\ PairOK(claim[j][m], c)
        BY DEF IInv, JobInv
      <4> HIDE DEF e
      <4> QED BY <1>e, <1>x, <2>1, <4>1, ZenonT(60) DEF PairOK
    <3>7. SetClaim(j, n, e(ret)) /\ SetBusiness(j, outcome)
      BY <2>1, <2>4 DEF HandlerReturns
    <3> HIDE DEF e
    <3> QED BY <1>0, <1>e, <2>1, <2>3, <3>1, <3>2, <3>4, <3>5, <3>6, <3>7, LocalStep, Zenon
<1> QED BY <1>1, <1>2, <1>3, <1>4, <1>5 DEF Handler

-----------------------------------------------------------------------------
(* executeJob: watching the handler, deciding and finalizing *)

(* The decision never invents an outcome: success needs a nil return, a    *)
(* cancellation a user's request, a retry an attempt that is left.         *)
LEMMA PlansOK ==
  ASSUME NEW c \in ClaimState, NEW p \in Plans(c)
  PROVE  /\ p \in Plan
         /\ p = "success" => c.ret = "nil"
         /\ p = "cancel" => c.ret = "user" \/ c.cause = "user"
         /\ p = "retry" => c.attempt < MaxAttempts
<1>1. RetryPlan(c) \in {"failExhausted", "retry"}
  BY DEF RetryPlan
<1>2. RetryPlan(c) = "retry" => c.attempt < MaxAttempts
  BY BoundsAssumption DEF RetryPlan, ClaimState
<1>3. EffectiveError(c) = "nil" => c.ret = "nil"
  BY DEF EffectiveError, ClaimState, Cause
<1>4. EffectiveError(c) = "user" => c.ret = "user" \/ c.cause = "user"
  BY DEF EffectiveError
<1>5. /\ p \in {"success", "cancel", "none", "failPermanent", "failExhausted", RetryPlan(c)}
      /\ p = "success" => EffectiveError(c) = "nil"
      /\ p = "cancel" => EffectiveError(c) = "user"
  BY <1>1 DEF Plans
<1> QED BY <1>1, <1>2, <1>3, <1>4, <1>5 DEF Plan

(* The cause of a context is the user's only where the row carries the     *)
(* flag.                                                                   *)
LEMMA CauseStep ==
  ASSUME IInv, NEW j \in Jobs, NEW n \in Tokens, NEW x \in Cause,
         claim[j][n].phase \in Executing, CancelContext(j, n, x),
         UNCHANGED <<job, business, claims>>,
         mode' \in [Workers -> Mode], faults' \in 0 .. MaxFaults,
         x = "user" => job[j].cancel
  PROVE  IInv'
<1> DEFINE c == claim[j][n]
           e == [c EXCEPT !.cause = x]
<1>1. c \in ClaimState /\ ClaimOK(job[j], claims[j], n, c)
  BY Unfold
<1>2. e \in ClaimState /\ SetClaim(j, n, e)
  BY <1>1, ClaimTypes, Zenon DEF CancelContext
<1>3. /\ e.phase = c.phase /\ e.ret = c.ret /\ e.generation = c.generation
      /\ e.attempt = c.attempt /\ e.cancelSeen = c.cancelSeen /\ e.plan = c.plan /\ e.cause = x
  BY <1>1 DEF ClaimState
<1> HIDE DEF e
<1>4. /\ Holds(job[j], n) => /\ e.ret # "nil" /\ e.plan # "success"
                             /\ e.cause = "user" \/ e.ret = "user" \/ e.plan = "cancel"
                                  => job[j].cancel
      /\ e.plan = "retry" => e.attempt < MaxAttempts
  BY <1>1, <1>3, Zenon DEF ClaimOK
<1> QED BY <1>2, <1>3, <1>4, ExecutingStep

(* What a fenced finalization writes.                                      *)
LEMMA FinalRowsOK ==
  ASSUME NEW j \in Jobs, NEW n \in Tokens, job[j] \in JobRow, NEW s \in FinalRows(j, n)
  PROVE  /\ s \in JobRow /\ s.attempts = job[j].attempts
         /\ s.generation = job[j].generation /\ s.cancel = job[j].cancel
         /\ s.status \in {"SUCCEEDED", "CANCELLED", "FAILED", "RETRY_WAIT"}
         /\ s.status = "SUCCEEDED" => claim[j][n].plan = "success"
         /\ s.status = "RETRY_WAIT" => claim[j][n].plan = "retry"
         /\ job[j].cancel => s.status = "CANCELLED"
<1> DEFINE r == job[j]
           why == IF claim[j][n].plan = "failPermanent" THEN "PERMANENT" ELSE "RETRYABLE_EXHAUSTED"
<1>1. \/ s = Cancelled(r) /\ r.cancel
      \/ s = Succeeded(r) /\ ~r.cancel /\ claim[j][n].plan = "success"
      \/ s = RetryWait(r) /\ ~r.cancel /\ claim[j][n].plan = "retry"
      \/ \E x \in BOOLEAN : s = Failed(r, why, x) /\ ~r.cancel
  BY DEF FinalRows
<1>2. why \in Reason
  BY DEF Reason
<1> HIDE DEF why
<1>3. s \in JobRow
  BY <1>1, <1>2, RowTypes, Zenon
<1>4. \A x \in BOOLEAN : \A q \in {Cancelled(r), Succeeded(r), RetryWait(r), Failed(r, why, x)} :
        q.attempts = r.attempts /\ q.generation = r.generation /\ q.cancel = r.cancel
  BY EndedFields
<1>5. /\ Cancelled(r).status = "CANCELLED" /\ Succeeded(r).status = "SUCCEEDED"
      /\ RetryWait(r).status = "RETRY_WAIT"
      /\ \A x \in BOOLEAN : Failed(r, why, x).status = "FAILED"
  BY DEF Cancelled, Succeeded, RetryWait, Failed, JobRow
<1> QED BY <1>1, <1>3, <1>4, <1>5, Zenon

(* The watchers of a running handler, and executeJob after it, preserve    *)
(* the invariant.                                                          *)
LEMMA ExecutionInv ==
  ASSUME IInv, NEW j \in Jobs, NEW n \in Tokens, Execution(j, n)
  PROVE  IInv'
<1> DEFINE c == claim[j][n]
           r == job[j]
<1>0. /\ c \in ClaimState /\ r \in JobRow /\ business[j] \in Business
      /\ claims[j] \in 0 .. MaxClaims
      /\ mode \in [Workers -> Mode] /\ faults \in 0 .. MaxFaults
      /\ RowOK(j, r, business[j], claims[j]) /\ ClaimOK(r, claims[j], n, c)
      /\ TypeOK
  BY Unfold DEF IInv
<1>x. {"running", "returned", "finalizing"} \subseteq Executing
  BY DEF Executing
<1>c. {"ownershipLost", "renewFailed", "pollFailed", "user"} \subseteq Cause
  BY DEF Cause
<1>1. CASE RenewalFails(j, n)
  <2>1. /\ c.phase \in Executing /\ UNCHANGED <<job, business, claims, mode>>
        /\ faults' \in 0 .. MaxFaults
        /\ CancelContext(j, n, "ownershipLost") \/ CancelContext(j, n, "renewFailed")
    BY <1>1, <1>0, <1>x, FaultType DEF RenewalFails
  <2> QED BY <1>0, <1>c, <2>1, CauseStep
<1>2. CASE CancelPoll(j, n)
  <2>1. /\ c.phase \in Executing /\ UNCHANGED <<job, business, claims, mode>>
        /\ faults' \in 0 .. MaxFaults
        /\ \/ CancelContext(j, n, "ownershipLost") \/ CancelContext(j, n, "pollFailed")
           \/ r.cancel /\ CancelContext(j, n, "user")
    BY <1>2, <1>0, <1>x, FaultType DEF CancelPoll, Phased
  <2> QED BY <1>0, <1>c, <2>1, CauseStep
<1>3. CASE AfterHandler(j, n)
  <2>1. c.phase = "returned" /\ UNCHANGED <<job, business, claims, mode, faults>>
    BY <1>3, Zenon DEF AfterHandler, Phased
  <2>2. CASE Gone(j, n)
    BY <1>0, <2>1, <2>2, GoneStep
  <2>3. ASSUME NEW p \in Plans(c),
               SetClaim(j, n, [c EXCEPT !.phase = "finalizing", !.plan = p])
        PROVE  IInv'
    <3> DEFINE e == [c EXCEPT !.phase = "finalizing", !.plan = p]
    <3>1. /\ p \in Plan
          /\ p = "success" => c.ret = "nil"
          /\ p = "cancel" => c.ret = "user" \/ c.cause = "user"
          /\ p = "retry" => c.attempt < MaxAttempts
      BY <1>0, <2>3, PlansOK
    <3>2. e \in ClaimState
      BY <1>0, <3>1, ClaimTypes, Zenon
    <3>3. /\ e.phase = "finalizing" /\ e.ret = c.ret /\ e.generation = c.generation
          /\ e.attempt = c.attempt /\ e.cancelSeen = c.cancelSeen /\ e.plan = p
          /\ e.cause = c.cause
      BY <1>0 DEF ClaimState
    <3> HIDE DEF e
    <3>4. Holds(r, n) => /\ e.ret # "nil" /\ e.plan # "success"
                         /\ e.cause = "user" \/ e.ret = "user" \/ e.plan = "cancel"
                              => job[j].cancel
      BY <1>0, <3>1, <3>3, Zenon DEF ClaimOK
    <3>5. SetClaim(j, n, e)
      BY <2>3 DEF e
    <3> QED BY <1>0, <1>x, <2>1, <3>1, <3>2, <3>3, <3>4, <3>5, ExecutingStep, Zenon
  <2> QED BY <1>3, <2>2, <2>3, Zenon DEF AfterHandler
<1>4. CASE AtomicReadFails(j, n)
  <2>1. faults' \in 0 .. MaxFaults
    BY <1>4, <1>0, FaultType, Zenon DEF AtomicReadFails
  <2> QED BY <1>4, <1>0, <2>1, GoneStep, Zenon DEF AtomicReadFails
<1>5. CASE FinalizeEnds(j, n)
  BY <1>5, <1>0, GoneStep, Zenon DEF FinalizeEnds
<1>6. ASSUME NEW acknowledged \in BOOLEAN, Finalize(j, n, acknowledged)
      PROVE  IInv'
  <2>1. /\ c.phase = "finalizing" /\ FinalizeCommits(j, n) /\ Owned(j, n)
        /\ Holds(r, n) /\ r.started
        /\ UNCHANGED <<claims, mode>> /\ faults' \in 0 .. MaxFaults
    BY <1>6, <1>0, FaultType DEF Finalize, Phased, FinalizeCommits, Owned, Holds
  <2>2. PICK s \in FinalRows(j, n) : SetRow(j, s) /\ SetBusiness(j, Follows(business[j], s))
    BY <1>6, Zenon DEF Finalize
  <2>3. /\ s \in JobRow /\ s.attempts = r.attempts /\ s.generation = r.generation
        /\ s.cancel = r.cancel
    BY <1>0, <2>2, FinalRowsOK, Zenon
  <2>4. /\ s.status \in {"CANCELLED", "FAILED", "RETRY_WAIT"}
        /\ r.cancel => s.status = "CANCELLED"
        /\ s.status = "RETRY_WAIT" => c.plan = "retry"
    <3>1. c.plan # "success"
      BY <1>0, <2>1, Zenon DEF ClaimOK
    <3> QED BY <1>0, <2>2, <3>1, FinalRowsOK, Zenon
  <2>5. RowOK(j, s, Follows(business[j], s), claims[j]) /\ Follows(business[j], s) \in Business
    <3>1. CASE s.status \in {"CANCELLED", "FAILED"}
      <4>1. Follows(business[j], s) = s.status /\ s.status \in Terminal
        BY <3>1 DEF Follows, Terminal
      <4> QED BY <1>0, <2>3, <2>4, <4>1, EndsOK DEF Business
    <3>2. CASE s.status = "RETRY_WAIT"
      <4>1. Follows(business[j], s) = business[j]
        BY <3>2 DEF Follows
      <4>2. r.attempts < MaxAttempts
        BY <1>0, <2>1, <2>4, <3>2, Zenon DEF ClaimOK
      <4> QED BY <1>0, <2>1, <2>3, <2>4, <3>2, <4>1, <4>2, Zenon DEF RowOK, Holds, Terminal, Claimable
    <3> QED BY <2>4, <3>1, <3>2
  <2>6. ASSUME NEW m \in Tokens PROVE ClaimOK(s, claims[j], m, claim[j][m])
    <3>1. ClaimOK(r, claims[j], m, claim[j][m])
      BY Zenon DEF IInv, JobInv
    <3>2. claim[j][m] \in ClaimState /\ claims[j] \in Nat
      BY DEF IInv, TypeOK
    <3>3. s.status # "RUNNING" /\ r \in JobRow
      BY <1>0, <2>4
    <3> QED BY <2>3, <3>1, <3>2, <3>3, LeavesRunning
  <2>7. CASE acknowledged
    <3>1. SetClaim(j, n, NoClaim) /\ claims' = claims
      BY <1>6, <2>1, <2>7, Zenon DEF Finalize, Gone
    <3> QED BY <1>0, <2>1, <2>2, <2>3, <2>5, <2>6, <3>1, NoClaimOK, NoClaimPair, NullTypes, LocalStep, Zenon
  <2>8. CASE ~acknowledged
    <3>1. UNCHANGED <<claims, claim>>
      BY <1>6, <2>8, Zenon DEF Finalize
    <3> QED BY <1>0, <2>1, <2>2, <2>3, <2>5, <2>6, <3>1, RowStep, Zenon
  <2> QED BY <2>7, <2>8
<1> QED BY <1>1, <1>2, <1>3, <1>4, <1>5, <1>6 DEF Execution

-----------------------------------------------------------------------------
(* The API, time, the reaper and the worker processes *)

(* Creation, time, and the API operations on one job preserve the          *)
(* invariant.                                                              *)
LEMMA JobStepInv ==
  ASSUME IInv, NEW j \in Jobs, JobStep(j)
  PROVE  IInv'
<1> DEFINE r == job[j]
<1>0. /\ r \in JobRow /\ business[j] \in Business /\ claims[j] \in 0 .. MaxClaims
      /\ mode \in [Workers -> Mode] /\ faults \in 0 .. MaxFaults
      /\ RowOK(j, r, business[j], claims[j])
      /\ TypeOK
      /\ \A m \in Tokens : claim[j][m] \in ClaimState /\ ClaimOK(r, claims[j], m, claim[j][m])
      /\ claims[j] \in Nat
  BY BoundsAssumption DEF IInv, JobInv, TypeOK
<1>b. {"QUEUED", "CANCELLED"} \subseteq Business
  BY DEF Business, Open, Terminal
<1>1. CASE CreateJob(j)
  <2> DEFINE s == [AbsentRow EXCEPT !.status = "PENDING"]
  <2>1. s \in JobRow
    BY NullTypes DEF JobRow, Status, Claimable
  <2>2. /\ SetRow(j, s) /\ SetBusiness(j, "QUEUED") /\ UNCHANGED <<claims, claim, mode, faults>>
        /\ r = AbsentRow
    BY <1>1, <1>0 DEF CreateJob, RowOK
  <2>3. /\ s.status = "PENDING" /\ s.generation = r.generation /\ s.attempts = r.attempts
        /\ ~s.started /\ ~s.cancel /\ s.attempts = 0
    BY <2>2 DEF AbsentRow
  <2> HIDE DEF s
  <2>4. RowOK(j, s, "QUEUED", claims[j])
    BY <2>3, BoundsAssumption DEF RowOK, Terminal, Claimable
  <2>5. \A m \in Tokens : ClaimOK(s, claims[j], m, claim[j][m])
    BY <1>0, <2>1, <2>3, LeavesRunning, Zenon
  <2> QED BY <1>0, <1>b, <2>1, <2>2, <2>4, <2>5, RowStep
<1>2. ASSUME NEW s \in JobRow, SetRow(j, s), UNCHANGED <<business, claims, claim, mode>>,
             faults' \in 0 .. MaxFaults,
             s.status = r.status, s.token = r.token, s.generation = r.generation,
             s.attempts = r.attempts, s.started = r.started, r.cancel => s.cancel,
             s.cancel => r.cancel \/ (j \in DiagnosisJobs /\ r.status = "RUNNING"),
             r.status # "ABSENT"
      PROVE  IInv'
  <2>1. SetBusiness(j, business[j])
    BY <1>0, <1>2 DEF SetBusiness, TypeOK
  <2>2. RowOK(j, s, business[j], claims[j])
    BY <1>0, <1>2, Zenon DEF RowOK
  <2>3. \A m \in Tokens : ClaimOK(s, claims[j], m, claim[j][m])
    BY <1>0, <1>2, KeepsClaim, Zenon
  <2> QED BY <1>0, <1>2, <2>1, <2>2, <2>3, RowStep, Zenon
<1>3. CASE LeaseExpires(j)
  <2> DEFINE s == [r EXCEPT !.lease = "expired"]
  <2>1. /\ SetRow(j, s) /\ UNCHANGED <<business, claims, claim, mode>> /\ r.status = "RUNNING"
        /\ faults' \in 0 .. MaxFaults
    BY <1>3, <1>0, FaultType DEF LeaseExpires
  <2>2. /\ s \in JobRow /\ s.status = r.status /\ s.token = r.token /\ s.generation = r.generation
        /\ s.attempts = r.attempts /\ s.started = r.started /\ s.cancel = r.cancel
    <3>1. s \in JobRow
      BY <1>0, RowTypes, Zenon
    <3> QED BY <1>0, <3>1 DEF JobRow
  <2> HIDE DEF s
  <2> QED BY <1>2, <2>1, <2>2
<1>4. CASE BackoffElapses(j)
  <2> DEFINE s == [r EXCEPT !.due = TRUE]
  <2>1. /\ SetRow(j, s) /\ UNCHANGED <<business, claims, claim, mode>> /\ r.status = "RETRY_WAIT"
        /\ faults' \in 0 .. MaxFaults
    BY <1>4, <1>0 DEF BackoffElapses
  <2>2. /\ s \in JobRow /\ s.status = r.status /\ s.token = r.token /\ s.generation = r.generation
        /\ s.attempts = r.attempts /\ s.started = r.started /\ s.cancel = r.cancel
    <3>1. s \in JobRow
      BY <1>0, RowTypes, Zenon
    <3> QED BY <1>0, <3>1 DEF JobRow
  <2> HIDE DEF s
  <2> QED BY <1>2, <2>1, <2>2
<1>5. CASE RequestCancellation(j)
  <2>1. /\ UNCHANGED <<claims, claim, mode, faults>> /\ j \in DiagnosisJobs
        /\ r.status \in {"RUNNING", "PENDING", "RETRY_WAIT"}
    BY <1>5 DEF RequestCancellation, CancelAccepted, Claimable
  <2>2. CASE r.status = "RUNNING"
    <3> DEFINE s == [r EXCEPT !.cancel = TRUE]
    <3>1. SetRow(j, s) /\ UNCHANGED business
      BY <1>5, <2>2 DEF RequestCancellation
    <3>2. /\ s \in JobRow /\ s.status = r.status /\ s.token = r.token
          /\ s.generation = r.generation /\ s.attempts = r.attempts /\ s.started = r.started
          /\ s.cancel
      BY <1>0, RowTypes, Zenon DEF JobRow
    <3> HIDE DEF s
    <3> QED BY <1>0, <1>2, <2>1, <2>2, <3>1, <3>2
  <2>3. CASE r.status # "RUNNING"
    <3> DEFINE s == [Cancelled(r) EXCEPT !.cancel = TRUE]
    <3>1. SetRow(j, s) /\ SetBusiness(j, "CANCELLED")
      BY <1>5, <2>3 DEF RequestCancellation
    <3>2. s \in JobRow
      BY <1>0, RowTypes, Zenon
    <3>3. s.status = "CANCELLED" /\ s.generation = r.generation /\ s.attempts = r.attempts
      BY <1>0 DEF Cancelled, JobRow
    <3> HIDE DEF s
    <3>4. RowOK(j, s, "CANCELLED", claims[j])
      BY <1>0, <2>1, <3>3 DEF RowOK, Terminal, Claimable
    <3>5. \A m \in Tokens : ClaimOK(s, claims[j], m, claim[j][m])
      BY <1>0, <3>2, <3>3, LeavesRunning
    <3> QED BY <1>0, <1>b, <2>1, <3>1, <3>2, <3>4, <3>5, RowStep
  <2> QED BY <2>2, <2>3
<1>6. CASE RestartGeneration(j)
  <2> DEFINE s == NextGeneration(r)
  <2>1. /\ SetRow(j, s) /\ SetBusiness(j, "QUEUED") /\ UNCHANGED <<claims, claim, mode, faults>>
        /\ r.generation < MaxGeneration
    BY <1>6, Zenon DEF RestartGeneration
  <2>2. s \in JobRow
    BY <1>0, <2>1, RowTypes, Zenon
  <2>3. /\ s.status = "PENDING" /\ s.generation = r.generation + 1 /\ s.attempts = 0
        /\ ~s.started /\ ~s.cancel /\ s.generation > r.generation
    BY <1>0 DEF NextGeneration, AbsentRow, JobRow
  <2> HIDE DEF s
  <2>4. RowOK(j, s, "QUEUED", claims[j])
    BY <2>3, BoundsAssumption DEF RowOK, Terminal, Claimable
  <2>5. \A m \in Tokens : ClaimOK(s, claims[j], m, claim[j][m])
    BY <1>0, <2>2, <2>3, LeavesGeneration
  <2> QED BY <1>0, <1>b, <2>1, <2>2, <2>4, <2>5, RowStep, Zenon
<1> QED BY <1>1, <1>3, <1>4, <1>5, <1>6, Zenon DEF JobStep, ManualRequeue, RetryDiagnosis

(* What the reaper makes of an expired row.                                *)
LEMMA ReapedOK ==
  ASSUME NEW j, NEW r \in JobRow, NEW b \in Business, NEW last, NEW unknown,
         RowOK(j, r, b, last), r.status = "RUNNING"
  PROVE  LET s == Reaped(r, unknown) IN
         /\ s \in JobRow /\ s.status # "RUNNING"
         /\ s.attempts = r.attempts /\ s.generation = r.generation
         /\ RowOK(j, s, Follows(b, s), last) /\ Follows(b, s) \in Business
<1> DEFINE s == Reaped(r, unknown)
<1>1. \/ s = Cancelled(r) /\ r.cancel
      \/ s = Unclaimed(r) /\ ~r.cancel /\ ~r.started
      \/ \E why \in {"PERMANENT", "RETRYABLE_EXHAUSTED"}, x \in BOOLEAN :
            s = Failed(r, why, x) /\ ~r.cancel
      \/ s = RetryWait(r) /\ ~r.cancel /\ r.started /\ r.attempts < MaxAttempts
  BY Zenon DEF Reaped
<1>2. {"PERMANENT", "RETRYABLE_EXHAUSTED"} \subseteq Reason
  BY DEF Reason
<1>3. CASE s = Cancelled(r) \/ \E why \in {"PERMANENT", "RETRYABLE_EXHAUSTED"}, x \in BOOLEAN :
                                 s = Failed(r, why, x) /\ ~r.cancel
  <2>1. s \in JobRow
    BY <1>2, <1>3, RowTypes, Zenon
  <2>2. /\ s.status \in {"CANCELLED", "FAILED"} /\ s.attempts = r.attempts
        /\ s.generation = r.generation /\ s.cancel = r.cancel
    BY <1>3, Zenon DEF Cancelled, Failed, JobRow
  <2>3. r.cancel => s.status = "CANCELLED"
    BY <1>3, Zenon DEF Cancelled, JobRow
  <2> HIDE DEF s
  <2>4. Follows(b, s) = s.status /\ s.status \in Terminal
    BY <2>2 DEF Follows, Terminal
  <2> QED BY <2>1, <2>2, <2>3, <2>4, EndsOK DEF Terminal, Business, s
<1>4. CASE s = Unclaimed(r) /\ ~r.started
  <2>1. s \in JobRow /\ RowOK(j, s, b, last)
    <3>1. Unclaimed(r) \in JobRow
      BY RowTypes, Zenon
    <3>2. RowOK(j, Unclaimed(r), b, last)
      BY <1>4, UnclaimedOK
    <3> HIDE DEF s
    <3> QED BY <1>4, <3>1, <3>2
  <2>2. s.status = "PENDING" /\ s.attempts = r.attempts /\ s.generation = r.generation
    BY <1>4 DEF Unclaimed, JobRow
  <2> HIDE DEF s
  <2>3. Follows(b, s) = b
    BY <2>2 DEF Follows
  <2> QED BY <2>1, <2>2, <2>3 DEF s
<1>5. CASE s = RetryWait(r) /\ ~r.cancel /\ r.attempts < MaxAttempts
  <2>1. s \in JobRow
    BY <1>5, RowTypes, Zenon
  <2>2. /\ s.status = "RETRY_WAIT" /\ s.attempts = r.attempts /\ s.generation = r.generation
        /\ s.cancel = r.cancel
    BY <1>5 DEF RetryWait, JobRow
  <2> HIDE DEF s
  <2>3. Follows(b, s) = b
    BY <2>2 DEF Follows
  <2>4. RowOK(j, s, b, last)
    BY <1>5, <2>2 DEF RowOK, Terminal, Claimable
  <2> QED BY <2>1, <2>2, <2>3, <2>4 DEF s
<1> QED BY <1>1, <1>3, <1>4, <1>5

(* A batch of the reaper preserves the invariant of every job, reaped or   *)
(* not.                                                                    *)
LEMMA ReapInv ==
  ASSUME IInv, NEW S \in SUBSET Jobs, NEW U, ReapExpiredJobs(S, U)
  PROVE  IInv'
<1> DEFINE s(j) == Reaped(job[j], j \in U)
<1>0. UNCHANGED <<claims, claim, mode, faults>> /\ TypeOK
  BY DEF ReapExpiredJobs, IInv
<1>1. /\ job' = [j \in Jobs |-> IF j \in S THEN s(j) ELSE job[j]]
      /\ business' = [j \in Jobs |-> IF j \in S THEN Follows(business[j], s(j)) ELSE business[j]]
  BY DEF ReapExpiredJobs
<1>2. ASSUME NEW j \in S
      PROVE  /\ s(j) \in JobRow /\ Follows(business[j], s(j)) \in Business
             /\ RowOK(j, s(j), Follows(business[j], s(j)), claims[j])
             /\ \A m \in Tokens : ClaimOK(s(j), claims[j], m, claim[j][m])
  <2>1. /\ j \in Jobs /\ job[j] \in JobRow /\ business[j] \in Business /\ claims[j] \in Nat
        /\ RowOK(j, job[j], business[j], claims[j]) /\ job[j].status = "RUNNING"
        /\ \A m \in Tokens : /\ claim[j][m] \in ClaimState
                             /\ ClaimOK(job[j], claims[j], m, claim[j][m])
    BY BoundsAssumption DEF IInv, JobInv, TypeOK, ReapExpiredJobs, Expired
  <2>2. /\ s(j) \in JobRow /\ s(j).status # "RUNNING"
        /\ s(j).attempts = job[j].attempts /\ s(j).generation = job[j].generation
        /\ RowOK(j, s(j), Follows(business[j], s(j)), claims[j])
        /\ Follows(business[j], s(j)) \in Business
    BY <2>1, ReapedOK, Zenon
  <2> HIDE DEF s
  <2> QED BY <2>1, <2>2, LeavesRunning
<1> HIDE DEF s
<1>3. TypeOK'
  BY <1>0, <1>1, <1>2 DEF TypeOK
<1>4. ASSUME NEW j \in Jobs PROVE JobInv(j)'
  <2>1. CASE j \in S
    <3>1. /\ job'[j] = s(j) /\ business'[j] = Follows(business[j], s(j))
          /\ claims'[j] = claims[j] /\ claim'[j] = claim[j]
      BY <1>0, <1>1, <2>1
    <3>2. \A m, n \in Tokens : m # n => PairOK(claim[j][m], claim[j][n])
      BY DEF IInv, JobInv
    <3> QED BY <1>2, <2>1, <3>1, <3>2, NewJobInv, Zenon
  <2>2. CASE j \notin S
    <3>1. /\ job'[j] = job[j] /\ business'[j] = business[j]
          /\ claims'[j] = claims[j] /\ claim'[j] = claim[j]
      BY <1>0, <1>1, <2>2
    <3> QED BY <3>1, SameJob DEF IInv
  <2> QED BY <2>1, <2>2
<1> QED BY <1>3, <1>4 DEF IInv

(* A claim: the row goes to the next token, no older goroutine holds it    *)
(* any more, and the new goroutine starts from the row's own values.       *)
LEMMA ClaimedOK ==
  ASSUME NEW j, NEW r \in JobRow, NEW b, NEW last \in Nat, NEW w \in Workers,
         RowOK(j, r, b, last), r.status \in Claimable, last < MaxClaims
  PROVE  /\ ClaimedRow(r, last + 1) \in JobRow /\ NewClaim(w, r) \in ClaimState
         /\ RowOK(j, ClaimedRow(r, last + 1), b, last + 1)
         /\ ClaimOK(ClaimedRow(r, last + 1), last + 1, last + 1, NewClaim(w, r))
         /\ NewClaim(w, r).phase \notin Executing
         /\ \A n \in Tokens : \A c \in ClaimState :
              ClaimOK(r, last, n, c) => ClaimOK(ClaimedRow(r, last + 1), last + 1, n, c)
<1> DEFINE s == ClaimedRow(r, last + 1)
           e == NewClaim(w, r)
<1>1. last + 1 \in 0 .. MaxClaims /\ last + 1 # 0
  BY BoundsAssumption
<1>2. s \in JobRow
  BY <1>1, RowTypes, Zenon
<1>3. /\ s.status = "RUNNING" /\ s.token = last + 1 /\ ~s.started /\ s.attempts = r.attempts
      /\ s.generation = r.generation /\ s.cancel = r.cancel /\ r.attempts \in Nat
      /\ r.generation \in 1 .. MaxGeneration
  BY DEF ClaimedRow, JobRow
<1>4. e \in ClaimState
  <2>1. r.generation \in 0 .. MaxGeneration /\ r.attempts \in Nat /\ r.cancel \in BOOLEAN
    BY BoundsAssumption DEF JobRow
  <2>2. \A g \in 0 .. MaxGeneration, x \in Nat, k \in BOOLEAN :
          [NoClaim EXCEPT !.phase = "starting", !.worker = w, !.generation = g,
                          !.attempt = x, !.cancelSeen = k] \in ClaimState
    BY NullTypes, Zenon DEF ClaimState, Phase
  <2> QED BY <2>1, <2>2, Zenon DEF NewClaim
<1>5. /\ e.phase = "starting" /\ e.generation = r.generation /\ e.cancelSeen = r.cancel
      /\ e.cause = "none" /\ e.ret = "none" /\ e.plan = "none"
  BY DEF NewClaim, NoClaim
<1> HIDE DEF s, e
<1>6. RowOK(j, s, b, last + 1)
  BY <1>1, <1>3 DEF RowOK, Claimable, Terminal
<1>7. ClaimOK(s, last + 1, last + 1, e) /\ e.phase \notin Executing
  BY <1>3, <1>5 DEF ClaimOK, Holds, Executing
<1>8. ASSUME NEW n \in Tokens, NEW c \in ClaimState, ClaimOK(r, last, n, c)
      PROVE  ClaimOK(s, last + 1, n, c)
  <2>1. CASE c.phase = "none"
    BY <1>8, <2>1, NoClaimOK DEF ClaimOK
  <2>2. CASE c.phase # "none"
    <3>1. n <= last /\ ~Holds(s, n) /\ n <= last + 1
      BY <1>3, <1>8, <2>2 DEF ClaimOK, Holds, Tokens
    <3> QED BY <1>3, <1>8, <2>2, <3>1 DEF ClaimOK, Tokens
  <2> QED BY <2>1, <2>2
<1> QED BY <1>2, <1>4, <1>6, <1>7, <1>8 DEF s, e

(* One poll of a worker, whether its response arrives or not, preserves    *)
(* the invariant of every job.                                             *)
LEMMA ClaimJobsInv ==
  ASSUME IInv, NEW w \in Workers, NEW delivered \in BOOLEAN, ClaimJobs(w, delivered)
  PROVE  IInv'
<1>1. UNCHANGED <<business, mode>> /\ faults' \in 0 .. MaxFaults /\ TypeOK
  BY FaultType DEF ClaimJobs, IInv, TypeOK
<1>2. PICK S \in SUBSET {j \in Jobs : /\ job[j].status \in Claimable /\ job[j].due
                                      /\ claims[j] < MaxClaims} :
       /\ job' = [j \in Jobs |-> IF j \in S THEN ClaimedRow(job[j], claims[j] + 1) ELSE job[j]]
       /\ claims' = [j \in Jobs |-> IF j \in S THEN claims[j] + 1 ELSE claims[j]]
       /\ claim' = [j \in Jobs |->
                      IF j \in S /\ delivered
                        THEN [claim[j] EXCEPT ![claims[j] + 1] = NewClaim(w, job[j])]
                        ELSE claim[j]]
  BY DEF ClaimJobs
<1>3. ASSUME NEW j \in S
      PROVE  /\ j \in Jobs /\ claims[j] + 1 \in Tokens /\ claims[j] + 1 \in 0 .. MaxClaims
             /\ ClaimedRow(job[j], claims[j] + 1) \in JobRow
             /\ NewClaim(w, job[j]) \in ClaimState
             /\ RowOK(j, ClaimedRow(job[j], claims[j] + 1), business[j], claims[j] + 1)
             /\ ClaimOK(ClaimedRow(job[j], claims[j] + 1), claims[j] + 1, claims[j] + 1,
                        NewClaim(w, job[j]))
             /\ NewClaim(w, job[j]).phase \notin Executing
             /\ \A n \in Tokens :
                  ClaimOK(ClaimedRow(job[j], claims[j] + 1), claims[j] + 1, n, claim[j][n])
  <2>1. j \in Jobs /\ job[j].status \in Claimable /\ claims[j] < MaxClaims
    BY Zenon
  <2>2. /\ job[j] \in JobRow /\ RowOK(j, job[j], business[j], claims[j])
        /\ \A n \in Tokens : /\ claim[j][n] \in ClaimState
                             /\ ClaimOK(job[j], claims[j], n, claim[j][n])
    BY <2>1 DEF IInv, JobInv, TypeOK
  <2>3. claims[j] \in Nat /\ claims[j] + 1 \in Tokens /\ claims[j] + 1 \in 0 .. MaxClaims
    BY <1>1, <2>1, BoundsAssumption DEF TypeOK, Tokens
  <2> QED BY <2>1, <2>2, <2>3, ClaimedOK, Zenon
<1>4. TypeOK'
  <2>1. job' \in [Jobs -> JobRow]
    BY <1>1, <1>2, <1>3, Zenon DEF TypeOK
  <2>2. claims' \in [Jobs -> 0 .. MaxClaims]
    BY <1>1, <1>2, <1>3, Zenon DEF TypeOK
  <2>3. claim' \in [Jobs -> [Tokens -> ClaimState]]
    BY <1>1, <1>2, <1>3, Zenon DEF TypeOK
  <2> QED BY <1>1, <2>1, <2>2, <2>3 DEF TypeOK
<1>5. ASSUME NEW j \in Jobs PROVE JobInv(j)'
  <2>0. \A m, n \in Tokens : m # n => PairOK(claim[j][m], claim[j][n])
    BY DEF IInv, JobInv
  <2>1. CASE j \notin S
    <3>1. /\ job'[j] = job[j] /\ business'[j] = business[j]
          /\ claims'[j] = claims[j] /\ claim'[j] = claim[j]
      BY <1>1, <1>2, <2>1, Zenon
    <3> QED BY <3>1, SameJob, Zenon DEF IInv
  <2>2. CASE j \in S
    <3> DEFINE r == ClaimedRow(job[j], claims[j] + 1)
               t == claims[j] + 1
               c(n) == IF n = t /\ delivered THEN NewClaim(w, job[j]) ELSE claim[j][n]
    <3>1. /\ job'[j] = r /\ business'[j] = business[j] /\ claims'[j] = t
          /\ \A n \in Tokens : claim'[j][n] = c(n)
      BY <1>1, <1>2, <2>2 DEF TypeOK
    <3>2. RowOK(j, r, business[j], t) /\ \A n \in Tokens : ClaimOK(r, t, n, c(n))
      BY <1>3, <2>2, Zenon
    <3>3. \A m, n \in Tokens : m # n => PairOK(c(m), c(n))
      BY <1>3, <2>0, <2>2, Zenon DEF PairOK
    <3> HIDE DEF r, t, c
    <3> QED BY <3>1, <3>2, <3>3, NewJobInv, Zenon
  <2> QED BY <2>1, <2>2
<1> QED BY <1>4, <1>5 DEF IInv

(* A step that rewrites goroutines without touching rows: each is left     *)
(* alone, ends, or has its context cancelled by the shutdown.              *)
LEMMA GoroutinesStep ==
  ASSUME IInv, UNCHANGED <<job, business, claims>>,
         mode' \in [Workers -> Mode], faults' \in 0 .. MaxFaults,
         NEW f, claim' = [j \in Jobs |-> [n \in Tokens |-> f[j][n]]],
         \A j \in Jobs, n \in Tokens :
           \/ f[j][n] = claim[j][n] \/ f[j][n] = NoClaim
           \/ /\ f[j][n] = [claim[j][n] EXCEPT !.cause = "shutdown"]
              /\ claim[j][n].phase \in Executing
  PROVE  IInv'
<1>1. ASSUME NEW j \in Jobs, NEW n \in Tokens
      PROVE  /\ f[j][n] \in ClaimState /\ ClaimOK(job[j], claims[j], n, f[j][n])
             /\ f[j][n].phase \in Executing =>
                  /\ claim[j][n].phase \in Executing
                  /\ f[j][n].generation = claim[j][n].generation
                  /\ f[j][n].attempt = claim[j][n].attempt
  <2>1. claim[j][n] \in ClaimState /\ ClaimOK(job[j], claims[j], n, claim[j][n])
    BY Unfold
  <2>2. CASE f[j][n] = claim[j][n]
    BY <2>1, <2>2
  <2>3. CASE f[j][n] = NoClaim
    <3>1. NoClaim.phase \notin Executing
      BY DEF NoClaim, Executing
    <3> QED BY <2>3, <3>1, NoClaimOK, NullTypes
  <2>4. CASE /\ f[j][n] = [claim[j][n] EXCEPT !.cause = "shutdown"]
             /\ claim[j][n].phase \in Executing
    <3>1. f[j][n] \in ClaimState
      BY <2>1, <2>4, ClaimTypes, Zenon DEF Cause
    <3> QED BY <2>1, <2>4, <3>1 DEF ClaimOK, ClaimState, Executing
  <2> QED BY <2>2, <2>3, <2>4
<1>2. TypeOK'
  BY <1>1 DEF IInv, TypeOK
<1>3. ASSUME NEW j \in Jobs PROVE JobInv(j)'
  <2>1. /\ job'[j] = job[j] /\ business'[j] = business[j] /\ claims'[j] = claims[j]
        /\ \A n \in Tokens : claim'[j][n] = f[j][n]
    OBVIOUS
  <2>2. RowOK(j, job[j], business[j], claims[j])
    BY DEF IInv, JobInv
  <2>3. \A m, n \in Tokens : m # n => PairOK(f[j][m], f[j][n])
    BY <1>1 DEF IInv, JobInv, PairOK
  <2> QED BY <1>1, <2>1, <2>2, <2>3, NewJobInv
<1> QED BY <1>2, <1>3 DEF IInv

(* Polling, shutdown, crash and restart of a worker preserve the           *)
(* invariant.                                                              *)
LEMMA WorkerInv ==
  ASSUME IInv, NEW w \in Workers, WorkerStep(w)
  PROVE  IInv'
<1>0. mode \in [Workers -> Mode] /\ faults \in 0 .. MaxFaults /\ TypeOK
  BY DEF IInv, TypeOK
<1>m. \A x \in Mode : [mode EXCEPT ![w] = x] \in [Workers -> Mode]
  BY <1>0
<1>t. {"running", "stopping", "cancelled", "stopped"} \subseteq Mode
  BY DEF Mode
<1>1. ASSUME UNCHANGED <<job, business, claims, claim>>,
             mode' \in [Workers -> Mode], faults' \in 0 .. MaxFaults
      PROVE  IInv'
  BY <1>1, SameJob DEF IInv, TypeOK
<1>2. CASE RequestStop(w)
  BY <1>2, <1>0, <1>m, <1>t, <1>1, FaultType DEF RequestStop
<1>3. CASE Restart(w)
  BY <1>3, <1>0, <1>m, <1>t, <1>1 DEF Restart
<1>4. CASE CancelActive(w)
  <2> DEFINE f == [j \in Jobs |-> [n \in Tokens |->
                     IF /\ claim[j][n].worker = w /\ claim[j][n].cause = "none"
                        /\ claim[j][n].phase \in {"running", "returned"}
                       THEN [claim[j][n] EXCEPT !.cause = "shutdown"]
                       ELSE claim[j][n]]]
  <2>1. claim' = [j \in Jobs |-> [n \in Tokens |-> f[j][n]]]
    BY <1>4 DEF CancelActive
  <2>2. \A j \in Jobs, n \in Tokens :
          \/ f[j][n] = claim[j][n] \/ f[j][n] = NoClaim
          \/ /\ f[j][n] = [claim[j][n] EXCEPT !.cause = "shutdown"]
             /\ claim[j][n].phase \in Executing
    BY DEF Executing
  <2>3. mode' \in [Workers -> Mode] /\ UNCHANGED <<job, business, claims, faults>>
    BY <1>4, <1>m, <1>t DEF CancelActive
  <2> HIDE DEF f
  <2> QED BY <1>0, <2>1, <2>2, <2>3, GoroutinesStep, Zenon
<1>5. ASSUME WorkerEnds(w), faults' \in 0 .. MaxFaults PROVE IInv'
  <2> DEFINE f == [j \in Jobs |-> [n \in Tokens |->
                     IF claim[j][n].worker = w THEN NoClaim ELSE claim[j][n]]]
  <2>1. claim' = [j \in Jobs |-> [n \in Tokens |-> f[j][n]]]
    BY <1>5 DEF WorkerEnds
  <2>2. \A j \in Jobs, n \in Tokens :
          \/ f[j][n] = claim[j][n] \/ f[j][n] = NoClaim
          \/ /\ f[j][n] = [claim[j][n] EXCEPT !.cause = "shutdown"]
             /\ claim[j][n].phase \in Executing
    BY DEF Executing
  <2>3. mode' \in [Workers -> Mode] /\ UNCHANGED <<job, business, claims>>
    BY <1>5, <1>m, <1>t DEF WorkerEnds
  <2> HIDE DEF f
  <2> QED BY <1>5, <2>1, <2>2, <2>3, GoroutinesStep, Zenon
<1>6. CASE Exit(w)
  BY <1>6, <1>0, <1>5 DEF Exit
<1>7. CASE Crash(w)
  BY <1>7, <1>0, <1>5, FaultType DEF Crash
<1> QED BY <1>2, <1>3, <1>4, <1>6, <1>7, ClaimJobsInv DEF WorkerStep

-----------------------------------------------------------------------------
(* The theorems *)

(* An empty queue satisfies the invariant.                                 *)
LEMMA InitInv == Init => IInv
<1> SUFFICES ASSUME Init PROVE IInv
  OBVIOUS
<1>1. TypeOK
  BY NullTypes, BoundsAssumption DEF Init, TypeOK, Business, Mode
<1>2. ASSUME NEW j \in Jobs PROVE JobInv(j)
  <2>1. job[j] = AbsentRow /\ business[j] = "ABSENT" /\ \A n \in Tokens : claim[j][n] = NoClaim
    BY DEF Init
  <2>2. RowOK(j, job[j], business[j], claims[j])
    BY <2>1, BoundsAssumption DEF RowOK, AbsentRow, Claimable, Terminal
  <2> QED BY <2>1, <2>2, NoClaimOK, NoClaimPair DEF JobInv
<1> QED BY <1>1, <1>2 DEF IInv

(* Every step preserves the invariant.                                     *)
LEMMA NextInv == IInv /\ [Next]_vars => IInv'
<1> SUFFICES ASSUME IInv, [Next]_vars PROVE IInv'
  OBVIOUS
<1>1. CASE UNCHANGED vars
  BY <1>1, SameJob DEF vars, IInv, TypeOK
<1>2. CASE Next
  BY <1>2, JobStepInv, WorkerInv, ReapInv, StartInv, HandlerInv, ExecutionInv DEF Next
<1> QED BY <1>1, <1>2

(* The inductive invariant holds in every reachable state.                 *)
THEOREM Invariance == Spec => []IInv
BY InitInv, NextInv, PTL DEF Spec

(* TypeOK: no step of the queue leaves the types of its tables.            *)
THEOREM TypeCorrect == Spec => []TypeOK
BY Invariance, PTL DEF IInv

(* JobBusinessAgreement: a job and its resource end together.              *)
THEOREM JobsAgree == Spec => []JobBusinessAgreement
<1>1. IInv => JobBusinessAgreement
  BY DEF IInv, JobInv, RowOK, JobBusinessAgreement
<1> QED BY <1>1, Invariance, PTL

(* AttemptsBounded: no generation is charged more than max_attempts.       *)
THEOREM AttemptsAreBounded == Spec => []AttemptsBounded
<1>1. IInv => AttemptsBounded
  <2> SUFFICES ASSUME IInv, NEW j \in Jobs
               PROVE  /\ job[j].attempts <= MaxAttempts
                      /\ \/ job[j].status \in {"ABSENT"} \cup Claimable
                         \/ job[j].status = "RUNNING" /\ ~job[j].started
                         => job[j].attempts < MaxAttempts
    BY DEF AttemptsBounded
  <2>1. RowOK(j, job[j], business[j], claims[j])
    BY DEF IInv, JobInv
  <2>2. job[j].status = "ABSENT" => job[j].attempts < MaxAttempts
    BY <2>1, BoundsAssumption DEF RowOK, AbsentRow
  <2> QED BY <2>1, <2>2 DEF RowOK
<1> QED BY <1>1, Invariance, PTL

(* OnlyLatestClaimOwns: the token fence of the finalizers also fences the  *)
(* generation and the attempt.                                             *)
THEOREM LatestClaimOwns == Spec => []OnlyLatestClaimOwns
<1>1. IInv => OnlyLatestClaimOwns
  BY Zenon DEF IInv, JobInv, RowOK, ClaimOK, Holds, Executing, Owned, OnlyLatestClaimOwns
<1> QED BY <1>1, Invariance, PTL

(* DistinctAttempts: overlapping claims of a generation have attempt       *)
(* numbers of their own.                                                   *)
THEOREM AttemptsAreDistinct == Spec => []DistinctAttempts
<1>1. IInv => DistinctAttempts
  <2>1. ASSUME IInv, NEW j \in Jobs, NEW m \in Tokens, NEW n \in Tokens, m # n
        PROVE  PairOK(claim[j][m], claim[j][n])
    BY <2>1 DEF IInv, JobInv
  <2> QED BY <2>1 DEF PairOK, Executing, DistinctAttempts
<1> QED BY <1>1, Invariance, PTL

(* FinalizerCanCommit: the retry loop of resolveFinalization is never      *)
(* stuck on a conflict that no later round could resolve.                  *)
THEOREM FinalizersCommit == Spec => []FinalizerCanCommit
<1>1. ASSUME IInv, NEW j \in Jobs, NEW n \in Tokens, Phased(j, n, "finalizing"), Owned(j, n)
      PROVE  FinalizeCommits(j, n)
  <2>1. /\ RowOK(j, job[j], business[j], claims[j]) /\ ClaimOK(job[j], claims[j], n, claim[j][n])
        /\ business[j] \in Business /\ Holds(job[j], n)
    BY <1>1, Unfold DEF Owned, Holds
  <2>2. business[j] \in Open
    BY <2>1 DEF RowOK, Holds, Business, Terminal
  <2>3. job[j].cancel => j \in DiagnosisJobs
    BY <2>1 DEF RowOK
  <2>4. claim[j][n].plan = "cancel" => job[j].cancel
    BY <2>1, Zenon DEF ClaimOK
  <2> QED BY <1>1, <2>2, <2>3, <2>4 DEF FinalizeCommits, CanCancelBusiness, CanFailBusiness
<1>2. IInv => FinalizerCanCommit
  BY <1>1 DEF FinalizerCanCommit
<1> QED BY <1>2, Invariance, PTL

(* ReaperNeverPoisoned: no expired row aborts the reaper's batch.          *)
THEOREM ReaperProceeds == Spec => []ReaperNeverPoisoned
<1>1. ASSUME IInv, NEW j \in Jobs, Expired(j)
      PROVE  business[j] \in Open
  <2>1. RowOK(j, job[j], business[j], claims[j]) /\ business[j] \in Business
    BY <1>1 DEF IInv, JobInv, TypeOK
  <2> QED BY <1>1, <2>1 DEF RowOK, Expired, Business, Terminal
<1>2. IInv => ReaperNeverPoisoned
  BY <1>1, Zenon DEF ReaperNeverPoisoned, Reapable, CanCancelBusiness, CanFailBusiness, Open
<1> QED BY <1>2, Invariance, PTL

(* CancellationWins: an accepted cancellation is never overtaken.          *)
THEOREM CancellationIsFinal == Spec => []CancellationWins
<1>1. IInv => CancellationWins
  BY DEF IInv, JobInv, RowOK, CancellationWins
<1> QED BY <1>1, Invariance, PTL

-----------------------------------------------------------------------------
(* What one step may do to one row *)

Charged(r) == [r EXCEPT !.started = TRUE, !.attempts = @ + 1]

RowMove(r, s) ==
  \/ s = r
  \/ r.status = "ABSENT" /\ r = AbsentRow /\ s = [r EXCEPT !.status = "PENDING"]
  \/ r.status \in Claimable /\ \E t \in Nat : s = ClaimedRow(r, t)
  \/ r.status = "RUNNING" /\ ~r.started /\ r.attempts < MaxAttempts /\ s = Charged(r)
  \/ r.status = "RUNNING" /\ ~r.started /\ s = Unclaimed(r)
  \/ /\ r.status = "RUNNING" /\ r.started /\ ~r.cancel
     /\ \/ s = Succeeded(r)
        \/ \E why \in Reason, x \in BOOLEAN : s = Failed(r, why, x)
        \/ r.attempts < MaxAttempts /\ s = RetryWait(r)
  \/ r.status = "RUNNING" /\ r.cancel /\ s = Cancelled(r)
  \/ r.status = "RUNNING" /\ s = [r EXCEPT !.cancel = TRUE]
  \/ r.status \in Claimable /\ s = [Cancelled(r) EXCEPT !.cancel = TRUE]
  \/ r.status = "FAILED" /\ r.generation < MaxGeneration /\ s = NextGeneration(r)
  \/ r.status = "RUNNING" /\ s = [r EXCEPT !.lease = "expired"]
  \/ r.status = "RETRY_WAIT" /\ s = [r EXCEPT !.due = TRUE]

(* A step that writes one row leaves the others alone.                     *)
LEMMA OneRow ==
  ASSUME TypeOK, NEW j \in Jobs, NEW k \in Jobs, NEW r, SetRow(k, r)
  PROVE  job'[j] = IF j = k THEN r ELSE job[j]
BY DEF TypeOK, SetRow

(* A row that does not change makes an allowed move.                       *)
LEMMA StayMove == ASSUME NEW r PROVE RowMove(r, r)
BY DEF RowMove

(* What the start boundary may do to a row: charge it once, or put an      *)
(* unstarted claim back.                                                   *)
LEMMA StartMove ==
  ASSUME IInv, NEW j \in Jobs, NEW k \in Jobs, NEW n \in Tokens, StartBoundary(k, n)
  PROVE  RowMove(job[j], job'[j])
<1>0. /\ TypeOK /\ job[k] \in JobRow /\ RowOK(k, job[k], business[k], claims[k])
  BY DEF IInv, JobInv, TypeOK
<1>1. \/ UNCHANGED job
      \/ job[k].status = "RUNNING" /\ ~job[k].started /\ SetRow(k, Charged(job[k]))
      \/ job[k].status = "RUNNING" /\ ~job[k].started /\ SetRow(k, Unclaimed(job[k]))
  BY DEF StartBoundary, MarkExecutionStarted, MarkExecutionStartedRefused,
         MarkExecutionStartedError, LateStart, ResolveExecutionStart, StopBeforeStart,
         ReturnUndispatchedClaim, AbandonClaim, Launch, ChargeAttempt, Charged, HoldsClaim,
         StartCommits
<1>2. job[k].status = "RUNNING" /\ ~job[k].started => job[k].attempts < MaxAttempts
  BY <1>0 DEF RowOK
<1>3. CASE UNCHANGED job
  BY <1>3, StayMove
<1>4. CASE job[k].status = "RUNNING" /\ ~job[k].started /\ SetRow(k, Charged(job[k]))
  BY <1>0, <1>2, <1>4, OneRow DEF RowMove
<1>5. CASE job[k].status = "RUNNING" /\ ~job[k].started /\ SetRow(k, Unclaimed(job[k]))
  BY <1>0, <1>5, OneRow DEF RowMove
<1> QED BY <1>1, <1>3, <1>4, <1>5

(* What a handler's own transaction may do to a row: end it.               *)
LEMMA HandlerMove ==
  ASSUME IInv, NEW j \in Jobs, NEW k \in Jobs, NEW n \in Tokens, Handler(k, n)
  PROVE  RowMove(job[j], job'[j])
<1> DEFINE r == job[k]
<1>0. TypeOK /\ r \in JobRow
  BY DEF IInv, TypeOK
<1>1. CASE UNCHANGED job
  BY <1>1, StayMove
<1>2. ASSUME NEW acknowledged \in BOOLEAN, HandlerFinalizes(k, n, acknowledged)
      PROVE  RowMove(job[j], job'[j])
  <2>2. PICK outcome \in HandlerOutcomes(k, n),
             reason \in {"PERMANENT", "RETRYABLE_EXHAUSTED"}, retryable \in BOOLEAN :
          /\ Owned(k, n)
          /\ SetRow(k, EndedRow(r, outcome, reason, retryable))
    BY <1>2 DEF HandlerFinalizes, HandlerCommits
  <2>1. r.status = "RUNNING" /\ r.started
    BY <2>2 DEF Owned
  <2>3. reason \in Reason
    BY DEF Reason
  <2>4. \/ r.cancel /\ EndedRow(r, outcome, reason, retryable) = Cancelled(r)
        \/ /\ ~r.cancel
           /\ \/ EndedRow(r, outcome, reason, retryable) = Succeeded(r)
              \/ EndedRow(r, outcome, reason, retryable) = Failed(r, reason, retryable)
    BY DEF HandlerOutcomes, EndedRow
  <2>5. RowMove(r, EndedRow(r, outcome, reason, retryable))
    BY <2>1, <2>3, <2>4 DEF RowMove
  <2> QED BY <1>0, <2>2, <2>5, OneRow, StayMove
<1>3. CASE HandlerBegins(k, n) \/ HandlerStops(k, n) \/ HandlerFails(k, n)
             \/ HandlerFinalizationFails(k, n)
  BY <1>1, <1>3, Zenon DEF HandlerBegins, HandlerStops, HandlerFails, HandlerFinalizationFails
<1> QED BY <1>2, <1>3 DEF Handler

(* What a fenced finalization may do to a row: end it or schedule its      *)
(* retry.                                                                  *)
LEMMA ExecutionMove ==
  ASSUME IInv, NEW j \in Jobs, NEW k \in Jobs, NEW n \in Tokens, Execution(k, n)
  PROVE  RowMove(job[j], job'[j])
<1> DEFINE r == job[k]
<1>0. TypeOK /\ r \in JobRow /\ ClaimOK(r, claims[k], n, claim[k][n])
  BY Unfold, Zenon DEF IInv
<1>1. CASE UNCHANGED job
  BY <1>1, StayMove
<1>2. ASSUME NEW acknowledged \in BOOLEAN, Finalize(k, n, acknowledged)
      PROVE  RowMove(job[j], job'[j])
  <2>1. r.status = "RUNNING" /\ r.started /\ Holds(r, n) /\ claim[k][n].phase \in Executing
    BY <1>2 DEF Finalize, FinalizeCommits, Owned, Holds, Phased, Executing
  <2>2. PICK s \in FinalRows(k, n) : SetRow(k, s)
    BY <1>2, Zenon DEF Finalize
  <2>3. claim[k][n].plan = "retry" => r.attempts < MaxAttempts
    BY <1>0, <2>1, Zenon DEF ClaimOK
  <2>4. {"PERMANENT", "RETRYABLE_EXHAUSTED"} \subseteq Reason
    BY DEF Reason
  <2>5. \/ s = Cancelled(r) /\ r.cancel
        \/ s = Succeeded(r) /\ ~r.cancel
        \/ s = RetryWait(r) /\ ~r.cancel /\ claim[k][n].plan = "retry"
        \/ \E why \in {"PERMANENT", "RETRYABLE_EXHAUSTED"}, x \in BOOLEAN :
              s = Failed(r, why, x) /\ ~r.cancel
    BY DEF FinalRows
  <2>6. RowMove(r, s)
    BY <2>1, <2>3, <2>4, <2>5 DEF RowMove
  <2> QED BY <1>0, <2>2, <2>6, OneRow, StayMove
<1>3. CASE RenewalFails(k, n) \/ CancelPoll(k, n) \/ AfterHandler(k, n) \/ AtomicReadFails(k, n)
             \/ FinalizeEnds(k, n)
  BY <1>1, <1>3, Zenon DEF RenewalFails, CancelPoll, AfterHandler, AtomicReadFails, FinalizeEnds
<1> QED BY <1>2, <1>3, Zenon DEF Execution

(* What creation, time and the API may do to a row.                        *)
LEMMA JobStepMove ==
  ASSUME IInv, NEW j \in Jobs, NEW k \in Jobs, JobStep(k)
  PROVE  RowMove(job[j], job'[j])
<1> DEFINE r == job[k]
<1>0. TypeOK /\ r \in JobRow /\ RowOK(k, r, business[k], claims[k])
  BY DEF IInv, JobInv, TypeOK
<1>1. CASE CreateJob(k)
  <2>1. r = AbsentRow /\ r.status = "ABSENT" /\ SetRow(k, [r EXCEPT !.status = "PENDING"])
    BY <1>0, <1>1 DEF CreateJob, RowOK
  <2> QED BY <1>0, <2>1, OneRow, StayMove DEF RowMove
<1>2. CASE LeaseExpires(k)
  BY <1>0, <1>2, OneRow DEF LeaseExpires, RowMove
<1>3. CASE BackoffElapses(k)
  <2>1. SetRow(k, [r EXCEPT !.due = TRUE]) /\ r.status = "RETRY_WAIT"
    BY <1>3 DEF BackoffElapses
  <2>2. RowMove(r, [r EXCEPT !.due = TRUE])
    BY <2>1 DEF RowMove
  <2> QED BY <1>0, <2>1, <2>2, OneRow, StayMove
<1>4. CASE RequestCancellation(k)
  <2>1. CASE r.status = "RUNNING"
    <3>1. SetRow(k, [r EXCEPT !.cancel = TRUE])
      BY <1>4, <2>1 DEF RequestCancellation
    <3>2. RowMove(r, [r EXCEPT !.cancel = TRUE])
      BY <2>1 DEF RowMove
    <3> QED BY <1>0, <3>1, <3>2, OneRow, StayMove
  <2>2. CASE r.status # "RUNNING"
    <3>1. SetRow(k, [Cancelled(r) EXCEPT !.cancel = TRUE]) /\ r.status \in Claimable
      BY <1>4, <2>2 DEF RequestCancellation, CancelAccepted, Claimable
    <3>2. RowMove(r, [Cancelled(r) EXCEPT !.cancel = TRUE])
      BY <3>1 DEF RowMove
    <3> QED BY <1>0, <3>1, <3>2, OneRow, StayMove
  <2> QED BY <2>1, <2>2
<1>5. CASE RestartGeneration(k)
  BY <1>0, <1>5, OneRow DEF RestartGeneration, RowMove
<1> QED BY <1>1, <1>2, <1>3, <1>4, <1>5, Zenon DEF JobStep, ManualRequeue, RetryDiagnosis

(* What the reaper may do to a row.                                        *)
LEMMA ReapMove ==
  ASSUME IInv, NEW j \in Jobs, NEW S \in SUBSET Jobs, NEW U, ReapExpiredJobs(S, U)
  PROVE  RowMove(job[j], job'[j])
<1> DEFINE r == job[j]
           s == Reaped(r, j \in U)
<1>1. CASE j \notin S
  BY <1>1, StayMove DEF ReapExpiredJobs
<1>2. CASE j \in S
  <2>1. job'[j] = s /\ r.status = "RUNNING"
    BY <1>2 DEF ReapExpiredJobs, Expired
  <2>2. \/ s = Cancelled(r) /\ r.cancel
        \/ s = Unclaimed(r) /\ ~r.started
        \/ \E why \in {"PERMANENT", "RETRYABLE_EXHAUSTED"}, x \in BOOLEAN :
              s = Failed(r, why, x) /\ ~r.cancel /\ r.started
        \/ s = RetryWait(r) /\ ~r.cancel /\ r.started /\ r.attempts < MaxAttempts
    BY Zenon DEF Reaped
  <2>3. {"PERMANENT", "RETRYABLE_EXHAUSTED"} \subseteq Reason
    BY DEF Reason
  <2> HIDE DEF s
  <2> QED BY <2>1, <2>2, <2>3 DEF RowMove
<1> QED BY <1>1, <1>2

(* What a poll may do to a row: claim it; shutdown and crash leave it      *)
(* alone.                                                                  *)
LEMMA WorkerMove ==
  ASSUME IInv, NEW j \in Jobs, NEW w \in Workers, WorkerStep(w)
  PROVE  RowMove(job[j], job'[j])
<1>1. CASE UNCHANGED job
  BY <1>1, StayMove
<1>2. ASSUME NEW delivered \in BOOLEAN, ClaimJobs(w, delivered)
      PROVE  RowMove(job[j], job'[j])
  <2>1. PICK S \in SUBSET {k \in Jobs : /\ job[k].status \in Claimable /\ job[k].due
                                        /\ claims[k] < MaxClaims} :
          job' = [k \in Jobs |-> IF k \in S THEN ClaimedRow(job[k], claims[k] + 1) ELSE job[k]]
    BY <1>2, Zenon DEF ClaimJobs
  <2>2. claims[j] + 1 \in Nat
    BY BoundsAssumption DEF IInv, TypeOK
  <2> QED BY <2>1, <2>2 DEF RowMove
<1> QED BY <1>1, <1>2 DEF WorkerStep, RequestStop, CancelActive, Exit, Crash, Restart, WorkerEnds

(* Every step moves every row in one of the ways RowMove lists.            *)
LEMMA RowMoves ==
  ASSUME IInv, [Next]_vars, NEW j \in Jobs
  PROVE  RowMove(job[j], job'[j])
<1>1. CASE UNCHANGED vars
  BY <1>1, StayMove DEF vars
<1>2. CASE Next
  BY <1>2, StartMove, HandlerMove, ExecutionMove, JobStepMove, ReapMove, WorkerMove, Zenon DEF Next
<1> QED BY <1>1, <1>2

(* The columns a move writes.                                              *)
Same(r, s) ==
  s.generation = r.generation /\ s.attempts = r.attempts /\ s.cancel = r.cancel
FieldMove(r, s) ==
  \/ s.status = r.status /\ s.started = r.started /\ Same(r, s)
  \/ r.status = "ABSENT" /\ s.status = "PENDING" /\ s.started = r.started /\ Same(r, s)
  \/ r.status \in Claimable /\ s.status = "RUNNING" /\ s.started = FALSE /\ Same(r, s)
  \/ /\ r.status = "RUNNING" /\ ~r.started /\ r.attempts < MaxAttempts /\ s.status = "RUNNING"
     /\ s.started = TRUE /\ s.attempts = r.attempts + 1 /\ s.generation = r.generation
     /\ s.cancel = r.cancel /\ s.token = r.token
  \/ r.status = "RUNNING" /\ ~r.started /\ s.status = "PENDING" /\ s.started = r.started /\ Same(r, s)
  \/ /\ r.status = "RUNNING" /\ r.started /\ ~r.cancel /\ s.started = r.started /\ Same(r, s)
     /\ \/ s.status \in {"SUCCEEDED", "FAILED"}
        \/ s.status = "RETRY_WAIT" /\ r.attempts < MaxAttempts
  \/ r.status = "RUNNING" /\ r.cancel /\ s.status = "CANCELLED" /\ s.started = r.started /\ Same(r, s)
  \/ /\ r.status = "RUNNING" \/ r.status \in Claimable
     /\ s.status = IF r.status = "RUNNING" THEN "RUNNING" ELSE "CANCELLED"
     /\ s.cancel = TRUE /\ s.generation = r.generation
     /\ s.attempts = r.attempts /\ s.started = r.started
  \/ /\ r.status = "FAILED" /\ r.generation < MaxGeneration /\ s.status = "PENDING"
     /\ s.generation = r.generation + 1 /\ s.attempts = 0 /\ s.started = FALSE
     /\ s.cancel = FALSE

(* What each move does to the columns the action properties speak about.   *)
LEMMA MoveFields ==
  ASSUME NEW r \in JobRow, NEW s, RowMove(r, s)
  PROVE  FieldMove(r, s)
<1>1. CASE s = r
  BY <1>1 DEF FieldMove, Same
<1>2. CASE r.status = "ABSENT" /\ s = [r EXCEPT !.status = "PENDING"]
  BY <1>2 DEF FieldMove, Same, JobRow
<1>3. CASE r.status \in Claimable /\ \E t \in Nat : s = ClaimedRow(r, t)
  BY <1>3, Zenon DEF FieldMove, Same, JobRow, ClaimedRow
<1>4. CASE r.status = "RUNNING" /\ ~r.started /\ r.attempts < MaxAttempts /\ s = Charged(r)
  BY <1>4, Zenon DEF FieldMove, JobRow, Charged
<1>5. CASE r.status = "RUNNING" /\ ~r.started /\ s = Unclaimed(r)
  BY <1>5 DEF FieldMove, Same, JobRow, Unclaimed
<1>6. CASE /\ r.status = "RUNNING" /\ r.started /\ ~r.cancel
           /\ \/ s = Succeeded(r)
              \/ \E why \in Reason, x \in BOOLEAN : s = Failed(r, why, x)
              \/ r.attempts < MaxAttempts /\ s = RetryWait(r)
  <2>1. s.started = r.started /\ Same(r, s)
    BY <1>6, Zenon DEF Same, JobRow, Succeeded, Failed, RetryWait
  <2>2. \/ s.status \in {"SUCCEEDED", "FAILED"}
        \/ s.status = "RETRY_WAIT" /\ r.attempts < MaxAttempts
    BY <1>6, Zenon DEF JobRow, Succeeded, Failed, RetryWait
  <2> QED BY <1>6, <2>1, <2>2, Zenon DEF FieldMove
<1>7. CASE r.status = "RUNNING" /\ r.cancel /\ s = Cancelled(r)
  BY <1>7, Zenon DEF FieldMove, Same, JobRow, Cancelled
<1>8. CASE r.status = "RUNNING" /\ s = [r EXCEPT !.cancel = TRUE]
  BY <1>8, Zenon DEF FieldMove, JobRow
<1>9. CASE r.status \in Claimable /\ s = [Cancelled(r) EXCEPT !.cancel = TRUE]
  BY <1>9 DEF FieldMove, JobRow, Cancelled, Claimable
<1>10. CASE r.status = "FAILED" /\ r.generation < MaxGeneration /\ s = NextGeneration(r)
  BY <1>10 DEF FieldMove, JobRow, NextGeneration, AbsentRow
<1>11. CASE s = [r EXCEPT !.lease = "expired"] \/ s = [r EXCEPT !.due = TRUE]
  BY <1>11 DEF FieldMove, Same, JobRow
<1> QED BY <1>1, <1>2, <1>3, <1>4, <1>5, <1>6, <1>7, <1>8, <1>9, <1>10, <1>11 DEF RowMove

(* ChargedOncePerClaim: an attempt is charged only at the start boundary   *)
(* of a claim and never refunded.                                          *)
THEOREM ChargedOnce == Spec => ChargedOncePerClaim
<1>1. ASSUME IInv, [Next]_vars, NEW j \in Jobs,
             job'[j].generation = job[j].generation, job'[j].attempts # job[j].attempts
      PROVE  /\ job'[j].attempts = job[j].attempts + 1
             /\ ~job[j].started /\ job'[j].started
             /\ job[j].status = "RUNNING" /\ job'[j].token = job[j].token
  <2>1. FieldMove(job[j], job'[j]) /\ job[j] \in JobRow
    BY <1>1, RowMoves, MoveFields, Zenon DEF IInv, TypeOK
  <2>2. job[j].generation # job[j].generation + 1
    BY <2>1 DEF JobRow
  <2> DEFINE r == job[j]
             s == job'[j]
  <2>3. /\ r.status = "RUNNING" /\ ~r.started /\ s.started = TRUE
        /\ s.attempts = r.attempts + 1 /\ s.token = r.token
    <3>1. FieldMove(r, s) /\ s.generation = r.generation /\ s.attempts # r.attempts
          /\ r.generation # r.generation + 1
      BY <1>1, <2>1, <2>2
    <3> HIDE DEF r, s
    <3> QED BY <3>1 DEF FieldMove, Same
  <2> QED BY <2>3
<1>2. IInv /\ [Next]_vars =>
        [\A j \in Jobs :
           job'[j].generation = job[j].generation /\ job'[j].attempts # job[j].attempts =>
             /\ job'[j].attempts = job[j].attempts + 1
             /\ ~job[j].started /\ job'[j].started
             /\ job[j].status = "RUNNING" /\ job'[j].token = job[j].token]_vars
  BY <1>1
<1> QED BY <1>2, Invariance, PTL DEF Spec, ChargedOncePerClaim

(* RefinesLifecycle: what the API can observe of a job is JobLifecycle.    *)
THEOREM ImplementsLifecycle == Spec => RefinesLifecycle
<1>1. Init => \A j \in Jobs : Lifecycle(j)!Init
  BY DEF Init, AbsentRow, Lifecycle!Init
<1>2. ASSUME IInv, [Next]_vars, NEW j \in Jobs
      PROVE  UNCHANGED Lifecycle(j)!vars \/ Lifecycle(j)!Next
  <2>1. FieldMove(job[j], job'[j])
    BY <1>2, RowMoves, MoveFields DEF IInv, TypeOK
  <2> QED BY <2>1, ZenonT(60)
          DEF FieldMove, Same, Claimable, Lifecycle!Next, Lifecycle!vars, Lifecycle!Create,
              Lifecycle!Claim, Lifecycle!Start, Lifecycle!PutBack, Lifecycle!Succeed,
              Lifecycle!Fail, Lifecycle!Retry, Lifecycle!RequestCancel, Lifecycle!Cancel,
              Lifecycle!Requeue, Lifecycle!Becomes, Lifecycle!Executing, Lifecycle!Waiting
<1>3. IInv /\ [Next]_vars =>
        [\A j \in Jobs : UNCHANGED Lifecycle(j)!vars \/ Lifecycle(j)!Next]_vars
  BY <1>2
<1> QED BY <1>1, <1>3, Invariance, PTL DEF Spec, RefinesLifecycle

(* TerminalIsFinal: no stale worker, reaper or API call revives or alters  *)
(* a job that has ended, except for an explicit retry.                     *)
THEOREM TerminalStays == Spec => TerminalIsFinal
<1>1. ASSUME IInv, [Next]_vars, NEW j \in Jobs, job[j].status \in Terminal
      PROVE  \/ job'[j] = job[j] /\ business'[j] = business[j]
             \/ /\ job[j].status = "FAILED"
                /\ job'[j] = NextGeneration(job[j]) /\ business'[j] \in Open
  <2>1. /\ RowMove(job[j], job'[j]) /\ job[j] \in JobRow
        /\ RowOK(j, job[j], business[j], claims[j])
    BY <1>1, RowMoves DEF IInv, JobInv, TypeOK
  <2>2. RowOK(j, job'[j], business'[j], claims'[j]) /\ business'[j] \in Business
    <3>1. IInv'
      BY <1>1, NextInv
    <3> QED BY <3>1 DEF IInv, JobInv, TypeOK, RowOK
  <2>3. job'[j] = job[j] \/ (job[j].status = "FAILED" /\ job'[j] = NextGeneration(job[j]))
    BY <1>1, <2>1 DEF RowMove, Terminal, Claimable
  <2>4. CASE job'[j] = job[j]
    <3>1. business[j] = job[j].status /\ business'[j] = job[j].status
      BY <1>1, <2>1, <2>2, <2>4, Zenon DEF RowOK
    <3> QED BY <2>4, <3>1
  <2>5. CASE job[j].status = "FAILED" /\ job'[j] = NextGeneration(job[j])
    <3>1. job'[j].status = "PENDING"
      BY <2>5 DEF NextGeneration, AbsentRow
    <3>2. business'[j] \in Open
      BY <2>2, <3>1 DEF RowOK, Business, Terminal
    <3> QED BY <2>5, <3>2
  <2> QED BY <2>3, <2>4, <2>5, Zenon
<1>2. IInv /\ [Next]_vars =>
        [\A j \in Jobs :
           job[j].status \in Terminal =>
             \/ job'[j] = job[j] /\ business'[j] = business[j]
             \/ /\ job[j].status = "FAILED"
                /\ job'[j] = NextGeneration(job[j]) /\ business'[j] \in Open]_vars
  BY <1>1
<1> QED BY <1>2, Invariance, PTL DEF Spec, TerminalIsFinal

-----------------------------------------------------------------------------
(* What a step keeps of a job's row *)

(* Only a poll issues a token, and only a poll makes a waiting job run.    *)
LEMMA TokensIssued ==
  ASSUME IInv, [Next]_vars, NEW j \in Jobs
  PROVE  \/ claims'[j] = claims[j] /\ ~(job[j].status \in Claimable /\ job'[j].status = "RUNNING")
         \/ claims'[j] = claims[j] + 1
<1>0. TypeOK /\ job[j] \in JobRow
  BY DEF IInv, TypeOK
<1>1. CASE UNCHANGED <<job, claims>>
  BY <1>1 DEF Claimable
<1>2. ASSUME NEW k \in Jobs, NEW s, SetRow(k, s), UNCHANGED claims,
             job[k].status \in Claimable => s.status # "RUNNING"
      PROVE  claims'[j] = claims[j] /\ ~(job[j].status \in Claimable /\ job'[j].status = "RUNNING")
  <2>1. job'[j] = IF j = k THEN s ELSE job[j]
    BY <1>0, <1>2, OneRow
  <2> QED BY <1>2, <2>1 DEF Claimable
<1>3. ASSUME NEW k \in Jobs, JobStep(k) PROVE \E s : /\ SetRow(k, s) /\ UNCHANGED claims
                                                     /\ job[k].status \in Claimable => s.status # "RUNNING"
  <2>0. job[k] \in JobRow
    BY <1>0 DEF TypeOK
  <2>1. CASE CreateJob(k) \/ LeaseExpires(k) \/ RestartGeneration(k)
    <3>1. job[k].status \notin Claimable /\ UNCHANGED claims /\ \E s : SetRow(k, s)
      BY <2>1 DEF CreateJob, LeaseExpires, RestartGeneration, Claimable
    <3> QED BY <3>1
  <2>2. CASE BackoffElapses(k)
    <3>1. SetRow(k, [job[k] EXCEPT !.due = TRUE]) /\ UNCHANGED claims /\ job[k].status = "RETRY_WAIT"
      BY <2>2 DEF BackoffElapses
    <3>2. [job[k] EXCEPT !.due = TRUE].status = "RETRY_WAIT"
      BY <2>0, <3>1 DEF JobRow
    <3> QED BY <3>1, <3>2, Zenon
  <2>3. CASE RequestCancellation(k)
    <3>1. [Cancelled(job[k]) EXCEPT !.cancel = TRUE].status = "CANCELLED"
      BY <2>0 DEF Cancelled, JobRow
    <3> QED BY <2>3, <3>1, Zenon DEF RequestCancellation, Claimable
  <2> QED BY <1>3, <2>1, <2>2, <2>3 DEF JobStep, ManualRequeue, RetryDiagnosis
<1>4. ASSUME NEW k \in Jobs, NEW n \in Tokens, StartBoundary(k, n) \/ Handler(k, n) \/ Execution(k, n)
      PROVE  UNCHANGED claims /\ (UNCHANGED job \/ (job[k].status = "RUNNING" /\ \E s : SetRow(k, s)))
  <2>1. CASE StartBoundary(k, n)
    BY <2>1 DEF StartBoundary, MarkExecutionStarted, MarkExecutionStartedRefused,
         MarkExecutionStartedError, LateStart, ResolveExecutionStart, StopBeforeStart,
         ReturnUndispatchedClaim, AbandonClaim, Launch, ChargeAttempt, HoldsClaim, StartCommits
  <2>2. CASE Handler(k, n)
    BY <2>2, Zenon DEF Handler, HandlerBegins, HandlerStops, HandlerFails, HandlerFinalizationFails,
         HandlerFinalizes, HandlerCommits, Owned
  <2>3. CASE Execution(k, n)
    BY <2>3, Zenon DEF Execution, RenewalFails, CancelPoll, AfterHandler, AtomicReadFails, Finalize,
         FinalizeEnds, FinalizeCommits, Owned
  <2> QED BY <1>4, <2>1, <2>2, <2>3
<1>5. ASSUME NEW S \in SUBSET Jobs, NEW U, ReapExpiredJobs(S, U)
      PROVE  claims'[j] = claims[j] /\ ~(job[j].status \in Claimable /\ job'[j].status = "RUNNING")
  <2>1. UNCHANGED claims /\ (j \in S => job[j].status = "RUNNING") /\ (j \notin S => job'[j] = job[j])
    BY <1>5, Zenon DEF ReapExpiredJobs, Expired
  <2> QED BY <2>1 DEF Claimable
<1>6. ASSUME NEW w \in Workers, NEW delivered \in BOOLEAN, ClaimJobs(w, delivered)
      PROVE  \/ claims'[j] = claims[j] /\ job'[j] = job[j]
             \/ claims'[j] = claims[j] + 1
  BY <1>6, Zenon DEF ClaimJobs
<1>7. ASSUME NEW w \in Workers, WorkerStep(w)
      PROVE  \/ claims'[j] = claims[j] /\ job'[j] = job[j]
             \/ claims'[j] = claims[j] + 1
  BY <1>6, <1>7 DEF WorkerStep, RequestStop, CancelActive, Exit, Crash, Restart, WorkerEnds
<1>8. CASE UNCHANGED vars
  BY <1>1, <1>8 DEF vars
<1>9. CASE \E k \in Jobs : JobStep(k)
  BY <1>2, <1>3, <1>9
<1>10. CASE \E k \in Jobs, n \in Tokens : StartBoundary(k, n) \/ Handler(k, n) \/ Execution(k, n)
  BY <1>1, <1>2, <1>4, <1>10 DEF Claimable
<1>11. CASE \E w \in Workers : WorkerStep(w)
  BY <1>7, <1>11 DEF Claimable
<1> QED BY <1>5, <1>8, <1>9, <1>10, <1>11, Zenon DEF Next

(* Every move of a row is one RowKeeps allows.                             *)
LEMMA MoveKeeps ==
  ASSUME NEW r \in JobRow, NEW s \in JobRow, NEW last \in Nat, NEW new \in Nat, RowMove(r, s),
         s.status = "RUNNING" => s.token = new, last <= new,
         r.status \in Claimable /\ s.status = "RUNNING" => new = last + 1
  PROVE  RowKeeps(r, s, last, new)
<1> USE DEF Tokens
<1>0. r.generation \in Nat /\ r.attempts \in Nat
  BY DEF JobRow
<1>1. CASE s = r
  BY <1>0, <1>1 DEF RowKeeps
<1>2. CASE r.status = "ABSENT" /\ s = [r EXCEPT !.status = "PENDING"]
  <2>1. s.status = "PENDING" /\ s.generation = r.generation /\ s.attempts = r.attempts
    BY <1>2 DEF JobRow
  <2> QED BY <1>0, <1>2, <2>1 DEF RowKeeps, Holds, Terminal
<1>3. CASE r.status \in Claimable /\ \E t \in Nat : s = ClaimedRow(r, t)
  <2>1. /\ s.status = "RUNNING" /\ s.generation = r.generation /\ s.attempts = r.attempts
        /\ ~s.started
    BY <1>3 DEF JobRow, ClaimedRow
  <2>2. s.token = last + 1
    BY <1>3, <2>1
  <2>3. \A n \in Tokens : n <= last => ~Holds(s, n)
    BY <2>2, BoundsAssumption DEF Holds
  <2> QED BY <1>0, <1>3, <2>1, <2>3 DEF RowKeeps, Terminal, Claimable
<1>4. CASE r.status = "RUNNING" /\ ~r.started /\ s = Charged(r)
  <2>1. /\ s.status = "RUNNING" /\ s.generation = r.generation /\ s.attempts = r.attempts + 1
        /\ s.token = r.token /\ s.lease = r.lease /\ s.cancel = r.cancel
    BY <1>4 DEF JobRow, Charged
  <2> QED BY <1>0, <1>4, <2>1 DEF RowKeeps, Holds, Terminal
<1>5. CASE s.status \notin {"RUNNING"} /\ r.status \notin Terminal /\ s.generation = r.generation
           /\ s.attempts = r.attempts
  BY <1>0, <1>5 DEF RowKeeps, Holds
<1>6. CASE r.status = "RUNNING" /\ s = Unclaimed(r)
  <2>1. s.status = "PENDING" /\ s.generation = r.generation /\ s.attempts = r.attempts
    BY <1>6 DEF JobRow, Unclaimed
  <2> QED BY <1>5, <1>6, <2>1 DEF Terminal
<1>7. CASE r.status = "RUNNING" /\ \/ s = Succeeded(r)
                                   \/ \E why \in Reason, x \in BOOLEAN : s = Failed(r, why, x)
                                   \/ s = RetryWait(r)
                                   \/ s = Cancelled(r)
  <2>1. /\ s.status \in {"SUCCEEDED", "FAILED", "RETRY_WAIT", "CANCELLED"}
        /\ s.generation = r.generation /\ s.attempts = r.attempts
    BY <1>7, Zenon DEF JobRow, Succeeded, Failed, RetryWait, Cancelled
  <2> QED BY <1>5, <1>7, <2>1 DEF Terminal
<1>8. CASE r.status = "RUNNING" /\ (s = [r EXCEPT !.cancel = TRUE] \/ s = [r EXCEPT !.lease = "expired"])
  <2>1. /\ s.status = "RUNNING" /\ s.generation = r.generation /\ s.attempts = r.attempts
        /\ s.token = r.token /\ s.started = r.started /\ (s.lease = "live" => r.lease = "live")
        /\ r.cancel => s.cancel
    BY <1>8 DEF JobRow
  <2> QED BY <1>0, <1>8, <2>1 DEF RowKeeps, Holds, Terminal
<1>9. CASE r.status \in Claimable /\ s = [Cancelled(r) EXCEPT !.cancel = TRUE]
  <2>1. s.status = "CANCELLED" /\ s.generation = r.generation /\ s.attempts = r.attempts
    BY <1>9 DEF JobRow, Cancelled
  <2> QED BY <1>5, <1>9, <2>1 DEF Terminal, Claimable
<1>10. CASE s = NextGeneration(r)
  <2>1. s.status = "PENDING" /\ s.generation = r.generation + 1
    BY <1>10 DEF NextGeneration, AbsentRow
  <2> QED BY <1>0, <2>1 DEF RowKeeps, Holds
<1>11. CASE r.status = "RETRY_WAIT" /\ s = [r EXCEPT !.due = TRUE]
  <2>1. s.status = "RETRY_WAIT" /\ s.generation = r.generation /\ s.attempts = r.attempts
    BY <1>11 DEF JobRow
  <2> QED BY <1>5, <1>11, <2>1 DEF Terminal
<1> QED BY <1>1, <1>2, <1>3, <1>4, <1>6, <1>7, <1>8, <1>9, <1>10, <1>11 DEF RowMove

(* Every step keeps every row, and a success is never undone.              *)
LEMMA RowsKept ==
  ASSUME IInv, IInv', [Next]_vars, NEW j \in Jobs
  PROVE  /\ RowKeeps(job[j], job'[j], claims[j], claims'[j])
         /\ business[j] = "SUCCEEDED" /\ job'[j].generation = job[j].generation
              => business'[j] = "SUCCEEDED"
<1>1. /\ RowMove(job[j], job'[j]) /\ job[j] \in JobRow /\ claims[j] \in Nat
      /\ RowOK(j, job[j], business[j], claims[j])
  BY RowMoves, BoundsAssumption DEF IInv, JobInv, TypeOK
<1>2. job'[j] \in JobRow /\ claims'[j] \in Nat
  BY BoundsAssumption DEF IInv, TypeOK
<1>3. RowOK(j, job'[j], business'[j], claims'[j])
  BY Zenon DEF IInv, JobInv, RowOK
<1>4. job'[j].status = "RUNNING" => job'[j].token = claims'[j]
  BY <1>3 DEF RowOK
<1>5. /\ claims[j] <= claims'[j]
      /\ job[j].status \in Claimable /\ job'[j].status = "RUNNING" => claims'[j] = claims[j] + 1
  BY <1>1, <1>2, TokensIssued
<1>6. RowKeeps(job[j], job'[j], claims[j], claims'[j])
  BY <1>1, <1>2, <1>4, <1>5, MoveKeeps
<1>7. business[j] = "SUCCEEDED" => job[j].status = "SUCCEEDED"
  BY <1>1 DEF RowOK, Terminal
<1>8. job[j].status = "SUCCEEDED" => job'[j] = job[j]
  BY <1>1 DEF RowMove, Claimable
<1>9. job'[j].status = "SUCCEEDED" => business'[j] = "SUCCEEDED"
  BY <1>3 DEF RowOK, Terminal
<1> QED BY <1>6, <1>7, <1>8, <1>9, Zenon

=============================================================================

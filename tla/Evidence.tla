------------------------------- MODULE Evidence -------------------------------
(* Evidence handles, from the lines of a snapshot to the citations of a    *)
(* persisted report. An index build reads the bodies of the symbols; an    *)
(* attempt issues handles for what it shows the model; the model's draft   *)
(* cites handles; resolution turns them into VALID or INVALID citations. A *)
(* handle belongs to one attempt, so an attempt that resumes from the      *)
(* checkpoint of another one first issues the handles anew.                *)
EXTENDS Integers, FiniteSets, SnapshotReads

CONSTANTS
  Inputs,          \* a file, the ranges of its symbols
  Diagnosed,       \* bound: the inputs that diagnoses are explored for
  BodyLimit,       \* maxBM25SymbolSourceBytes
  PacketLimit,     \* evidence bytes of one handle
  Span,            \* most lines of an initial handle (80)
  Slots,           \* bound: the citations of a draft
  Groupings,       \* how a draft's citations belong to its findings
  MaxAttempts,     \* bound: attempts of the run
  MaxCalls,        \* bound: tool calls of an attempt
  MaxFaults,       \* bound: failing reads and queries
  None, Unknown    \* no citation; a handle nobody issued

VARIABLES
  input, scanned, states,
  phase,           \* of the index build, then of the run
  attempt, calls,
  items,           \* attempt_evidence_items
  draft,           \* the model's draft: a conclusion, the handles it cites
  meant,           \* history: the lines the model meant to cite
  checkpoint,      \* the latest final checkpoint: its attempt and draft
  citations,       \* the resolved report
  report,          \* what was persisted
  faults

buildVars == <<input, scanned, states>>
vars == <<buildVars, phase, attempt, calls, items, draft, meant, checkpoint, citations, report, faults>>

file == input.file
NoCitations == [s \in Slots |-> None]
NoDraft == [kind |-> "none", finding |-> [s \in Slots |-> s], refs |-> NoCitations]

Init ==
  /\ input \in Inputs
  /\ scanned = 0
  /\ states = [i \in DOMAIN input.symbols |-> NotStarted]
  /\ phase = "indexing"
  /\ attempt = 0 /\ calls = 0
  /\ items = {}
  /\ draft = NoDraft
  /\ meant = NoDraft
  /\ checkpoint = [attempt |-> 0, draft |-> NoDraft]
  /\ citations = NoCitations
  /\ report = [status |-> "none", citations |-> NoCitations]
  /\ faults = 0

-----------------------------------------------------------------------------
(* readSymbolSourceBodies.                                                 *)

ScanLine ==
  /\ phase = "indexing"
  /\ ~ScanOver(file, states, scanned + 1)
  /\ scanned' = scanned + 1
  /\ states' = [i \in DOMAIN states |->
       Retain(input.symbols[i], states[i], scanned + 1, file[scanned + 1], BodyLimit)]
  /\ UNCHANGED <<input, phase, attempt, calls, items, draft, meant, checkpoint, citations, report, faults>>

Result(i) == RangeResult(file, input.symbols[i], states[i])

(* A line that is too long leaves a symbol without a body, any other error *)
(* fails the build.                                                        *)
IndexBuilt ==
  /\ phase = "indexing"
  /\ ScanOver(file, states, scanned + 1)
  /\ phase' = IF \E i \in DOMAIN states : Result(i).error = "badRange" THEN "buildFailed"
              ELSE IF input \in Diagnosed THEN "queued" ELSE "indexed"
  /\ UNCHANGED <<buildVars, attempt, calls, items, draft, meant, checkpoint, citations, report, faults>>

-----------------------------------------------------------------------------
(* EvidenceIssuerService.                                                  *)

Item(a, r) == [attempt |-> a, from |-> r.from, to |-> r.to, hash |-> SubSeq(file, r.from, r.to)]

(* The handles that a series of issues makes up to the first that fails; a *)
(* range already issued to the attempt gets the handle it has.             *)
Issued(a, reads, stop) == {Item(a, reads[i]) : i \in 1..(stop - 1)}
FirstError(reads) ==
  SelectInSeq(reads, LAMBDA r : r.error # "none")

(* Where a series of issues stops: at an error, or at any earlier one when *)
(* the store fails.                                                        *)
Stops(reads, stop) ==
  LET e == FirstError(reads)
      last == IF e = 0 THEN Len(reads) + 1 ELSE e
  IN \/ stop = last /\ UNCHANGED faults
     \/ stop \in 1..(last - 1) /\ faults < MaxFaults /\ faults' = faults + 1

Resolve(a, ref) == ref \in items /\ ref.attempt = a

Verify(item) ==
  LET r == readFileRange(file, item.from, item.to, 0) IN
  /\ r.error = "none"
  /\ r.from = item.from /\ r.to = item.to
  /\ SubSeq(file, r.from, r.to) = item.hash

-----------------------------------------------------------------------------
(* An attempt without a checkpoint: AgentRuntimeExecutor and its tools.    *)

StartAttempt ==
  /\ phase = "queued"
  /\ attempt < MaxAttempts
  /\ attempt' = attempt + 1
  /\ calls' = 0
  /\ phase' = IF checkpoint.attempt = 0 THEN "retrieving" ELSE "rebinding"
  /\ draft' = checkpoint.draft
  /\ citations' = NoCitations
  /\ UNCHANGED <<buildVars, items, meant, checkpoint, report, faults>>

(* The lines of a search result that the first request shows.              *)
Clamp(r) ==
  [start |-> r.start, end |-> IF r.end - r.start >= Span THEN r.start + Span - 1 ELSE r.end]

(* Initial retrieval: any handle that cannot be issued fails the run.      *)
InitialEvidence ==
  /\ phase = "retrieving"
  /\ LET reads == [i \in DOMAIN input.symbols |->
                    LET r == Clamp(input.symbols[i])
                    IN readFileRange(file, r.start, r.end, PacketLimit)]
     IN \E stop \in 1..(Len(reads) + 1) :
          /\ Stops(reads, stop)
          /\ items' = items \cup Issued(attempt, reads, stop)
          /\ phase' = IF stop > Len(reads) THEN "exploring" ELSE "failed"
  /\ UNCHANGED <<buildVars, attempt, calls, draft, meant, checkpoint, citations, report>>

CallTool(reads) ==
  /\ phase = "exploring"
  /\ calls < MaxCalls
  /\ calls' = calls + 1
  /\ \E stop \in 1..(Len(reads) + 1) :
       /\ Stops(reads, stop)
       /\ items' = items \cup Issued(attempt, reads, stop)
  /\ UNCHANGED <<buildVars, phase, attempt, draft, meant, checkpoint, citations, report>>

(* The results share the tool's bytes; one that fails cuts the list.       *)
SearchCode ==
  \E limit \in 1..PacketLimit :
    CallTool([i \in DOMAIN input.symbols |->
                readFileRange(file, input.symbols[i].start, input.symbols[i].end, limit)])

ReadFile ==
  \E start, end \in 0..Len(file) : CallTool(<<readFileRange(file, start, end, PacketLimit)>>)

(* The model cites handles of this attempt, makes one up or cites nothing; *)
(* its findings have a citation each, or one has several.                  *)
Conclude ==
  /\ phase = "exploring"
  /\ \E kind \in {"root_cause", "insufficient_evidence", "malformed"},
        finding \in Groupings,
        refs \in [Slots -> {x \in items : x.attempt = attempt} \cup {None, Unknown}] :
       /\ kind = "malformed" => refs = NoCitations
       /\ draft' = [kind |-> kind, finding |-> finding, refs |-> refs]
       /\ meant' = [kind |-> kind, finding |-> finding, refs |-> refs]
  /\ phase' = "drafted"
  /\ UNCHANGED <<buildVars, attempt, calls, items, checkpoint, citations, report, faults>>

-----------------------------------------------------------------------------
(* DiagnosisJobHandler.                                                    *)

(* Mutant of Rebound: the draft keeps the handles of the first attempt.    *)
Rebound_Kept(a, ref, F, s) == ref
(* The handle of the checkpoint's attempt becomes one of this attempt for  *)
(* the same lines; a handle that cannot be found or issued stays.          *)
Rebound(a, ref, F, s) ==
  IF ref \in {None, Unknown} \/ s \in F \/ ~Resolve(checkpoint.attempt, ref) THEN ref
  ELSE Item(a, readFileRange(file, ref.from, ref.to, 0))

Faulty(F) == IF F = {} THEN UNCHANGED faults ELSE faults < MaxFaults /\ faults' = faults + 1

rebindCheckpointDraft ==
  /\ phase = "rebinding"
  /\ \E F \in SUBSET Slots :
       LET refs == [s \in Slots |-> Rebound(attempt, checkpoint.draft.refs[s], F, s)] IN
       /\ Faulty(F)
       /\ draft' = [checkpoint.draft EXCEPT !.refs = refs]
       /\ items' = items \cup {refs[s] : s \in {t \in Slots : refs[t] \notin {None, Unknown}}}
  /\ phase' = "drafted"
  /\ UNCHANGED <<buildVars, attempt, calls, meant, checkpoint, citations, report>>

(* The attempt that Resolve returned the handle for is looked at again.    *)
SameAttempt(item) == item.attempt = attempt

(* A handle of this attempt whose lines still have its hash is VALID; any  *)
(* other, and one that a failing query or read is about, is INVALID.       *)
Citation(ref, failed) ==
  IF ref = None THEN None
  ELSE IF ref # Unknown /\ Resolve(attempt, ref) /\ SameAttempt(ref) /\ Verify(ref) /\ ~failed
       THEN [status |-> "VALID", attempt |-> ref.attempt, from |-> ref.from, to |-> ref.to]
  ELSE [status |-> "INVALID", attempt |-> attempt, from |-> 0, to |-> 0]

ResolveReportDraft ==
  /\ phase = "drafted"
  /\ \E F \in SUBSET Slots :
       /\ Faulty(F)
       /\ citations' = [s \in Slots |-> Citation(draft.refs[s], s \in F)]
  /\ phase' = "resolved"
  /\ UNCHANGED <<buildVars, attempt, calls, items, draft, meant, checkpoint, report>>

(* The checkpoint keeps the draft, with the handles of this attempt; where *)
(* it cannot be saved the run fails.                                       *)
SaveCheckpoint ==
  /\ phase = "resolved"
  /\ \/ /\ checkpoint' = [attempt |-> attempt, draft |-> draft]
        /\ phase' = "checkpointed"
        /\ UNCHANGED faults
     \/ /\ faults < MaxFaults /\ faults' = faults + 1
        /\ phase' = "failed"
        /\ UNCHANGED checkpoint
  /\ UNCHANGED <<buildVars, attempt, calls, items, draft, meant, citations, report>>

WithStatus(cs, status) == {s \in Slots : cs[s] # None /\ cs[s].status = status}
ValidRefs(cs) == WithStatus(cs, "VALID")

(* A finding that has a valid citation is supported.                       *)
Supported(d, cs) == {d.finding[s] : s \in ValidRefs(cs)}
FindingsOf(d) == {d.finding[s] : s \in Slots}

(* Mutant of ClassifyReport: one valid citation makes up for invalid ones. *)
ClassifyReport_SupportedOnly(d, cs) ==
  CASE d.kind = "malformed" -> "INVALID"
    [] d.kind = "insufficient_evidence" -> "INSUFFICIENT_EVIDENCE"
    [] d.kind = "root_cause" ->
         IF FindingsOf(d) # Supported(d, cs) THEN "DEGRADED" ELSE "VALID"

(* Every finding needs a valid citation, and no citation may be invalid.   *)
ClassifyReport(d, cs) ==
  CASE d.kind = "malformed" -> "INVALID"
    [] d.kind = "insufficient_evidence" -> "INSUFFICIENT_EVIDENCE"
    [] d.kind = "root_cause" ->
         IF FindingsOf(d) # Supported(d, cs) \/ WithStatus(cs, "INVALID") # {}
         THEN "DEGRADED" ELSE "VALID"

(* One transaction persists the report with its citations.                 *)
Finalize ==
  /\ phase = "checkpointed"
  /\ report' = [status |-> ClassifyReport(draft, citations), citations |-> citations]
  /\ phase' = "finished"
  /\ UNCHANGED <<buildVars, attempt, calls, items, draft, meant, checkpoint, citations, faults>>

(* The attempt dies or loses its claim; the job store queues another.      *)
Interrupted ==
  /\ phase \in {"retrieving", "exploring", "rebinding", "drafted", "resolved", "checkpointed"}
  /\ phase' = "queued"
  /\ UNCHANGED <<buildVars, attempt, calls, items, draft, meant, checkpoint, citations, report, faults>>

Next ==
  \/ ScanLine \/ IndexBuilt
  \/ StartAttempt \/ InitialEvidence \/ SearchCode \/ ReadFile \/ Conclude
  \/ rebindCheckpointDraft \/ ResolveReportDraft \/ SaveCheckpoint \/ Finalize
  \/ Interrupted

Spec == Init /\ [][Next]_vars

-----------------------------------------------------------------------------
(* The one-pass reader of the index build and the reader of single ranges, *)
(* which count bytes each in its own way, give every symbol the same body: *)
(* the longest run of complete lines within the limit.                     *)
BodiesAgree ==
  phase # "indexing" =>
    \A i \in DOMAIN states :
      LET r == input.symbols[i]
          single == readFileRange(file, r.start, r.end, BodyLimit)
          Body(x) == IF x.error = "none" THEN Text(file, x.from, x.to) ELSE <<>>
      IN /\ (Result(i).error = "badRange") = (single.error = "badRange")
         /\ Body(Result(i)) = Body(single)
         /\ single.error # "badRange" =>
              Body(single) = Text(file, r.start, LastFitting(file, r.start, r.end, BodyLimit))

(* The citations of handles that the model was shown.                      *)
Shown == {s \in Slots : meant.refs[s] \notin {None, Unknown}}

(* What failing reads, failing queries and resumed attempts may do to a    *)
(* report is degrade it: a citation persisted as VALID belongs to the      *)
(* attempt that finalized and names the very lines the model cited; a      *)
(* report is VALID only if every finding was cited from evidence and no    *)
(* handle was made up, not even one beside a good one.                     *)
NothingForged ==
  report.status # "none" =>
    /\ \A s \in ValidRefs(report.citations) :
         /\ report.citations[s].attempt = attempt
         /\ s \in Shown
         /\ report.citations[s].from = meant.refs[s].from
         /\ report.citations[s].to = meant.refs[s].to
    /\ report.status = "VALID" =>
         /\ \A s \in Slots : \E t \in Shown : meant.finding[t] = meant.finding[s]
         /\ \A s \in Slots : meant.refs[s] # Unknown

(* However often the run is interrupted, an excerpt truncated at the limit *)
(* included: unless a read or query fails, every citation of a handle that *)
(* the model was shown is persisted as VALID, and only a made-up handle or *)
(* a finding without any makes the report DEGRADED.                        *)
CitationsSurvive ==
  report.status # "none" /\ faults = 0 =>
    /\ ValidRefs(report.citations) = Shown
    /\ report.status = "DEGRADED" =>
         \/ \E s \in Slots : meant.refs[s] = Unknown
         \/ \E s \in Slots : \A t \in Shown : meant.finding[t] # meant.finding[s]

=============================================================================

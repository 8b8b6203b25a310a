------------------------------ MODULE AgentLoop ------------------------------
(***************************************************************************)
(* One execution of the diagnosis agent: AgentRuntimeExecutor.Execute and  *)
(* AgentLoop.Run (internal/agent) with the guard's budgets, and below them *)
(* the retrying and the guarded provider (internal/llm).                   *)
(*                                                                         *)
(* The model chooses everything the loop does not: which tools to call, in *)
(* which batches, when to answer and with what, and how each request ends. *)
(* The loop counts rounds, tool calls, searches and repetitions; when a    *)
(* budget is used up it asks once more, without tools, for the report.     *)
(*                                                                         *)
(* Abstracted: a tool call is its name and arguments, a model value; every *)
(* call that the guard admits is answered, be it by a result, an error or  *)
(* a notice that the result is too large.  A reply is truncated, asks for  *)
(* tools, or holds a report that parses or not.  Tokens, trace steps and   *)
(* texts are left out.  The durable dispatch marker belongs to             *)
(* DiagnosisExecution; here only its "an answer was seen" decides whether  *)
(* a definite failure may be retried.                                      *)
(***************************************************************************)
EXTENDS Integers, Sequences

CONSTANTS
    Calls,            \* tool calls the model may ask for, name and arguments
    SearchCalls,      \* those of the tool search_code
    NoCall,           \* the empty lastCallHash
    MaxSteps, MaxToolCalls, MaxSearchCalls, MaxRepeatCalls,   \* GuardConfig
    MaxRetry,         \* frozen provider retry attempts
    MaxBatch          \* bound: tool calls in one reply

ASSUME AgentAssumption ==
    /\ SearchCalls \subseteq Calls /\ NoCall \notin Calls
    /\ MaxSteps \in Nat /\ MaxToolCalls \in Nat /\ MaxSearchCalls \in Nat
    /\ MaxRepeatCalls \in Nat \ {0} /\ MaxRetry \in Nat /\ MaxBatch \in Nat

VARIABLES
    at,         \* where Execute is
    guard,      \* the AgentGuard
    batch,      \* tool calls of the last assistant message
    answers,    \* how many of them have their tool message
    forced,     \* the reason finalizeOnly was entered, or "no"
    try,        \* RetryingProvider's attempt of the current request
    seen,       \* an answer of this attempt is not checkpointed yet
    result,     \* the LoopResult so far
    made,       \* history: calls of the guarded provider
    doubt,      \* history: a call ended with an unknown outcome
    ran         \* history: what the tools were asked to do

vars == <<at, guard, batch, answers, forced, try, seen, result, made, doubt, ran>>

Outcomes == {"none", "rejected", "report", "truncated", "invalid", "failed", "unknown", "cancelled"}

\* Replies with tool calls.
Batches == UNION {[1 .. n -> Calls] : n \in 1 .. MaxBatch}

Guards == [steps : Nat, tools : Nat, searches : Nat, last : Calls \cup {NoCall}, same : Nat,
           history : [Calls -> Nat]]
Results == [rounds : Nat, toolCalls : Nat, searchCalls : Nat, providerCalls : Nat,
            outcome : Outcomes]
Runs == [total : Nat, searches : Nat, last : Calls \cup {NoCall}, streak : Nat,
         calls : [Calls -> Nat]]

\* The guard, the counters and the retry stay in their ranges.
LoopTypeOK ==
    /\ at \in {"start", "round", "request", "tools", "done"}
    /\ guard \in Guards /\ result \in Results /\ ran \in Runs
    /\ batch \in Seq(Calls) /\ answers \in Nat
    /\ forced \in {"no", "AGENT_ROUND_BUDGET", "SEARCH_BUDGET", "TOOL_BUDGET"}
    /\ try \in 1 .. MaxRetry + 1
    /\ seen \in BOOLEAN /\ doubt \in BOOLEAN /\ made \in Nat

Init ==
    /\ at = "start"
    /\ guard = [steps |-> 0, tools |-> 0, searches |-> 0, last |-> NoCall, same |-> 0,
                history |-> [c \in Calls |-> 0]]
    /\ batch = <<>> /\ answers = 0 /\ forced = "no" /\ try = 1
    /\ seen = FALSE /\ made = 0 /\ doubt = FALSE
    /\ result = [rounds |-> 0, toolCalls |-> 0, searchCalls |-> 0, providerCalls |-> 0,
                 outcome |-> "none"]
    /\ ran = [total |-> 0, searches |-> 0, last |-> NoCall, streak |-> 0,
              calls |-> [c \in Calls |-> 0]]

-----------------------------------------------------------------------------
(* Entry.                                                                  *)

\* The frozen spec is compatible, the provider, the tools and the initial
\* evidence are there.
Prepare ==
    /\ at = "start" /\ at' = "round"
    /\ UNCHANGED <<guard, batch, answers, forced, try, seen, result, made, doubt, ran>>

\* One of them is not: an error before the first request.
Reject ==
    /\ at = "start" /\ at' = "done"
    /\ result' = [result EXCEPT !.outcome = "rejected"]
    /\ UNCHANGED <<guard, batch, answers, forced, try, seen, made, doubt, ran>>

-----------------------------------------------------------------------------
(* Rounds.                                                                 *)

\* The head of the loop finds its context cancelled and returns no result.
ContextDone ==
    /\ at = "round" /\ at' = "done"
    /\ result' = [rounds |-> 0, toolCalls |-> 0, searchCalls |-> 0, providerCalls |-> 0,
                  outcome |-> "cancelled"]
    /\ UNCHANGED <<guard, batch, answers, forced, try, seen, made, doubt, ran>>

\* RecordStep, after it has counted this step.
StepRefused == guard.steps + 1 > MaxSteps

\* A round begins with a request, or the round budget ends the exploration.
Round ==
    /\ at = "round" /\ at' = "request" /\ try' = 1
    /\ guard' = [guard EXCEPT !.steps = guard.steps + 1]
    /\ IF StepRefused
       THEN forced' = "AGENT_ROUND_BUDGET" /\ UNCHANGED result
       ELSE /\ UNCHANGED forced
            /\ result' = [result EXCEPT !.rounds = result.rounds + 1,
                                        !.providerCalls = result.providerCalls + 1]
    /\ UNCHANGED <<batch, answers, seen, made, doubt, ran>>

-----------------------------------------------------------------------------
(* Requests: RetryingProvider around guardedProvider around the client.    *)

\* Run's counters when a request of the exploration has ended; finalizeOnly
\* computes them from the rounds instead: it counts a round for a reply, and
\* ignores the retries of a truncated one.
Counted(outcome) ==
    IF forced = "no"
    THEN [result EXCEPT !.providerCalls = result.providerCalls + (try - 1), !.outcome = outcome]
    ELSE [result EXCEPT !.rounds = result.rounds
                                     + (IF outcome \in {"failed", "unknown"} THEN 0 ELSE 1),
                        !.providerCalls = result.rounds
                                            + (IF outcome = "truncated" THEN 1 ELSE try),
                        !.outcome = outcome]

\* The reply is marked as seen and handed to the loop.
Answered ==
    /\ at = "request" /\ made' = made + 1 /\ seen' = TRUE
    /\ UNCHANGED <<guard, forced, try, doubt, ran>>

\* The reply ends the loop: truncated, or a text that is a report or not.
FinalReply ==
    /\ Answered
    /\ at' = "done"
    /\ \E outcome \in {"truncated", "report", "invalid"} : result' = Counted(outcome)
    /\ UNCHANGED <<batch, answers>>

\* The reply asks for tools.  finalizeOnly does not look at tool calls: such
\* a reply is parsed like any other.
ToolReply ==
    /\ Answered
    /\ forced = "no"
    /\ at' = "tools"
    /\ batch' \in Batches /\ answers' = 0
    /\ result' = Counted("none")

\* Mutant: a definite failure counts as such although an earlier answer of
\* the attempt is not saved.
Resolved_always == TRUE

\* ProviderDispatchFailedDefinitely clears the marker only while no answer
\* was seen.
Resolved == ~seen

\* The connection is refused, or the provider answers with a status that is
\* not worth a retry: nothing was done.
DefiniteFailure ==
    /\ at = "request" /\ made' = made + 1
    /\ Resolved
    /\ at' = "done" /\ result' = Counted("failed")
    /\ UNCHANGED <<guard, batch, answers, forced, try, seen, doubt, ran>>

\* BeginProviderDispatch fails or refuses: the claim may be gone.
DispatchRefused ==
    /\ at = "request" /\ made' = made + 1
    /\ at' = "done" /\ result' = Counted("failed")
    /\ UNCHANGED <<guard, batch, answers, forced, try, seen, doubt, ran>>

\* Mutant: the attempts wrap around instead of ending; made is left alone to
\* keep the variant finite.
RetryableFailure_forever ==
    /\ at = "request" /\ Resolved
    /\ try' = IF try <= MaxRetry THEN try + 1 ELSE 1
    /\ UNCHANGED <<at, guard, batch, answers, forced, seen, result, made, doubt, ran>>

\* HTTP 429 or 5xx: tried again while retries are left and the context lives.
RetryableFailure ==
    /\ at = "request" /\ made' = made + 1
    /\ Resolved
    /\ \/ try <= MaxRetry /\ try' = try + 1 /\ UNCHANGED <<at, result>>
       \/ at' = "done" /\ result' = Counted("failed") /\ UNCHANGED try
    /\ UNCHANGED <<guard, batch, answers, forced, seen, doubt, ran>>

\* The request may have been worked on: the transport failed after the dial,
\* the reply was unreadable or too large, its marker could not be written, or
\* an earlier answer keeps a definite failure from being resolved.
UnknownOutcome ==
    /\ at = "request" /\ made' = made + 1 /\ doubt' = TRUE
    /\ at' = "done" /\ result' = Counted("unknown")
    /\ UNCHANGED <<guard, batch, answers, forced, try, seen, ran>>

-----------------------------------------------------------------------------
(* Tools.                                                                  *)

\* RecordSearchCall
SearchRefused(c) ==
    c \in SearchCalls /\ MaxSearchCalls > 0 /\ guard.searches + 1 > MaxSearchCalls

\* Mutant: the repetition count starts again with every reply.
ToolRefused_perReply(c) ==
    \/ guard.tools + 1 > MaxToolCalls
    \/ answers > 0 /\ c = guard.last /\ guard.same + 1 >= MaxRepeatCalls
    \/ guard.history[c] + 1 > 3

\* RecordToolCall: the total, the same call over and over, the same call too
\* often in all.
ToolRefused(c) ==
    \/ guard.tools + 1 > MaxToolCalls
    \/ c = guard.last /\ guard.same + 1 >= MaxRepeatCalls
    \/ guard.history[c] + 1 > 3

\* Mutant: the refused call itself gets no tool message.
finalizeOnly_skipsRefused(reason) ==
    /\ forced' = reason /\ at' = "request" /\ try' = 1
    /\ answers' = Len(batch) - 1

\* finalizeOnly after appendBudgetResults: the refused call and the ones
\* behind it are answered with a notice.  The guard is not asked again.
finalizeOnly(reason) ==
    /\ forced' = reason /\ at' = "request" /\ try' = 1
    /\ answers' = Len(batch)

\* One call of the batch.  Whatever the tool returns is the call's message.
\* What a refusal adds to the guard's own counters is left out: after it the
\* loop only finalizes, and the guard is neither asked nor reported.
ToolCall ==
    /\ at = "tools" /\ answers < Len(batch)
    /\ LET c == batch[answers + 1]
           s == IF c \in SearchCalls THEN 1 ELSE 0
           counted == [result EXCEPT !.searchCalls = result.searchCalls + s]
       IN  \/ /\ SearchRefused(c)
              /\ finalizeOnly("SEARCH_BUDGET")
              /\ result' = counted
              /\ UNCHANGED <<guard, ran>>
           \/ /\ ~SearchRefused(c) /\ ToolRefused(c)
              /\ finalizeOnly("TOOL_BUDGET")
              /\ result' = [counted EXCEPT !.toolCalls = result.toolCalls + 1]
              /\ UNCHANGED <<guard, ran>>
           \/ /\ ~SearchRefused(c) /\ ~ToolRefused(c)
              /\ guard' = [guard EXCEPT
                             !.searches = guard.searches + s, !.tools = guard.tools + 1,
                             !.same = IF c = guard.last THEN guard.same + 1 ELSE 0, !.last = c,
                             !.history = [guard.history EXCEPT ![c] = guard.history[c] + 1]]
              /\ result' = [counted EXCEPT !.toolCalls = result.toolCalls + 1]
              /\ ran' = [total |-> ran.total + 1, searches |-> ran.searches + s, last |-> c,
                         streak |-> IF c = ran.last THEN ran.streak + 1 ELSE 1,
                         calls |-> [ran.calls EXCEPT ![c] = ran.calls[c] + 1]]
              /\ answers' = answers + 1
              /\ UNCHANGED <<at, forced, try>>
    /\ UNCHANGED <<batch, seen, made, doubt>>

\* Every call of the batch has its message: the next round.
BatchDone ==
    /\ at = "tools" /\ answers = Len(batch) /\ at' = "round"
    /\ UNCHANGED <<guard, batch, answers, forced, try, seen, result, made, doubt, ran>>

-----------------------------------------------------------------------------
Request == FinalReply \/ ToolReply \/ DefiniteFailure \/ DispatchRefused
             \/ RetryableFailure \/ UnknownOutcome

Next == Prepare \/ Reject \/ ContextDone \/ Round \/ Request \/ ToolCall \/ BatchDone

Spec == Init /\ [][Next]_vars

\* The goroutine takes its next step: a request has the client's timeout, and
\* tools, which read the database and snapshot files, are assumed to return.
FairSpec == Spec /\ WF_vars(Next)

-----------------------------------------------------------------------------
(* Properties.                                                             *)

\* Every request shows the provider a complete conversation: each tool call
\* of the last assistant message has exactly one tool message, whichever
\* budget cut the batch short (appendBudgetResults).
RequestsAnswered ==
    at = "request" => answers = Len(batch)

\* However the model behaves, the tools run within the frozen budgets, no
\* call is made more than three times or MaxRepeatCalls times in a row, and
\* one execution makes at most one request per round, one to finalize and
\* MaxRetry retries in all: the retry budget of RetryingProvider is per
\* request, but the dispatch guard lets only the first request use it.
WithinBudgets ==
    /\ ran.total <= MaxToolCalls
    /\ MaxSearchCalls > 0 => ran.searches <= MaxSearchCalls
    /\ ran.streak <= MaxRepeatCalls
    /\ \A c \in Calls : ran.calls[c] <= 3
    /\ made <= MaxSteps + 1 + MaxRetry

\* Paid work is not repeated: after an unknown outcome nothing more is sent,
\* and once an answer has been seen no request is sent a second time
\* (shouldRetryProvider, ProviderDispatchFailedDefinitely).
NoRepeatedWork ==
    /\ doubt => at = "done"
    /\ at = "request" /\ seen => try = 1

\* The guard's counters are what really ran, within their limits.
GuardInv ==
    /\ ran.total = guard.tools /\ guard.tools <= MaxToolCalls
    /\ ran.searches = guard.searches
    /\ MaxSearchCalls > 0 => guard.searches <= MaxSearchCalls
    /\ ran.calls = guard.history /\ \A c \in Calls : guard.history[c] <= 3
    /\ ran.last = guard.last
    /\ ran.streak = (IF guard.last = NoCall THEN 0 ELSE guard.same + 1)
    /\ ran.streak <= MaxRepeatCalls

\* Requests begun before the one the loop is at.
Begun == IF at = "request" /\ forced \in {"no", "AGENT_ROUND_BUDGET"}
         THEN guard.steps - 1 ELSE guard.steps

\* Every request but the first, which alone may be retried, was made once.
RequestInv ==
    /\ doubt => at = "done"
    /\ made <= MaxSteps + 1 + MaxRetry
    /\ at # "done" =>
         /\ guard.steps <= (IF forced = "AGENT_ROUND_BUDGET" THEN MaxSteps + 1 ELSE MaxSteps)
         /\ forced # "no" => at = "request"
         /\ made <= Begun + MaxRetry
         /\ ~seen => /\ at \in {"start", "round", "request"} /\ Begun = 0
                      /\ made = (IF at = "request" THEN try - 1 ELSE 0)
    /\ at \in {"request", "tools"} => guard.steps > 0
    /\ at = "request" /\ seen => try = 1

\* The inductive invariant behind the theorems of AgentLoop_proofs.
LoopInv ==
    /\ LoopTypeOK /\ GuardInv /\ RequestInv
    /\ answers <= Len(batch)
    /\ at \in {"start", "round", "request"} => answers = Len(batch)

\* Every execution ends, whatever the model asks for.
LoopEnds == <>(at = "done")

\* The result counts every call of the provider, retries included, as
\* TestFC07Explicit429RemainsProviderRetryable expects of ProviderCalls.
ProviderCallsCounted ==
    at = "done" /\ result.outcome \notin {"rejected", "cancelled"} => result.providerCalls = made
=============================================================================

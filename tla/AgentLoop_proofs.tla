--------------------------- MODULE AgentLoop_proofs ---------------------------
(***************************************************************************)
(* Proofs about AgentLoop, for every set of tool calls and every budget:   *)
(* LoopInv is inductive, and the properties of the requests and of the     *)
(* budgets follow from it.                                                 *)
(***************************************************************************)
EXTENDS AgentLoop, SequenceTheorems, TLAPS

\* A reply's tool calls are a sequence of calls.
LEMMA BatchIsSeq == Batches \subseteq Seq(Calls)
  <1> SUFFICES ASSUME NEW n \in 1 .. MaxBatch, NEW b \in [1 .. n -> Calls] PROVE b \in Seq(Calls)
    BY DEF Batches
  <1>1. n \in Nat
    BY AgentAssumption
  <1> QED
    BY <1>1, SeqDef

\* The counters that finalizeOnly and Run compute are numbers.
LEMMA CountedType ==
    ASSUME LoopTypeOK, NEW o \in Outcomes
    PROVE  Counted(o) \in Results
  <1>1. try \in Nat /\ try - 1 \in Nat
    BY AgentAssumption DEF LoopTypeOK
  <1>2. /\ result.rounds \in Nat /\ result.toolCalls \in Nat /\ result.searchCalls \in Nat
        /\ result.providerCalls \in Nat
    BY DEF LoopTypeOK, Results
  <1>3. CASE forced = "no"
    <2>1. result.providerCalls + (try - 1) \in Nat
      BY <1>1, <1>2
    <2> QED
      BY <1>2, <1>3, <2>1 DEF Counted, LoopTypeOK, Results
  <1>4. CASE forced # "no"
    <2> DEFINE r == result.rounds + (IF o \in {"failed", "unknown"} THEN 0 ELSE 1)
               p == result.rounds + (IF o = "truncated" THEN 1 ELSE try)
    <2>1. r \in Nat /\ p \in Nat
      BY <1>1, <1>2
    <2>2. Counted(o) = [result EXCEPT !.rounds = r, !.providerCalls = p, !.outcome = o]
      BY <1>4 DEF Counted
    <2> HIDE DEF r, p
    <2> QED
      BY <1>2, <2>1, <2>2 DEF LoopTypeOK, Results
  <1> QED
    BY <1>3, <1>4

\* Nothing has been asked yet.
LEMMA InitLoop == Init => LoopInv
  <1> SUFFICES ASSUME Init PROVE LoopInv
    OBVIOUS
  <1> USE AgentAssumption DEF Init
  <1>1. batch \in Seq(Calls) /\ Len(batch) = 0
    OBVIOUS
  <1>2. LoopTypeOK
    <2>1. guard \in Guards /\ ran \in Runs
      BY DEF Guards, Runs
    <2>2. result \in Results
      BY DEF Results, Outcomes
    <2>3. seen \in BOOLEAN /\ doubt \in BOOLEAN
      OBVIOUS
    <2>4. try \in 1 .. MaxRetry + 1 /\ made \in Nat /\ answers \in Nat
      OBVIOUS
    <2> QED
      BY <1>1, <2>1, <2>2, <2>3, <2>4 DEF LoopTypeOK
  <1>3. GuardInv
    BY DEF GuardInv
  <1>4. RequestInv
    BY DEF RequestInv, Begun
  <1> QED
    BY <1>1, <1>2, <1>3, <1>4 DEF LoopInv

\* The steps that end the execution.
LEMMA EndsLoop ==
    ASSUME LoopInv, at' = "done", made' \in Nat, made' <= MaxSteps + 1 + MaxRetry,
           result' \in Results,
           seen' \in BOOLEAN, doubt' \in BOOLEAN,
           UNCHANGED <<guard, batch, answers, forced, try, ran>>
    PROVE  LoopInv'
  <1>1. LoopTypeOK'
    BY DEF LoopInv, LoopTypeOK
  <1>2. GuardInv'
    BY DEF LoopInv, GuardInv
  <1>3. RequestInv'
    BY DEF RequestInv
  <1> QED
    BY <1>1, <1>2, <1>3 DEF LoopInv

\* One more request stays within the bound.
LEMMA RequestCounted ==
    ASSUME LoopInv, at = "request"
    PROVE  made \in Nat /\ made + 1 \in Nat /\ made + 1 <= MaxSteps + 1 + MaxRetry
  <1>1. made \in Nat /\ guard.steps \in Nat
    BY DEF LoopInv, LoopTypeOK, Guards
  <1>2. made <= Begun + MaxRetry /\ Begun <= MaxSteps
    <2>1. made <= Begun + MaxRetry
      BY DEF LoopInv, RequestInv
    <2>2. Begun <= MaxSteps
      BY <1>1, AgentAssumption DEF LoopInv, RequestInv, Begun
    <2> QED
      BY <2>1, <2>2
  <1>3. Begun \in Int
    BY <1>1 DEF Begun
  <1> QED
    BY <1>1, <1>2, <1>3, AgentAssumption

\* The steps that make no request and call no tool.
LEMMA EntryKeeps == LoopInv /\ (Prepare \/ Reject \/ ContextDone \/ BatchDone) => LoopInv'
  <1> SUFFICES ASSUME LoopInv, Prepare \/ Reject \/ ContextDone \/ BatchDone PROVE LoopInv'
    OBVIOUS
  <1>1. CASE Prepare \/ BatchDone
    <2> USE <1>1 DEF Prepare, BatchDone
    <2>1. LoopTypeOK'
      BY DEF LoopInv, LoopTypeOK
    <2>2. GuardInv'
      BY DEF LoopInv, GuardInv
    <2>3. RequestInv'
      BY DEF LoopInv, RequestInv, Begun
    <2> QED
      BY <2>1, <2>2, <2>3 DEF LoopInv
  <1>2. CASE Reject \/ ContextDone
    <2>1. result' \in Results
      BY <1>2 DEF Reject, ContextDone, LoopInv, LoopTypeOK, Results, Outcomes
    <2>2. made \in Nat /\ made <= MaxSteps + 1 + MaxRetry
      BY DEF LoopInv, LoopTypeOK, RequestInv
    <2>3. /\ at' = "done" /\ UNCHANGED <<guard, batch, answers, forced, try, ran>>
          /\ made' = made /\ seen' = seen /\ doubt' = doubt
      BY <1>2 DEF Reject, ContextDone
    <2>4. seen' \in BOOLEAN /\ doubt' \in BOOLEAN
      BY <2>3 DEF LoopInv, LoopTypeOK
    <2> QED
      BY <2>1, <2>2, <2>3, <2>4, EndsLoop
  <1> QED
    BY <1>1, <1>2

\* A round asks, or the round budget forces the report.
LEMMA RoundKeeps == LoopInv /\ Round => LoopInv'
  <1> SUFFICES ASSUME LoopInv, Round PROVE LoopInv'
    OBVIOUS
  <1> USE AgentAssumption
  <1>1. /\ guard.steps \in Nat /\ guard'.steps = guard.steps + 1
        /\ guard'.tools = guard.tools /\ guard'.searches = guard.searches /\ guard'.last = guard.last
        /\ guard'.same = guard.same /\ guard'.history = guard.history
    BY DEF LoopInv, LoopTypeOK, Guards, Round
  <1>2. LoopTypeOK'
    <2>1. guard' \in Guards
      <3>1. guard \in Guards /\ guard' = [guard EXCEPT !.steps = guard.steps + 1]
        BY DEF LoopInv, LoopTypeOK, Round
      <3> QED
        BY <1>1, <3>1 DEF Guards
    <2>2. result' \in Results
      <3>1. /\ result \in Results
            /\ \/ result' = result
               \/ result' = [result EXCEPT !.rounds = result.rounds + 1,
                                           !.providerCalls = result.providerCalls + 1]
        BY DEF LoopInv, LoopTypeOK, Round
      <3>2. result.rounds + 1 \in Nat /\ result.providerCalls + 1 \in Nat
        BY <3>1 DEF Results
      <3> QED
        BY <3>1, <3>2 DEF Results
    <2>3. seen' \in BOOLEAN /\ doubt' \in BOOLEAN
      BY DEF LoopInv, LoopTypeOK, Round
    <2>4. try' \in 1 .. MaxRetry + 1 /\ made' \in Nat /\ answers' \in Nat
      BY DEF LoopInv, LoopTypeOK, Round
    <2> QED
      BY <2>1, <2>2, <2>3, <2>4 DEF LoopInv, LoopTypeOK, Round
  <1>3. GuardInv'
    BY <1>1 DEF LoopInv, GuardInv, Round
  <1>4. RequestInv'
    <2>1. /\ at = "round" /\ at' = "request" /\ try' = 1 /\ made' = made /\ seen' = seen
          /\ forced = "no" /\ guard.steps <= MaxSteps
          /\ forced' = (IF guard.steps + 1 > MaxSteps THEN "AGENT_ROUND_BUDGET" ELSE "no")
      BY DEF LoopInv, RequestInv, Round, StepRefused
    <2>2. made \in Nat /\ made <= guard.steps + MaxRetry /\ Begun' = guard.steps
      BY <1>1, <2>1 DEF LoopInv, LoopTypeOK, RequestInv, Begun
    <2>3. ~seen' => Begun' = 0 /\ made' = try' - 1
      <3>1. Begun = guard.steps
        BY <2>1 DEF Begun
      <3>2. ~seen => Begun = 0 /\ made = 0
        BY <2>1 DEF LoopInv, RequestInv
      <3> QED
        BY <2>1, <2>2, <3>1, <3>2
    <2>4. guard'.steps <= (IF forced' = "AGENT_ROUND_BUDGET" THEN MaxSteps + 1 ELSE MaxSteps)
          /\ guard'.steps > 0
      BY <1>1, <2>1
    <2>5. ~doubt' /\ made' <= MaxSteps + 1 + MaxRetry /\ made' <= Begun' + MaxRetry
      BY <2>1, <2>2 DEF LoopInv, RequestInv, Round
    <2> QED
      BY <2>1, <2>2, <2>3, <2>4, <2>5 DEF RequestInv
  <1> QED
    BY <1>2, <1>3, <1>4 DEF LoopInv, Round

\* How a request may end.
LEMMA RequestKeeps == LoopInv /\ Request => LoopInv'
  <1> SUFFICES ASSUME LoopInv, Request PROVE LoopInv'
    OBVIOUS
  <1>1. at = "request" /\ made' = made + 1
    BY DEF Request, FinalReply, ToolReply, Answered, DefiniteFailure, DispatchRefused,
           RetryableFailure, UnknownOutcome
  <1>2. made' \in Nat /\ made' <= MaxSteps + 1 + MaxRetry
    BY <1>1, RequestCounted
  <1>3. ASSUME at' = "done", NEW o \in Outcomes, result' = Counted(o),
               UNCHANGED <<guard, batch, answers, forced, try, ran>>,
               seen' \in BOOLEAN, doubt' \in BOOLEAN
        PROVE  LoopInv'
    <2>1. result' \in Results
      BY <1>3, CountedType DEF LoopInv
    <2> QED
      BY <1>2, <1>3, <2>1, EndsLoop
  <1>4. seen \in BOOLEAN /\ doubt \in BOOLEAN
    BY DEF LoopInv, LoopTypeOK
  <1>5. CASE FinalReply
    <2>1. PICK o \in {"truncated", "report", "invalid"} : result' = Counted(o)
      BY <1>5 DEF FinalReply
    <2> QED
      BY <1>3, <1>4, <1>5, <2>1 DEF FinalReply, Answered, Outcomes
  <1>6. CASE DefiniteFailure \/ DispatchRefused
    BY <1>3, <1>4, <1>6 DEF DefiniteFailure, DispatchRefused, Outcomes
  <1>7. CASE UnknownOutcome
    BY <1>3, <1>4, <1>7 DEF UnknownOutcome, Outcomes
  <1>8. CASE RetryableFailure
    <2>1. CASE try <= MaxRetry /\ try' = try + 1 /\ UNCHANGED <<at, result>>
      <3> USE AgentAssumption
      <3>1. ~seen /\ UNCHANGED <<guard, batch, answers, forced, seen, doubt, ran>>
        BY <1>8 DEF RetryableFailure, Resolved
      <3>2. LoopTypeOK'
        <4>1. try' \in 1 .. MaxRetry + 1
          BY <2>1 DEF LoopInv, LoopTypeOK
        <4> QED
          BY <1>2, <2>1, <3>1, <4>1 DEF LoopInv, LoopTypeOK
      <3>3. GuardInv'
        BY <2>1, <3>1 DEF LoopInv, GuardInv
      <3>4. RequestInv'
        <4>1. /\ at' = "request" /\ Begun' = Begun /\ ~seen' /\ ~doubt'
          BY <1>1, <2>1, <3>1 DEF LoopInv, RequestInv, Begun
        <4>2. Begun = 0 /\ made = try - 1 /\ try \in Nat
          BY <1>1, <3>1 DEF LoopInv, LoopTypeOK, RequestInv
        <4>3. made' = try' - 1 /\ made' <= Begun' + MaxRetry
          BY <1>1, <2>1, <4>1, <4>2
        <4>4. /\ guard' = guard /\ forced' = forced /\ guard.steps > 0
              /\ guard.steps <= (IF forced = "AGENT_ROUND_BUDGET" THEN MaxSteps + 1 ELSE MaxSteps)
          BY <1>1, <3>1 DEF LoopInv, RequestInv
        <4> QED
          BY <1>2, <4>1, <4>2, <4>3, <4>4 DEF RequestInv
      <3> QED
        BY <2>1, <3>1, <3>2, <3>3, <3>4 DEF LoopInv
    <2>2. CASE at' = "done" /\ result' = Counted("failed") /\ UNCHANGED try
      BY <1>3, <1>4, <1>8, <2>2 DEF RetryableFailure, Outcomes
    <2> QED
      BY <1>8, <2>1, <2>2 DEF RetryableFailure
  <1>9. CASE ToolReply
    <2>1. /\ batch' \in Seq(Calls) /\ answers' = 0 /\ at' = "tools" /\ seen' = TRUE /\ forced = "no"
          /\ result' = Counted("none") /\ UNCHANGED <<guard, forced, try, doubt, ran>>
      BY <1>9, BatchIsSeq DEF ToolReply, Answered
    <2>2. LoopTypeOK'
      BY <1>2, <2>1, CountedType DEF LoopInv, LoopTypeOK, Outcomes
    <2>3. GuardInv'
      BY <2>1 DEF LoopInv, GuardInv
    <2>4. RequestInv'
      <3>1. guard.steps \in Nat /\ made \in Nat
        BY DEF LoopInv, LoopTypeOK, Guards
      <3>2. guard.steps <= MaxSteps /\ guard.steps > 0 /\ made <= guard.steps - 1 + MaxRetry /\ ~doubt
        BY <1>1, <2>1 DEF LoopInv, RequestInv, Begun
      <3>3. Begun' = guard.steps
        BY <2>1 DEF Begun
      <3>4. made' <= Begun' + MaxRetry
        BY <1>1, <3>1, <3>2, <3>3, AgentAssumption
      <3> QED
        BY <1>2, <2>1, <3>2, <3>4 DEF RequestInv
    <2>5. Len(batch') \in Nat
      BY <2>1, LenProperties
    <2> QED
      BY <2>1, <2>2, <2>3, <2>4, <2>5 DEF LoopInv
  <1> QED
    BY <1>5, <1>6, <1>7, <1>8, <1>9 DEF Request

\* A tool call runs, or a budget forces the report and answers the rest.
LEMMA ToolCallKeeps == LoopInv /\ ToolCall => LoopInv'
  <1> SUFFICES ASSUME LoopInv, ToolCall PROVE LoopInv'
    OBVIOUS
  <1> USE AgentAssumption
  <1> DEFINE c == batch[answers + 1]
             s == IF c \in SearchCalls THEN 1 ELSE 0
             counted == [result EXCEPT !.searchCalls = result.searchCalls + s]
             charged == [counted EXCEPT !.toolCalls = result.toolCalls + 1]
  <1>1. at = "tools" /\ answers < Len(batch) /\ UNCHANGED <<batch, seen, made, doubt>>
    BY DEF ToolCall
  <1>2. LoopTypeOK /\ GuardInv /\ RequestInv /\ answers \in Nat /\ batch \in Seq(Calls)
        /\ Len(batch) \in Nat
    BY LenProperties DEF LoopInv, LoopTypeOK
  <1>3. c \in Calls /\ s \in {0, 1}
    BY <1>1, <1>2, ElementOfSeq
  <1>4. counted \in Results /\ charged \in Results
    <2>1. result.searchCalls + s \in Nat /\ result.toolCalls + 1 \in Nat
      BY <1>2, <1>3 DEF LoopTypeOK, Results
    <2> HIDE DEF s
    <2> QED
      BY <1>2, <2>1 DEF LoopTypeOK, Results
  <1>5. seen /\ forced = "no"
    BY <1>1, <1>2 DEF RequestInv
  <1>6. \/ finalizeOnly("SEARCH_BUDGET") /\ result' = counted /\ UNCHANGED <<guard, ran>>
        \/ finalizeOnly("TOOL_BUDGET") /\ result' = charged /\ UNCHANGED <<guard, ran>>
        \/ /\ ~SearchRefused(c) /\ ~ToolRefused(c)
           /\ guard' = [guard EXCEPT
                             !.searches = guard.searches + s, !.tools = guard.tools + 1,
                             !.same = IF c = guard.last THEN guard.same + 1 ELSE 0, !.last = c,
                             !.history = [guard.history EXCEPT ![c] = guard.history[c] + 1]]
           /\ result' = charged
           /\ ran' = [total |-> ran.total + 1, searches |-> ran.searches + s, last |-> c,
                      streak |-> IF c = ran.last THEN ran.streak + 1 ELSE 1,
                      calls |-> [ran.calls EXCEPT ![c] = ran.calls[c] + 1]]
           /\ answers' = answers + 1 /\ UNCHANGED <<at, forced, try>>
    BY DEF ToolCall
  <1> HIDE DEF c, s, counted, charged
  <1>7. ASSUME NEW r \in {"SEARCH_BUDGET", "TOOL_BUDGET"}, finalizeOnly(r), result' \in Results,
               UNCHANGED <<guard, ran>>
        PROVE  LoopInv'
    <2>1. LoopTypeOK'
      <3>1. try' \in 1 .. MaxRetry + 1 /\ answers' \in Nat
        BY <1>2, <1>7 DEF finalizeOnly
      <3> QED
        BY <1>1, <1>2, <1>7, <3>1 DEF LoopTypeOK, finalizeOnly
    <2>2. GuardInv'
      BY <1>2, <1>7 DEF GuardInv
    <2>3. guard.steps > 0
      BY <1>1, <1>2 DEF RequestInv
    <2>4. RequestInv'
      BY <1>1, <1>2, <1>5, <1>7, <2>3 DEF RequestInv, Begun, finalizeOnly
    <2> QED
      BY <1>1, <1>2, <1>7, <2>1, <2>2, <2>4 DEF LoopInv, finalizeOnly
  <1>8. ASSUME ~SearchRefused(c), ~ToolRefused(c),
               guard' = [guard EXCEPT
                             !.searches = guard.searches + s, !.tools = guard.tools + 1,
                             !.same = IF c = guard.last THEN guard.same + 1 ELSE 0, !.last = c,
                             !.history = [guard.history EXCEPT ![c] = guard.history[c] + 1]],
               result' = charged,
               ran' = [total |-> ran.total + 1, searches |-> ran.searches + s, last |-> c,
                       streak |-> IF c = ran.last THEN ran.streak + 1 ELSE 1,
                       calls |-> [ran.calls EXCEPT ![c] = ran.calls[c] + 1]],
               answers' = answers + 1, UNCHANGED <<at, forced, try>>
        PROVE  LoopInv'
    <2>1. /\ guard.steps \in Nat /\ guard.tools \in Nat /\ guard.searches \in Nat
          /\ guard.same \in Nat /\ guard.history \in [Calls -> Nat]
          /\ guard.last \in Calls \cup {NoCall} /\ s \in Nat
      BY <1>2, <1>3 DEF LoopTypeOK, Guards
    <2>2. [guard.history EXCEPT ![c] = guard.history[c] + 1] \in [Calls -> Nat]
      BY <1>3, <2>1
    <2>3. /\ guard'.steps = guard.steps /\ guard'.tools = guard.tools + 1
          /\ guard'.searches = guard.searches + s /\ guard'.last = c
          /\ guard'.same = (IF c = guard.last THEN guard.same + 1 ELSE 0)
          /\ guard'.history = [guard.history EXCEPT ![c] = guard.history[c] + 1]
      BY <1>2, <1>8 DEF LoopTypeOK, Guards
    <2>4. guard' \in Guards
      <3> DEFINE n == IF c = guard.last THEN guard.same + 1 ELSE 0
                 f == [guard.history EXCEPT ![c] = guard.history[c] + 1]
      <3>1. n \in Nat /\ guard.searches + s \in Nat /\ guard.tools + 1 \in Nat
        BY <2>1
      <3>2. guard' = [guard EXCEPT !.searches = guard.searches + s, !.tools = guard.tools + 1,
                                   !.same = n, !.last = c, !.history = f]
        BY <1>8
      <3>3. guard \in Guards
        BY <1>2 DEF LoopTypeOK
      <3> HIDE DEF n, f
      <3>4. f \in [Calls -> Nat]
        BY <2>2 DEF f
      <3> QED
        BY <1>3, <3>1, <3>2, <3>3, <3>4 DEF Guards
    <2>5. GuardInv'
      <3>1. ran'.total = guard'.tools /\ guard'.tools <= MaxToolCalls
        BY <1>2, <1>8, <2>1, <2>3 DEF GuardInv, ToolRefused
      <3>2. /\ ran'.searches = guard'.searches
            /\ MaxSearchCalls > 0 => guard'.searches <= MaxSearchCalls
        <4>1. ran'.searches = guard'.searches
          BY <1>2, <1>8, <2>3 DEF GuardInv
        <4>2. CASE c \in SearchCalls
          BY <1>8, <2>1, <2>3, <4>1, <4>2 DEF SearchRefused, s
        <4>3. CASE c \notin SearchCalls
          <5>1. guard'.searches = guard.searches
            BY <2>1, <2>3, <4>3 DEF s
          <5> QED
            BY <1>2, <4>1, <5>1 DEF GuardInv
        <4> QED
          BY <4>2, <4>3
      <3>3. ran'.calls = guard'.history /\ \A d \in Calls : guard'.history[d] <= 3
        BY <1>2, <1>3, <1>8, <2>1, <2>3 DEF GuardInv, ToolRefused
      <3>4. ran'.last = guard'.last /\ c # NoCall
        BY <1>3, <1>8, <2>3
      <3>5. ran'.streak = guard'.same + 1 /\ ran'.streak <= MaxRepeatCalls
        <4>1. /\ ran.last = guard.last
              /\ ran.streak = (IF guard.last = NoCall THEN 0 ELSE guard.same + 1)
              /\ ran'.streak = (IF c = ran.last THEN ran.streak + 1 ELSE 1)
          BY <1>2, <1>8 DEF GuardInv
        <4>2. CASE c = guard.last
          <5>1. guard.same + 1 < MaxRepeatCalls
            BY <1>8, <2>1, <4>2 DEF ToolRefused
          <5>2. ran'.streak = guard.same + 2 /\ guard'.same = guard.same + 1
            BY <2>1, <2>3, <3>4, <4>1, <4>2
          <5> QED
            BY <2>1, <5>1, <5>2
        <4>3. CASE c # guard.last
          BY <2>3, <4>1, <4>3
        <4> QED
          BY <4>2, <4>3
      <3> QED
        BY <2>3, <3>1, <3>2, <3>3, <3>4, <3>5 DEF GuardInv
    <2>6. ran' \in Runs
      <3>1. /\ ran'.total \in Nat /\ ran'.searches \in Nat /\ ran'.streak \in Nat
            /\ ran'.last \in Calls \cup {NoCall} /\ ran'.calls \in [Calls -> Nat]
        BY <2>4, <2>5 DEF GuardInv, Guards
      <3> QED
        BY <1>8, <3>1 DEF Runs
    <2>7. LoopTypeOK'
      BY <1>1, <1>2, <1>4, <1>8, <2>4, <2>6 DEF LoopTypeOK
    <2>8. RequestInv'
      BY <1>1, <1>2, <1>5, <1>8, <2>3 DEF RequestInv, Begun
    <2> QED
      BY <1>1, <1>2, <1>8, <2>5, <2>7, <2>8 DEF LoopInv
  <1> QED
    BY <1>4, <1>6, <1>7, <1>8

\* The bookkeeping of requests, budgets and tool messages holds in every
\* reachable state, whatever the model asks for and however requests end.
THEOREM LoopInvariance == Spec => []LoopInv
  <1>1. LoopInv /\ [Next]_vars => LoopInv'
    <2> SUFFICES ASSUME LoopInv, [Next]_vars PROVE LoopInv'
      OBVIOUS
    <2>1. CASE UNCHANGED vars
      BY <2>1 DEF vars, LoopInv, LoopTypeOK, GuardInv, RequestInv, Begun
    <2>2. CASE Next
      BY <2>2, EntryKeeps, RoundKeeps, RequestKeeps, ToolCallKeeps DEF Next
    <2> QED
      BY <2>1, <2>2
  <1> QED
    BY <1>1, InitLoop, PTL DEF Spec

\* No request is sent while a tool call of the last reply lacks its message.
THEOREM ConversationsComplete == Spec => []RequestsAnswered
  <1>1. LoopInv => RequestsAnswered
    BY DEF LoopInv, RequestsAnswered
  <1> QED
    BY <1>1, LoopInvariance, PTL

\* Tools, searches, repetitions and requests stay within the frozen budgets,
\* for every value of the budgets.
THEOREM BudgetsHold == Spec => []WithinBudgets
  <1>1. LoopInv => WithinBudgets
    BY DEF LoopInv, GuardInv, RequestInv, WithinBudgets
  <1> QED
    BY <1>1, LoopInvariance, PTL

\* Nothing is sent after an unknown outcome, and nothing sent again after an
\* answer.
THEOREM WorkIsNotRepeated == Spec => []NoRepeatedWork
  <1>1. LoopInv => NoRepeatedWork
    BY DEF LoopInv, RequestInv, NoRepeatedWork
  <1> QED
    BY <1>1, LoopInvariance, PTL
=============================================================================

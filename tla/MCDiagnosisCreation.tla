------------------------- MODULE MCDiagnosisCreation -------------------------
(* Two creations that share a key, a change of the provider and a retry.   *)
EXTENDS DiagnosisCreation, TLC

CONSTANTS a, b, k, p1, p2

MCCreate(payload) == [kind |-> "create", key |-> k, payload |-> payload]
MCRetry == [kind |-> "retry", run |-> 1]
MCWorkloads ==
  {<<MCCreate(p1), MCCreate(p1), [kind |-> "save", identity |-> a], MCRetry>>,
   <<MCCreate(p1), MCCreate(p2), [kind |-> "clear"], MCRetry>>}

=============================================================================

----------------------------- MODULE MCAgentLoop -----------------------------
(* A search, and two other calls that differ in name or arguments.         *)
EXTENDS AgentLoop
CONSTANTS search, readA, readB
MCCalls == {search, readA, readB}
MCSearchCalls == {search}
=============================================================================

----------------------------- MODULE MCAgentRun -----------------------------
(* Small instances of AgentRun: every run in the one chat; runs, workers   *)
(* and provider calls are interchangeable.                                 *)
EXTENDS AgentRun, TLC

CONSTANTS r1, r2, c1

OneChat == [r \in Runs |-> c1]

(* A crash is explored while there is one run: with more of them and two   *)
(* claim loops the state space is too large.                               *)
CrashesAlone == faults = 0 \/ Cardinality({r \in Runs : status[r] # "none"}) <= 1

AllSymmetry == Permutations(Workers) \cup Permutations(Calls) \cup Permutations(Runs)
=============================================================================

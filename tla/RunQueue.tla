------------------------------ MODULE RunQueue ------------------------------
(***************************************************************************)
(* What the queue of agent runs promises to the people and triggers that   *)
(* fill it: a claim is one step, which starts a run that is queued, not    *)
(* canceled, has an attempt left and finds a place in its chat; a run that *)
(* was asked to stop ends as canceled; an ended run stays ended; and a run *)
(* that was executed gets one answer.  Leases, locks, workers, requests    *)
(* and provider calls are not part of it.  AgentRun implements this.       *)
(***************************************************************************)
EXTENDS Naturals, FiniteSets

CONSTANTS Runs, Chats, ChatOf, MaxAttempts, ChatLimit

VARIABLES
    state,
    canceled,    \* the run was asked to stop
    executions,  \* how often it was started
    answer       \* its message, 0 if none

queueVars == <<state, canceled, executions, answer>>

Ends == {"completed", "canceled", "failed", "timed_out"}
States == {"none", "queued", "running"} \cup Ends

Init ==
    /\ state = [r \in Runs |-> "none"] /\ canceled = [r \in Runs |-> FALSE]
    /\ executions = [r \in Runs |-> 0] /\ answer = [r \in Runs |-> 0]

Enqueue(r) ==
    /\ state[r] = "none"
    /\ state' = [state EXCEPT ![r] = "queued"]
    /\ UNCHANGED <<canceled, executions, answer>>

Cancel(r) ==
    /\ state[r] \in {"queued", "running"}
    /\ state' = [state EXCEPT ![r] = IF @ = "queued" THEN "canceled" ELSE @]
    /\ canceled' = [canceled EXCEPT ![r] = TRUE]
    /\ UNCHANGED <<executions, answer>>

RunningWith(r) == {x \in Runs : state[x] = "running" /\ ChatOf[x] = ChatOf[r]}

Start(r) ==
    /\ state[r] = "queued" /\ ~canceled[r] /\ executions[r] < MaxAttempts
    /\ ChatOf[r] \in Chats => Cardinality(RunningWith(r)) < ChatLimit
    /\ state' = [state EXCEPT ![r] = "running"]
    /\ executions' = [executions EXCEPT ![r] = @ + 1]
    /\ UNCHANGED <<canceled, answer>>

(* Where a run may go without being started: one that waited too long ends,*)
(* one that ran ends or, with an attempt left, waits again.                *)
Onward(r) ==
    CASE state[r] = "queued" -> {"timed_out"}
      [] state[r] = "running" /\ canceled[r] -> {"canceled"}
      [] state[r] = "running" /\ ~canceled[r] ->
           {s \in {"queued", "completed", "failed", "timed_out"} :
               s = "queued" => executions[r] < MaxAttempts}
      [] OTHER -> {}

(* Any number of runs at once: the reaper's statements.                    *)
Leave ==
    /\ state' \in [Runs -> States]
    /\ \A r \in Runs : state'[r] # state[r] => state'[r] \in Onward(r)
    /\ UNCHANGED <<canceled, executions, answer>>

Answer(r) ==
    /\ executions[r] > 0 /\ answer[r] = 0
    /\ answer' = [answer EXCEPT ![r] = answer'[r]] /\ answer'[r] # 0
    /\ UNCHANGED <<state, canceled, executions>>

Next ==
    \/ \E r \in Runs : Enqueue(r) \/ Cancel(r) \/ Start(r) \/ Answer(r)
    \/ Leave

Spec == Init /\ [][Next]_queueVars
=============================================================================

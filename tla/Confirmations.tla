---------------------------- MODULE Confirmations ----------------------------
(***************************************************************************)
(* Confirmations of write tools (agenttool/executor.go): a tool call of a  *)
(* run waits for a manager; the request that approves it commits the       *)
(* decision, executes the stored arguments and records the outcome, each   *)
(* in a transaction of its own.                                            *)
(*                                                                         *)
(* The tool is one that posts a message: its handler refuses when the      *)
(* agent is no member of the chat any more.                                *)
(***************************************************************************)
EXTENDS Naturals

CONSTANTS
    ToolCalls,       \* (run, tool_call_id) of one agent
    Managers,        \* requests of managers under way at a time
    NoCall,
    MaxDisruptions   \* bound on lost requests and failed updates together

ASSUME ConfirmationsAssumption == NoCall \notin ToolCalls /\ MaxDisruptions \in Nat

VARIABLES
    confirmation,  \* agent_tool_confirmations.status, "none" without a row
    lapsedCalls,   \* expires_at <= now()
    running,       \* the run holds its lease
    inScope,       \* allowed_scopes has the scope of the tool
    memberOfChat,
    agentDeleted,
    stage,         \* what a manager's request does next
    target,        \* the tool call it has approved
    scopeRead,     \* inScope, as the decision read it
    went,          \* what the handler returned: "unknown", "done", "refused"
    callRow,       \* agent_tool_calls.status, "none" without a row
    effects,       \* history: messages posted for a tool call
    abandoned,     \* history: approvals whose request was lost
    misreported,   \* history: the update of callRow failed
    disruptions

agentVars == <<running, inScope, memberOfChat, agentDeleted>>
requestStage == <<stage, target, scopeRead, went>>
confirmationVars == <<confirmation, lapsedCalls, agentVars, requestStage, callRow,
                      effects, abandoned, misreported, disruptions>>

Ended == {"denied", "expired", "completed", "failed"}

ConfirmationsTypeOK ==
    /\ confirmation \in [ToolCalls -> {"none", "pending", "approved"} \cup Ended]
    /\ lapsedCalls \subseteq ToolCalls
    /\ running \in BOOLEAN /\ inScope \in BOOLEAN
    /\ memberOfChat \in BOOLEAN /\ agentDeleted \in BOOLEAN
    /\ stage \in [Managers -> {"idle", "check", "handle", "record", "finish"}]
    /\ target \in [Managers -> ToolCalls \cup {NoCall}]
    /\ scopeRead \in [Managers -> BOOLEAN]
    /\ went \in [Managers -> {"unknown", "done", "refused"}]
    /\ callRow \in [ToolCalls -> {"none", "running", "completed", "failed"}]
    /\ effects \in [ToolCalls -> Nat]
    /\ abandoned \subseteq ToolCalls /\ misreported \subseteq ToolCalls
    /\ disruptions \in 0..MaxDisruptions

ConfirmationsInit ==
    /\ confirmation = [c \in ToolCalls |-> "none"] /\ lapsedCalls = {}
    /\ running = TRUE /\ inScope = TRUE /\ memberOfChat = TRUE /\ agentDeleted = FALSE
    /\ stage = [m \in Managers |-> "idle"] /\ target = [m \in Managers |-> NoCall]
    /\ scopeRead = [m \in Managers |-> FALSE] /\ went = [m \in Managers |-> "unknown"]
    /\ callRow = [c \in ToolCalls |-> "none"] /\ effects = [c \in ToolCalls |-> 0]
    /\ abandoned = {} /\ misreported = {} /\ disruptions = 0

Disruption == disruptions < MaxDisruptions /\ disruptions' = disruptions + 1

-----------------------------------------------------------------------------
(* Invoke of a write tool.  The same call again finds its row and adds     *)
(* nothing; the lease is looked at, not whether the agent is deleted.      *)
RequestConfirmation(c) ==
    /\ running /\ inScope /\ confirmation[c] = "none"
    /\ confirmation' = [confirmation EXCEPT ![c] = "pending"]
    /\ UNCHANGED <<lapsedCalls, agentVars, requestStage, callRow, effects, abandoned,
                   misreported, disruptions>>

CallLapses(c) ==
    /\ confirmation[c] = "pending" /\ c \notin lapsedCalls
    /\ lapsedCalls' = lapsedCalls \cup {c}
    /\ UNCHANGED <<confirmation, agentVars, requestStage, callRow, effects, abandoned,
                   misreported, disruptions>>

PastDue(c) == confirmation[c] = "pending" /\ c \in lapsedCalls

ListConfirmations ==
    /\ \E c \in ToolCalls : PastDue(c)
    /\ confirmation' =
          [c \in ToolCalls |-> IF PastDue(c) THEN "expired" ELSE confirmation[c]]
    /\ UNCHANGED <<lapsedCalls, agentVars, requestStage, callRow, effects, abandoned,
                   misreported, disruptions>>

(* DecideConfirmation, to its commit: the row is locked.                   *)
NotLapsed(c) == c \notin lapsedCalls
Decidable(c) == confirmation[c] = "pending" /\ c \notin lapsedCalls

Expire(c) ==
    /\ PastDue(c) /\ ~agentDeleted
    /\ confirmation' = [confirmation EXCEPT ![c] = "expired"]
    /\ UNCHANGED <<lapsedCalls, agentVars, requestStage, callRow, effects, abandoned,
                   misreported, disruptions>>

Deny(c) ==
    /\ Decidable(c) /\ ~agentDeleted
    /\ confirmation' = [confirmation EXCEPT ![c] = "denied"]
    /\ UNCHANGED <<lapsedCalls, agentVars, requestStage, callRow, effects, abandoned,
                   misreported, disruptions>>

Approve(m, c) ==
    /\ stage[m] = "idle" /\ Decidable(c) /\ ~agentDeleted
    /\ confirmation' = [confirmation EXCEPT ![c] = "approved"]
    /\ stage' = [stage EXCEPT ![m] = "check"] /\ target' = [target EXCEPT ![m] = c]
    /\ scopeRead' = [scopeRead EXCEPT ![m] = inScope]
    /\ UNCHANGED <<lapsedCalls, agentVars, went, callRow, effects, abandoned,
                   misreported, disruptions>>

StartCallInScope(m) ==
    /\ stage[m] = "check" /\ scopeRead[m]
    /\ stage' = [stage EXCEPT ![m] = "handle"]
    /\ callRow' = [callRow EXCEPT ![target[m]] = "running"]
    /\ UNCHANGED <<confirmation, lapsedCalls, agentVars, target, scopeRead, went, effects,
                   abandoned, misreported, disruptions>>

(* The scope the decision read; then execute, startCall first.             *)
StartCall(m) ==
    /\ stage[m] = "check"
    /\ IF scopeRead[m]
       THEN /\ stage' = [stage EXCEPT ![m] = "handle"]
            /\ callRow' = [callRow EXCEPT ![target[m]] = "running"]
            /\ UNCHANGED went
       ELSE /\ stage' = [stage EXCEPT ![m] = "finish"]
            /\ went' = [went EXCEPT ![m] = "refused"]
            /\ UNCHANGED callRow
    /\ UNCHANGED <<confirmation, lapsedCalls, agentVars, target, scopeRead, effects,
                   abandoned, misreported, disruptions>>

Handler(m) ==
    /\ stage[m] = "handle"
    /\ stage' = [stage EXCEPT ![m] = "record"]
    /\ went' = [went EXCEPT ![m] = IF memberOfChat THEN "done" ELSE "refused"]
    /\ effects' = [effects EXCEPT ![target[m]] = IF memberOfChat THEN @ + 1 ELSE @]
    /\ UNCHANGED <<confirmation, lapsedCalls, agentVars, target, scopeRead, callRow,
                   abandoned, misreported, disruptions>>

FinishCall(m) ==
    /\ stage[m] = "record"
    /\ stage' = [stage EXCEPT ![m] = "finish"]
    /\ callRow' = [callRow EXCEPT ![target[m]] =
                     IF went[m] = "done" THEN "completed" ELSE "failed"]
    /\ UNCHANGED <<confirmation, lapsedCalls, agentVars, target, scopeRead, went, effects,
                   abandoned, misreported, disruptions>>

(* The record of the call, or the message, cannot be written.              *)
ToolFails(m) ==
    /\ Disruption
    /\ \/ stage[m] = "check" /\ scopeRead[m] /\ stage' = [stage EXCEPT ![m] = "finish"]
       \/ stage[m] = "handle" /\ stage' = [stage EXCEPT ![m] = "record"]
    /\ went' = [went EXCEPT ![m] = "refused"]
    /\ UNCHANGED <<confirmation, lapsedCalls, agentVars, target, scopeRead, callRow,
                   effects, abandoned, misreported>>

(* An error of finishCall is returned as the error of the tool.            *)
FinishCallFails(m) ==
    /\ stage[m] = "record" /\ Disruption
    /\ stage' = [stage EXCEPT ![m] = "finish"]
    /\ went' = [went EXCEPT ![m] = "refused"]
    /\ misreported' = misreported \cup {target[m]}
    /\ UNCHANGED <<confirmation, lapsedCalls, agentVars, target, scopeRead, callRow,
                   effects, abandoned>>

RequestOver(m) ==
    /\ stage' = [stage EXCEPT ![m] = "idle"] /\ target' = [target EXCEPT ![m] = NoCall]
    /\ scopeRead' = [scopeRead EXCEPT ![m] = FALSE]
    /\ went' = [went EXCEPT ![m] = "unknown"]

CompleteConfirmation(m) ==
    /\ stage[m] = "finish"
    /\ confirmation' = [confirmation EXCEPT ![target[m]] = "completed"]
    /\ RequestOver(m)
    /\ UNCHANGED <<lapsedCalls, agentVars, callRow, effects, abandoned, misreported,
                   disruptions>>

FinishConfirmation(m) ==
    /\ stage[m] = "finish"
    /\ confirmation' = [confirmation EXCEPT ![target[m]] =
          IF @ # "approved" THEN @ ELSE IF went[m] = "done" THEN "completed" ELSE "failed"]
    /\ RequestOver(m)
    /\ UNCHANGED <<lapsedCalls, agentVars, callRow, effects, abandoned, misreported,
                   disruptions>>

(* The manager's request is gone, its context with it, or Core restarts.   *)
RequestLost(m) ==
    /\ stage[m] # "idle" /\ Disruption
    /\ abandoned' = abandoned \cup {target[m]}
    /\ RequestOver(m)
    /\ UNCHANGED <<confirmation, lapsedCalls, agentVars, callRow, effects, misreported>>

-----------------------------------------------------------------------------
(* The agent and its run, from elsewhere.                                  *)
RunEnds ==
    /\ running /\ running' = FALSE
    /\ UNCHANGED <<confirmation, lapsedCalls, inScope, memberOfChat, agentDeleted,
                   requestStage, callRow, effects, abandoned, misreported, disruptions>>

ScopeChanges ==
    /\ ~agentDeleted /\ inScope' = ~inScope
    /\ UNCHANGED <<confirmation, lapsedCalls, running, memberOfChat, agentDeleted,
                   requestStage, callRow, effects, abandoned, misreported, disruptions>>

LeavesChat ==
    /\ memberOfChat /\ memberOfChat' = FALSE
    /\ UNCHANGED <<confirmation, lapsedCalls, running, inScope, agentDeleted,
                   requestStage, callRow, effects, abandoned, misreported, disruptions>>

(* Delete denies what is pending; a running run is only asked to stop.     *)
UndecidedOrApproved(c) == confirmation[c] \in {"pending", "approved"}
Undecided(c) == confirmation[c] = "pending"

DeleteAgent ==
    /\ ~agentDeleted /\ agentDeleted' = TRUE /\ memberOfChat' = FALSE
    /\ confirmation' =
          [c \in ToolCalls |-> IF Undecided(c) THEN "denied" ELSE confirmation[c]]
    /\ UNCHANGED <<lapsedCalls, running, inScope, requestStage, callRow, effects,
                   abandoned, misreported, disruptions>>

-----------------------------------------------------------------------------
ConfirmationsNext ==
    \/ \E c \in ToolCalls : RequestConfirmation(c) \/ CallLapses(c) \/ Expire(c) \/ Deny(c)
    \/ \E m \in Managers :
         \/ \E c \in ToolCalls : Approve(m, c)
         \/ StartCall(m) \/ Handler(m) \/ FinishCall(m)
         \/ ToolFails(m) \/ FinishCallFails(m)
         \/ FinishConfirmation(m) \/ RequestLost(m)
    \/ ListConfirmations \/ RunEnds \/ ScopeChanges \/ LeavesChat \/ DeleteAgent

ConfirmationsSpec == ConfirmationsInit /\ [][ConfirmationsNext]_confirmationVars

(* A request of a manager goes on until it is done or lost.                *)
ConfirmationsFairness ==
    \A m \in Managers :
        WF_confirmationVars(StartCall(m) \/ Handler(m) \/ FinishCall(m)
                            \/ FinishConfirmation(m))

ConfirmationsFairSpec == ConfirmationsSpec /\ ConfirmationsFairness

-----------------------------------------------------------------------------
(* A tool call is carried out at most once, and only when it was approved: *)
(* never one that was denied, by a manager or with its agent, or expired,  *)
(* whoever decides at the same time (DecideConfirmation, Delete).          *)
EffectDecided ==
    \A c \in ToolCalls :
        effects[c] > 0 =>
            effects[c] = 1 /\ confirmation[c] \in {"approved", "completed", "failed"}

(* What a manager is told is what happened: a completed confirmation was   *)
(* carried out, a failed one was not, unless the update of its tool call   *)
(* failed after the message was posted (execute, finishConfirmation).      *)
OutcomeTrue ==
    \A c \in ToolCalls :
        /\ confirmation[c] = "completed" => effects[c] = 1
        /\ confirmation[c] = "failed" => effects[c] = 0 \/ c \in misreported

(* A decision is final: only the request that approved goes on to record   *)
(* an outcome.                                                             *)
DecisionStands ==
    [][\A c \in ToolCalls :
          /\ confirmation[c] \in Ended => confirmation'[c] = confirmation[c]
          /\ confirmation[c] = "approved"
                => confirmation'[c] \in {"approved", "completed", "failed"}]_confirmationVars

(* To the managers a call is decided once and carried out at most once,    *)
(* while it stands approved: the decision, the handler and the report are  *)
(* three transactions, and lapses, other managers, the deletion of the     *)
(* agent and lost requests come between them.                              *)
Decided == INSTANCE Approval WITH decision <- confirmation, carried <- effects
ApprovalKept == Decided!Spec

(* An approved call is completed or failed in the end, unless the request  *)
(* that approved it was lost: nothing else ever takes it up.               *)
ApprovalEnds ==
    \A c \in ToolCalls :
        (confirmation[c] = "approved")
            ~> (confirmation[c] \in {"completed", "failed"} \/ c \in abandoned)
=============================================================================

------------------------------ MODULE Approval ------------------------------
(***************************************************************************)
(* What a confirmation promises to the managers of an agent: a tool call   *)
(* is decided once, it is carried out only while it stands approved, and   *)
(* once, and it is reported as completed only if it was.  Requests, rows   *)
(* of tool calls, scopes and leases are not part of it.  Confirmations     *)
(* implements this.                                                        *)
(***************************************************************************)
EXTENDS Naturals

CONSTANT ToolCalls

VARIABLES
    decision,
    carried    \* how often the call was carried out

approvalVars == <<decision, carried>>

Init ==
    /\ decision = [c \in ToolCalls |-> "none"]
    /\ carried = [c \in ToolCalls |-> 0]

Ask(c) ==
    /\ decision[c] = "none"
    /\ decision' = [decision EXCEPT ![c] = "pending"]
    /\ UNCHANGED carried

Approve(c) ==
    /\ decision[c] = "pending"
    /\ decision' = [decision EXCEPT ![c] = "approved"]
    /\ UNCHANGED carried

(* One by one, or all at once when they are listed or the agent goes.      *)
TurnDown(S, verdict) ==
    /\ \A c \in S : decision[c] = "pending"
    /\ decision' = [c \in ToolCalls |-> IF c \in S THEN verdict ELSE decision[c]]
    /\ UNCHANGED carried

CarryOut(c) ==
    /\ decision[c] = "approved" /\ carried[c] = 0
    /\ carried' = [carried EXCEPT ![c] = 1]
    /\ UNCHANGED decision

(* A call that was carried out may be reported as failed: its record was   *)
(* lost.                                                                   *)
Report(c, outcome) ==
    /\ decision[c] = "approved"
    /\ outcome = "completed" => carried[c] = 1
    /\ decision' = [decision EXCEPT ![c] = outcome]
    /\ UNCHANGED carried

Next ==
    \/ \E c \in ToolCalls :
         \/ Ask(c) \/ Approve(c) \/ CarryOut(c)
         \/ \E outcome \in {"completed", "failed"} : Report(c, outcome)
    \/ \E S \in SUBSET ToolCalls, verdict \in {"denied", "expired"} : TurnDown(S, verdict)

Spec == Init /\ [][Next]_approvalVars
=============================================================================

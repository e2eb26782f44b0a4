------------------------- MODULE AgentPlatformProofs -------------------------
(***************************************************************************)
(* Confirmations are correct for any number of tool calls, of requests of  *)
(* managers at a time, and of lost requests and failed updates; triggers   *)
(* for any number of agents, slots, replicas, messages and changes of      *)
(* administrators, and any limits of depth and size of a batch.            *)
(***************************************************************************)
EXTENDS Confirmations, Triggers, TLAPS

(* A request that has approved a call is the only one for it, and the call *)
(* stays approved until that request records the outcome.                  *)
OneRequest ==
    /\ \A m \in Managers :
         /\ stage[m] # "idle" => target[m] \in ToolCalls
         /\ target[m] \in ToolCalls => confirmation[target[m]] = "approved"
    /\ \A m, n \in Managers : target[m] = target[n] => m = n \/ target[m] = NoCall

(* What a request knows of the message it has posted, or has not.          *)
RequestKnows ==
    \A m \in Managers :
        /\ stage[m] \in {"check", "handle"} => effects[target[m]] = 0
        /\ stage[m] = "record" => went[m] # "unknown" /\
             effects[target[m]] = (IF went[m] = "done" THEN 1 ELSE 0)
        /\ stage[m] = "finish" =>
             /\ went[m] = "done" => effects[target[m]] = 1
             /\ went[m] # "done" => effects[target[m]] = 0 \/ target[m] \in misreported

ConfirmationsInv ==
    ConfirmationsTypeOK /\ OneRequest /\ RequestKnows /\ EffectDecided /\ OutcomeTrue

-----------------------------------------------------------------------------
(* Initially nothing waits for a decision.                                 *)
LEMMA ConfirmationsInvInit == ConfirmationsInit => ConfirmationsInv
  <1> USE ConfirmationsAssumption DEF ConfirmationsInit
  <1>1. ConfirmationsInit => ConfirmationsTypeOK
    <2> SUFFICES ASSUME ConfirmationsInit PROVE ConfirmationsTypeOK  OBVIOUS
    <2>1. /\ confirmation \in [ToolCalls -> {"none", "pending", "approved"} \cup Ended]
          /\ callRow \in [ToolCalls -> {"none", "running", "completed", "failed"}]
          /\ effects \in [ToolCalls -> Nat]
      OBVIOUS
    <2>2. /\ stage \in [Managers -> {"idle", "check", "handle", "record", "finish"}]
          /\ target \in [Managers -> ToolCalls \cup {NoCall}]
      OBVIOUS
    <2>3. /\ scopeRead \in [Managers -> BOOLEAN]
          /\ went \in [Managers -> {"unknown", "done", "refused"}]
      OBVIOUS
    <2>4. /\ lapsedCalls \subseteq ToolCalls /\ abandoned \subseteq ToolCalls
          /\ misreported \subseteq ToolCalls /\ disruptions \in 0..MaxDisruptions
      OBVIOUS
    <2>5. /\ running \in BOOLEAN /\ inScope \in BOOLEAN
          /\ memberOfChat \in BOOLEAN /\ agentDeleted \in BOOLEAN
      OBVIOUS
    <2> HIDE DEF ConfirmationsInit
    <2> QED  BY <2>1, <2>2, <2>3, <2>4, <2>5, Zenon DEF ConfirmationsTypeOK
  <1>2. ConfirmationsInit => OneRequest /\ RequestKnows  BY DEF OneRequest, RequestKnows
  <1>3. ConfirmationsInit => EffectDecided /\ OutcomeTrue  BY DEF EffectDecided, OutcomeTrue
  <1> QED  BY <1>1, <1>2, <1>3 DEF ConfirmationsInv

(* Types.                                                                  *)
LEMMA ConfirmationsTypeStep ==
    ASSUME ConfirmationsTypeOK, OneRequest, ConfirmationsNext PROVE ConfirmationsTypeOK'
  <1> USE ConfirmationsAssumption DEF ConfirmationsTypeOK, Ended, agentVars, requestStage,
      OneRequest
  <1>1. ASSUME NEW c \in ToolCalls, RequestConfirmation(c) PROVE ConfirmationsTypeOK'
    BY <1>1 DEF RequestConfirmation
  <1>2. ASSUME NEW c \in ToolCalls, CallLapses(c) PROVE ConfirmationsTypeOK'
    BY <1>2 DEF CallLapses
  <1>3. ASSUME NEW c \in ToolCalls, Expire(c) PROVE ConfirmationsTypeOK'
    BY <1>3 DEF Expire, PastDue
  <1>4. ASSUME NEW c \in ToolCalls, Deny(c) PROVE ConfirmationsTypeOK'
    BY <1>4 DEF Deny, Decidable
  <1>5. ASSUME NEW m \in Managers, NEW c \in ToolCalls, Approve(m, c) PROVE ConfirmationsTypeOK'
    BY <1>5 DEF Approve, Decidable
  <1>6. ASSUME NEW m \in Managers, StartCall(m) PROVE ConfirmationsTypeOK'
    BY <1>6 DEF StartCall
  <1>7. ASSUME NEW m \in Managers, Handler(m) PROVE ConfirmationsTypeOK'
    BY <1>7 DEF Handler
  <1>8. ASSUME NEW m \in Managers, FinishCall(m) PROVE ConfirmationsTypeOK'
    BY <1>8 DEF FinishCall
  <1>9. ASSUME NEW m \in Managers, FinishCallFails(m) PROVE ConfirmationsTypeOK'
    BY <1>9 DEF FinishCallFails, Disruption
  <1>10. ASSUME NEW m \in Managers, FinishConfirmation(m) PROVE ConfirmationsTypeOK'
    BY <1>10 DEF FinishConfirmation, RequestOver
  <1>11. ASSUME NEW m \in Managers, RequestLost(m) PROVE ConfirmationsTypeOK'
    BY <1>11 DEF RequestLost, RequestOver, Disruption
  <1>12. ASSUME ListConfirmations PROVE ConfirmationsTypeOK'
    BY <1>12 DEF ListConfirmations, PastDue
  <1>13. ASSUME RunEnds \/ ScopeChanges \/ LeavesChat PROVE ConfirmationsTypeOK'
    BY <1>13 DEF RunEnds, ScopeChanges, LeavesChat
  <1>14. ASSUME DeleteAgent PROVE ConfirmationsTypeOK'
    BY <1>14 DEF DeleteAgent, Undecided
  <1>15. ASSUME NEW m \in Managers, ToolFails(m) PROVE ConfirmationsTypeOK'
    BY <1>15 DEF ToolFails, Disruption
  <1> QED
    BY <1>1, <1>2, <1>3, <1>4, <1>5, <1>6, <1>7, <1>8, <1>9, <1>10, <1>11, <1>12, <1>13, <1>14,
       <1>15
    DEF ConfirmationsNext

(* A pending call has no request, an approved one the one that approved it.*)
LEMMA OneRequestStep ==
    ASSUME ConfirmationsTypeOK, OneRequest, ConfirmationsNext PROVE OneRequest'
  <1> USE ConfirmationsAssumption DEF ConfirmationsTypeOK, Ended, agentVars, requestStage,
      OneRequest
  <1>1. ASSUME NEW c \in ToolCalls, RequestConfirmation(c) PROVE OneRequest'
    BY <1>1 DEF RequestConfirmation
  <1>2. ASSUME NEW c \in ToolCalls, CallLapses(c) PROVE OneRequest'
    BY <1>2 DEF CallLapses
  <1>3. ASSUME NEW c \in ToolCalls, Expire(c) PROVE OneRequest'
    BY <1>3 DEF Expire, PastDue
  <1>4. ASSUME NEW c \in ToolCalls, Deny(c) PROVE OneRequest'
    BY <1>4 DEF Deny, Decidable
  <1>5. ASSUME NEW m \in Managers, NEW c \in ToolCalls, Approve(m, c) PROVE OneRequest'
    BY <1>5 DEF Approve, Decidable
  <1>6. ASSUME NEW m \in Managers, StartCall(m) PROVE OneRequest'
    BY <1>6 DEF StartCall
  <1>7. ASSUME NEW m \in Managers, Handler(m) PROVE OneRequest'
    BY <1>7 DEF Handler
  <1>8. ASSUME NEW m \in Managers, FinishCall(m) PROVE OneRequest'
    BY <1>8 DEF FinishCall
  <1>9. ASSUME NEW m \in Managers, FinishCallFails(m) PROVE OneRequest'
    BY <1>9 DEF FinishCallFails, Disruption
  <1>10. ASSUME NEW m \in Managers, FinishConfirmation(m) PROVE OneRequest'
    BY <1>10 DEF FinishConfirmation, RequestOver
  <1>11. ASSUME NEW m \in Managers, RequestLost(m) PROVE OneRequest'
    BY <1>11 DEF RequestLost, RequestOver, Disruption
  <1>12. ASSUME ListConfirmations PROVE OneRequest'
    BY <1>12 DEF ListConfirmations, PastDue
  <1>13. ASSUME RunEnds \/ ScopeChanges \/ LeavesChat PROVE OneRequest'
    BY <1>13 DEF RunEnds, ScopeChanges, LeavesChat
  <1>14. ASSUME DeleteAgent PROVE OneRequest'
    BY <1>14 DEF DeleteAgent, Undecided
  <1>15. ASSUME NEW m \in Managers, ToolFails(m) PROVE OneRequest'
    BY <1>15 DEF ToolFails, Disruption
  <1> QED
    BY <1>1, <1>2, <1>3, <1>4, <1>5, <1>6, <1>7, <1>8, <1>9, <1>10, <1>11, <1>12, <1>13, <1>14,
       <1>15
    DEF ConfirmationsNext

(* A call is carried out by its own request alone.                         *)
LEMMA RequestKnowsStep ==
    ASSUME ConfirmationsTypeOK, OneRequest, RequestKnows, EffectDecided, ConfirmationsNext
    PROVE  RequestKnows'
  <1> USE ConfirmationsAssumption DEF ConfirmationsTypeOK, Ended, agentVars, requestStage,
      OneRequest, RequestKnows, EffectDecided
  <1>1. ASSUME NEW c \in ToolCalls, RequestConfirmation(c) PROVE RequestKnows'
    BY <1>1 DEF RequestConfirmation
  <1>2. ASSUME NEW c \in ToolCalls, CallLapses(c) PROVE RequestKnows'
    BY <1>2 DEF CallLapses
  <1>3. ASSUME NEW c \in ToolCalls, Expire(c) PROVE RequestKnows'
    BY <1>3 DEF Expire, PastDue
  <1>4. ASSUME NEW c \in ToolCalls, Deny(c) PROVE RequestKnows'
    BY <1>4 DEF Deny, Decidable
  <1>5. ASSUME NEW m \in Managers, NEW c \in ToolCalls, Approve(m, c) PROVE RequestKnows'
    BY <1>5 DEF Approve, Decidable
  <1>6. ASSUME NEW m \in Managers, StartCall(m) PROVE RequestKnows'
    BY <1>6 DEF StartCall
  <1>7. ASSUME NEW m \in Managers, Handler(m) PROVE RequestKnows'
    BY <1>7 DEF Handler
  <1>8. ASSUME NEW m \in Managers, FinishCall(m) PROVE RequestKnows'
    BY <1>8 DEF FinishCall
  <1>9. ASSUME NEW m \in Managers, FinishCallFails(m) PROVE RequestKnows'
    BY <1>9 DEF FinishCallFails, Disruption
  <1>10. ASSUME NEW m \in Managers, FinishConfirmation(m) PROVE RequestKnows'
    BY <1>10 DEF FinishConfirmation, RequestOver
  <1>11. ASSUME NEW m \in Managers, RequestLost(m) PROVE RequestKnows'
    BY <1>11 DEF RequestLost, RequestOver, Disruption
  <1>12. ASSUME ListConfirmations PROVE RequestKnows'
    BY <1>12 DEF ListConfirmations, PastDue
  <1>13. ASSUME RunEnds \/ ScopeChanges \/ LeavesChat PROVE RequestKnows'
    BY <1>13 DEF RunEnds, ScopeChanges, LeavesChat
  <1>14. ASSUME DeleteAgent PROVE RequestKnows'
    BY <1>14 DEF DeleteAgent, Undecided
  <1>15. ASSUME NEW m \in Managers, ToolFails(m) PROVE RequestKnows'
    BY <1>15 DEF ToolFails, Disruption
  <1> QED
    BY <1>1, <1>2, <1>3, <1>4, <1>5, <1>6, <1>7, <1>8, <1>9, <1>10, <1>11, <1>12, <1>13, <1>14,
       <1>15
    DEF ConfirmationsNext

(* The handler runs for an approved call, and once.                        *)
LEMMA EffectStep ==
    ASSUME ConfirmationsTypeOK, OneRequest, RequestKnows, EffectDecided, ConfirmationsNext
    PROVE  EffectDecided'
  <1> USE ConfirmationsAssumption DEF ConfirmationsTypeOK, Ended, agentVars, requestStage,
      OneRequest, RequestKnows, EffectDecided
  <1>1. ASSUME NEW c \in ToolCalls, RequestConfirmation(c) PROVE EffectDecided'
    BY <1>1 DEF RequestConfirmation
  <1>2. ASSUME NEW c \in ToolCalls, CallLapses(c) PROVE EffectDecided'
    BY <1>2 DEF CallLapses
  <1>3. ASSUME NEW c \in ToolCalls, Expire(c) PROVE EffectDecided'
    BY <1>3 DEF Expire, PastDue
  <1>4. ASSUME NEW c \in ToolCalls, Deny(c) PROVE EffectDecided'
    BY <1>4 DEF Deny, Decidable
  <1>5. ASSUME NEW m \in Managers, NEW c \in ToolCalls, Approve(m, c) PROVE EffectDecided'
    BY <1>5 DEF Approve, Decidable
  <1>6. ASSUME NEW m \in Managers, StartCall(m) PROVE EffectDecided'
    BY <1>6 DEF StartCall
  <1>7. ASSUME NEW m \in Managers, Handler(m) PROVE EffectDecided'
    BY <1>7 DEF Handler
  <1>8. ASSUME NEW m \in Managers, FinishCall(m) PROVE EffectDecided'
    BY <1>8 DEF FinishCall
  <1>9. ASSUME NEW m \in Managers, FinishCallFails(m) PROVE EffectDecided'
    BY <1>9 DEF FinishCallFails, Disruption
  <1>10. ASSUME NEW m \in Managers, FinishConfirmation(m) PROVE EffectDecided'
    BY <1>10 DEF FinishConfirmation, RequestOver
  <1>11. ASSUME NEW m \in Managers, RequestLost(m) PROVE EffectDecided'
    BY <1>11 DEF RequestLost, RequestOver, Disruption
  <1>12. ASSUME ListConfirmations PROVE EffectDecided'
    BY <1>12 DEF ListConfirmations, PastDue
  <1>13. ASSUME RunEnds \/ ScopeChanges \/ LeavesChat PROVE EffectDecided'
    BY <1>13 DEF RunEnds, ScopeChanges, LeavesChat
  <1>14. ASSUME DeleteAgent PROVE EffectDecided'
    BY <1>14 DEF DeleteAgent, Undecided
  <1>15. ASSUME NEW m \in Managers, ToolFails(m) PROVE EffectDecided'
    BY <1>15 DEF ToolFails, Disruption
  <1> QED
    BY <1>1, <1>2, <1>3, <1>4, <1>5, <1>6, <1>7, <1>8, <1>9, <1>10, <1>11, <1>12, <1>13, <1>14,
       <1>15
    DEF ConfirmationsNext

(* What is recorded is what the request knows.                             *)
LEMMA OutcomeStep ==
    ASSUME ConfirmationsTypeOK, OneRequest, RequestKnows, EffectDecided, OutcomeTrue,
           ConfirmationsNext
    PROVE  OutcomeTrue'
  <1> USE ConfirmationsAssumption DEF ConfirmationsTypeOK, Ended, agentVars, requestStage,
      OneRequest, RequestKnows, EffectDecided, OutcomeTrue
  <1>1. ASSUME NEW c \in ToolCalls, RequestConfirmation(c) PROVE OutcomeTrue'
    BY <1>1 DEF RequestConfirmation
  <1>2. ASSUME NEW c \in ToolCalls, CallLapses(c) PROVE OutcomeTrue'
    BY <1>2 DEF CallLapses
  <1>3. ASSUME NEW c \in ToolCalls, Expire(c) PROVE OutcomeTrue'
    BY <1>3 DEF Expire, PastDue
  <1>4. ASSUME NEW c \in ToolCalls, Deny(c) PROVE OutcomeTrue'
    BY <1>4 DEF Deny, Decidable
  <1>5. ASSUME NEW m \in Managers, NEW c \in ToolCalls, Approve(m, c) PROVE OutcomeTrue'
    BY <1>5 DEF Approve, Decidable
  <1>6. ASSUME NEW m \in Managers, StartCall(m) PROVE OutcomeTrue'
    BY <1>6 DEF StartCall
  <1>7. ASSUME NEW m \in Managers, Handler(m) PROVE OutcomeTrue'
    BY <1>7 DEF Handler
  <1>8. ASSUME NEW m \in Managers, FinishCall(m) PROVE OutcomeTrue'
    BY <1>8 DEF FinishCall
  <1>9. ASSUME NEW m \in Managers, FinishCallFails(m) PROVE OutcomeTrue'
    BY <1>9 DEF FinishCallFails, Disruption
  <1>10. ASSUME NEW m \in Managers, FinishConfirmation(m) PROVE OutcomeTrue'
    BY <1>10 DEF FinishConfirmation, RequestOver
  <1>11. ASSUME NEW m \in Managers, RequestLost(m) PROVE OutcomeTrue'
    BY <1>11 DEF RequestLost, RequestOver, Disruption
  <1>12. ASSUME ListConfirmations PROVE OutcomeTrue'
    BY <1>12 DEF ListConfirmations, PastDue
  <1>13. ASSUME RunEnds \/ ScopeChanges \/ LeavesChat PROVE OutcomeTrue'
    BY <1>13 DEF RunEnds, ScopeChanges, LeavesChat
  <1>14. ASSUME DeleteAgent PROVE OutcomeTrue'
    BY <1>14 DEF DeleteAgent, Undecided
  <1>15. ASSUME NEW m \in Managers, ToolFails(m) PROVE OutcomeTrue'
    BY <1>15 DEF ToolFails, Disruption
  <1> QED
    BY <1>1, <1>2, <1>3, <1>4, <1>5, <1>6, <1>7, <1>8, <1>9, <1>10, <1>11, <1>12, <1>13, <1>14,
       <1>15
    DEF ConfirmationsNext

(* Every step preserves the invariant.                                     *)
LEMMA ConfirmationsInvStep ==
    ConfirmationsInv /\ [ConfirmationsNext]_confirmationVars => ConfirmationsInv'
  <1> SUFFICES ASSUME ConfirmationsInv, [ConfirmationsNext]_confirmationVars
               PROVE  ConfirmationsInv'
    OBVIOUS
  <1>1. CASE ConfirmationsNext
    BY <1>1, ConfirmationsTypeStep, OneRequestStep, RequestKnowsStep, EffectStep, OutcomeStep
    DEF ConfirmationsInv
  <1>2. CASE UNCHANGED confirmationVars
    BY <1>2
    DEF confirmationVars, agentVars, requestStage, ConfirmationsInv, ConfirmationsTypeOK,
        OneRequest, RequestKnows, EffectDecided, OutcomeTrue
  <1> QED  BY <1>1, <1>2

-----------------------------------------------------------------------------
(* The invariant and what it rests on (executor.go: the row locks of       *)
(* DecideConfirmation, the conditions of finishConfirmation).              *)
THEOREM ConfirmationsCorrect == ConfirmationsSpec => []ConfirmationsInv
  BY ConfirmationsInvInit, ConfirmationsInvStep, PTL DEF ConfirmationsSpec

(* A tool call is carried out at most once, and only if it was approved.   *)
THEOREM EffectsAreDecided == ConfirmationsSpec => []EffectDecided
  <1>1. ConfirmationsInv => EffectDecided  BY DEF ConfirmationsInv
  <1> QED  BY <1>1, ConfirmationsCorrect, PTL

(* What is reported of a tool call is what happened.                       *)
THEOREM OutcomesAreTrue == ConfirmationsSpec => []OutcomeTrue
  <1>1. ConfirmationsInv => OutcomeTrue  BY DEF ConfirmationsInv
  <1> QED  BY <1>1, ConfirmationsCorrect, PTL

(* A decision is final.                                                    *)
THEOREM DecisionsStand == ConfirmationsSpec => DecisionStands
  <1> DEFINE Kept ==
        \A c \in ToolCalls :
            /\ confirmation[c] \in Ended => confirmation'[c] = confirmation[c]
            /\ confirmation[c] = "approved"
                  => confirmation'[c] \in {"approved", "completed", "failed"}
  <1>1. ASSUME ConfirmationsTypeOK, OneRequest, ConfirmationsNext PROVE Kept
    <2> USE <1>1 DEF ConfirmationsTypeOK, Ended, OneRequest
    <2>1. ASSUME NEW c \in ToolCalls, RequestConfirmation(c) PROVE Kept
      BY <2>1 DEF RequestConfirmation
    <2>2. ASSUME NEW c \in ToolCalls, CallLapses(c) PROVE Kept
      BY <2>2 DEF CallLapses
    <2>3. ASSUME NEW c \in ToolCalls, Expire(c) PROVE Kept
      BY <2>3 DEF Expire, PastDue
    <2>4. ASSUME NEW c \in ToolCalls, Deny(c) PROVE Kept
      BY <2>4 DEF Deny, Decidable
    <2>5. ASSUME NEW m \in Managers, NEW c \in ToolCalls, Approve(m, c) PROVE Kept
      BY <2>5 DEF Approve, Decidable
    <2>6. ASSUME NEW m \in Managers, StartCall(m) PROVE Kept
      BY <2>6 DEF StartCall
    <2>7. ASSUME NEW m \in Managers, Handler(m) PROVE Kept
      BY <2>7 DEF Handler
    <2>8. ASSUME NEW m \in Managers, FinishCall(m) PROVE Kept
      BY <2>8 DEF FinishCall
    <2>9. ASSUME NEW m \in Managers, FinishCallFails(m) PROVE Kept
      BY <2>9 DEF FinishCallFails, Disruption
    <2>10. ASSUME NEW m \in Managers, FinishConfirmation(m) PROVE Kept
      BY <2>10 DEF FinishConfirmation, RequestOver
    <2>11. ASSUME NEW m \in Managers, RequestLost(m) PROVE Kept
      BY <2>11 DEF RequestLost, RequestOver, Disruption
    <2>12. ASSUME ListConfirmations PROVE Kept
      BY <2>12 DEF ListConfirmations, PastDue
    <2>13. ASSUME RunEnds \/ ScopeChanges \/ LeavesChat PROVE Kept
      BY <2>13 DEF RunEnds, ScopeChanges, LeavesChat
    <2>14. ASSUME DeleteAgent PROVE Kept
      BY <2>14 DEF DeleteAgent, Undecided
    <2>15. ASSUME NEW m \in Managers, ToolFails(m) PROVE Kept
      BY <2>15 DEF ToolFails, Disruption
    <2> QED
      BY <1>1, <2>1, <2>2, <2>3, <2>4, <2>5, <2>6, <2>7, <2>8, <2>9, <2>10, <2>11, <2>12, <2>13,
          <2>14, <2>15
      DEF ConfirmationsNext
  <1>2. ConfirmationsInv /\ [ConfirmationsNext]_confirmationVars => [Kept]_confirmationVars
    BY <1>1 DEF ConfirmationsInv
  <1> QED  BY <1>2, ConfirmationsCorrect, PTL DEF ConfirmationsSpec, DecisionStands

-----------------------------------------------------------------------------
(* Every step of a confirmation is one of Approval, or none.               *)
LEMMA ApprovalInit == ConfirmationsInit => Decided!Init
  BY DEF ConfirmationsInit, Decided!Init

LEMMA ApprovalStep ==
    ASSUME ConfirmationsInv, [ConfirmationsNext]_confirmationVars
    PROVE  [Decided!Next]_<<confirmation, effects>>
  <1> DEFINE Goal == [Decided!Next]_<<confirmation, effects>>
  <1>0. ConfirmationsTypeOK /\ OneRequest /\ RequestKnows
    BY DEF ConfirmationsInv
  <1>1. CASE UNCHANGED <<confirmation, effects>>
    BY <1>1
  <1>2. ASSUME NEW c \in ToolCalls, RequestConfirmation(c) PROVE Goal
    <2>1. Decided!Ask(c)  BY <1>2 DEF RequestConfirmation, Decided!Ask
    <2> QED  BY <2>1 DEF Decided!Next
  <1>3. ASSUME NEW S \in SUBSET ToolCalls, NEW verdict \in {"denied", "expired"},
               \A c \in S : confirmation[c] = "pending",
               confirmation' = [c \in ToolCalls |->
                                  IF c \in S THEN verdict ELSE confirmation[c]],
               effects' = effects
        PROVE  Goal
    <2>1. Decided!TurnDown(S, verdict)  BY <1>3 DEF Decided!TurnDown
    <2> QED  BY <2>1 DEF Decided!Next
  <1>4. ASSUME NEW c \in ToolCalls, Expire(c) \/ Deny(c) PROVE Goal
    <2>1. PICK verdict \in {"denied", "expired"} :
            /\ confirmation' = [confirmation EXCEPT ![c] = verdict]
            /\ confirmation[c] = "pending" /\ effects' = effects
      BY <1>4 DEF Expire, Deny, PastDue, Decidable
    <2>2. confirmation' = [d \in ToolCalls |-> IF d \in {c} THEN verdict ELSE confirmation[d]]
      BY <1>0, <2>1 DEF ConfirmationsTypeOK
    <2>3. {c} \in SUBSET ToolCalls /\ \A d \in {c} : confirmation[d] = "pending"
      BY <2>1
    <2> HIDE DEF Goal
    <2> QED  BY <1>3, <2>1, <2>2, <2>3
  <1>5. ASSUME ListConfirmations PROVE Goal
    <2> DEFINE S == {c \in ToolCalls : PastDue(c)}
    <2>1. /\ confirmation' = [c \in ToolCalls |-> IF c \in S THEN "expired" ELSE confirmation[c]]
          /\ \A c \in S : confirmation[c] = "pending"
          /\ effects' = effects
      BY <1>5 DEF ListConfirmations, PastDue
    <2>2. S \in SUBSET ToolCalls  OBVIOUS
    <2> HIDE DEF Goal, S
    <2> QED  BY <1>3, <2>1, <2>2
  <1>6. ASSUME DeleteAgent PROVE Goal
    <2> DEFINE S == {c \in ToolCalls : Undecided(c)}
    <2>1. /\ confirmation' = [c \in ToolCalls |-> IF c \in S THEN "denied" ELSE confirmation[c]]
          /\ \A c \in S : confirmation[c] = "pending"
          /\ effects' = effects
      BY <1>6 DEF DeleteAgent, Undecided
    <2>2. S \in SUBSET ToolCalls  OBVIOUS
    <2> HIDE DEF Goal, S
    <2> QED  BY <1>3, <2>1, <2>2
  <1>7. ASSUME NEW m \in Managers, NEW c \in ToolCalls, Approve(m, c) PROVE Goal
    <2>1. Decided!Approve(c)  BY <1>7 DEF Approve, Decidable, Decided!Approve
    <2> QED  BY <2>1 DEF Decided!Next
  <1>8. ASSUME NEW m \in Managers, Handler(m) PROVE Goal
    <2> DEFINE c == target[m]
    <2>1. /\ stage[m] = "handle" /\ c \in ToolCalls
          /\ confirmation[c] = "approved" /\ effects[c] = 0
      BY <1>0, <1>8 DEF Handler, OneRequest, RequestKnows
    <2>2. confirmation' = confirmation
      BY <1>8 DEF Handler
    <2>3. CASE memberOfChat
      <3>1. effects' = [effects EXCEPT ![c] = 1]
        BY <1>0, <1>8, <2>1, <2>3 DEF Handler, ConfirmationsTypeOK
      <3>2. Decided!CarryOut(c)  BY <2>1, <2>2, <3>1 DEF Decided!CarryOut
      <3> QED  BY <2>1, <3>2 DEF Decided!Next
    <2>4. CASE ~memberOfChat
      <3>1. effects' = effects
        BY <1>0, <1>8, <2>1, <2>4 DEF Handler, ConfirmationsTypeOK
      <3> QED  BY <2>2, <3>1
    <2> QED  BY <2>3, <2>4
  <1>9. ASSUME NEW m \in Managers, FinishConfirmation(m) PROVE Goal
    <2> DEFINE c == target[m]
               outcome == IF went[m] = "done" THEN "completed" ELSE "failed"
    <2>1. /\ stage[m] = "finish" /\ c \in ToolCalls /\ confirmation[c] = "approved"
          /\ (went[m] = "done" => effects[c] = 1)
      BY <1>0, <1>9 DEF FinishConfirmation, OneRequest, RequestKnows
    <2>2. confirmation' = [confirmation EXCEPT ![c] = outcome] /\ effects' = effects
      BY <1>0, <1>9, <2>1 DEF FinishConfirmation, ConfirmationsTypeOK
    <2>3. Decided!Report(c, outcome)  BY <2>1, <2>2 DEF Decided!Report
    <2>4. outcome \in {"completed", "failed"}  OBVIOUS
    <2> HIDE DEF outcome, c
    <2>5. c \in ToolCalls  BY <2>1
    <2> QED  BY <2>3, <2>4, <2>5 DEF Decided!Next
  <1>10. ASSUME ~UNCHANGED <<confirmation, effects>>
         PROVE  \/ \E c \in ToolCalls : RequestConfirmation(c) \/ Expire(c) \/ Deny(c)
                \/ \E m \in Managers : \/ \E c \in ToolCalls : Approve(m, c)
                                      \/ Handler(m) \/ FinishConfirmation(m)
                \/ ListConfirmations \/ DeleteAgent
    BY <1>10 DEF ConfirmationsNext, confirmationVars, CallLapses, StartCall, FinishCall,
                 ToolFails, FinishCallFails, RequestLost, RunEnds, ScopeChanges, LeavesChat
  <1>11. CASE ~UNCHANGED <<confirmation, effects>>
    BY <1>2, <1>4, <1>5, <1>6, <1>7, <1>8, <1>9, <1>10, <1>11, Zenon
  <1> QED  BY <1>1, <1>11

(* What managers see is one decision, one execution while it stands, and   *)
(* one report: DecideConfirmation, the handler and finishConfirmation are  *)
(* transactions apart, and whatever comes between them shows as nothing    *)
(* else.                                                                   *)
THEOREM ConfirmationsRefine == ConfirmationsSpec => ApprovalKept
  <1>1. ConfirmationsInit => Decided!Init  BY ApprovalInit
  <1>2. ConfirmationsInv /\ [ConfirmationsNext]_confirmationVars
        => [Decided!Next]_<<confirmation, effects>>
    BY ApprovalStep
  <1> QED  BY <1>1, <1>2, ConfirmationsCorrect, PTL
           DEF ConfirmationsSpec, ApprovalKept, Decided!Spec, Decided!approvalVars

(* What Approval promises is by itself enough: whatever is decided and     *)
(* carried out as it says is carried out once at most, and never after it  *)
(* was denied or has expired, and reported as completed only if it was.    *)
ApprovalInv ==
    /\ DOMAIN confirmation = ToolCalls /\ effects \in [ToolCalls -> {0, 1}]
    /\ EffectDecided
    /\ \A c \in ToolCalls : confirmation[c] = "completed" => effects[c] = 1

LEMMA ApprovalInvStep == ApprovalInv /\ [Decided!Next]_(Decided!approvalVars) => ApprovalInv'
  <1> SUFFICES ASSUME ApprovalInv, [Decided!Next]_(Decided!approvalVars) PROVE ApprovalInv'
    OBVIOUS
  <1> USE DEF ApprovalInv, EffectDecided
  <1>1. ASSUME NEW c \in ToolCalls, Decided!Ask(c) PROVE ApprovalInv'
    BY <1>1, SMT DEF Decided!Ask
  <1>2. ASSUME NEW c \in ToolCalls, Decided!Approve(c) PROVE ApprovalInv'
    BY <1>2, SMT DEF Decided!Approve
  <1>3. ASSUME NEW c \in ToolCalls, Decided!CarryOut(c) PROVE ApprovalInv'
    BY <1>3, SMT DEF Decided!CarryOut
  <1>4. ASSUME NEW c \in ToolCalls, NEW outcome \in {"completed", "failed"},
               Decided!Report(c, outcome) PROVE ApprovalInv'
    BY <1>4, SMT DEF Decided!Report
  <1>5. ASSUME NEW S \in SUBSET ToolCalls, NEW verdict \in {"denied", "expired"},
               Decided!TurnDown(S, verdict) PROVE ApprovalInv'
    BY <1>5, SMT DEF Decided!TurnDown
  <1>6. CASE UNCHANGED Decided!approvalVars
    BY <1>6 DEF Decided!approvalVars
  <1> QED  BY <1>1, <1>2, <1>3, <1>4, <1>5, <1>6, Zenon DEF Decided!Next

(* A tool call of an agent is carried out at most once and only as decided *)
(* (DecideConfirmation) wherever Approval is kept.                         *)
THEOREM ApprovalPromises == ApprovalKept => []EffectDecided
  <1>1. Decided!Init => ApprovalInv
    BY SMT DEF Decided!Init, ApprovalInv, EffectDecided
  <1>2. ApprovalInv /\ [Decided!Next]_(Decided!approvalVars) => ApprovalInv'
    BY ApprovalInvStep
  <1>3. ApprovalInv => EffectDecided  BY DEF ApprovalInv
  <1> QED
    BY <1>1, <1>2, <1>3, PTL DEF ApprovalKept, Decided!Spec, Decided!approvalVars

-----------------------------------------------------------------------------
(* Triggers.                                                               *)
RoundSet ==
    [step : {"idle", "listed", "read", "due"}, bot : Bots \cup {Person}, from : Nat,
     loaded : SUBSET (AllSlots \X Nat), now : Nat]

(* What a holder has read: the cursor, and one trigger for a slot at most.  *)
ReadWell(d) ==
    round[d].step = "read" =>
      /\ round[d].from = cursor[round[d].bot]
      /\ round[d].loaded \subseteq Slots \X Nat
      /\ \A p, q \in round[d].loaded : p[1] = q[1] => p = q

(* One transaction holds the row of a cursor at a time.                    *)
OneHolder ==
    \A c, d \in Dispatchers :
        round[c].step = "read" /\ round[d].step = "read" /\ round[c].bot = round[d].bot => c = d

(* The cursor never runs ahead of the log.                                 *)
CursorInv ==
    /\ \A b \in Bots : cursor[b] <= Len(feed)
    /\ \A d \in Dispatchers : ReadWell(d)
    /\ OneHolder

(* The events that have started a run lie behind the cursor.               *)
CausesPassed ==
    \A r \in runs :
        \/ r.slot = "schedule"
        \/ r.cause[2] <= cursor[r.bot]

(* As long as no reaction is part of a chain its length is in the depth.   *)
ChainInv ==
    /\ \A n \in DOMAIN feed : feed[n].reacted \/ feed[n].links <= feed[n].depth + 1
    /\ \A r \in runs : r.depth <= DepthLimit[r.bot] /\ (r.reacted \/ r.links <= r.depth)

OwedInv ==
    \A p \in owed :
        /\ p[3] \in DOMAIN feed /\ Hears(p[1], p[2], feed[p[3]])
        /\ Listening(p[1], p[2])
        /\ cursor[p[1]] < p[3]

TriggersInv ==
    TriggersTypeOK /\ CursorInv /\ CausesPassed /\ AnsweredOnce /\ ChainInv /\ OwedInv

-----------------------------------------------------------------------------
(* Every step posts an event (and may change what another matches), changes*)
(* the setup or the time, lets a replica go on in its round, or starts     *)
(* runs.                                                                   *)
GoodLog(f) ==
    f \in Seq(EventSet) /\ \A n \in DOMAIN f : f[n].reacted \/ f[n].links <= f[n].depth + 1

Posted ==
    /\ GoodLog(feed') /\ Len(feed') = Len(feed) + 1
    /\ UNCHANGED <<setupVars, clock, cursor, round, runs, changes>>

SetupTypeOK ==
    /\ joined \subseteq Bots /\ active \subseteq Bots /\ connected \subseteq Bots
    /\ live \in [Bots -> SUBSET AllSlots] /\ armed \in [Bots -> SUBSET AllSlots]
    /\ \A b \in Bots : armed[b] \subseteq live[b]
    /\ made \in [Bots -> [AllSlots -> Nat]] /\ stored \subseteq Bots \X AllSlots \X Nat
    /\ nextAt \in [Bots -> Nat] /\ clock \in Nat

Managed ==
    SetupTypeOK' /\ changes' \in 0..MaxChanges /\ UNCHANGED <<feed, cursor, round, runs>>

Moved(d) ==
    /\ round' \in [Dispatchers -> RoundSet]
    /\ \A c \in Dispatchers : round'[c].step # "idle" => round'[c].bot \in Bots
    /\ \A c \in Dispatchers \ {d} : round'[c] = round[c]
    /\ ReadWell(d)'
    /\ round'[d].step = "read" =>
         \A c \in Dispatchers \ {d} : ~(round[c].step = "read" /\ round[c].bot = round'[d].bot)
    /\ changes' \in 0..MaxChanges
    /\ UNCHANGED <<feed, setupVars, clock, cursor, runs>>

(* A log that grows by an event is as good as the event.                   *)
LEMMA LogGrows ==
    ASSUME NEW f, GoodLog(f), NEW e \in EventSet, e.reacted \/ e.links <= e.depth + 1
    PROVE GoodLog(Append(f, e)) /\ Len(Append(f, e)) = Len(f) + 1
  <1>1. f \in Seq(EventSet)  BY DEF GoodLog
  <1>2. /\ Append(f, e) \in Seq(EventSet) /\ Len(Append(f, e)) = Len(f) + 1
        /\ \A n \in DOMAIN Append(f, e) :
              (n \in DOMAIN f /\ Append(f, e)[n] = f[n]) \/ Append(f, e)[n] = e
    BY <1>1, SMT
  <1> QED  BY <1>2, Zenon DEF GoodLog

(* So is one in which a message changes that keeps what it carries on.     *)
LEMMA LogRevised ==
    ASSUME NEW f, GoodLog(f), NEW n \in DOMAIN f, NEW e \in EventSet,
           e.depth = f[n].depth, e.links = f[n].links, e.reacted = f[n].reacted
    PROVE GoodLog([f EXCEPT ![n] = e]) /\ Len([f EXCEPT ![n] = e]) = Len(f)
  <1>1. f \in Seq(EventSet) /\ (f[n].reacted \/ f[n].links <= f[n].depth + 1)
    BY Zenon DEF GoodLog
  <1> DEFINE g == [f EXCEPT ![n] = e]
  <1>2. /\ g \in Seq(EventSet) /\ Len(g) = Len(f) /\ DOMAIN g = DOMAIN f
        /\ g[n] = e /\ \A m \in DOMAIN f : m # n => g[m] = f[m]
    BY <1>1, SMT
  <1> HIDE DEF g
  <1>3. GoodLog(g)  BY <1>1, <1>2, Zenon DEF GoodLog
  <1> QED  BY <1>2, <1>3 DEF g

(* What is posted has as many links as its depth allows.                   *)
LEMMA PostedStep ==
    ASSUME TriggersTypeOK, ChainInv, Talk PROVE Posted
  <1> USE DEF Event
  <1>0. ASSUME NEW e \in EventSet, e.reacted \/ e.links <= e.depth + 1, feed' = Append(feed, e),
               UNCHANGED <<setupVars, clock, cursor, round, runs, changes>>
        PROVE Posted
    <2>1. GoodLog(feed)  BY Zenon DEF GoodLog, TriggersTypeOK, ChainInv
    <2>2. GoodLog(feed') /\ Len(feed') = Len(feed) + 1  BY <1>0, <2>1, LogGrows, Zenon
    <2> QED  BY <1>0, <2>2, Zenon DEF Posted
  <1>1. ASSUME NEW for \in Bodies, PersonPosts(for) PROVE Posted
    <2> DEFINE e == Event(Person, "message", for, -1, 0, FALSE)
    <2>1. e \in EventSet /\ e.links <= e.depth + 1  BY SMT DEF EventSet, Bodies
    <2> QED  BY <1>0, <1>1, <2>1, Zenon DEF PersonPosts
  <1>2. ASSUME NEW for \in Bodies, NEW n \in DOMAIN feed, PersonReacts(n, for) PROVE Posted
    <2> DEFINE e == Event(Person, "reaction", for, feed[n].depth, 0, FALSE)
    <2>1. feed[n] \in EventSet  BY SMT DEF TriggersTypeOK
    <2>2. e \in EventSet /\ e.links <= e.depth + 1  BY <2>1, SMT DEF EventSet, Bodies
    <2> QED  BY <1>0, <1>2, <2>2, Zenon DEF PersonReacts
  <1>3. ASSUME NEW for \in Bodies, NEW r \in runs, CreateForAgentRun(r, for) PROVE Posted
    <2> DEFINE e == Event(r.bot, "message", for, r.depth, r.links + 1, r.reacted)
    <2>1. r \in RunSet /\ (r.reacted \/ r.links <= r.depth)  BY SMT DEF TriggersTypeOK, ChainInv
    <2>2. e \in EventSet /\ (e.reacted \/ e.links <= e.depth + 1)
      BY <2>1, SMT DEF EventSet, RunSet, Bodies
    <2> QED  BY <1>0, <1>3, <2>2, Zenon DEF CreateForAgentRun
  <1>4. ASSUME NEW for \in Bodies, NEW r \in runs, NEW n \in DOMAIN feed,
               PutReaction(r, n, for) PROVE Posted
    <2> DEFINE e == Event(r.bot, "reaction", for, feed[n].depth, r.links + 1, TRUE)
    <2>1. r \in RunSet /\ feed[n] \in EventSet  BY SMT DEF TriggersTypeOK
    <2>2. e \in EventSet /\ e.reacted  BY <2>1, SMT DEF EventSet, RunSet, Bodies
    <2> QED  BY <1>0, <1>4, <2>2, Zenon DEF PutReaction
  <1> QED  BY <1>1, <1>2, <1>3, <1>4, Zenon DEF Talk

(* A message that changes keeps its depth, and its links.                  *)
LEMMA RevisedStep ==
    ASSUME TriggersTypeOK, ChainInv, Revise PROVE Posted
  <1>1. PICK n \in DOMAIN feed, changed \in SUBSET Bots, for \in {{}, Bots} :
          EditMessage(n, changed, for) \/ DeleteMessage(n, changed, for)
    BY Zenon DEF Revise
  <1> DEFINE e == Event(Person, "change", for, feed[n].depth, 0, FALSE)
             one == [feed[n] EXCEPT !.for = changed]
             edited == [feed EXCEPT ![n] = one]
             two == [edited[n] EXCEPT !.kind = "deleted"]
             deleted == [edited EXCEPT ![n] = two]
  <1>2. GoodLog(feed) /\ feed[n] \in EventSet
    <2>1. GoodLog(feed)  BY Zenon DEF GoodLog, TriggersTypeOK, ChainInv
    <2> QED  BY <2>1, SMT DEF GoodLog
  <1>3. e \in EventSet /\ e.links <= e.depth + 1  BY <1>2, SMT DEF EventSet, Event
  <1>4. /\ one \in EventSet
        /\ one.depth = feed[n].depth /\ one.links = feed[n].links /\ one.reacted = feed[n].reacted
    BY <1>2, SMT DEF EventSet
  <1> HIDE DEF one
  <1>5. GoodLog(edited) /\ Len(edited) = Len(feed)  BY <1>2, <1>4, LogRevised, Zenon
  <1>6. n \in DOMAIN edited /\ edited[n] \in EventSet
    BY <1>2, <1>4, SMT DEF GoodLog
  <1> HIDE DEF edited
  <1>7. /\ two \in EventSet
        /\ two.depth = edited[n].depth /\ two.links = edited[n].links
        /\ two.reacted = edited[n].reacted
    BY <1>6, SMT DEF EventSet
  <1> HIDE DEF two
  <1>8. GoodLog(deleted) /\ Len(deleted) = Len(feed)
    BY <1>5, <1>6, <1>7, LogRevised, Zenon
  <1>9. UNCHANGED <<setupVars, clock, cursor, round, runs, changes>>
    BY <1>1, Zenon DEF EditMessage, DeleteMessage
  <1>10. feed' = Append(edited, e) \/ feed' = Append(deleted, e)
    BY <1>1, Zenon DEF EditMessage, DeleteMessage, edited, deleted, one, two
  <1> HIDE DEF e, deleted
  <1>11. GoodLog(feed') /\ Len(feed') = Len(feed) + 1
    <2>1. CASE feed' = Append(edited, e)  BY <1>3, <1>5, <2>1, LogGrows, Zenon
    <2>2. CASE feed' = Append(deleted, e)  BY <1>3, <1>8, <2>2, LogGrows, Zenon
    <2> QED  BY <1>10, <2>1, <2>2
  <1> QED  BY <1>9, <1>11, Zenon DEF Posted

(* What administrators, and time, may change.                              *)
LEMMA ManagedStep ==
    ASSUME SetupTypeOK, changes \in 0..MaxChanges, Administer \/ Tick PROVE Managed
  <1> DEFINE Counted == changes' \in 0..MaxChanges
  <1>0. Change => Counted  BY TriggersAssumption, SMT DEF Change
  <1> HIDE DEF Counted
  <1>1. ASSUME NEW b \in Bots, ToggleMember(b) PROVE Managed
    <2>1. SetupTypeOK'
      BY <1>1, SMT DEF ToggleMember, SetupTypeOK, Toggled
    <2>2. Counted  BY <1>1, <1>0 DEF ToggleMember
    <2> QED  BY <1>1, <2>1, <2>2, Zenon DEF ToggleMember, Managed, Counted
  <1>2. ASSUME NEW b \in Bots, PauseOrResume(b) PROVE Managed
    <2>1. SetupTypeOK'
      BY <1>2, SMT DEF PauseOrResume, SetupTypeOK, Toggled
    <2>2. Counted  BY <1>2, <1>0 DEF PauseOrResume
    <2> QED  BY <1>2, <2>1, <2>2, Zenon DEF PauseOrResume, Managed, Counted
  <1>3. ASSUME NEW b \in Bots, ToggleConnection(b) PROVE Managed
    <2>1. SetupTypeOK'
      BY <1>3, SMT DEF ToggleConnection, SetupTypeOK, Toggled
    <2>2. Counted  BY <1>3, <1>0 DEF ToggleConnection
    <2> QED  BY <1>3, <2>1, <2>2, Zenon DEF ToggleConnection, Managed, Counted
  <1>4. ASSUME NEW b \in Bots, ResetRecipe(b) PROVE Managed
    <2>1. SetupTypeOK'
      BY <1>4, SMT DEF ResetRecipe, SetupTypeOK, AllSlots
    <2>2. Counted  BY <1>4, <1>0 DEF ResetRecipe
    <2> QED  BY <1>4, <2>1, <2>2, Zenon DEF ResetRecipe, Managed, Counted
  <1>5. ASSUME NEW b \in Bots, NEW s \in AllSlots, NEW now \in 0..clock,
               CreateTrigger(b, s, now) PROVE Managed
    <2>1. SetupTypeOK'
      BY <1>5, SMT DEF CreateTrigger, SetupTypeOK, ScheduledFrom, Recent
    <2>2. Counted  BY <1>5, <1>0 DEF CreateTrigger
    <2> QED  BY <1>5, <2>1, <2>2, Zenon DEF CreateTrigger, Managed, Counted
  <1>6. ASSUME NEW b \in Bots, NEW s \in AllSlots, NEW now \in 0..clock,
               NEW enabled \in BOOLEAN, UpdateTrigger(b, s, now, enabled) PROVE Managed
    <2>1. SetupTypeOK'
      BY <1>6, SMT DEF UpdateTrigger, SetupTypeOK, ScheduledFrom, Recent
    <2>2. Counted  BY <1>6, <1>0 DEF UpdateTrigger
    <2> QED  BY <1>6, <2>1, <2>2, Zenon DEF UpdateTrigger, Managed, Counted
  <1>7. ASSUME NEW b \in Bots, NEW s \in AllSlots, NEW id \in 1..(MaxChanges + 1),
               DeleteTrigger(b, s, id) PROVE Managed
    <2>1. SetupTypeOK'
      <3>1. CASE s \in live[b] /\ id = made[b][s]
        <4>1. /\ live' = [live EXCEPT ![b] = @ \ {s}] /\ armed' = [armed EXCEPT ![b] = @ \ {s}]
              /\ stored' \subseteq stored
              /\ UNCHANGED <<joined, active, connected, made, nextAt, clock>>
          BY <1>7, <3>1, Zenon DEF DeleteTrigger
        <4> QED  BY <4>1, SMT DEF SetupTypeOK
      <3>2. CASE ~(s \in live[b] /\ id = made[b][s])
        <4>1. /\ stored' \subseteq stored
              /\ UNCHANGED <<live, armed, joined, active, connected, made, nextAt, clock>>
          BY <1>7, <3>2, Zenon DEF DeleteTrigger
        <4> QED  BY <4>1, SMT DEF SetupTypeOK
      <3> QED  BY <3>1, <3>2
    <2>2. Counted  BY <1>7, <1>0 DEF DeleteTrigger
    <2> QED  BY <1>7, <2>1, <2>2, Zenon DEF DeleteTrigger, Managed, Counted
  <1>8. ASSUME Tick PROVE Managed
    <2>1. SetupTypeOK'  BY <1>8, SMT DEF Tick, setupVars, SetupTypeOK
    <2> QED  BY <1>8, <2>1, Zenon DEF Tick, Managed
  <1> QED
    BY <1>1, <1>2, <1>3, <1>4, <1>5, <1>6, <1>7, <1>8, Zenon DEF Administer

(* A round, but for the steps that start runs.                             *)
LEMMA RestIsRound == AtRest \in RoundSet /\ AtRest.step = "idle"
  BY SMT DEF AtRest, InRound, RoundSet

LEMMA MovedStep ==
    ASSUME TriggersTypeOK, CursorInv, NEW d \in Dispatchers,
           \/ \E b \in Bots : ListAgent(d, b) \/ ListDue(d, b)
           \/ TakeCursor(d) \/ DispatchFails(d) \/ NotDueAnyMore(d) \/ DispatcherDies(d)
    PROVE Moved(d)
  <1> DEFINE Put(r) ==
        /\ round' = [round EXCEPT ![d] = r]
        /\ r \in RoundSet /\ (r.step # "idle" => r.bot \in Bots)
        /\ r.step = "read" =>
             /\ r.from = cursor[r.bot]
             /\ r.loaded \subseteq Slots \X Nat
             /\ \A p, q \in r.loaded : p[1] = q[1] => p = q
             /\ \A c \in Dispatchers : ~(round[c].step = "read" /\ round[c].bot = r.bot)
        Frame == changes' \in 0..MaxChanges /\ UNCHANGED <<feed, setupVars, clock, cursor, runs>>
  <1>00. changes \in 0..MaxChanges /\ (Change => changes' \in 0..MaxChanges)
    BY TriggersAssumption, SMT DEF TriggersTypeOK, Change
  <1>0. ASSUME NEW r, Put(r), Frame PROVE Moved(d)
    BY <1>0, SMT DEF Moved, TriggersTypeOK, RoundSet, ReadWell
  <1>1. ASSUME NEW b \in Bots, ListAgent(d, b) PROVE Moved(d)
    <2> DEFINE r == InRound("listed", b, 0, {}, 0)
    <2>1. r \in RoundSet /\ r.step = "listed" /\ r.bot = b  BY SMT DEF InRound, RoundSet
    <2>2. round' = [round EXCEPT ![d] = r]  BY <1>1, Zenon DEF ListAgent
    <2> HIDE DEF r
    <2>3. Put(r)  BY <2>1, <2>2
    <2>4. Frame  BY <1>1, <1>00, Zenon DEF ListAgent
    <2> QED  BY <1>0, <2>3, <2>4, Zenon
  <1>2. ASSUME NEW b \in Bots, ListDue(d, b) PROVE Moved(d)
    <2> DEFINE r == InRound("due", b, 0, {<<"schedule", made[b]["schedule"]>>}, clock)
    <2>1. made[b]["schedule"] \in Nat /\ clock \in Nat /\ "schedule" \in AllSlots
      BY SMT DEF TriggersTypeOK, AllSlots
    <2>2. r \in RoundSet /\ r.step = "due" /\ r.bot = b
      BY <2>1, SMT DEF InRound, RoundSet
    <2>3. round' = [round EXCEPT ![d] = r]  BY <1>2, Zenon DEF ListDue
    <2> HIDE DEF r
    <2>4. Put(r)  BY <2>2, <2>3
    <2>5. Frame  BY <1>2, <1>00, Zenon DEF ListDue
    <2> QED  BY <1>0, <2>4, <2>5, Zenon
  <1>3. ASSUME TakeCursor(d) PROVE Moved(d)
    <2> DEFINE b == round[d].bot
               loaded == {<<s, made[b][s]>> : s \in armed[b] \cap Slots}
               r == InRound("read", b, cursor[b], loaded, 0)
    <2>1. round[d] \in RoundSet /\ b \in Bots
      BY <1>3, SMT DEF TakeCursor, TriggersTypeOK, RoundSet
    <2>2. loaded \subseteq Slots \X Nat /\ Slots \subseteq AllSlots /\ cursor[b] \in Nat
      BY <2>1, SMT DEF TriggersTypeOK, AllSlots
    <2>3. \A p, q \in loaded : p[1] = q[1] => p = q  BY SMT
    <2>4. round' = [round EXCEPT ![d] = r]  BY <1>3, Zenon DEF TakeCursor
    <2> HIDE DEF loaded
    <2>5. /\ r \in RoundSet /\ r.step = "read" /\ r.bot = b
          /\ r.from = cursor[b] /\ r.loaded = loaded
      BY <2>1, <2>2, SMT DEF InRound, RoundSet
    <2> HIDE DEF r
    <2>6. \A c \in Dispatchers : ~(round[c].step = "read" /\ round[c].bot = b)
      BY <1>3, Zenon DEF TakeCursor, Holder
    <2>7. Put(r)  BY <2>1, <2>2, <2>3, <2>4, <2>5, <2>6
    <2>8. Frame  BY <1>3, <1>00, Zenon DEF TakeCursor
    <2> QED  BY <1>0, <2>7, <2>8, Zenon
  <1>4. ASSUME DispatchFails(d) \/ NotDueAnyMore(d) \/ DispatcherDies(d) PROVE Moved(d)
    <2>1. Put(AtRest)
      BY <1>4, RestIsRound, Zenon DEF DispatchFails, NotDueAnyMore, DispatcherDies, Rest
    <2>2. Frame  BY <1>4, <1>00, Zenon DEF DispatchFails, NotDueAnyMore, DispatcherDies
    <2> QED  BY <1>0, <2>1, <2>2
  <1> QED  BY <1>1, <1>2, <1>3, <1>4

-----------------------------------------------------------------------------
(* Initially there are no events, and no runs.                             *)
LEMMA TriggersInvInit == TriggersInit => TriggersInv
  <1> SUFFICES ASSUME TriggersInit PROVE TriggersInv  OBVIOUS
  <1> USE TriggersAssumption
  <1>1. /\ feed \in Seq(EventSet) /\ runs \subseteq RunSet
        /\ owed \subseteq Bots \X Slots \X Nat /\ changes \in 0..MaxChanges
        /\ joined \subseteq Bots /\ active \subseteq Bots /\ connected \subseteq Bots
    BY SMT DEF TriggersInit
  <1>2. /\ live \in [Bots -> SUBSET AllSlots] /\ armed \in [Bots -> SUBSET AllSlots]
        /\ \A b \in Bots : armed[b] \subseteq live[b]
    BY SMT DEF TriggersInit
  <1>3. /\ nextAt \in [Bots -> Nat] /\ clock \in Nat /\ cursor \in [Bots -> Nat]
        /\ made \in [Bots -> [AllSlots -> Nat]] /\ stored \subseteq Bots \X AllSlots \X Nat
    BY SMT DEF TriggersInit
  <1>4. \A d \in Dispatchers : round[d] = AtRest  BY DEF TriggersInit
  <1>5. /\ round \in [Dispatchers -> RoundSet]
        /\ \A d \in Dispatchers : round[d].step = "idle"
    BY RestIsRound, SMT DEF TriggersInit
  <1>6. TriggersTypeOK  BY <1>1, <1>2, <1>3, <1>5, Zenon DEF TriggersTypeOK, RoundSet
  <1>7. CursorInv  BY <1>5, SMT DEF TriggersInit, CursorInv, ReadWell, OneHolder
  <1>8. CausesPassed /\ AnsweredOnce /\ ChainInv /\ OwedInv
    BY SMT DEF TriggersInit, CausesPassed, AnsweredOnce, ChainInv, OwedInv
  <1> QED  BY <1>6, <1>7, <1>8 DEF TriggersInv

(* What is owed after a step: what was owed and has had no run, or a new   *)
(* event.                                                                  *)
LEMMA OwedStep ==
    ASSUME TriggersTypeOK, OwedInv, Remember, feed' \in Seq(EventSet),
           Len(feed') >= Len(feed),
           \A b \in Bots : cursor'[b] \in Nat /\ cursor'[b] <= Len(feed),
           \A p \in owed : \/ cursor'[p[1]] < p[3] \/ HasRun(p[1], p[2], p[3])'
                          \/ ~Listening(p[1], p[2])'
    PROVE OwedInv' /\ owed' \subseteq Bots \X Slots \X Nat
  <1> SUFFICES ASSUME NEW p \in owed'
               PROVE /\ p \in Bots \X Slots \X Nat
                     /\ p[3] \in DOMAIN feed' /\ Hears(p[1], p[2], feed'[p[3]])
                     /\ Listening(p[1], p[2])' /\ cursor'[p[1]] < p[3]
    BY Zenon DEF OwedInv
  <1>1. /\ Listening(p[1], p[2])' /\ ~HasRun(p[1], p[2], p[3])' /\ p \in Heard'
        /\ p \in owed \/ p[3] \notin DOMAIN feed
    BY Zenon DEF Remember
  <1>2. p \in Bots \X Slots \X DOMAIN feed' /\ Hears(p[1], p[2], feed'[p[3]])
    BY <1>1, Zenon DEF Heard
  <1>3. /\ p[3] \in DOMAIN feed' /\ p \in Bots \X Slots \X Nat /\ p[1] \in Bots
    BY <1>2, SMT
  <1>4. cursor'[p[1]] < p[3]
    <2>1. CASE p \in owed  BY <1>1, <2>1, Zenon
    <2>2. CASE p[3] \notin DOMAIN feed
      <3>1. p[3] > Len(feed)  BY <1>3, <2>2, SMT DEF TriggersTypeOK
      <3> QED  BY <1>3, <3>1, SMT DEF TriggersTypeOK
    <2> QED  BY <1>1, <2>1, <2>2
  <1> QED  BY <1>1, <1>2, <1>3, <1>4

(* An event that is posted was heard by nobody yet.  What a message that   *)
(* changes is not heard for any more, is not owed.                         *)
LEMMA PostedKeeps ==
    ASSUME TriggersInv, Posted, Remember PROVE TriggersInv'
  <1> USE DEF TriggersInv
  <1>1. GoodLog(feed') /\ Len(feed') = Len(feed) + 1  BY Zenon DEF Posted
  <1>2. UNCHANGED <<setupVars, clock, cursor, round, runs, changes>>  BY Zenon DEF Posted
  <1>3. /\ feed' \in Seq(EventSet) /\ Len(feed') = Len(feed) + 1 /\ Len(feed) \in Nat
    BY <1>1, SMT DEF TriggersTypeOK, GoodLog
  <1>4. OwedInv' /\ owed' \subseteq Bots \X Slots \X Nat
    <2>1. \A b \in Bots : cursor'[b] \in Nat /\ cursor'[b] <= Len(feed)
      BY <1>2, SMT DEF TriggersTypeOK, CursorInv
    <2>2. \A p \in owed : cursor'[p[1]] < p[3]  BY <1>2, Zenon DEF OwedInv
    <2>3. Len(feed') >= Len(feed)  BY <1>3, SMT
    <2> QED  BY <1>3, <2>1, <2>2, <2>3, OwedStep, Zenon
  <1>5. TriggersTypeOK'  BY <1>2, <1>3, <1>4, Zenon DEF TriggersTypeOK, setupVars
  <1>6. CursorInv'  BY <1>2, <1>3, SMT DEF CursorInv, ReadWell, OneHolder, TriggersTypeOK
  <1>7. CausesPassed' /\ AnsweredOnce'  BY <1>2, Zenon DEF CausesPassed, AnsweredOnce
  <1>8. ChainInv'  BY <1>1, <1>2, Zenon DEF ChainInv, GoodLog
  <1> QED  BY <1>4, <1>5, <1>6, <1>7, <1>8

(* Neither the log nor the cursors nor the runs change.                    *)
LEMMA StillKeeps ==
    ASSUME TriggersInv, UNCHANGED <<feed, cursor, runs>>, Remember,
           SetupTypeOK', changes' \in 0..MaxChanges,
           round' \in [Dispatchers -> RoundSet],
           \A c \in Dispatchers : round'[c].step # "idle" => round'[c].bot \in Bots,
           \A c \in Dispatchers : ReadWell(c)', OneHolder'
    PROVE TriggersInv'
  <1> USE DEF TriggersInv
  <1>1. OwedInv' /\ owed' \subseteq Bots \X Slots \X Nat
    <2>1. /\ \A b \in Bots : cursor'[b] \in Nat /\ cursor'[b] <= Len(feed)
          /\ feed' \in Seq(EventSet) /\ Len(feed') >= Len(feed)
      BY SMT DEF TriggersTypeOK, CursorInv
    <2>2. \A p \in owed : cursor'[p[1]] < p[3]  BY Zenon DEF OwedInv
    <2> QED  BY <2>1, <2>2, OwedStep, Zenon
  <1>2. TriggersTypeOK'  BY <1>1, Zenon DEF TriggersTypeOK, SetupTypeOK, RoundSet
  <1>3. CursorInv'  BY Zenon DEF CursorInv
  <1>4. CausesPassed' /\ AnsweredOnce' /\ ChainInv'
    BY Zenon DEF CausesPassed, AnsweredOnce, ChainInv
  <1> QED  BY <1>1, <1>2, <1>3, <1>4

LEMMA ManagedKeeps ==
    ASSUME TriggersInv, Managed, Remember PROVE TriggersInv'
  <1>1. UNCHANGED <<feed, cursor, round, runs>>  BY Zenon DEF Managed
  <1>2. /\ round' \in [Dispatchers -> RoundSet]
        /\ \A c \in Dispatchers : round'[c].step # "idle" => round'[c].bot \in Bots
    BY <1>1, Zenon DEF TriggersInv, TriggersTypeOK, RoundSet
  <1>3. \A c \in Dispatchers : ReadWell(c)'
    BY <1>1, Zenon DEF TriggersInv, CursorInv, ReadWell
  <1>4. OneHolder'  BY <1>1, Zenon DEF TriggersInv, CursorInv, OneHolder
  <1> QED  BY <1>1, <1>2, <1>3, <1>4, StillKeeps, Zenon DEF Managed

LEMMA MovedKeeps ==
    ASSUME TriggersInv, NEW d \in Dispatchers, Moved(d), Remember PROVE TriggersInv'
  <1>1. UNCHANGED <<feed, setupVars, clock, cursor, runs>>  BY Zenon DEF Moved
  <1>2. SetupTypeOK'
    BY <1>1, Zenon DEF TriggersInv, TriggersTypeOK, SetupTypeOK, setupVars
  <1>3. \A c \in Dispatchers : ReadWell(c)'
    <2> SUFFICES ASSUME NEW c \in Dispatchers, c # d PROVE ReadWell(c)'
      BY Zenon DEF Moved
    <2>1. round'[c] = round[c]  BY Zenon DEF Moved
    <2> QED  BY <1>1, <2>1, Zenon DEF TriggersInv, CursorInv, ReadWell
  <1>4. OneHolder'
    BY Zenon DEF TriggersInv, CursorInv, OneHolder, Moved
  <1> QED  BY <1>1, <1>2, <1>3, <1>4, StillKeeps, Zenon DEF Moved

(* A schedule starts a run that no event has caused.                       *)
LEMMA ScheduleKeeps ==
    ASSUME TriggersInv, NEW d \in Dispatchers, NEW prompt \in BOOLEAN,
           DispatchSchedule(d, prompt), Remember
    PROVE TriggersInv'
  <1> USE DEF TriggersInv
  <1> DEFINE b == round[d].bot
             run == Run(b, "schedule", made[b]["schedule"], <<"time", nextAt[b]>>, 0, 0, FALSE)
  <1>1. /\ runs' \subseteq runs \cup {run}
        /\ nextAt' = [nextAt EXCEPT ![b] = round[d].now + 1]
        /\ round' = [round EXCEPT ![d] = AtRest] /\ round[d].step = "due"
        /\ UNCHANGED <<feed, joined, active, connected, stored, live, armed, made, clock,
                      cursor, changes>>
    BY Zenon DEF DispatchSchedule, Rest
  <1>2. b \in Bots /\ round[d].now \in Nat  BY <1>1, SMT DEF TriggersTypeOK
  <1>3. made[b]["schedule"] \in Nat /\ nextAt[b] \in Nat /\ "schedule" \in AllSlots
    BY <1>2, SMT DEF TriggersTypeOK, AllSlots
  <1>4. /\ run \in RunSet /\ run.slot = "schedule" /\ run.depth = 0 /\ run.links = 0
        /\ run.bot = b
    BY <1>2, <1>3, SMT DEF Run, RunSet
  <1> HIDE DEF run
  <1>5. runs' \subseteq RunSet  BY <1>1, <1>4, Zenon DEF TriggersTypeOK
  <1>6. nextAt' \in [Bots -> Nat]  BY <1>1, <1>2, SMT DEF TriggersTypeOK
  <1>7. /\ round' \in [Dispatchers -> RoundSet]
        /\ \A c \in Dispatchers : round'[c].step # "idle" => round'[c].bot \in Bots
        /\ \A c \in Dispatchers : c # d => round'[c] = round[c]
        /\ round'[d].step = "idle"
    BY <1>1, RestIsRound, SMT DEF TriggersTypeOK, RoundSet
  <1>8. OwedInv' /\ owed' \subseteq Bots \X Slots \X Nat
    <2>1. /\ \A c \in Bots : cursor'[c] \in Nat /\ cursor'[c] <= Len(feed)
          /\ feed' \in Seq(EventSet) /\ Len(feed') >= Len(feed)
      BY <1>1, SMT DEF TriggersTypeOK, CursorInv
    <2>2. \A p \in owed : cursor'[p[1]] < p[3]  BY <1>1, Zenon DEF OwedInv
    <2> QED  BY <2>1, <2>2, OwedStep, Zenon
  <1>9. TriggersTypeOK'
    BY <1>1, <1>5, <1>6, <1>7, <1>8, Zenon DEF TriggersTypeOK, RoundSet
  <1>10. CursorInv'
    <2>0. OneHolder'  BY <1>7, Zenon DEF CursorInv, OneHolder
    <2> SUFFICES ASSUME NEW c \in Dispatchers PROVE ReadWell(c)'
      BY <1>1, <2>0, Zenon DEF CursorInv
    <2>1. CASE c = d  BY <1>7, <2>1, Zenon DEF ReadWell
    <2>2. CASE c # d  BY <1>1, <1>7, <2>2, Zenon DEF ReadWell, CursorInv
    <2> QED  BY <2>1, <2>2
  <1>11. CausesPassed' /\ AnsweredOnce'
    BY <1>1, <1>4, Zenon DEF CausesPassed, AnsweredOnce
  <1>12. ChainInv'
    BY <1>1, <1>2, <1>4, TriggersAssumption, SMT DEF ChainInv
  <1> QED  BY <1>8, <1>9, <1>10, <1>11, <1>12

(* The runs for a batch: one for a loaded trigger and an event it hears.   *)
RunFor(b, l, n) ==
    Run(b, l[1], l[2], <<"event", n>>, feed[n].depth + 1, feed[n].links, feed[n].reacted)

LEMMA AnswersAre ==
    ASSUME NEW d, NEW b
    PROVE /\ \A r \in Answers(d, b) : \E l \in round[d].loaded, n \in Batch(d) :
                r = RunFor(b, l, n) /\ Hears(b, l[1], feed[n])
          /\ \A l \in round[d].loaded, n \in Batch(d) :
                Hears(b, l[1], feed[n]) => RunFor(b, l, n) \in Answers(d, b)
  <1> DEFINE Q == {q \in round[d].loaded \X Batch(d) : Hears(b, q[1][1], feed[q[2]])}
  <1>1. ASSUME NEW r \in Answers(d, b)
        PROVE \E l \in round[d].loaded, n \in Batch(d) :
                r = RunFor(b, l, n) /\ Hears(b, l[1], feed[n])
    <2>1. PICK q \in Q : r = RunFor(b, q[1], q[2])  BY Zenon DEF Answers, RunFor
    <2>2. q[1] \in round[d].loaded /\ q[2] \in Batch(d) /\ Hears(b, q[1][1], feed[q[2]])
      BY <2>1, SMT
    <2> QED  BY <2>1, <2>2, Zenon
  <1>2. ASSUME NEW l \in round[d].loaded, NEW n \in Batch(d), Hears(b, l[1], feed[n])
        PROVE RunFor(b, l, n) \in Answers(d, b)
    <2>1. <<l, n>> \in Q /\ <<l, n>>[1] = l /\ <<l, n>>[2] = n  BY <1>2, SMT
    <2>2. \A q \in Q : RunFor(b, q[1], q[2]) \in Answers(d, b)  BY Zenon DEF Answers, RunFor
    <2> QED  BY <2>1, <2>2, SMT
  <1> QED  BY <1>1, <1>2, Zenon

(* The holder of the cursor answers what it has read, and the cursor moves *)
(* past it.                                                                *)
LEMMA DispatchKeeps ==
    ASSUME TriggersInv, NEW d \in Dispatchers, DispatchAgent(d), Remember
    PROVE TriggersInv'
  <1> USE DEF TriggersInv
  <1> DEFINE b == round[d].bot
  <1>1. /\ round[d].step = "read" /\ runs' = runs \cup NewRuns(d, b)
        /\ cursor' = [cursor EXCEPT ![b] = BatchEnd(d)]
        /\ round' = [round EXCEPT ![d] = AtRest]
        /\ UNCHANGED <<feed, setupVars, clock, changes>>
    BY Zenon DEF DispatchAgent, Rest
  <1>2. /\ b \in Bots /\ round[d].from = cursor[b] /\ cursor[b] \in Nat
        /\ cursor[b] <= Len(feed) /\ Len(feed) \in Nat
        /\ round[d].loaded \subseteq Slots \X Nat
        /\ \A p, q \in round[d].loaded : p[1] = q[1] => p = q
    BY <1>1, SMT DEF TriggersTypeOK, CursorInv, ReadWell
  <1>3. BatchEnd(d) \in Nat /\ cursor[b] <= BatchEnd(d) /\ BatchEnd(d) <= Len(feed)
    BY <1>2, TriggersAssumption, SMT DEF BatchEnd
  <1>4. /\ \A n \in Batch(d) : n \in Nat /\ cursor[b] < n /\ n <= BatchEnd(d)
        /\ \A n \in Nat : cursor[b] < n /\ n <= BatchEnd(d) => n \in Batch(d)
    BY <1>2, <1>3, SMT DEF Batch
  <1>5. Batch(d) \subseteq DOMAIN feed  BY <1>2, <1>3, <1>4, SMT DEF TriggersTypeOK
  <1>6. ASSUME NEW r \in runs', r \notin runs
        PROVE \E l \in round[d].loaded, n \in Batch(d) :
                r = RunFor(b, l, n) /\ Hears(b, l[1], feed[n])
    <2>1. r \in Answers(d, b)  BY <1>1, <1>6, Zenon DEF NewRuns
    <2> QED  BY <2>1, AnswersAre, Zenon
  <1>7. ASSUME NEW l \in round[d].loaded, NEW n \in Batch(d), Hears(b, l[1], feed[n])
        PROVE /\ RunFor(b, l, n) \in RunSet
              /\ RunFor(b, l, n).bot = b /\ RunFor(b, l, n).slot = l[1]
              /\ RunFor(b, l, n).slot \in Slots
              /\ RunFor(b, l, n).cause = <<"event", n>>
              /\ RunFor(b, l, n).depth <= DepthLimit[b]
              /\ \/ RunFor(b, l, n).reacted
                 \/ RunFor(b, l, n).links <= RunFor(b, l, n).depth
    <2>1. feed[n] \in EventSet /\ (feed[n].reacted \/ feed[n].links <= feed[n].depth + 1)
      BY <1>5, SMT DEF TriggersTypeOK, ChainInv
    <2>2. l[1] \in Slots /\ l[1] \in AllSlots /\ l[2] \in Nat  BY <1>2, SMT DEF AllSlots
    <2>3. n \in Nat /\ feed[n].depth + 1 <= DepthLimit[b]  BY <1>4, <1>7, Zenon DEF Hears
    <2> QED  BY <1>2, <2>1, <2>2, <2>3, SMT DEF RunFor, Run, RunSet, EventSet
  <1>8. runs' \subseteq RunSet  BY <1>6, <1>7, Zenon DEF TriggersTypeOK
  <1>9. /\ round' \in [Dispatchers -> RoundSet]
        /\ \A c \in Dispatchers : round'[c].step # "idle" => round'[c].bot \in Bots
        /\ \A c \in Dispatchers : c # d => round'[c] = round[c]
        /\ round'[d].step = "idle"
    BY <1>1, RestIsRound, SMT DEF TriggersTypeOK, RoundSet
  <1>10. /\ \A c \in Bots : cursor'[c] \in Nat /\ cursor'[c] <= Len(feed)
         /\ \A c \in Bots : cursor[c] <= cursor'[c]
         /\ cursor' \in [Bots -> Nat] /\ cursor'[b] = BatchEnd(d)
         /\ \A c \in Bots : c # b => cursor'[c] = cursor[c]
    BY <1>1, <1>2, <1>3, SMT DEF TriggersTypeOK, CursorInv
  <1>11. ASSUME NEW p \in owed
         PROVE \/ cursor'[p[1]] < p[3] \/ HasRun(p[1], p[2], p[3])'
               \/ ~Listening(p[1], p[2])'
    <2>1. /\ p[1] \in Bots /\ p[3] \in Nat /\ cursor[p[1]] < p[3]
          /\ Hears(p[1], p[2], feed[p[3]]) /\ Listening(p[1], p[2])
      BY SMT DEF OwedInv, TriggersTypeOK
    <2>2. CASE p[1] # b  BY <1>10, <2>1, <2>2, SMT
    <2>3. CASE p[1] = b /\ cursor'[b] < p[3]  BY <2>3
    <2>4. CASE p[1] = b /\ ~(cursor'[b] < p[3])
      <3>1. p[3] \in Batch(d)  BY <1>3, <1>4, <1>10, <2>1, <2>4, SMT
      <3>2. d \in Holder(b)  BY <1>1, Zenon DEF Holder
      <3>3. PICK l \in round[d].loaded : l[1] = p[2]
        BY <2>1, <2>4, <3>2, Zenon DEF Listening
      <3>4. Hears(b, l[1], feed[p[3]])  BY <2>1, <2>4, <3>3, Zenon
      <3>5. RunFor(b, l, p[3]) \in Answers(d, b)  BY <3>1, <3>4, AnswersAre, Zenon
      <3>6. b \in connected  BY <2>1, <2>4, Zenon DEF Listening
      <3>7. RunFor(b, l, p[3]) \in runs'  BY <1>1, <3>5, <3>6, Zenon DEF NewRuns
      <3>8. HasRun(p[1], p[2], p[3])'
        BY <1>7, <2>4, <3>1, <3>3, <3>4, <3>7, Zenon DEF HasRun
      <3> QED  BY <3>8
    <2> QED  BY <2>2, <2>3, <2>4
  <1>12. OwedInv' /\ owed' \subseteq Bots \X Slots \X Nat
    <2>1. /\ feed' \in Seq(EventSet) /\ Len(feed') >= Len(feed)
      BY <1>1, SMT DEF TriggersTypeOK
    <2> QED  BY <1>10, <1>11, <2>1, OwedStep, Zenon
  <1>13. TriggersTypeOK'
    BY <1>1, <1>8, <1>9, <1>10, <1>12, Zenon DEF TriggersTypeOK, RoundSet, setupVars
  <1>14. CursorInv'
    <2>1. \A c \in Bots : cursor'[c] <= Len(feed')  BY <1>1, <1>10, Zenon
    <2>2. ASSUME NEW c \in Dispatchers PROVE ReadWell(c)'
      <3>1. CASE c = d  BY <1>9, <3>1, Zenon DEF ReadWell
      <3>2. CASE c # d /\ round[c].step # "read"  BY <1>9, <3>2, Zenon DEF ReadWell
      <3>3. CASE c # d /\ round[c].step = "read"
        <4>1. round[c].bot \in Bots /\ round[c].bot # b
          BY <1>1, <3>3, Zenon DEF TriggersTypeOK, CursorInv, OneHolder
        <4> QED  BY <1>9, <1>10, <3>3, <4>1, Zenon DEF ReadWell, CursorInv
      <3> QED  BY <3>1, <3>2, <3>3
    <2>3. OneHolder'  BY <1>9, Zenon DEF CursorInv, OneHolder
    <2> QED  BY <2>1, <2>2, <2>3, Zenon DEF CursorInv
  <1>15. CausesPassed'
    <2> SUFFICES ASSUME NEW r \in runs', r.slot # "schedule"
                 PROVE r.cause[2] <= cursor'[r.bot]
      BY Zenon DEF CausesPassed
    <2>1. CASE r \in runs
      <3>1. r.cause[2] \in Nat /\ r.bot \in Bots /\ r.cause[2] <= cursor[r.bot]
        BY <2>1, SMT DEF CausesPassed, TriggersTypeOK, RunSet
      <3>2. cursor[r.bot] \in Nat  BY <3>1, SMT DEF TriggersTypeOK
      <3> QED  BY <1>10, <3>1, <3>2, SMT
    <2>2. CASE r \notin runs
      <3>1. PICK l \in round[d].loaded, n \in Batch(d) :
              r = RunFor(b, l, n) /\ Hears(b, l[1], feed[n])
        BY <1>6, <2>2, Zenon
      <3>2. r.bot = b /\ r.cause = <<"event", n>>  BY <1>7, <3>1, Zenon
      <3> QED  BY <1>4, <1>10, <3>2, SMT
    <2> QED  BY <2>1, <2>2
  <1>16. AnsweredOnce'
    <2> SUFFICES ASSUME NEW r \in runs', NEW q \in runs', r.bot = q.bot, r.slot = q.slot,
                        r.slot # "schedule", r.cause = q.cause
                 PROVE r = q
      BY Zenon DEF AnsweredOnce
    <2>1. CASE r \in runs /\ q \in runs  BY <2>1, Zenon DEF AnsweredOnce
    <2>2. ASSUME NEW x \in runs', NEW y \in runs', x \in runs, y \notin runs,
                 x.bot = y.bot, x.slot # "schedule", x.cause = y.cause
          PROVE FALSE
      <3>1. x.cause[2] <= cursor[x.bot]  BY <2>2, Zenon DEF CausesPassed
      <3>2. PICK l \in round[d].loaded, n \in Batch(d) :
              y = RunFor(b, l, n) /\ Hears(b, l[1], feed[n])
        BY <1>6, <2>2, Zenon
      <3>3. y.bot = b /\ y.cause = <<"event", n>>  BY <1>7, <3>2, Zenon
      <3>4. x.cause[2] = n /\ x.bot = b  BY <2>2, <3>3, SMT
      <3> QED  BY <1>2, <1>4, <3>1, <3>4, SMT
    <2>3. CASE r \notin runs /\ q \notin runs
      <3>1. PICK l \in round[d].loaded, n \in Batch(d) :
              r = RunFor(b, l, n) /\ Hears(b, l[1], feed[n])
        BY <1>6, <2>3, Zenon
      <3>2. PICK k \in round[d].loaded, m \in Batch(d) :
              q = RunFor(b, k, m) /\ Hears(b, k[1], feed[m])
        BY <1>6, <2>3, Zenon
      <3>3. /\ r.slot = l[1] /\ q.slot = k[1]
            /\ r.cause = <<"event", n>> /\ q.cause = <<"event", m>>
        BY <1>7, <3>1, <3>2, Zenon
      <3>4. l = k  BY <1>2, <3>3, Zenon
      <3>5. <<"event", n>> = <<"event", m>>  BY <3>3, Zenon
      <3>6. n = m  BY <3>5, SMT
      <3> QED  BY <3>1, <3>2, <3>4, <3>6, Zenon
    <2>4. CASE r \in runs /\ q \notin runs  BY <2>2, <2>4, Zenon
    <2>5. CASE r \notin runs /\ q \in runs
      <3>1. q.bot = r.bot /\ q.slot # "schedule" /\ q.cause = r.cause  OBVIOUS
      <3> QED  BY <2>2, <2>5, <3>1, Zenon
    <2> QED  BY <2>1, <2>3, <2>4, <2>5
  <1>17. ChainInv'
    <2>1. \A r \in runs' : r.depth <= DepthLimit[r.bot] /\ (r.reacted \/ r.links <= r.depth)
      <3> SUFFICES ASSUME NEW r \in runs'
                   PROVE r.depth <= DepthLimit[r.bot] /\ (r.reacted \/ r.links <= r.depth)
        OBVIOUS
      <3>1. CASE r \in runs  BY <3>1, Zenon DEF ChainInv
      <3>2. CASE r \notin runs
        <4>1. PICK l \in round[d].loaded, n \in Batch(d) :
                r = RunFor(b, l, n) /\ Hears(b, l[1], feed[n])
          BY <1>6, <3>2, Zenon
        <4> QED  BY <1>7, <4>1, Zenon
      <3> QED  BY <3>1, <3>2
    <2> QED  BY <1>1, <2>1, Zenon DEF ChainInv
  <1> QED  BY <1>12, <1>13, <1>14, <1>15, <1>16, <1>17

(* Every step keeps the invariant.                                         *)
LEMMA TriggersInvStep ==
    ASSUME TriggersInv, [TriggersNext]_triggerVars PROVE TriggersInv'
  <1> USE DEF TriggersNext
  <1>1. CASE TriggersNext /\ (Talk \/ Revise)
    BY <1>1, PostedStep, RevisedStep, PostedKeeps, Zenon DEF TriggersInv
  <1>2. CASE TriggersNext /\ (Administer \/ Tick)
    <2>1. SetupTypeOK /\ changes \in 0..MaxChanges
      BY Zenon DEF TriggersInv, TriggersTypeOK, SetupTypeOK
    <2> QED  BY <1>2, <2>1, ManagedStep, ManagedKeeps, Zenon
  <1>3. ASSUME TriggersNext, NEW d \in Dispatchers,
               \/ \E b \in Bots : ListAgent(d, b) \/ ListDue(d, b)
               \/ TakeCursor(d) \/ DispatchFails(d) \/ NotDueAnyMore(d) \/ DispatcherDies(d)
        PROVE TriggersInv'
    <2>1. Moved(d)  BY <1>3, MovedStep, Zenon DEF TriggersInv
    <2> QED  BY <1>3, <2>1, MovedKeeps, Zenon
  <1>4. ASSUME TriggersNext, NEW d \in Dispatchers, DispatchAgent(d) PROVE TriggersInv'
    BY <1>4, DispatchKeeps, Zenon
  <1>5. ASSUME TriggersNext, NEW d \in Dispatchers, NEW prompt \in BOOLEAN,
               DispatchSchedule(d, prompt)
        PROVE TriggersInv'
    BY <1>5, ScheduleKeeps, Zenon
  <1>6. CASE UNCHANGED triggerVars
    <2>1. /\ UNCHANGED <<feed, joined, active, connected, stored, live, armed, made, nextAt>>
          /\ UNCHANGED <<clock, cursor, round, runs, owed, changes>>
      BY <1>6, Zenon DEF triggerVars, setupVars
    <2>2. TriggersTypeOK' /\ CursorInv'
      BY <2>1, Zenon DEF TriggersInv, TriggersTypeOK, CursorInv, ReadWell, OneHolder
    <2>3. CausesPassed' /\ AnsweredOnce' /\ ChainInv'
      BY <2>1, Zenon DEF TriggersInv, CausesPassed, AnsweredOnce, ChainInv
    <2>4. OwedInv'  BY <2>1, Zenon DEF TriggersInv, OwedInv, Listening, Holder
    <2> QED  BY <2>2, <2>3, <2>4, Zenon DEF TriggersInv
  <1> QED
    BY <1>1, <1>2, <1>3, <1>4, <1>5, <1>6, Zenon
    DEF TriggersStep, DispatchEvents, DispatchSchedules

LEMMA TriggersInvariant == TriggersSpec => []TriggersInv
  BY TriggersInvInit, TriggersInvStep, PTL DEF TriggersSpec

(* Replicas that dispatch at the same time, and retry, start one run of an *)
(* agent for an event, whatever administrators do to the triggers.         *)
THEOREM EventsAnsweredOnce == TriggersSpec => []AnsweredOnce
  <1>1. TriggersInv => AnsweredOnce  BY DEF TriggersInv
  <1> QED  BY <1>1, TriggersInvariant, PTL

(* Agents that answer one another's messages stop at max_chain_depth.      *)
THEOREM LoopsAreBounded == TriggersSpec => []LoopBounded
  <1>1. TriggersInv => LoopBounded
    <2> SUFFICES ASSUME TriggersInv, NEW r \in runs
                 PROVE r.links <= DepthLimit[r.bot] \/ r.reacted
      BY DEF LoopBounded
    <2>1. /\ r.bot \in Bots /\ r.links \in Nat /\ r.depth \in Nat
          /\ r.depth <= DepthLimit[r.bot] /\ (r.reacted \/ r.links <= r.depth)
      BY SMT DEF TriggersInv, TriggersTypeOK, RunSet, ChainInv
    <2>2. DepthLimit[r.bot] \in Nat  BY <2>1, TriggersAssumption
    <2> QED  BY <2>1, <2>2, SMT
  <1> QED  BY <1>1, TriggersInvariant, PTL

(* No cursor passes an event that a trigger heard when it was posted, and  *)
(* hears still with its message as it is now, without a run while the      *)
(* trigger listens.                                                        *)
THEOREM OwedNotPassed == TriggersSpec => []NothingPassed
  <1>1. TriggersInv => NothingPassed  BY Zenon DEF TriggersInv, OwedInv, NothingPassed
  <1> QED  BY <1>1, TriggersInvariant, PTL
=============================================================================

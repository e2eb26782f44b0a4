--------------------------- MODULE AgentRunProofs ---------------------------
(***************************************************************************)
(* The queue of agent runs is correct for any number of runs, chats,       *)
(* claim loops, provider calls, attempts and crashes.                      *)
(***************************************************************************)
EXTENDS AgentRun, FiniteSetTheorems, TLAPS

Locking == {"lock", "count", "commit"}

(* Every worker stays where it is, or ends up outside a claim's locking    *)
(* part with no row locked and no new advisory lock; one that executes a   *)
(* run afterwards executed the same one before.                            *)
Settles ==
    \A w \in Workers :
        \/ /\ wpc'[w] = wpc[w] /\ wrun'[w] = wrun[w] /\ wtoken'[w] = wtoken[w]
           /\ rows'[w] = rows[w] /\ candidates'[w] = candidates[w] /\ keys'[w] = keys[w]
        \/ /\ wpc'[w] \notin Locking /\ rows'[w] = {} /\ keys'[w] \subseteq keys[w]
           /\ wpc'[w] \in Executing =>
                wpc[w] \in Executing /\ wrun'[w] = wrun[w] /\ wtoken'[w] = wtoken[w]

(* No run starts running, and no locked one changes its status.            *)
NoneStarts ==
    /\ \A r \in Runs : status'[r] = "running" => status[r] = "running"
    /\ \A w \in Workers : \A r \in rows[w] : status'[r] = status[r]

(* Locked rows and advisory locks, together.                               *)
LockInv == RowsHeld /\ KeysHeld /\ WorkersLeased /\ ChatLimitHeld

(* The running runs of a chat are finitely many.                           *)
LEMMA RunningFinite ==
    ASSUME NEW k PROVE IsFiniteSet(RunningIn(k)) /\ Cardinality(RunningIn(k)) \in Nat
  <1>1. RunningIn(k) \subseteq Runs  BY DEF RunningIn
  <1>2. IsFiniteSet(RunningIn(k))  BY <1>1, FS_Subset, FiniteAssumption
  <1> QED  BY <1>2, FS_CardinalityType

(* A step that settles the workers and starts no run keeps the locks, and  *)
(* the count of running runs that a claim relies on stays an upper bound.  *)
LEMMA SettlesKeepsLocks ==
    ASSUME TypeOK, TypeOK', LockInv, Settles, NoneStarts PROVE LockInv'
  <1> USE DEF LockInv, Locking
  <1>1. RowsHeld'
    <2>1. \A w \in Workers : rows'[w] = {} \/ rows'[w] = rows[w]  BY DEF Settles
    <2>2. (\A w \in Workers : rows[w] # {} => wpc[w] \in Locking)'
      BY DEF Settles, RowsHeld
    <2>3. (\A w \in Workers : \A r \in rows[w] : status[r] = "queued")'
      BY <2>1 DEF NoneStarts, RowsHeld
    <2>4. (\A v, w \in Workers : v # w => rows[v] \cap rows[w] = {})'
      BY <2>1 DEF RowsHeld
    <2>5. (\A w \in Workers : wpc[w] \in Locking =>
              wrun[w] \in candidates[w] /\ candidates[w] \subseteq rows[w])'
      BY DEF Settles, RowsHeld
    <2> QED  BY <2>2, <2>3, <2>4, <2>5 DEF RowsHeld
  <1>2. KeysHeld'
    <2>1. \A w \in Workers : keys'[w] \subseteq keys[w]  BY DEF Settles
    <2>2. (\A v, w \in Workers : v # w => keys[v] \cap keys[w] = {})'
      BY <2>1 DEF KeysHeld
    <2>3. (\A w \in Workers : wpc[w] \in {"count",
        "commit"} => ChatOf[wrun[w]] \in keys[w])'
      BY DEF Settles, KeysHeld
    <2>4. ASSUME NEW w \in Workers, wpc'[w] = "commit", ChatOf[wrun'[w]] # NoChat
          PROVE  Cardinality(RunningIn(ChatOf[wrun[w]])') < ChatLimit
      <3>1. wpc[w] = "commit" /\ wrun'[w] = wrun[w]  BY <2>4 DEF Settles
      <3>2. Cardinality(RunningIn(ChatOf[wrun[w]])) < ChatLimit
        BY <2>4, <3>1 DEF KeysHeld
      <3>3. RunningIn(ChatOf[wrun[w]])' \subseteq RunningIn(ChatOf[wrun[w]])
        BY <3>1 DEF NoneStarts, RunningIn
      <3>4. Cardinality(RunningIn(ChatOf[wrun[w]])') <= Cardinality(RunningIn(ChatOf[wrun[w]]))
        BY <3>3, FS_Subset, RunningFinite
      <3>5. IsFiniteSet(RunningIn(ChatOf[wrun[w]])')
        BY <3>3, FS_Subset, RunningFinite
      <3>6. Cardinality(RunningIn(ChatOf[wrun[w]])') \in Nat  BY <3>5,
          FS_CardinalityType
      <3> QED  BY <3>2, <3>4, <3>6, RunningFinite, BoundAssumption
    <2> QED  BY <2>2, <2>3, <2>4 DEF KeysHeld
  <1>3. WorkersLeased'  BY DEF Settles, WorkersLeased, Executing
  <1>4. ASSUME NEW k \in Chats PROVE Cardinality(RunningIn(k)') <= ChatLimit
    <2>1. RunningIn(k)' \subseteq RunningIn(k)  BY DEF NoneStarts, RunningIn
    <2>2. IsFiniteSet(RunningIn(k)') /\ Cardinality(RunningIn(k)') <= Cardinality(RunningIn(k))
      BY <2>1, FS_Subset, RunningFinite
    <2>3. Cardinality(RunningIn(k)') \in Nat  BY <2>2, FS_CardinalityType
    <2> QED  BY <2>2, <2>3, RunningFinite, BoundAssumption DEF ChatLimitHeld
  <1> QED  BY <1>1, <1>2, <1>3, <1>4 DEF ChatLimitHeld

-----------------------------------------------------------------------------
(* Types.                                                                  *)

LEMMA TypeInit == Init => TypeOK
  BY BoundAssumption DEF Init, TypeOK, Statuses, ClaimSteps, Executing

RunTypes ==
    /\ status \in [Runs -> Statuses] /\ attempt \in [Runs -> Nat]
    /\ cancelRequested \in [Runs -> BOOLEAN] /\ lease \in [Runs -> Nat]
    /\ expired \in [Runs -> BOOLEAN] /\ late \in [Runs -> BOOLEAN]
    /\ backoff \in [Runs -> BOOLEAN] /\ published \in [Runs -> Nat]
    /\ enabled \in BOOLEAN

CallTypes ==
    /\ callStatus \in [Calls -> {"none", "started", "completed", "failed"}]
    /\ callRun \in [Calls -> Runs \cup {NoRun}] /\ callToken \in [Calls -> Nat]
    /\ cost \in [Calls -> 0..MaxCost] /\ usageRows \subseteq Calls
    /\ summary \in [Runs -> SUBSET Calls] /\ summarized \subseteq Runs
    /\ stream \in [Calls -> {"none", "open", "closing", "ended", "lost"}]

WorkerTypes ==
    /\ wpc \in [Workers -> {"idle", "stopped"} \cup ClaimSteps \cup Executing]
    /\ wrun \in [Workers -> Runs \cup {NoRun}] /\ wtoken \in [Workers -> Nat]

ClaimTypes ==
    /\ rows \in [Workers -> SUBSET Runs] /\ candidates \in [Workers -> SUBSET Runs]
    /\ keys \in [Workers -> SUBSET (Chats \cup {NoChat})]

RequestTypes == requests \subseteq Request

HistoryTypes ==
    /\ tokens \in Nat /\ claims \in [Runs -> Nat]
    /\ messages \in [Runs -> SUBSET Nat]
    /\ faults \in 0..MaxFaults

LEMMA TypeParts ==
    TypeOK <=> /\ RunTypes /\ CallTypes /\ WorkerTypes
               /\ ClaimTypes /\ RequestTypes /\ HistoryTypes
  BY DEF TypeOK, RunTypes, CallTypes, WorkerTypes, ClaimTypes, RequestTypes,
      HistoryTypes

LEMMA WaitingStates == Waiting = {"calling", "publishing", "completing", "reporting"}
  BY DEF Waiting, Awaits, Kinds

LEMMA BecomeTypes ==
    ASSUME WorkerTypes, NEW w \in Workers, NEW pc \in {"idle"} \cup Executing,
        Become(w, pc)
    PROVE  WorkerTypes'
  BY DEF WorkerTypes, Become

LEMMA SendTypes ==
    ASSUME WorkerTypes, RequestTypes, WorkersLeased, NEW w \in Workers,
        wpc[w] \in Executing,
           NEW kind \in Kinds, NEW S \in SUBSET Calls,
           NEW next \in {"idle"} \cup Executing,
               NEW refused \in {"idle"} \cup Executing,
           Send(w, kind, S, next, refused)
    PROVE  WorkerTypes' /\ RequestTypes'
  <1>1. Become(w, next) \/ Become(w, refused)  BY DEF Send
  <1>2. WorkerTypes'  BY <1>1, BecomeTypes
  <1>3. [kind |-> kind, run |-> wrun[w], token |-> wtoken[w], worker |-> w, calls |-> S]
          \in Request
    BY DEF Request, WorkersLeased, WorkerTypes
  <1>4. RequestTypes'  BY <1>3 DEF Send, Ask, RequestTypes
  <1> QED  BY <1>2, <1>4

LEMMA AnswerTypes ==
    ASSUME WorkerTypes, RequestTypes, NEW q \in requests,
           NEW next \in {"idle"} \cup Executing, Answer(q, next)
    PROVE  WorkerTypes' /\ RequestTypes'
  <1>1. q.worker \in Workers  BY DEF RequestTypes, Request
  <1>2. CASE Become(q.worker, next)  BY <1>1, <1>2, BecomeTypes DEF Answer, RequestTypes
  <1>3. CASE UNCHANGED workerVars
    BY <1>3 DEF Answer, RequestTypes, WorkerTypes, workerVars
  <1> QED  BY <1>2, <1>3 DEF Answer

(* The values a step may write are of the types of the tables.             *)
LEMMA TypeStep == TypeOK /\ RowsHeld /\ WorkersLeased /\ [Next]_vars => TypeOK'
  <1> SUFFICES ASSUME TypeOK, RowsHeld, WorkersLeased, [Next]_vars PROVE TypeOK'
    OBVIOUS
  <1>types. RunTypes /\ CallTypes /\ WorkerTypes /\ ClaimTypes /\ RequestTypes /\ HistoryTypes
    BY TypeParts
  <1> SUFFICES /\ RunTypes' /\ CallTypes' /\ WorkerTypes'
               /\ ClaimTypes' /\ RequestTypes' /\ HistoryTypes'
    BY
    DEF TypeOK, RunTypes, CallTypes, WorkerTypes, ClaimTypes, RequestTypes, HistoryTypes
  <1> DEFINE Goal == /\ RunTypes' /\ CallTypes' /\ WorkerTypes'
                     /\ ClaimTypes' /\ RequestTypes' /\ HistoryTypes'
  <1>locked. \A w \in Workers : wpc[w] \in Locking => wrun[w] \in Runs
    BY <1>types DEF RowsHeld, ClaimTypes, Locking
  <1>asked. \A q \in requests : q.run \in Runs /\ q.token \in Nat \ {0} /\ q.calls \subseteq Calls
    BY <1>types DEF RequestTypes, Request
  <1> USE DEF Statuses, Final
  <1>1. ASSUME NEW r \in Runs, Invoke(r) PROVE Goal
    <2>1. RunTypes'
      BY <1>types, <1>1 DEF Invoke, RunTypes, runVars
    <2> QED
      BY <1>types, <1>1, <2>1
      DEF Invoke, CallTypes, WorkerTypes, ClaimTypes, RequestTypes, HistoryTypes,
          callVars, workerVars, claimVars, historyVars
  <1>2. ASSUME NEW r \in Runs, RequestCancel(r) PROVE Goal
    <2>1. RunTypes'
      BY <1>types, <1>2 DEF RequestCancel, RunTypes, runVars
    <2> QED
      BY <1>types, <1>2, <2>1
      DEF RequestCancel, CallTypes, WorkerTypes, ClaimTypes, RequestTypes,
          HistoryTypes, callVars, workerVars, claimVars, historyVars
  <1>3. ASSUME NEW r \in Runs, LeaseExpires(r) PROVE Goal
    <2>1. RunTypes'
      BY <1>types, <1>3 DEF LeaseExpires, RunTypes, runVars
    <2> QED
      BY <1>types, <1>3, <2>1
      DEF LeaseExpires, CallTypes, WorkerTypes, ClaimTypes, RequestTypes, HistoryTypes,
          callVars, workerVars, claimVars, historyVars
  <1>4. ASSUME NEW r \in Runs, Deadline(r) PROVE Goal
    <2>1. RunTypes'
      BY <1>types, <1>4 DEF Deadline, RunTypes, runVars
    <2> QED
      BY <1>types, <1>4, <2>1
      DEF Deadline, CallTypes, WorkerTypes, ClaimTypes, RequestTypes, HistoryTypes,
          callVars, workerVars, claimVars, historyVars
  <1>5. ASSUME NEW r \in Runs, BackoffOver(r) PROVE Goal
    <2>1. RunTypes'
      BY <1>types, <1>5 DEF BackoffOver, RunTypes, runVars
    <2> QED
      BY <1>types, <1>5, <2>1
      DEF BackoffOver, CallTypes, WorkerTypes, ClaimTypes, RequestTypes, HistoryTypes,
          callVars, workerVars, claimVars, historyVars
  <1>6. ASSUME NEW w \in Workers, ReapQueued(w) PROVE Goal
    <2>1. RunTypes'
      BY <1>types, <1>6 DEF ReapQueued, RunTypes, runVars
    <2>2. WorkerTypes'
      BY <1>types, <1>6 DEF ReapQueued, WorkerTypes, workerVars, ClaimSteps
    <2> QED
      BY <1>types, <1>6, <2>1, <2>2
      DEF ReapQueued, CallTypes, ClaimTypes, RequestTypes, HistoryTypes, callVars,
          claimVars, historyVars
  <1>7. ASSUME NEW w \in Workers, ReapRunning(w) PROVE Goal
    <2>1. RunTypes'
      BY <1>types, <1>7 DEF ReapRunning, RunTypes, runVars, AfterReap
    <2>2. WorkerTypes'
      BY <1>types, <1>7 DEF ReapRunning, WorkerTypes, workerVars, ClaimSteps
    <2> QED
      BY <1>types, <1>7, <2>1, <2>2
      DEF ReapRunning, CallTypes, ClaimTypes, RequestTypes, HistoryTypes, callVars,
          claimVars, historyVars
  <1>8. ASSUME NEW w \in Workers, ClaimScan(w) PROVE Goal
    <2>1. WorkerTypes'
      BY <1>types, <1>8
      DEF ClaimScan, WorkerTypes, workerVars, NothingClaimed, TryItem, Release,
          Claimable, ClaimSteps, ClaimTypes
    <2>2. ClaimTypes'
      BY <1>types, <1>8
      DEF ClaimScan, ClaimTypes, claimVars, NothingClaimed, TryItem, Release,
          Claimable, ClaimSteps
    <2> QED
      BY <1>types, <1>8, <2>1, <2>2
      DEF ClaimScan, RunTypes, CallTypes, RequestTypes, HistoryTypes, runVars,
          callVars, historyVars
  <1>9. ASSUME NEW w \in Workers, ClaimLock(w) PROVE Goal
    <2>1. WorkerTypes'
      BY <1>types, <1>9 DEF ClaimLock, WorkerTypes, workerVars, ClaimSteps
    <2>2. ClaimTypes'
      BY <1>types, <1>9, <1>locked, RunAssumption
      DEF ClaimLock, ClaimTypes, claimVars, Locking
    <2> QED
      BY <1>types, <1>9, <2>1, <2>2
      DEF ClaimLock, RunTypes, CallTypes, RequestTypes, HistoryTypes, runVars,
          callVars, historyVars
  <1>10. ASSUME NEW w \in Workers, ClaimAborted(w) PROVE Goal
    <2>1. WorkerTypes'
      BY <1>types, <1>10 DEF ClaimAborted, WorkerTypes, workerVars, NothingClaimed
    <2>2. ClaimTypes'
      BY <1>types, <1>10 DEF ClaimAborted, ClaimTypes, claimVars, NothingClaimed,
          Release
    <2> QED
      BY <1>types, <1>10, <2>1, <2>2
      DEF ClaimAborted, RunTypes, CallTypes, RequestTypes, HistoryTypes, runVars,
          callVars, historyVars
  <1>11. ASSUME NEW w \in Workers, ClaimCount(w) PROVE Goal
    <2>1. WorkerTypes'
      BY <1>types, <1>11
      DEF ClaimCount, WorkerTypes, workerVars, NothingClaimed, TryItem, Release,
          Claimable, ClaimSteps, ClaimTypes
    <2>2. ClaimTypes'
      BY <1>types, <1>11
      DEF ClaimCount, ClaimTypes, claimVars, NothingClaimed, TryItem, Release,
          Claimable, ClaimSteps
    <2> QED
      BY <1>types, <1>11, <2>1, <2>2
      DEF ClaimCount, RunTypes, CallTypes, RequestTypes, HistoryTypes, runVars,
          callVars, historyVars
  <1>12. ASSUME NEW w \in Workers, ClaimCommit(w) PROVE Goal
    <2>1. RunTypes'
      BY <1>types, <1>12, <1>locked
      DEF ClaimCommit, RunTypes, runVars, HistoryTypes, Locking
    <2>2. WorkerTypes'
      BY <1>types, <1>12 DEF ClaimCommit, WorkerTypes, workerVars, Executing,
          HistoryTypes
    <2>3. ClaimTypes'
      BY <1>types, <1>12 DEF ClaimCommit, ClaimTypes, claimVars, Release
    <2>4. HistoryTypes'
      BY <1>types, <1>12, <1>locked DEF ClaimCommit, HistoryTypes, historyVars, Locking
    <2> QED
      BY <1>types, <1>12, <2>1, <2>2, <2>3, <2>4
      DEF ClaimCommit, CallTypes, RequestTypes, callVars
  <1>13. ASSUME NEW w \in Workers, SendStart(w) PROVE Goal
    <2>1. WorkerTypes' /\ RequestTypes'
      BY <1>types, <1>13, SendTypes DEF SendStart, Executing, Kinds
    <2> QED
      BY <1>types, <1>13, <2>1
      DEF SendStart, RunTypes, CallTypes, ClaimTypes, HistoryTypes, runVars, callVars,
          claimVars, historyVars
  <1>14. ASSUME NEW w \in Workers, SendPublish(w) PROVE Goal
    <2>1. WorkerTypes' /\ RequestTypes'
      BY <1>types, <1>14, SendTypes, BecomeTypes
      DEF SendPublish, Executing, Kinds, RequestTypes
    <2> QED
      BY <1>types, <1>14, <2>1
      DEF SendPublish, RunTypes, CallTypes, ClaimTypes, HistoryTypes, runVars,
          callVars, claimVars, historyVars
  <1>15. ASSUME NEW w \in Workers, Preview(w) PROVE Goal
    <2>1. WorkerTypes'
      BY <1>types, <1>15, BecomeTypes DEF Preview, WorkerTypes, workerVars, Executing
    <2> QED
      BY <1>types, <1>15, <2>1
      DEF Preview, RunTypes, CallTypes, ClaimTypes, RequestTypes, HistoryTypes,
          runVars, callVars, claimVars, historyVars
  <1>16. ASSUME NEW w \in Workers, SendComplete(w) PROVE Goal
    <2>1. WorkerTypes' /\ RequestTypes'
      BY <1>types, <1>16, SendTypes DEF SendComplete, Executing, Kinds
    <2> QED
      BY <1>types, <1>16, <2>1
      DEF SendComplete, RunTypes, CallTypes, ClaimTypes, HistoryTypes, runVars,
          callVars, claimVars, historyVars
  <1>17. ASSUME NEW w \in Workers, WorkerError(w) PROVE Goal
    <2>1. WorkerTypes'
      BY <1>types, <1>17, BecomeTypes DEF WorkerError, WorkerTypes, workerVars,
          Executing
    <2> QED
      BY <1>types, <1>17, <2>1
      DEF WorkerError, RunTypes, CallTypes, ClaimTypes, RequestTypes, HistoryTypes,
          runVars, callVars, claimVars, historyVars
  <1>18. ASSUME NEW w \in Workers, SendFail(w) PROVE Goal
    <2>1. WorkerTypes' /\ RequestTypes'
      <3>1. CASE wpc[w] = "failing"
        BY <1>types, <1>18, <3>1, SendTypes DEF SendFail, Executing, Kinds
      <3>2. CASE wpc[w] = "over_budget"
        BY <1>types, <1>18, <3>2, SendTypes DEF SendFail, Executing, Kinds
      <3> QED  BY <1>18, <3>1, <3>2 DEF SendFail
    <2> QED
      BY <1>types, <1>18, <2>1
      DEF SendFail, RunTypes, CallTypes, ClaimTypes, HistoryTypes, runVars, callVars,
          claimVars, historyVars
  <1>19. ASSUME NEW w \in Workers, Heartbeat(w) PROVE Goal
    <2>1. RunTypes'
      BY <1>types, <1>19 DEF Heartbeat, RunTypes, runVars
    <2> QED
      BY <1>types, <1>19, <2>1
      DEF Heartbeat, CallTypes, WorkerTypes, ClaimTypes, RequestTypes, HistoryTypes,
          callVars, workerVars, claimVars, historyVars
  <1>20. ASSUME NEW w \in Workers, WorkerDies(w) PROVE Goal
    <2>1. WorkerTypes'
      BY <1>types, <1>20, BecomeTypes DEF WorkerDies, WorkerTypes, workerVars, Executing
    <2>2. HistoryTypes'
      BY <1>types, <1>20, BoundAssumption DEF WorkerDies, HistoryTypes, historyVars,
          Fault
    <2> QED
      BY <1>types, <1>20, <2>1, <2>2
      DEF WorkerDies, RunTypes, CallTypes, ClaimTypes, RequestTypes, runVars, callVars,
          claimVars
  <1>21. ASSUME NEW q \in requests, StartProviderCall(q) PROVE Goal
    <2>1. CallTypes'
      <3>1. CASE UNCHANGED callVars  BY <1>types, <3>1 DEF CallTypes, callVars
      <3>2. CASE ~ UNCHANGED callVars
        <4>1. PICK c : /\ callStatus' = [callStatus EXCEPT ![c] = "started"]
                       /\ callRun' = [callRun EXCEPT ![c] = q.run]
                       /\ callToken' = [callToken EXCEPT ![c] = q.token]
                       /\ stream' = [stream EXCEPT ![c] = "open"]
                       /\ UNCHANGED <<cost, usageRows, summary, summarized>>
          BY <1>21, <3>2 DEF StartProviderCall
        <4> QED  BY <1>types, <1>asked, <4>1 DEF CallTypes
      <3> QED  BY <3>1, <3>2
    <2>2. WorkerTypes' /\ RequestTypes'
      BY <1>types, <1>21, AnswerTypes
      DEF StartProviderCall, Executing, WorkerTypes, RequestTypes, workerVars
    <2> QED
      BY <1>types, <1>21, <2>1, <2>2
      DEF StartProviderCall, RunTypes, ClaimTypes, HistoryTypes, runVars, claimVars,
          historyVars
  <1>22. ASSUME NEW q \in requests, Publish(q) PROVE Goal
    <2>1. RunTypes'
      BY <1>types, <1>22, <1>asked DEF Publish, RunTypes, runVars
    <2>2. HistoryTypes'
      BY <1>types, <1>22, <1>asked DEF Publish, HistoryTypes, historyVars
    <2>3. WorkerTypes' /\ RequestTypes'
      BY <1>types, <1>22, AnswerTypes DEF Publish, Executing
    <2> QED
      BY <1>types, <1>22, <2>1, <2>2, <2>3
      DEF Publish, CallTypes, ClaimTypes, callVars, claimVars
  <1>23. ASSUME NEW q \in requests, PublishRejected(q) PROVE Goal
    <2>1. WorkerTypes' /\ RequestTypes'
      BY <1>types, <1>23, AnswerTypes DEF PublishRejected, Executing
    <2> QED
      BY <1>types, <1>23, <2>1
      DEF PublishRejected, RunTypes, CallTypes, ClaimTypes, HistoryTypes, runVars,
          callVars, claimVars, historyVars
  <1>24. ASSUME NEW q \in requests, ProviderUsage(q) PROVE Goal
    <2>1. WorkerTypes' /\ RequestTypes'
      <3>1. [q EXCEPT !.kind = "complete",
          !.calls = {c \in CallsOf(q.run) : callStatus[c] = "completed"}]
                \in Request
        BY <1>types DEF RequestTypes, Request, Kinds, CallsOf
      <3>2. CASE Answer(q, "failing")  BY <1>types, <3>2, AnswerTypes DEF Executing
      <3>3. CASE UNCHANGED workerVars
        BY <1>types, <1>24, <3>1, <3>2, <3>3
        DEF ProviderUsage, WorkerTypes, RequestTypes, workerVars
      <3> QED  BY <1>24, <3>2, <3>3 DEF ProviderUsage
    <2> QED
      BY <1>types, <1>24, <2>1
      DEF ProviderUsage, RunTypes, CallTypes, ClaimTypes, HistoryTypes, runVars,
          callVars, claimVars, historyVars
  <1>25. ASSUME NEW q \in requests, Complete(q) PROVE Goal
    <2>1. RunTypes'
      <3>1. CASE Held(q)
        <4>1. /\ status' = [status EXCEPT ![q.run] = IF cancelRequested[q.run]
                                                     THEN "canceled" ELSE "completed"]
              /\ lease' = [lease EXCEPT ![q.run] = 0]
              /\ expired' = [expired EXCEPT ![q.run] = FALSE]
              /\ UNCHANGED <<attempt, cancelRequested, late, backoff, published, enabled>>
          BY <1>25, <3>1 DEF Complete
        <4> QED  BY <1>types, <1>asked, <4>1 DEF RunTypes
      <3>2. CASE ~Held(q)
        <4>1. UNCHANGED <<runVars, enabled>>  BY <1>25, <3>2 DEF Complete, runVars
        <4> QED  BY <1>types, <4>1 DEF RunTypes, runVars
      <3> QED  BY <3>1, <3>2
    <2>2. CallTypes'
      BY <1>types, <1>25, <1>asked DEF Complete, CallTypes, callVars
    <2>3. WorkerTypes' /\ RequestTypes'
      BY <1>types, <1>25, AnswerTypes DEF Complete, Executing
    <2> QED
      BY <1>types, <1>25, <2>1, <2>2, <2>3
      DEF Complete, ClaimTypes, HistoryTypes, claimVars, historyVars
  <1>26. ASSUME NEW q \in requests, Fail(q) PROVE Goal
    <2>1. RunTypes'
      <3>1. CASE Held(q)
        <4>1. PICK after \in Statuses, again \in BOOLEAN :
                /\ status' = [status EXCEPT ![q.run] = after]
                /\ attempt' = [attempt EXCEPT ![q.run] = IF again THEN @ + 1 ELSE @]
                /\ backoff' = [backoff EXCEPT ![q.run] = again]
                /\ lease' = [lease EXCEPT ![q.run] = 0]
                /\ expired' = [expired EXCEPT ![q.run] = FALSE]
                /\ UNCHANGED <<cancelRequested, late, published, enabled>>
          BY <1>26, <3>1 DEF Fail, AfterFailure
        <4> QED  BY <1>types, <1>asked, <4>1 DEF RunTypes
      <3>2. CASE ~Held(q)
        <4>1. UNCHANGED <<runVars, enabled>>  BY <1>26, <3>2 DEF Fail, runVars
        <4> QED  BY <1>types, <4>1 DEF RunTypes, runVars
      <3> QED  BY <3>1, <3>2
    <2>2. WorkerTypes' /\ RequestTypes'
      BY <1>types, <1>26, AnswerTypes DEF Fail, Executing
    <2> QED
      BY <1>types, <1>26, <2>1, <2>2
      DEF Fail, CallTypes, ClaimTypes, HistoryTypes, callVars, claimVars, historyVars
  <1>27. ASSUME NEW c \in Calls, StreamEnds(c) PROVE Goal
    <2>1. CallTypes'
      BY <1>types, <1>27 DEF StreamEnds, CallTypes, callVars, StreamDone
    <2>2. WorkerTypes'
      BY <1>types, <1>27 DEF StreamEnds, WorkerTypes, workerVars, StreamDone, Executing
    <2> QED
      BY <1>types, <1>27, <2>1, <2>2
      DEF StreamEnds, RunTypes, ClaimTypes, RequestTypes, HistoryTypes, runVars,
          claimVars, historyVars
  <1>28. ASSUME NEW c \in Calls, FinishProviderCall(c) PROVE Goal
    <2>1. CallTypes'
      BY <1>types, <1>28 DEF FinishProviderCall, CallTypes, callVars, StreamDone
    <2>2. WorkerTypes'
      BY <1>types, <1>28
      DEF FinishProviderCall, WorkerTypes, workerVars, StreamDone, Executing
    <2> QED
      BY <1>types, <1>28, <2>1, <2>2
      DEF FinishProviderCall, RunTypes, ClaimTypes, RequestTypes, HistoryTypes,
          runVars, claimVars, historyVars
  <1>29. ASSUME SetEnabled PROVE Goal
    <2>1. RunTypes'
      BY <1>types, <1>29 DEF SetEnabled, RunTypes, runVars
    <2> QED
      BY <1>types, <1>29, <2>1
      DEF SetEnabled, CallTypes, WorkerTypes, ClaimTypes, RequestTypes, HistoryTypes,
          callVars, workerVars, claimVars, historyVars
  <1>30. ASSUME CoreCrash PROVE Goal
    <2>1. CallTypes'
      BY <1>types, <1>30 DEF CoreCrash, CallTypes, callVars
    <2>2. WorkerTypes'
      BY <1>types, <1>30, WaitingStates
      DEF CoreCrash, WorkerTypes, workerVars, ClaimSteps, Executing
    <2>3. ClaimTypes'
      BY <1>types, <1>30 DEF CoreCrash, ClaimTypes, claimVars
    <2>4. RequestTypes'
      BY <1>types, <1>30 DEF CoreCrash, RequestTypes
    <2>5. HistoryTypes'
      BY <1>types, <1>30, BoundAssumption DEF CoreCrash, HistoryTypes, historyVars,
          Fault
    <2> QED
      BY <1>types, <1>30, <2>1, <2>2, <2>3, <2>4, <2>5
      DEF CoreCrash, RunTypes, runVars
  <1>31. ASSUME UNCHANGED vars PROVE Goal
    BY <1>types, <1>31
    DEF vars, runVars, callVars, workerVars, claimVars, historyVars,
        RunTypes, CallTypes, WorkerTypes, ClaimTypes, RequestTypes, HistoryTypes
  <1> QED
    BY <1>1, <1>2, <1>3, <1>4, <1>5, <1>6, <1>7, <1>8, <1>9, <1>10, <1>11, <1>12,
        <1>13, <1>14, <1>15, <1>16, <1>17, <1>18, <1>19, <1>20, <1>21, <1>22, <1>23,
            <1>24, <1>25, <1>26, <1>27, <1>28, <1>29, <1>30, <1>31
    DEF Next, Claim, Execute, Serve, Gateway

-----------------------------------------------------------------------------
(* Locks.  Most steps settle the workers; the four in the locking part of  *)
(* a claim are looked at one by one.                                       *)

LEMMA QuietSettles ==
    ASSUME UNCHANGED <<workerVars, claimVars>> PROVE Settles
  BY DEF workerVars, claimVars, Settles

LEMMA BecomeSettles ==
    ASSUME TypeOK, RowsHeld, NEW w \in Workers, wpc[w] \in Executing,
           NEW pc \in {"idle"} \cup Executing, Become(w, pc), UNCHANGED claimVars
    PROVE  Settles
  <1> USE DEF TypeOK, claimVars, Become
  <1>1. rows[w] = {}  BY DEF RowsHeld, Executing
  <1>2. wpc'[w] = pc /\ (pc # "idle" => wrun'[w] = wrun[w] /\ wtoken'[w] = wtoken[w])
    OBVIOUS
  <1>3. \A v \in Workers \ {w} : wpc'[v] = wpc[v] /\ wrun'[v] = wrun[v] /\ wtoken'[v] = wtoken[v]
    OBVIOUS
  <1> QED  BY <1>1, <1>2, <1>3 DEF Settles, Executing, Locking

LEMMA SendSettles ==
    ASSUME TypeOK, RowsHeld, NEW w \in Workers, wpc[w] \in Executing,
           NEW kind, NEW S, NEW next \in {"idle"} \cup Executing,
           NEW refused \in {"idle"} \cup Executing,
           Send(w, kind, S, next, refused), UNCHANGED claimVars
    PROVE  Settles
  BY BecomeSettles DEF Send

LEMMA AnswerSettles ==
    ASSUME TypeOK, RowsHeld, NEW q \in requests, NEW next \in {"idle"} \cup Executing,
           Answer(q, next), UNCHANGED claimVars
    PROVE  Settles
  <1>1. q.worker \in Workers  BY DEF TypeOK, Request
  <1>2. CASE UNCHANGED workerVars  BY <1>2, QuietSettles
  <1>3. CASE wpc[q.worker] = Awaits[q.kind] /\ Become(q.worker, next)
    <2>1. wpc[q.worker] \in Executing  BY <1>3 DEF TypeOK, Request, Kinds, Awaits, Executing
    <2> QED  BY <1>1, <1>3, <2>1, BecomeSettles
  <1> QED  BY <1>2, <1>3 DEF Answer

LEMMA StreamDoneSettles ==
    ASSUME NEW c, StreamDone(c), UNCHANGED <<wrun, wtoken, claimVars>>, TypeOK, RowsHeld
    PROVE  Settles
  <1>1. ASSUME NEW w \in Workers, wpc'[w] # wpc[w]
        PROVE  wpc[w] = "calling" /\ wpc'[w] = "work" /\ rows[w] = {}
    BY <1>1 DEF StreamDone, TypeOK, RowsHeld
  <1> QED  BY <1>1 DEF Settles, claimVars, Executing, Locking

LEMMA ReaperSettles ==
    ASSUME TypeOK, RowsHeld, NEW w \in Workers, wpc[w] \notin Locking,
           NEW pc, pc \notin Locking \cup Executing, wpc' = [wpc EXCEPT ![w] = pc],
           UNCHANGED <<wrun, wtoken, claimVars>>
    PROVE  Settles
  <1>1. rows[w] = {}  BY DEF RowsHeld, Locking
  <1>2. \A v \in Workers : wpc'[v] = IF v = w THEN pc ELSE wpc[v]  BY DEF TypeOK
  <1> QED  BY <1>1, <1>2 DEF Settles, claimVars

LEMMA SameKeys ==
    ASSUME KeysHeld, UNCHANGED <<status, keys>>,
           \A v \in Workers : wpc'[v] \in {"count", "commit"} =>
               /\ wrun'[v] = wrun[v] /\ wpc[v] \in {"count", "commit"}
               /\ wpc'[v] = "commit" /\ wpc[v] # "commit" /\ ChatOf[wrun[v]] # NoChat =>
                     Cardinality(RunningIn(ChatOf[wrun[v]])) < ChatLimit
    PROVE  KeysHeld'
  <1>1. ASSUME NEW v \in Workers, wpc'[v] = "commit", ChatOf[wrun'[v]] # NoChat
        PROVE  Cardinality(RunningIn(ChatOf[wrun[v]])') < ChatLimit
    <2>1. wrun'[v] = wrun[v]  BY <1>1
    <2>2. Cardinality(RunningIn(ChatOf[wrun[v]])) < ChatLimit  BY <1>1, <2>1 DEF KeysHeld
    <2>3. RunningIn(ChatOf[wrun[v]])' = RunningIn(ChatOf[wrun[v]])  BY <2>1 DEF RunningIn
    <2> QED  BY <2>2, <2>3
  <1> QED  BY <1>1 DEF KeysHeld

LEMMA SameStatus == ASSUME UNCHANGED status PROVE NoneStarts
  BY DEF NoneStarts

LEMMA LockStep ==
    ASSUME TypeOK, TypeOK', LockInv, Next PROVE LockInv'
  <1> USE DEF LockInv
  <1>1. ASSUME NEW r \in Runs, LeaseExpires(r) PROVE LockInv'
    <2>1. Settles
      BY <1>1, QuietSettles DEF LeaseExpires
    <2>2. NoneStarts
      BY <1>1, SameStatus DEF LeaseExpires, runVars
    <2> QED  BY <2>1, <2>2, SettlesKeepsLocks
  <1>2. ASSUME NEW r \in Runs, Deadline(r) PROVE LockInv'
    <2>1. Settles
      BY <1>2, QuietSettles DEF Deadline
    <2>2. NoneStarts
      BY <1>2, SameStatus DEF Deadline, runVars
    <2> QED  BY <2>1, <2>2, SettlesKeepsLocks
  <1>3. ASSUME NEW r \in Runs, BackoffOver(r) PROVE LockInv'
    <2>1. Settles
      BY <1>3, QuietSettles DEF BackoffOver
    <2>2. NoneStarts
      BY <1>3, SameStatus DEF BackoffOver, runVars
    <2> QED  BY <2>1, <2>2, SettlesKeepsLocks
  <1>4. ASSUME NEW r \in Runs, Invoke(r) PROVE LockInv'
    <2>1. Settles
      BY <1>4, QuietSettles DEF Invoke
    <2>2. NoneStarts
      BY <1>4 DEF Invoke, NoneStarts, RowsHeld, TypeOK
    <2> QED  BY <2>1, <2>2, SettlesKeepsLocks
  <1>5. ASSUME NEW r \in Runs, RequestCancel(r) PROVE LockInv'
    <2>1. Settles
      BY <1>5, QuietSettles DEF RequestCancel
    <2>2. NoneStarts
      BY <1>5 DEF RequestCancel, NoneStarts, Unlocked, TypeOK
    <2> QED  BY <2>1, <2>2, SettlesKeepsLocks
  <1>6. ASSUME SetEnabled PROVE LockInv'
    <2>1. Settles
      BY <1>6, QuietSettles DEF SetEnabled
    <2>2. NoneStarts
      BY <1>6, SameStatus DEF SetEnabled, runVars
    <2> QED  BY <2>1, <2>2, SettlesKeepsLocks
  <1>7. ASSUME NEW w \in Workers, Heartbeat(w) PROVE LockInv'
    <2>1. Settles
      BY <1>7, QuietSettles DEF Heartbeat
    <2>2. NoneStarts
      BY <1>7, SameStatus DEF Heartbeat, runVars
    <2> QED  BY <2>1, <2>2, SettlesKeepsLocks
  <1>8. ASSUME NEW w \in Workers, ReapQueued(w) PROVE LockInv'
    <2>1. Settles
      BY <1>8, ReaperSettles DEF ReapQueued, Executing, Locking
    <2>2. NoneStarts
      BY <1>8 DEF ReapQueued, NoneStarts, Due, Unlocked, TypeOK
    <2> QED  BY <2>1, <2>2, SettlesKeepsLocks
  <1>9. ASSUME NEW w \in Workers, ReapRunning(w) PROVE LockInv'
    <2>1. Settles
      BY <1>9, ReaperSettles DEF ReapRunning, Executing, Locking
    <2>2. NoneStarts
      BY <1>9 DEF ReapRunning, NoneStarts, Reapable, AfterReap, RowsHeld, TypeOK
    <2> QED  BY <2>1, <2>2, SettlesKeepsLocks
  <1>10. ASSUME NEW w \in Workers, ClaimAborted(w) PROVE LockInv'
    <2>1. Settles
      BY <1>10 DEF ClaimAborted, NothingClaimed, Release, Settles, TypeOK, Executing,
          Locking
    <2>2. NoneStarts
      BY <1>10, SameStatus DEF ClaimAborted, runVars
    <2> QED  BY <2>1, <2>2, SettlesKeepsLocks
  <1>11. ASSUME NEW w \in Workers, SendStart(w) PROVE LockInv'
    <2>1. Settles
      BY <1>11, SendSettles DEF SendStart, Executing
    <2>2. NoneStarts
      BY <1>11, SameStatus DEF SendStart, runVars
    <2> QED  BY <2>1, <2>2, SettlesKeepsLocks
  <1>12. ASSUME NEW w \in Workers, SendPublish(w) PROVE LockInv'
    <2>1. Settles
      BY <1>12, SendSettles, BecomeSettles DEF SendPublish, Executing
    <2>2. NoneStarts
      BY <1>12, SameStatus DEF SendPublish, runVars
    <2> QED  BY <2>1, <2>2, SettlesKeepsLocks
  <1>13. ASSUME NEW w \in Workers, SendComplete(w) PROVE LockInv'
    <2>1. Settles
      BY <1>13, SendSettles DEF SendComplete, Executing
    <2>2. NoneStarts
      BY <1>13, SameStatus DEF SendComplete, runVars
    <2> QED  BY <2>1, <2>2, SettlesKeepsLocks
  <1>14. ASSUME NEW w \in Workers, SendFail(w) PROVE LockInv'
    <2>1. Settles
      BY <1>14, BecomeSettles DEF SendFail, Send, Executing
    <2>2. NoneStarts
      BY <1>14, SameStatus DEF SendFail, runVars
    <2> QED  BY <2>1, <2>2, SettlesKeepsLocks
  <1>15. ASSUME NEW w \in Workers, Preview(w) PROVE LockInv'
    <2>1. Settles
      BY <1>15, BecomeSettles DEF Preview, Executing
    <2>2. NoneStarts
      BY <1>15, SameStatus DEF Preview, runVars
    <2> QED  BY <2>1, <2>2, SettlesKeepsLocks
  <1>16. ASSUME NEW w \in Workers, WorkerError(w) PROVE LockInv'
    <2>1. Settles
      BY <1>16, BecomeSettles DEF WorkerError, Executing
    <2>2. NoneStarts
      BY <1>16, SameStatus DEF WorkerError, runVars
    <2> QED  BY <2>1, <2>2, SettlesKeepsLocks
  <1>17. ASSUME NEW w \in Workers, WorkerDies(w) PROVE LockInv'
    <2>1. Settles
      BY <1>17, BecomeSettles DEF WorkerDies, Executing
    <2>2. NoneStarts
      BY <1>17, SameStatus DEF WorkerDies, runVars
    <2> QED  BY <2>1, <2>2, SettlesKeepsLocks
  <1>18. ASSUME NEW q \in requests, StartProviderCall(q) PROVE LockInv'
    <2>1. Settles
      BY <1>18, AnswerSettles, QuietSettles DEF StartProviderCall, Executing
    <2>2. NoneStarts
      BY <1>18, SameStatus DEF StartProviderCall, runVars
    <2> QED  BY <2>1, <2>2, SettlesKeepsLocks
  <1>19. ASSUME NEW q \in requests, PublishRejected(q) PROVE LockInv'
    <2>1. Settles
      BY <1>19, AnswerSettles, QuietSettles DEF PublishRejected, Executing
    <2>2. NoneStarts
      BY <1>19, SameStatus DEF PublishRejected, runVars
    <2> QED  BY <2>1, <2>2, SettlesKeepsLocks
  <1>20. ASSUME NEW q \in requests, ProviderUsage(q) PROVE LockInv'
    <2>1. Settles
      BY <1>20, AnswerSettles, QuietSettles DEF ProviderUsage, Executing
    <2>2. NoneStarts
      BY <1>20, SameStatus DEF ProviderUsage, runVars
    <2> QED  BY <2>1, <2>2, SettlesKeepsLocks
  <1>21. ASSUME NEW q \in requests, Publish(q) PROVE LockInv'
    <2>1. Settles
      BY <1>21, AnswerSettles DEF Publish, Executing
    <2>2. NoneStarts
      BY <1>21, SameStatus DEF Publish, runVars
    <2> QED  BY <2>1, <2>2, SettlesKeepsLocks
  <1>22. ASSUME NEW q \in requests, Complete(q) PROVE LockInv'
    <2>1. Settles
      BY <1>22, AnswerSettles DEF Complete, Executing
    <2>2. NoneStarts
      BY <1>22 DEF Complete, Held, NoneStarts, RowsHeld, TypeOK
    <2> QED  BY <2>1, <2>2, SettlesKeepsLocks
  <1>23. ASSUME NEW q \in requests, Fail(q) PROVE LockInv'
    <2>1. Settles
      BY <1>23, AnswerSettles DEF Fail, Executing
    <2>2. NoneStarts
      BY <1>23 DEF Fail, Held, NoneStarts, RowsHeld, TypeOK, AfterFailure
    <2> QED  BY <2>1, <2>2, SettlesKeepsLocks
  <1>24. ASSUME NEW c \in Calls, StreamEnds(c) PROVE LockInv'
    <2>1. Settles
      BY <1>24, StreamDoneSettles, QuietSettles DEF StreamEnds, workerVars
    <2>2. NoneStarts
      BY <1>24, SameStatus DEF StreamEnds, runVars
    <2> QED  BY <2>1, <2>2, SettlesKeepsLocks
  <1>25. ASSUME NEW c \in Calls, FinishProviderCall(c) PROVE LockInv'
    <2>1. Settles
      BY <1>25, StreamDoneSettles DEF FinishProviderCall
    <2>2. NoneStarts
      BY <1>25, SameStatus DEF FinishProviderCall, runVars
    <2> QED  BY <2>1, <2>2, SettlesKeepsLocks
  <1>26. ASSUME CoreCrash PROVE LockInv'
    <2>1. Settles
      BY <1>26, WaitingStates
      DEF CoreCrash, Settles, TypeOK, ClaimSteps, Executing, Locking
    <2>2. NoneStarts
      BY <1>26, SameStatus DEF CoreCrash, runVars
    <2> QED  BY <2>1, <2>2, SettlesKeepsLocks
  <1>27. ASSUME NEW w \in Workers, ClaimScan(w) PROVE LockInv'
    <2>same. UNCHANGED status  BY <1>27 DEF ClaimScan, runVars
    <2>1. CASE Claimable = {}
      <3>1. Settles
        BY <1>27, <2>1 DEF ClaimScan, NothingClaimed, Release, Settles, TypeOK,
            Executing, Locking
      <3> QED  BY <2>same, <3>1, SameStatus, SettlesKeepsLocks
    <2>2. CASE Claimable # {}
      <3>1. PICK r \in Claimable :
              /\ rows' = [rows EXCEPT ![w] = Claimable]
              /\ candidates' = [candidates EXCEPT ![w] = Claimable]
              /\ wpc' = [wpc EXCEPT ![w] = "lock"]
              /\ wrun' = [wrun EXCEPT ![w] = r]
              /\ UNCHANGED <<keys, wtoken>>
        BY <1>27, <2>2 DEF ClaimScan, TryItem
      <3>2. /\ \A v \in Workers : rows'[v] = IF v = w THEN Claimable ELSE rows[v]
            /\ \A v \in Workers : candidates'[v] = IF v = w THEN Claimable ELSE candidates[v]
            /\ \A v \in Workers : wpc'[v] = IF v = w THEN "lock" ELSE wpc[v]
            /\ \A v \in Workers : wrun'[v] = IF v = w THEN r ELSE wrun[v]
        BY <3>1 DEF TypeOK
      <3>3. \A x \in Claimable : status[x] = "queued" /\ \A v \in Workers : x \notin rows[v]
        BY DEF Claimable, Unlocked
      <3>4. RowsHeld'
        <4>1. (\A v \in Workers : rows[v] # {} => wpc[v] \in {"lock", "count", "commit"})'
          BY <3>2 DEF RowsHeld
        <4>2. (\A v \in Workers : \A x \in rows[v] : status[x] = "queued")'
          BY <2>same, <3>2, <3>3 DEF RowsHeld
        <4>3. (\A u, v \in Workers : u # v => rows[u] \cap rows[v] = {})'
          BY <3>2, <3>3 DEF RowsHeld
        <4>4. (\A v \in Workers : wpc[v] \in {"lock", "count", "commit"} =>
                  wrun[v] \in candidates[v] /\ candidates[v] \subseteq rows[v])'
          BY <3>1, <3>2 DEF RowsHeld
        <4> QED  BY <4>1, <4>2, <4>3, <4>4 DEF RowsHeld
      <3>5. KeysHeld'  BY <2>same, <3>1, <3>2, SameKeys
      <3>6. WorkersLeased'  BY <3>1, <3>2 DEF WorkersLeased, Executing
      <3>7. ChatLimitHeld'  BY <2>same DEF ChatLimitHeld, RunningIn
      <3> QED  BY <3>4, <3>5, <3>6, <3>7
    <2> QED  BY <2>1, <2>2
  <1>28. ASSUME NEW w \in Workers, ClaimLock(w) PROVE LockInv'
    <2>1. /\ wpc[w] = "lock" /\ KeyFree(w, ChatOf[wrun[w]])
          /\ keys' = [keys EXCEPT ![w] = @ \cup {ChatOf[wrun[w]]}]
          /\ wpc' = [wpc EXCEPT ![w] = "count"]
          /\ UNCHANGED <<status, wrun, wtoken, rows, candidates>>
      BY <1>28 DEF ClaimLock, runVars
    <2>2. RowsHeld'  BY <2>1 DEF RowsHeld, TypeOK
    <2>3. KeysHeld'  BY <2>1 DEF KeysHeld, KeyFree, RunningIn, TypeOK
    <2>4. WorkersLeased'  BY <2>1 DEF WorkersLeased, Executing, TypeOK
    <2>5. ChatLimitHeld'  BY <2>1 DEF ChatLimitHeld, RunningIn
    <2> QED  BY <2>2, <2>3, <2>4, <2>5
  <1>29. ASSUME NEW w \in Workers, ClaimCount(w) PROVE LockInv'
    <2> DEFINE full == /\ ChatOf[wrun[w]] # NoChat
                       /\ Cardinality(RunningIn(ChatOf[wrun[w]])) >= ChatLimit
               rest == candidates[w] \ {wrun[w]}
    <2>same. UNCHANGED <<status, wtoken>>  BY <1>29 DEF ClaimCount, runVars
    <2>limit. ChatLimitHeld'  BY <2>same DEF ChatLimitHeld, RunningIn
    <2>1. CASE ~full /\ wpc' = [wpc EXCEPT ![w] = "commit"] /\ UNCHANGED <<wrun, claimVars>>
      <3>1. RowsHeld'  BY <1>29, <2>1, <2>same DEF ClaimCount, RowsHeld, TypeOK,
          claimVars
      <3>2. ChatOf[wrun[w]] # NoChat => Cardinality(RunningIn(ChatOf[wrun[w]])) < ChatLimit
        BY <2>1, RunningFinite, BoundAssumption
      <3>3. \A v \in Workers : wpc'[v] = IF v = w THEN "commit" ELSE wpc[v]
        BY <2>1 DEF TypeOK
      <3>4. wpc[w] = "count"  BY <1>29 DEF ClaimCount
      <3>5. KeysHeld'  BY <2>1, <2>same, <3>2, <3>3, <3>4, SameKeys DEF claimVars
      <3>6. WorkersLeased'  BY <2>1, <2>same, <3>3 DEF WorkersLeased, Executing
      <3> QED  BY <3>1, <3>5, <3>6, <2>limit
    <2>2. CASE TryItem(w, rest) /\ UNCHANGED <<rows, keys>>
      <3>1. wpc[w] = "count"  BY <1>29 DEF ClaimCount
      <3>2. PICK r \in rest :
              /\ candidates' = [candidates EXCEPT ![w] = rest]
              /\ wpc' = [wpc EXCEPT ![w] = "lock"]
              /\ wrun' = [wrun EXCEPT ![w] = r]
        BY <2>2 DEF TryItem
      <3>3. /\ \A v \in Workers : candidates'[v] = IF v = w THEN rest ELSE candidates[v]
            /\ \A v \in Workers : wpc'[v] = IF v = w THEN "lock" ELSE wpc[v]
            /\ \A v \in Workers : wrun'[v] = IF v = w THEN r ELSE wrun[v]
        BY <3>2 DEF TypeOK
      <3>4. RowsHeld'
        <4>1. r \in rest /\ rest \subseteq rows[w]  BY <3>1 DEF RowsHeld
        <4> HIDE DEF rest
        <4>2. (\A v \in Workers : rows[v] # {} => wpc[v] \in {"lock", "count", "commit"})'
          BY <2>2, <3>3 DEF RowsHeld
        <4>3. (\A v \in Workers : wpc[v] \in {"lock", "count", "commit"} =>
                  wrun[v] \in candidates[v] /\ candidates[v] \subseteq rows[v])'
          BY <2>2, <3>3, <4>1 DEF RowsHeld
        <4> QED  BY <2>2, <2>same, <4>2, <4>3 DEF RowsHeld
      <3>5. KeysHeld'  BY <2>2, <2>same, <3>3, SameKeys
      <3>6. WorkersLeased'  BY <2>same, <3>3 DEF WorkersLeased, Executing
      <3> QED  BY <3>4, <3>5, <3>6, <2>limit
    <2>3. CASE NothingClaimed(w)
      <3>1. Settles
        BY <2>3, <2>same DEF NothingClaimed, Release, Settles, TypeOK, Executing,
            Locking
      <3> QED  BY <2>same, <3>1, SameStatus, SettlesKeepsLocks
    <2> QED  BY <1>29, <2>1, <2>2, <2>3 DEF ClaimCount
  <1>30. ASSUME NEW w \in Workers, ClaimCommit(w) PROVE LockInv'
    <2> DEFINE r == wrun[w]
    <2>1. /\ wpc[w] = "commit"
          /\ status' = [status EXCEPT ![r] = "running"]
          /\ rows' = [rows EXCEPT ![w] = {}]
          /\ candidates' = [candidates EXCEPT ![w] = {}]
          /\ keys' = [keys EXCEPT ![w] = {}]
          /\ wtoken' = [wtoken EXCEPT ![w] = tokens + 1]
          /\ wpc' = [wpc EXCEPT ![w] = "work"]
          /\ UNCHANGED wrun
      BY <1>30 DEF ClaimCommit, Release
    <2>2. r \in rows[w] /\ r \in Runs  BY <2>1 DEF RowsHeld, TypeOK
    <2>3. RowsHeld'  BY <2>1, <2>2 DEF RowsHeld, TypeOK
    <2>4. \A k : k # ChatOf[r] => RunningIn(k)' = RunningIn(k)
      BY <2>1, <2>2 DEF RunningIn, TypeOK
    <2>5. KeysHeld'
      <3>1. (\A v, u \in Workers : v # u => keys[v] \cap keys[u] = {})'
        BY <2>1 DEF KeysHeld, TypeOK
      <3>2. (\A v \in Workers : wpc[v] \in {"count", "commit"} => ChatOf[wrun[v]] \in keys[v])'
        BY <2>1 DEF KeysHeld, TypeOK
      <3>3. ASSUME NEW v \in Workers, wpc'[v] = "commit", ChatOf[wrun'[v]] # NoChat
            PROVE  Cardinality(RunningIn(ChatOf[wrun[v]])') < ChatLimit
        <4>1. v # w /\ wpc[v] = "commit" /\ wrun'[v] = wrun[v]  BY <2>1, <3>3 DEF TypeOK
        <4>2. ChatOf[wrun[v]] # ChatOf[r]  BY <2>1, <4>1 DEF KeysHeld
        <4>3. RunningIn(ChatOf[wrun[v]])' = RunningIn(ChatOf[wrun[v]])
          BY <2>1, <2>2, <4>2 DEF RunningIn, TypeOK
        <4> QED  BY <3>3, <4>1, <4>3 DEF KeysHeld
      <3> QED  BY <2>1, <3>1, <3>2, <3>3 DEF KeysHeld
    <2>6. WorkersLeased'  BY <2>1, <2>2 DEF WorkersLeased, Executing, TypeOK
    <2>7. ASSUME NEW k \in Chats PROVE Cardinality(RunningIn(k)') <= ChatLimit
      <3>1. CASE k # ChatOf[r]  BY <2>4, <3>1 DEF ChatLimitHeld
      <3>2. CASE k = ChatOf[r]
        <4>1. RunningIn(k)' = RunningIn(k) \cup {r}
          BY <2>1, <2>2, <3>2 DEF RunningIn, TypeOK
        <4>2. Cardinality(RunningIn(k)) < ChatLimit
          BY <2>1, <3>2, RunAssumption DEF KeysHeld
        <4>3. Cardinality(RunningIn(k) \cup {r}) <= Cardinality(RunningIn(k)) + 1
          BY RunningFinite, FS_AddElement
        <4>4. Cardinality(RunningIn(k) \cup {r}) \in Nat
          BY RunningFinite, FS_AddElement, FS_CardinalityType
        <4> QED  BY <4>1, <4>2, <4>3, <4>4, RunningFinite, BoundAssumption
      <3> QED  BY <3>1, <3>2
    <2> QED  BY <2>3, <2>5, <2>6, <2>7 DEF ChatLimitHeld
  <1> QED
    BY <1>1, <1>2, <1>3, <1>4, <1>5, <1>6, <1>7, <1>8, <1>9, <1>10, <1>11, <1>12,
        <1>13, <1>14, <1>15, <1>16, <1>17, <1>18, <1>19, <1>20, <1>21, <1>22, <1>23, <1>24,
            <1>25, <1>26, <1>27, <1>28, <1>29, <1>30
    DEF Next, Claim, Execute, Serve, Gateway

-----------------------------------------------------------------------------
(* Attempts, cancellations and messages.                                   *)

RecordInv == NotClaimedYet /\ MessageRecorded /\ CancelSticks /\ AttemptsCount

RecordFrame == UNCHANGED <<status, attempt, cancelRequested, claims, published, messages>>

LEMMA RecordSame == ASSUME RecordInv, RecordFrame PROVE RecordInv'
  BY DEF RecordInv, RecordFrame, NotClaimedYet, MessageRecorded, CancelSticks,
      AttemptsCount

(* A run that changes its status without being claimed: it was not         *)
(* canceled unless it is now, and it is queued again only with another     *)
(* attempt left.                                                           *)
LEMMA RecordMoves ==
    ASSUME TypeOK, RecordInv, UNCHANGED <<claims, published, messages>>,
           \A r \in Runs :
             \/ /\ status'[r] = status[r] /\ attempt'[r] = attempt[r]
                /\ cancelRequested'[r] = cancelRequested[r]
             \/ /\ status[r] \in {"queued", "running"}
                /\ status'[r] \in {"queued", "running"} \cup Final
                /\ cancelRequested'[r] => status'[r] \in {"running", "canceled"}
                /\ \/ attempt'[r] = attempt[r] /\ (status'[r] = "queued" => status[r] = "queued")
                   \/ attempt'[r] = attempt[r] + 1 /\ attempt[r] < MaxAttempts
    PROVE  RecordInv'
  <1>1. NotClaimedYet'  BY DEF RecordInv, NotClaimedYet, Final
  <1>2. MessageRecorded'  BY DEF RecordInv, MessageRecorded
  <1>3. CancelSticks'  BY DEF RecordInv, CancelSticks
  <1>4. ASSUME NEW r \in Runs
        PROVE  /\ attempt'[r] <= MaxAttempts /\ claims'[r] <= attempt'[r]
               /\ status'[r] = "queued" => claims'[r] < attempt'[r]
    <2>1. /\ attempt[r] \in Nat /\ claims[r] \in Nat /\ claims'[r] = claims[r]
          /\ attempt[r] <= MaxAttempts /\ claims[r] <= attempt[r]
          /\ status[r] = "queued" => claims[r] < attempt[r]
      BY DEF TypeOK, RecordInv, AttemptsCount
    <2> QED  BY <2>1, BoundAssumption
  <1> QED  BY <1>1, <1>2, <1>3, <1>4 DEF RecordInv, AttemptsCount

LEMMA RecordStep ==
    ASSUME TypeOK, RowsHeld, RecordInv, Next PROVE RecordInv'
  <1>running. \A r \in Runs : cancelRequested[r] => status[r] # "queued"
    BY DEF RecordInv, CancelSticks
  <1>1. ASSUME NEW r \in Runs, Invoke(r) PROVE RecordInv'
    <2>1. /\ status[r] = "none" /\ claims[r] = 0 /\ ~cancelRequested[r]
      BY <1>1 DEF Invoke, RecordInv, NotClaimedYet, CancelSticks, TypeOK
    <2>2. /\ \A x \in Runs : status'[x] = IF x = r THEN "queued" ELSE status[x]
          /\ \A x \in Runs : attempt'[x] = IF x = r THEN 1 ELSE attempt[x]
          /\ UNCHANGED <<cancelRequested, claims, published, messages>>
      BY <1>1 DEF Invoke, TypeOK, historyVars
    <2>3. NotClaimedYet' /\ MessageRecorded' /\ CancelSticks'
      BY <2>1, <2>2 DEF RecordInv, NotClaimedYet, MessageRecorded, CancelSticks
    <2>4. AttemptsCount'
      BY <2>1, <2>2, BoundAssumption DEF RecordInv, AttemptsCount
    <2> QED  BY <2>3, <2>4 DEF RecordInv
  <1>2. ASSUME NEW r \in Runs, RequestCancel(r) PROVE RecordInv'
    BY <1>2, RecordMoves DEF RequestCancel, TypeOK, historyVars, Final
  <1>3. ASSUME NEW w \in Workers, ReapQueued(w) PROVE RecordInv'
    <2>1. /\ \A x \in Runs : status'[x] = IF x \in Due THEN "timed_out" ELSE status[x]
          /\ UNCHANGED <<attempt, cancelRequested, claims, published, messages>>
      BY <1>3 DEF ReapQueued, historyVars
    <2> QED  BY <1>running, <2>1, RecordMoves DEF Due, Final
  <1>4. ASSUME NEW w \in Workers, ReapRunning(w) PROVE RecordInv'
    <2>1. /\ \A x \in Runs : status'[x] = IF x \in Reapable THEN AfterReap(x) ELSE status[x]
          /\ \A x \in Runs : attempt'[x] = IF x \in Reapable /\ AfterReap(x) = "queued"
                                           THEN attempt[x] + 1 ELSE attempt[x]
          /\ UNCHANGED <<cancelRequested, claims, published, messages>>
      BY <1>4 DEF ReapRunning, historyVars
    <2>2. ASSUME NEW x \in Reapable
          PROVE  /\ status[x] = "running" /\ AfterReap(x) \in {"canceled", "queued", "timed_out"}
                 /\ cancelRequested[x] => AfterReap(x) = "canceled"
                 /\ AfterReap(x) = "queued" => attempt[x] < MaxAttempts
      BY <2>2 DEF Reapable, AfterReap
    <2> QED  BY <2>1, <2>2, RecordMoves DEF Final
  <1>5. ASSUME NEW w \in Workers, ClaimCommit(w) PROVE RecordInv'
    <2>1. wrun[w] \in Runs /\ status[wrun[w]] = "queued"
      BY <1>5 DEF ClaimCommit, RowsHeld, TypeOK
    <2>2. /\ \A x \in Runs : status'[x] = IF x = wrun[w] THEN "running" ELSE status[x]
          /\ \A x \in Runs : claims'[x] = IF x = wrun[w] THEN claims[x] + 1 ELSE claims[x]
          /\ UNCHANGED <<attempt, cancelRequested, published, messages>>
      BY <1>5 DEF ClaimCommit, TypeOK
    <2>3. NotClaimedYet' /\ MessageRecorded' /\ CancelSticks'
      BY <2>1, <2>2 DEF RecordInv, NotClaimedYet, MessageRecorded, CancelSticks
    <2>4. \A x \in Runs : claims[x] \in Nat /\ attempt[x] \in Nat  BY DEF TypeOK
    <2>5. AttemptsCount'
      BY <2>1, <2>2, <2>4, BoundAssumption DEF RecordInv, AttemptsCount
    <2> QED  BY <2>3, <2>5 DEF RecordInv
  <1>6. ASSUME NEW q \in requests, Publish(q) PROVE RecordInv'
    <2>1. q.run \in Runs /\ q.token \in Nat \ {0}  BY DEF TypeOK, Request
    <2>2. CASE /\ FinalFree(q)
               /\ published' = [published EXCEPT ![q.run] = q.token]
               /\ messages' = [messages EXCEPT ![q.run] = @ \cup {q.token}]
      <3>1. UNCHANGED <<status, attempt, cancelRequested, claims>>  BY <1>6 DEF Publish
      <3>2. NotClaimedYet' /\ CancelSticks' /\ AttemptsCount'
        BY <3>1 DEF RecordInv, NotClaimedYet, CancelSticks, AttemptsCount
      <3>3. MessageRecorded'
        BY <2>1, <2>2 DEF RecordInv, MessageRecorded, FinalFree, TypeOK
      <3> QED  BY <3>2, <3>3 DEF RecordInv
    <2>3. CASE UNCHANGED <<published, messages>>
      BY <1>6, <2>3, RecordSame DEF Publish, RecordFrame
    <2> QED  BY <1>6, <2>2, <2>3 DEF Publish
  <1>7. ASSUME NEW q \in requests, Complete(q) PROVE RecordInv'
    <2>1. q.run \in Runs  BY DEF TypeOK, Request
    <2>2. UNCHANGED <<attempt, cancelRequested, claims, published, messages>>
      BY <1>7 DEF Complete, historyVars
    <2>3. CASE UNCHANGED status  BY <2>2, <2>3, RecordSame DEF RecordFrame
    <2>4. CASE /\ Held(q)
               /\ status' = [status EXCEPT ![q.run] = IF cancelRequested[q.run] THEN "canceled"
                                                      ELSE "completed"]
      BY <2>1, <2>2, <2>4, RecordMoves DEF Held, TypeOK, Final
    <2> QED  BY <1>7, <2>3, <2>4 DEF Complete
  <1>8. ASSUME NEW q \in requests, Fail(q) PROVE RecordInv'
    <2>1. q.run \in Runs  BY DEF TypeOK, Request
    <2>2. UNCHANGED <<cancelRequested, claims, published, messages>>
      BY <1>8 DEF Fail, historyVars
    <2>3. CASE ~Held(q)  BY <1>8, <2>2, <2>3, RecordSame DEF Fail, RecordFrame
    <2>4. CASE Held(q)
      <3>1. PICK after \in {"queued"} \cup Final :
              /\ status' = [status EXCEPT ![q.run] = after]
              /\ attempt' = [attempt EXCEPT ![q.run] = IF after = "queued" THEN @ + 1 ELSE @]
              /\ cancelRequested[q.run] => after = "canceled"
              /\ after = "queued" => attempt[q.run] < MaxAttempts
        BY <1>8, <2>4 DEF Fail, AfterFailure, Final
      <3>2. /\ \A x \in Runs : status'[x] = IF x = q.run THEN after ELSE status[x]
            /\ \A x \in Runs : attempt'[x] = IF x = q.run /\ after = "queued"
                                             THEN attempt[x] + 1 ELSE attempt[x]
        BY <3>1 DEF TypeOK
      <3>3. status[q.run] = "running"  BY <2>4 DEF Held
      <3> QED  BY <2>1, <2>2, <3>1, <3>2, <3>3, RecordMoves DEF Final
    <2> QED  BY <2>3, <2>4
  <1>9. ASSUME NEW r \in Runs, LeaseExpires(r) \/ Deadline(r) \/ BackoffOver(r)
        PROVE  RecordInv'
    BY <1>9, RecordSame
    DEF RecordFrame, runVars, historyVars, LeaseExpires, Deadline, BackoffOver
  <1>10. ASSUME NEW w \in Workers, 
           \/ ClaimScan(w) \/ ClaimLock(w) \/ ClaimAborted(w)
           \/ ClaimCount(w) \/ Heartbeat(w)
        PROVE  RecordInv'
    BY <1>10, RecordSame
    DEF RecordFrame, runVars, historyVars, ClaimScan, ClaimLock, ClaimAborted,
        ClaimCount, Heartbeat
  <1>11. ASSUME NEW w \in Workers, 
           \/ SendStart(w) \/ SendPublish(w) \/ Preview(w) \/ SendComplete(w)
           \/ WorkerError(w) \/ SendFail(w) \/ WorkerDies(w)
        PROVE  RecordInv'
    BY <1>11, RecordSame
    DEF RecordFrame, runVars, historyVars, SendStart, SendPublish, Preview,
        SendComplete, WorkerError, SendFail, WorkerDies
  <1>12. ASSUME NEW q \in requests, StartProviderCall(q) \/ PublishRejected(q) \/ ProviderUsage(q)
        PROVE  RecordInv'
    BY <1>12, RecordSame
    DEF RecordFrame, runVars, historyVars, StartProviderCall, PublishRejected,
        ProviderUsage
  <1>13. ASSUME NEW c \in Calls, StreamEnds(c) \/ FinishProviderCall(c) PROVE RecordInv'
    BY <1>13, RecordSame
    DEF RecordFrame, runVars, historyVars, StreamEnds, FinishProviderCall
  <1>14. ASSUME SetEnabled \/ CoreCrash PROVE RecordInv'
    BY <1>14, RecordSame
    DEF RecordFrame, runVars, historyVars, SetEnabled, CoreCrash
  <1> QED
    BY <1>1, <1>2, <1>3, <1>4, <1>5, <1>6, <1>7, <1>8, <1>9, <1>10, <1>11, <1>12,
        <1>13, <1>14
    DEF Next, Claim, Execute, Serve, Gateway

(* Executions and requests go back to a claim, and claims are not undone.  *)
LEMMA ExecutedKept ==
    ASSUME TypeOK, ExecutedIsClaimed,
           \A r \in Runs : claims'[r] >= claims[r] /\ claims'[r] \in Nat,
           \A w \in Workers : wpc'[w] \in Executing =>
               /\ wrun'[w] \in Runs
               /\ \/ wpc[w] \in Executing /\ wrun'[w] = wrun[w]
                  \/ claims'[wrun'[w]] > 0,
           \A q \in requests' : q.run \in Runs /\ (q \in requests \/ claims[q.run] > 0)
    PROVE  ExecutedIsClaimed'
  <1>1. \A r \in Runs : claims[r] \in Nat  BY DEF TypeOK
  <1>2. \A r \in Runs : claims[r] > 0 => claims'[r] > 0  BY <1>1
  <1> QED  BY <1>2 DEF ExecutedIsClaimed

LEMMA ExecutedStep ==
    ASSUME TypeOK, RowsHeld, WorkersLeased, ExecutedIsClaimed, Next PROVE ExecutedIsClaimed'
  <1>runs. /\ \A q \in requests : q.run \in Runs /\ q.worker \in Workers
           /\ \A w \in Workers : wpc[w] \in Executing => wrun[w] \in Runs
           /\ \A r \in Runs : claims[r] \in Nat
    BY DEF TypeOK, Request, WorkersLeased
  <1> DEFINE Quiet == UNCHANGED claims /\ requests' \subseteq requests
             Same == \A w \in Workers : wpc'[w] \in Executing =>
                        wpc[w] \in Executing /\ wrun'[w] = wrun[w]
  <1>same. ASSUME Quiet, Same PROVE ExecutedIsClaimed'
    BY <1>runs, <1>same, ExecutedKept
  <1>become. ASSUME NEW w \in Workers, NEW pc, wpc[w] \in Executing, Become(w, pc) PROVE Same
    BY <1>become DEF Become, TypeOK, Executing
  <1>answer. ASSUME NEW q \in requests, NEW next, Answer(q, next)
             PROVE  Same /\ requests' \subseteq requests
    <2>1. requests' \subseteq requests  BY <1>answer DEF Answer
    <2>2. CASE UNCHANGED workerVars  BY <2>1, <2>2 DEF workerVars
    <2>3. CASE wpc[q.worker] = Awaits[q.kind] /\ Become(q.worker, next)
      <3>1. wpc[q.worker] \in Executing  BY <2>3 DEF TypeOK, Request, Kinds, Awaits, Executing
      <3> QED  BY <1>runs, <1>become, <2>1, <2>3, <3>1
    <2> QED  BY <1>answer, <2>2, <2>3 DEF Answer
  <1>1. ASSUME NEW r \in Runs,
               \/ Invoke(r) \/ RequestCancel(r) \/ LeaseExpires(r) \/ Deadline(r)
               \/ BackoffOver(r)
        PROVE  Quiet /\ Same
    BY <1>1
    DEF workerVars, historyVars, Invoke, RequestCancel, LeaseExpires, Deadline, BackoffOver
  <1>2. ASSUME NEW w \in Workers,
               \/ ReapQueued(w) \/ ReapRunning(w) \/ ClaimScan(w) \/ ClaimLock(w)
               \/ ClaimAborted(w) \/ ClaimCount(w)
        PROVE  Quiet /\ Same
    <2>1. Quiet
      BY <1>2
      DEF historyVars, ReapQueued, ReapRunning, ClaimScan, ClaimLock, ClaimAborted, ClaimCount
    <2>2. \E pc \in {"idle"} \cup ClaimSteps : wpc' = [wpc EXCEPT ![w] = pc]
      BY <1>2
      DEF ClaimSteps, ReapQueued, ReapRunning, ClaimScan, ClaimLock, ClaimAborted, ClaimCount,
          NothingClaimed, TryItem
    <2>3. UNCHANGED wrun \/ \E r : wrun' = [wrun EXCEPT ![w] = r]
      BY <1>2
      DEF ReapQueued, ReapRunning, ClaimScan, ClaimLock, ClaimAborted, ClaimCount,
          NothingClaimed, TryItem
    <2>4. wpc'[w] \notin Executing /\ \A v \in Workers \ {w} : wpc'[v] = wpc[v] /\ wrun'[v] = wrun[v]
      BY <2>2, <2>3 DEF TypeOK, Executing, ClaimSteps
    <2> QED  BY <2>1, <2>4
  <1>3. ASSUME NEW w \in Workers, ClaimCommit(w) PROVE ExecutedIsClaimed'
    <2>1. wrun[w] \in Runs  BY <1>3 DEF ClaimCommit, RowsHeld, TypeOK
    <2>2. /\ \A r \in Runs : claims'[r] = IF r = wrun[w] THEN claims[r] + 1 ELSE claims[r]
          /\ \A v \in Workers \ {w} : wpc'[v] = wpc[v]
          /\ UNCHANGED <<wrun, requests>>
      BY <1>3 DEF ClaimCommit, TypeOK
    <2>3. claims'[wrun[w]] > 0  BY <1>runs, <2>1, <2>2
    <2>4. \A r \in Runs : claims'[r] >= claims[r] /\ claims'[r] \in Nat  BY <1>runs, <2>2
    <2> QED  BY <1>runs, <2>1, <2>2, <2>3, <2>4, ExecutedKept
  <1>4. ASSUME NEW w \in Workers,
               SendStart(w) \/ SendPublish(w) \/ SendComplete(w) \/ SendFail(w)
        PROVE  ExecutedIsClaimed'
    <2>1. wpc[w] \in Executing /\ UNCHANGED claims
      BY <1>4 DEF SendStart, SendPublish, SendComplete, SendFail, Executing, historyVars
    <2>2. ASSUME NEW kind, NEW S, NEW pc, Ask(w, kind, S), Become(w, pc)
          PROVE  ExecutedIsClaimed'
      <3>1. \A q \in requests' : q \in requests \/ q.run = wrun[w]  BY <2>2 DEF Ask
      <3>2. wrun[w] \in Runs /\ claims[wrun[w]] > 0
        BY <1>runs, <2>1 DEF ExecutedIsClaimed
      <3>3. Same  BY <1>become, <2>1, <2>2
      <3> QED  BY <1>runs, <2>1, <3>1, <3>2, <3>3, ExecutedKept
    <2>3. ASSUME NEW pc, UNCHANGED requests, Become(w, pc) PROVE ExecutedIsClaimed'
      BY <1>same, <1>become, <2>1, <2>3
    <2> QED
      BY <1>4, <2>2, <2>3 DEF SendStart, SendPublish, SendComplete, SendFail, Send
  <1>5. ASSUME NEW w \in Workers, Preview(w) \/ WorkerError(w) \/ WorkerDies(w)
        PROVE  Quiet /\ Same
    BY <1>5, <1>become DEF Preview, WorkerError, WorkerDies, Executing, historyVars
  <1>6. ASSUME NEW w \in Workers, Heartbeat(w) PROVE Quiet /\ Same
    BY <1>6 DEF Heartbeat, workerVars, historyVars
  <1>7. ASSUME NEW q \in requests, StartProviderCall(q) PROVE Quiet /\ Same
    <2>1. UNCHANGED claims  BY <1>7 DEF StartProviderCall, historyVars
    <2>2. CASE UNCHANGED workerVars /\ requests' = requests \ {q}
      BY <2>1, <2>2 DEF workerVars
    <2>3. CASE Answer(q, "failing") \/ Answer(q, "over_budget")
      BY <1>answer, <2>1, <2>3
    <2> QED  BY <1>7, <2>2, <2>3 DEF StartProviderCall
  <1>8. ASSUME NEW q \in requests, Publish(q) \/ PublishRejected(q) \/ Complete(q) \/ Fail(q)
        PROVE  Quiet /\ Same
    <2>1. UNCHANGED claims /\ \E next : Answer(q, next)
      BY <1>8 DEF Publish, PublishRejected, Complete, Fail, historyVars
    <2> QED  BY <1>answer, <2>1
  <1>9. ASSUME NEW q \in requests, ProviderUsage(q) PROVE ExecutedIsClaimed'
    <2>1. UNCHANGED claims  BY <1>9 DEF ProviderUsage, historyVars
    <2>2. CASE Answer(q, "failing")  BY <1>answer, <1>same, <2>1, <2>2
    <2>3. CASE Held(q) /\ Unfinished(q.run) = {}
      <3> DEFINE done == [q EXCEPT !.kind = "complete",
                             !.calls = {c \in CallsOf(q.run) : callStatus[c] = "completed"}]
      <3>1. requests' = (requests \ {q}) \cup {done} /\ UNCHANGED workerVars
        BY <1>9, <2>3 DEF ProviderUsage
      <3>2. done.run = q.run  BY DEF TypeOK, Request
      <3> HIDE DEF done
      <3>3. \A p \in requests' : p.run \in Runs /\ (p \in requests \/ claims[p.run] > 0)
        BY <1>runs, <3>1, <3>2 DEF ExecutedIsClaimed
      <3> QED  BY <1>runs, <2>1, <3>1, <3>3, ExecutedKept DEF workerVars
    <2> QED  BY <1>9, <2>2, <2>3 DEF ProviderUsage
  <1>10. ASSUME NEW c \in Calls, StreamEnds(c) \/ FinishProviderCall(c) PROVE Quiet /\ Same
    BY <1>10 DEF StreamEnds, FinishProviderCall, StreamDone, historyVars, Executing
  <1>11. ASSUME SetEnabled PROVE Quiet /\ Same
    BY <1>11 DEF SetEnabled, workerVars, historyVars
  <1>12. ASSUME CoreCrash PROVE Quiet /\ Same
    BY <1>12, WaitingStates DEF CoreCrash, historyVars, Executing, ClaimSteps
  <1> QED
    BY <1>same, <1>1, <1>2, <1>3, <1>4, <1>5, <1>6, <1>7, <1>8, <1>9, <1>10, <1>11, <1>12
    DEF Next, Claim, Execute, Serve, Gateway

-----------------------------------------------------------------------------
LEMMA QueueParts == QueueInv <=> TypeOK /\ LockInv /\ RecordInv /\ ExecutedIsClaimed
  BY DEF QueueInv, LockInv, RecordInv

LEMMA QueueInit == Init => QueueInv
  <1> SUFFICES ASSUME Init PROVE TypeOK /\ LockInv /\ RecordInv /\ ExecutedIsClaimed
    BY QueueParts
  <1>1. TypeOK  BY TypeInit
  <1>2. RowsHeld /\ KeysHeld /\ WorkersLeased
    BY DEF Init, RowsHeld, KeysHeld, WorkersLeased, Executing
  <1>3. ASSUME NEW k \in Chats PROVE Cardinality(RunningIn(k)) <= ChatLimit
    <2>1. RunningIn(k) = {}  BY DEF Init, RunningIn
    <2> QED  BY <2>1, FS_EmptySet, BoundAssumption
  <1>4. RecordInv
    BY BoundAssumption
    DEF Init, RecordInv, NotClaimedYet, MessageRecorded, CancelSticks, AttemptsCount
  <1>5. ExecutedIsClaimed  BY DEF Init, ExecutedIsClaimed, Executing
  <1> QED  BY <1>1, <1>2, <1>3, <1>4, <1>5 DEF LockInv, ChatLimitHeld

LEMMA QueueStep == QueueInv /\ [Next]_vars => QueueInv'
  <1> SUFFICES ASSUME QueueInv, [Next]_vars PROVE QueueInv'
    OBVIOUS
  <1>1. TypeOK /\ LockInv /\ RecordInv /\ ExecutedIsClaimed  BY QueueParts
  <1>2. TypeOK'  BY <1>1, TypeStep DEF LockInv
  <1>3. CASE Next
    <2>1. LockInv'  BY <1>1, <1>2, <1>3, LockStep
    <2>2. RecordInv'  BY <1>1, <1>3, RecordStep DEF LockInv
    <2>3. ExecutedIsClaimed'  BY <1>1, <1>3, ExecutedStep DEF LockInv
    <2> QED  BY <1>2, <2>1, <2>2, <2>3 DEF QueueInv, LockInv, RecordInv
  <1>4. CASE UNCHANGED vars
    <2>1. LockInv'
      BY <1>1, <1>2, <1>4, QuietSettles, SameStatus, SettlesKeepsLocks DEF vars, runVars
    <2>2. RecordInv'
      BY <1>1, <1>4, RecordSame DEF vars, runVars, historyVars, RecordFrame
    <2>3. ExecutedIsClaimed'
      BY <1>1, <1>4 DEF vars, workerVars, historyVars, ExecutedIsClaimed
    <2> QED  BY <1>2, <2>1, <2>2, <2>3 DEF QueueInv, LockInv, RecordInv
  <1> QED  BY <1>3, <1>4

(* The inductive invariant: claim transactions keep the rows and advisory  *)
(* locks they rely on, and every run's attempts, cancellation and message  *)
(* agree with what happened to it.                                         *)
THEOREM QueueCorrect == Spec => []QueueInv
  <1>1. Init => QueueInv  BY QueueInit
  <1>2. QueueInv /\ [Next]_vars => QueueInv'  BY QueueStep
  <1> QED  BY <1>1, <1>2, PTL DEF Spec

(* However many claim loops compete, a chat never has more of the agent's  *)
(* runs executing than per_chat_concurrency allows.                        *)
THEOREM ChatLimitSafe == Spec => []ChatLimitHeld
  <1>1. QueueInv => ChatLimitHeld  BY DEF QueueInv
  <1> QED  BY <1>1, QueueCorrect, PTL

(* A run that was asked to stop is never queued again and never ends in    *)
(* any way but canceled.                                                   *)
THEOREM CancelIsKept == Spec => []CancelSticks
  <1>1. QueueInv => CancelSticks  BY DEF QueueInv
  <1> QED  BY <1>1, QueueCorrect, PTL

(* No run is executed more than max_attempts times.                        *)
THEOREM AttemptsBounded == Spec => []AttemptsCount
  <1>1. QueueInv => AttemptsCount  BY DEF QueueInv
  <1> QED  BY <1>1, QueueCorrect, PTL

(* However often a run is executed, one attempt's message is its answer.   *)
THEOREM OneMessage == Spec => []OneFinalMessage
  <1>1. ASSUME QueueInv, NEW r \in Runs PROVE Cardinality(messages[r]) <= 1
    <2>1. messages[r] = {} \/ messages[r] = {published[r]}
      BY <1>1 DEF QueueInv, MessageRecorded
    <2>2. Cardinality(messages[r]) \in {0, 1}
      <3>1. CASE messages[r] = {}  BY <3>1, FS_EmptySet
      <3>2. CASE messages[r] = {published[r]}  BY <3>2, FS_Singleton
      <3> QED  BY <2>1, <3>1, <3>2
    <2> QED  BY <2>2
  <1>2. QueueInv => OneFinalMessage  BY <1>1 DEF OneFinalMessage
  <1> QED  BY <1>2, QueueCorrect, PTL

-----------------------------------------------------------------------------
(* The steps that change what is recorded of a run, and those that do not. *)
Recorded == <<status, lease, published, cancelRequested, claims>>

LEMMA RunChangers ==
    ASSUME Next, ~ UNCHANGED Recorded
    PROVE  \/ \E q \in requests : Publish(q) \/ Complete(q) \/ Fail(q)
           \/ \E r \in Runs : Invoke(r) \/ RequestCancel(r)
           \/ \E w \in Workers : ReapQueued(w) \/ ReapRunning(w) \/ ClaimCommit(w)
  <1> DEFINE Same == UNCHANGED Recorded
  <1> USE DEF Recorded, runVars, historyVars
  <1>1. ASSUME NEW r \in Runs, LeaseExpires(r) \/ Deadline(r) \/ BackoffOver(r) PROVE Same
    BY <1>1 DEF LeaseExpires, Deadline, BackoffOver
  <1>2. ASSUME NEW w \in Workers,
               ClaimScan(w) \/ ClaimLock(w) \/ ClaimAborted(w) \/ ClaimCount(w) \/ Heartbeat(w)
        PROVE  Same
    BY <1>2 DEF ClaimScan, ClaimLock, ClaimAborted, ClaimCount, Heartbeat
  <1>3. ASSUME NEW w \in Workers,
               \/ SendStart(w) \/ SendPublish(w) \/ Preview(w) \/ SendComplete(w)
               \/ WorkerError(w) \/ SendFail(w) \/ WorkerDies(w)
        PROVE  Same
    BY <1>3
    DEF SendStart, SendPublish, Preview, SendComplete, WorkerError, SendFail,
        WorkerDies
  <1>4. ASSUME NEW q \in requests,
               StartProviderCall(q) \/ PublishRejected(q) \/ ProviderUsage(q)
        PROVE  Same
    BY <1>4 DEF StartProviderCall, PublishRejected, ProviderUsage
  <1>5. ASSUME NEW c \in Calls, StreamEnds(c) \/ FinishProviderCall(c) PROVE Same
    BY <1>5 DEF StreamEnds, FinishProviderCall
  <1>6. ASSUME SetEnabled \/ CoreCrash PROVE Same
    BY <1>6 DEF SetEnabled, CoreCrash
  <1> QED
    BY <1>1, <1>2, <1>3, <1>4, <1>5, <1>6 DEF Next, Claim, Execute, Serve, Gateway

(* An ended run keeps its end and a published answer stays.                *)
EndsKept ==
    \A r \in Runs : /\ status[r] \in Final => status'[r] = status[r]
                    /\ published[r] # 0 => published'[r] = published[r]

LEMMA EndsStep == ASSUME TypeOK, RowsHeld, [Next]_vars PROVE EndsKept
  <1>1. CASE UNCHANGED Recorded  BY <1>1 DEF EndsKept, Recorded
  <1>2. ASSUME NEW q \in requests, Publish(q) PROVE EndsKept
    BY <1>2 DEF EndsKept, Publish, FinalFree, TypeOK, Request
  <1>3. ASSUME NEW q \in requests, Complete(q) \/ Fail(q) PROVE EndsKept
    BY <1>3 DEF EndsKept, Complete, Fail, Held, TypeOK, Request, Final
  <1>4. ASSUME NEW r \in Runs, Invoke(r) \/ RequestCancel(r) PROVE EndsKept
    BY <1>4 DEF EndsKept, Invoke, RequestCancel, TypeOK, Final
  <1>5. ASSUME NEW w \in Workers, ReapQueued(w) \/ ReapRunning(w) PROVE EndsKept
    BY <1>5 DEF EndsKept, ReapQueued, ReapRunning, Due, Reapable, TypeOK, Final
  <1>6. ASSUME NEW w \in Workers, ClaimCommit(w) PROVE EndsKept
    BY <1>6 DEF EndsKept, ClaimCommit, RowsHeld, TypeOK, Final
  <1> QED
    BY <1>1, <1>2, <1>3, <1>4, <1>5, <1>6, RunChangers
    DEF vars, runVars, historyVars, Recorded

(* A lease that has lapsed is never held again by a request that carried   *)
(* it: tokens are issued once.                                             *)
HoldsKept == \A q \in requests : Held(q)' => Held(q)

LEMMA HoldsStep ==
    ASSUME TypeOK, RowsHeld, \A q \in requests : q.token <= tokens, [Next]_vars
    PROVE  HoldsKept
  <1>typed. \A q \in requests : q.run \in Runs /\ q.token \in Nat \ {0}
    BY DEF TypeOK, Request
  <1>1. CASE UNCHANGED Recorded  BY <1>1 DEF HoldsKept, Held, Recorded
  <1>2. ASSUME NEW q \in requests, Publish(q) PROVE HoldsKept
    BY <1>2 DEF HoldsKept, Held, Publish
  <1>3. ASSUME NEW q \in requests, Complete(q) \/ Fail(q) PROVE HoldsKept
    BY <1>3, <1>typed DEF HoldsKept, Complete, Fail, Held, TypeOK
  <1>4. ASSUME NEW r \in Runs, Invoke(r) \/ RequestCancel(r) PROVE HoldsKept
    BY <1>4, <1>typed DEF HoldsKept, Held, Invoke, RequestCancel, TypeOK
  <1>5. ASSUME NEW w \in Workers, ReapQueued(w) \/ ReapRunning(w) PROVE HoldsKept
    BY <1>5, <1>typed
    DEF HoldsKept, Held, ReapQueued, ReapRunning, AfterReap, TypeOK
  <1>6. ASSUME NEW w \in Workers, ClaimCommit(w) PROVE HoldsKept
    <2>1. /\ \A r \in Runs : lease'[r] = IF r = wrun[w] THEN tokens + 1 ELSE lease[r]
          /\ \A r \in Runs : status'[r] = IF r = wrun[w] THEN "running" ELSE status[r]
      BY <1>6 DEF ClaimCommit, TypeOK
    <2>2. \A q \in requests : q.token # tokens + 1  BY <1>typed DEF TypeOK
    <2> QED  BY <1>typed, <2>1, <2>2 DEF HoldsKept, Held
  <1> QED
    BY <1>1, <1>2, <1>3, <1>4, <1>5, <1>6, RunChangers
    DEF vars, runVars, historyVars, Recorded

(* An ended run stays ended, and the message recorded as its answer is     *)
(* never replaced.                                                         *)
THEOREM EndsForGood == Spec => EndIsFinal
  <1>1. QueueInv /\ [Next]_vars => [EndsKept]_vars  BY EndsStep DEF QueueInv
  <1> QED  BY <1>1, QueueCorrect, PTL DEF Spec, EndIsFinal, EndsKept

-----------------------------------------------------------------------------
(* The budget.  What the tables say of the calls, and the frame of the     *)
(* steps that write none of them.                                          *)
Tables == CallsRecorded /\ EndedRuns /\ CompletesAll /\ OnlyOverrun

TablesFrame ==
    UNCHANGED <<callStatus, callRun, cost, usageRows, summary, summarized>>

LEMMA TablesSame ==
    ASSUME TypeOK, Tables, TablesFrame, EndsKept, HoldsKept,
           \A q \in requests' \ requests : q.kind # "complete"
    PROVE  Tables'
  <1> USE DEF Tables, TablesFrame
  <1>1. CallsRecorded'  BY DEF CallsRecorded
  <1>2. \A r \in Runs : CallsOf(r)' = CallsOf(r)  BY DEF CallsOf
  <1>3. EndedRuns'  BY <1>2 DEF EndedRuns, EndsKept, TypeOK
  <1>4. \A q \in requests' : q.kind = "complete" /\ Held(q)' => q \in requests /\ Held(q)
    BY DEF HoldsKept
  <1>5. CompletesAll'  BY <1>4 DEF CompletesAll, CallsOf
  <1>6. OnlyOverrun'  BY DEF OnlyOverrun, Overrun, Exposed, Reserved, Spent
  <1> QED  BY <1>1, <1>3, <1>5, <1>6

(* Amounts are sets of units: unit i of call c is counted once.            *)
Units == Calls \X (1..MaxCost)

LEMMA UnitsFinite ==
    ASSUME NEW S, S \subseteq Units PROVE IsFiniteSet(S) /\ Cardinality(S) \in Nat
  <1>1. IsFiniteSet(1..MaxCost)  BY BoundAssumption, FS_Interval
  <1>2. IsFiniteSet(Units)  BY <1>1, FiniteAssumption, FS_Product DEF Units
  <1> QED  BY <1>2, FS_Subset, FS_CardinalityType

LEMMA ExposedUnits ==
    /\ Exposed \subseteq Units
    /\ \A c \in Calls : callStatus[c] = "started" => <<c, 1>> \in Exposed
    /\ \A u \in Exposed : u \in Spent(Calls) \/ (u[2] = 1 /\ callStatus[u[1]] = "started")
  <1>1. 1 \in 1..MaxCost  BY BoundAssumption
  <1> QED  BY <1>1 DEF Exposed, Reserved, Spent, Units

(* Every unit that is spent, or may be, is in the sum of the gate.         *)
LEMMA GateSumsAll ==
    ASSUME TypeOK, CallsRecorded, EndedRuns
    PROVE  /\ Exposed \subseteq Counted /\ Counted \subseteq Units
           /\ Cardinality(Exposed) <= Cardinality(Counted)
  <1>1. Counted \subseteq Units
    <2>1. 1 \in 1..MaxCost  BY BoundAssumption
    <2>2. /\ usageRows \subseteq Calls /\ Unaccounted \subseteq Calls
          /\ \A r \in summarized : summary[r] \subseteq Calls
      BY DEF TypeOK, Unaccounted
    <2>3. \A S \in SUBSET Calls : Spent(S) \subseteq Units /\ Reserved(S) \subseteq Units
      BY <2>1 DEF Spent, Reserved, Units
    <2> QED  BY <2>2, <2>3 DEF Counted, OnlyFinished
  <1>2. ASSUME NEW c \in Calls, callStatus[c] = "started" PROVE <<c, 1>> \in Counted
    <2>1. c \notin usageRows  BY <1>2 DEF CallsRecorded
    <2>2. callRun[c] \notin summarized  BY <1>2 DEF EndedRuns, CallsOf
    <2>3. c \in Unaccounted  BY <1>2, <2>1, <2>2 DEF Unaccounted
    <2> QED  BY <1>2, <2>3 DEF Counted, Reserved
  <1>3. ASSUME NEW u \in Spent(Calls) PROVE u \in Counted
    <2> DEFINE c == u[1]
    <2>1. c \in Calls /\ cost[c] > 0  BY <1>3 DEF Spent, TypeOK
    <2>2. \A S : c \in S => u \in Spent(S)  BY <1>3 DEF Spent
    <2>3. CASE c \in usageRows  BY <2>2, <2>3 DEF Counted, OnlyFinished
    <2>4. CASE callRun[c] \in summarized
      <3>1. c \in summary[callRun[c]]  BY <2>1, <2>4 DEF EndedRuns, CallsOf
      <3> QED  BY <2>2, <2>4, <3>1 DEF Counted, OnlyFinished
    <2>5. CASE c \notin usageRows /\ callRun[c] \notin summarized
      <3>1. c \in Unaccounted  BY <2>1, <2>5 DEF CallsRecorded, Unaccounted
      <3> QED  BY <2>2, <3>1 DEF Counted
    <2> QED  BY <2>3, <2>4, <2>5
  <1>4. ASSUME NEW u \in Exposed PROVE u \in Counted
    <2>1. CASE u \in Spent(Calls)  BY <1>3, <2>1
    <2>2. CASE u \in Reserved(Calls)  BY <1>2, <2>2 DEF Reserved
    <2> QED  BY <2>1, <2>2 DEF Exposed
  <1>5. Exposed \subseteq Counted  BY <1>4
  <1> QED  BY <1>1, <1>5, UnitsFinite, FS_Subset

(* What the admission of a call by the gate does to the tables: it was     *)
(* admitted because its reservation fits on top of all that is exposed.    *)
LEMMA Admitted ==
    ASSUME TypeOK, Tables, OneCall, NEW q \in requests, StartProviderCall(q),
           ~ UNCHANGED callVars
    PROVE  /\ \E c \in Calls :
                /\ q.calls = {c} /\ callStatus[c] = "none"
                /\ callStatus' = [callStatus EXCEPT ![c] = "started"]
                /\ callRun' = [callRun EXCEPT ![c] = q.run]
           /\ Held(q) /\ requests' = requests \ {q}
           /\ UNCHANGED <<cost, usageRows, summary, summarized, status, lease>>
           /\ Cardinality(Exposed') <= Budget
  <1> USE DEF Tables
  <1>1. PICK c \in Calls : q.calls = {c} /\ callStatus[c] = "none"
    BY DEF OneCall, Starts, StartProviderCall
  <1>2. (CHOOSE x \in q.calls : TRUE) = c  BY <1>1
  <1>3. /\ Held(q) /\ Cardinality(Counted) + 1 <= Budget
        /\ callStatus' = [callStatus EXCEPT ![c] = "started"]
        /\ callRun' = [callRun EXCEPT ![c] = q.run]
        /\ requests' = requests \ {q}
        /\ UNCHANGED <<cost, usageRows, summary, summarized, status, lease>>
    BY <1>2 DEF StartProviderCall, runVars
  <1>4. Exposed' \subseteq Counted \cup {<<c, 1>>}
    <2>1. \A d \in Calls : callStatus'[d] = IF d = c THEN "started" ELSE callStatus[d]
      BY <1>3 DEF TypeOK
    <2>2. Reserved(Calls)' \subseteq Reserved(Calls) \cup {<<c, 1>>}  BY <2>1 DEF Reserved
    <2>3. Spent(Calls)' = Spent(Calls)  BY <1>3 DEF Spent
    <2> QED  BY <2>2, <2>3, GateSumsAll DEF Exposed
  <1>5. <<c, 1>> \in Units  BY BoundAssumption DEF Units
  <1>6. /\ IsFiniteSet(Counted) /\ IsFiniteSet(Counted \cup {<<c, 1>>})
        /\ Cardinality(Counted) \in Nat /\ Cardinality(Counted \cup {<<c, 1>>}) \in Nat
    BY <1>5, GateSumsAll, UnitsFinite
  <1>7. Cardinality(Counted \cup {<<c, 1>>}) <= Cardinality(Counted) + 1
    <2> DEFINE u == <<c, 1>>
    <2>1. CASE u \in Counted
      <3>1. Counted \cup {u} = Counted  BY <2>1
      <3> QED  BY <1>6, <3>1
    <2>2. CASE u \notin Counted
      <3>1. Cardinality(Counted \cup {u}) = IF u \in Counted THEN Cardinality(Counted)
                                            ELSE Cardinality(Counted) + 1
        <4> HIDE DEF u
        <4> QED  BY <1>6, FS_AddElement
      <3> QED  BY <1>6, <2>2, <3>1
    <2> QED  BY <2>1, <2>2
  <1>8. Cardinality(Exposed') <= Cardinality(Counted \cup {<<c, 1>>})
        /\ Cardinality(Exposed') \in Nat
    BY <1>4, <1>6, FS_Subset, FS_CardinalityType
  <1>9. Cardinality(Exposed') <= Budget  BY <1>3, <1>6, <1>7, <1>8, BoundAssumption
  <1> QED  BY <1>1, <1>3, <1>9

(* A call is admitted only while the sum of the gate leaves a unit.        *)
LEMMA AdmitStep ==
    ASSUME TypeOK, Tables, OneCall, HoldsKept, NEW q \in requests, StartProviderCall(q)
    PROVE  Tables'
  <1> USE DEF Tables
  <1>1. CASE UNCHANGED callVars
    <2>1. TablesFrame /\ EndsKept
      BY <1>1, q \in requests DEF TablesFrame, callVars, StartProviderCall, EndsKept, runVars
    <2>2. \A p \in requests' \ requests : FALSE
      BY DEF StartProviderCall, Answer
    <2> QED  BY <2>1, <2>2, TablesSame
  <1>2. CASE ~ UNCHANGED callVars
    <2>3. PICK c \in Calls :
            /\ q.calls = {c} /\ callStatus[c] = "none" /\ Held(q)
            /\ callStatus' = [callStatus EXCEPT ![c] = "started"]
            /\ callRun' = [callRun EXCEPT ![c] = q.run]
            /\ requests' = requests \ {q}
            /\ UNCHANGED <<cost, usageRows, summary, summarized, status, lease>>
            /\ Cardinality(Exposed') <= Budget
      BY <1>2, Admitted
    <2>4. q.run \in Runs /\ status[q.run] = "running" /\ q.kind = "start"
      BY <2>3 DEF TypeOK, Request, Held, StartProviderCall
    <2>5. CallsRecorded'
      BY <2>3, <2>4 DEF CallsRecorded, TypeOK
    <2>6. EndedRuns'
      <3>1. \A r \in summarized : r \in Runs /\ r # q.run
        BY <2>4 DEF EndedRuns, Final, TypeOK
      <3>2. \A r \in summarized : CallsOf(r)' \subseteq CallsOf(r) \ {c}
        BY <2>3, <3>1 DEF CallsOf, TypeOK
      <3> QED  BY <2>3, <3>1, <3>2 DEF EndedRuns, CallsOf, TypeOK
    <2>7. CompletesAll'
      <3>1. ASSUME NEW p \in requests', p.kind = "complete", Held(p)'
            PROVE  p \in requests /\ Held(p) /\ p.run # q.run
        <4>1. p \in requests /\ Held(p)  BY <2>3, <3>1 DEF HoldsKept
        <4>2. p.token # q.token  BY <2>4, <3>1, <4>1 DEF OneCall, Starts, Completes
        <4> QED  BY <2>3, <4>1, <4>2 DEF Held
      <3> QED  BY <2>3, <3>1 DEF CompletesAll, CallsOf, TypeOK
    <2>8. OnlyOverrun'
      <3>1. (Exposed \ Overrun)' \subseteq Exposed'  OBVIOUS
      <3>2. Exposed' \subseteq Units
        <4>1. 1 \in 1..MaxCost  BY BoundAssumption
        <4> QED  BY <4>1 DEF Exposed, Reserved, Spent, Units
      <3>3. /\ Cardinality((Exposed \ Overrun)') <= Cardinality(Exposed')
            /\ Cardinality((Exposed \ Overrun)') \in Nat /\ Cardinality(Exposed') \in Nat
        BY <3>1, <3>2, UnitsFinite, FS_Subset, FS_CardinalityType
      <3> QED  BY <2>3, <3>3, BoundAssumption DEF OnlyOverrun
    <2> QED  BY <2>5, <2>6, <2>7, <2>8
  <1> QED  BY <1>1, <1>2

(* The provider's stream has ended and the outcome is recorded, if the     *)
(* lease still stands.                                                     *)
LEMMA FinishStep ==
    ASSUME TypeOK, Tables, EndsKept, HoldsKept, NEW c \in Calls, FinishProviderCall(c)
    PROVE  Tables'
  <1> USE DEF Tables
  <1>same. UNCHANGED <<callRun, summary, summarized, requests, status, lease>>
    BY DEF FinishProviderCall, runVars
  <1>1. CASE UNCHANGED <<callStatus, cost, usageRows>>
    BY <1>1, <1>same, TablesSame DEF TablesFrame
  <1>2. CASE ~ UNCHANGED <<callStatus, cost, usageRows>>
    <2>1. PICK outcome \in {"completed", "failed"}, k \in 0..MaxCost, row \in BOOLEAN :
            /\ Recordable(c) /\ (row \/ k = 0 \/ (k = 1 /\ outcome = "completed"))
            /\ callStatus' = [callStatus EXCEPT ![c] = outcome]
            /\ cost' = [cost EXCEPT ![c] = k]
            /\ usageRows' = IF row THEN usageRows \cup {c} ELSE usageRows
      BY <1>2 DEF FinishProviderCall
    <2>2. /\ callStatus[c] = "started" /\ callRun[c] \in Runs
          /\ callRun[c] \notin summarized
      BY <2>1 DEF Recordable, CallsRecorded, EndedRuns, CallsOf
    <2>3. \A d \in Calls : /\ callStatus'[d] = IF d = c THEN outcome ELSE callStatus[d]
                           /\ cost'[d] = IF d = c THEN k ELSE cost[d]
      BY <2>1 DEF TypeOK
    <2>4. CallsRecorded'  BY <1>same, <2>1, <2>2, <2>3 DEF CallsRecorded
    <2>5. EndedRuns'
      BY <1>same, <2>1, <2>2, <2>3 DEF EndedRuns, CallsOf
    <2>6. CompletesAll'
      <3>1. \A q \in requests : q.kind = "complete" /\ Held(q) => callRun[c] # q.run
        BY <2>2 DEF CompletesAll, CallsOf
      <3> QED  BY <1>same, <2>3, <3>1 DEF CompletesAll, CallsOf, Held
    <2>7. OnlyOverrun'
      <3>1. ASSUME NEW u \in (Exposed \ Overrun)' PROVE u \in Exposed \ Overrun
        <4>1. /\ u \in Units /\ ~(u[2] > 1)
              /\ u \in Spent(Calls)' \/ u \in Reserved(Calls)'
          <5>1. 1 \in 1..MaxCost  BY BoundAssumption
          <5> QED  BY <3>1, <5>1 DEF Exposed, Overrun, Reserved, Spent, Units
        <4>2. u = <<u[1], 1>> /\ u[1] \in Calls  BY <4>1, BoundAssumption DEF Units
        <4>3. CASE u[1] = c  BY <2>2, <4>2, <4>3, ExposedUnits DEF Overrun
        <4>4. CASE u[1] # c /\ u \in Reserved(Calls)'
          <5>1. callStatus[u[1]] = "started"  BY <2>3, <4>2, <4>4 DEF Reserved
          <5> QED  BY <4>2, <5>1, ExposedUnits DEF Overrun
        <4>5. CASE u[1] # c /\ u \in Spent(Calls)'
          <5>1. u \in Spent(Calls)  BY <2>3, <4>2, <4>5 DEF Spent
          <5> QED  BY <4>1, <5>1 DEF Exposed, Overrun
        <4> QED  BY <4>1, <4>3, <4>4, <4>5
      <3>2. Exposed \ Overrun \subseteq Units  BY ExposedUnits
      <3>3. /\ Cardinality((Exposed \ Overrun)') <= Cardinality(Exposed \ Overrun)
            /\ Cardinality((Exposed \ Overrun)') \in Nat /\ Cardinality(Exposed \ Overrun) \in Nat
        BY <3>1, <3>2, UnitsFinite, FS_Subset, FS_CardinalityType
      <3> QED  BY <3>3, BoundAssumption DEF OnlyOverrun
    <2> QED  BY <2>4, <2>5, <2>6, <2>7
  <1> QED  BY <1>1, <1>2

(* The usage of the run is summed up only when no call is left open.       *)
LEMMA UsageStep ==
    ASSUME TypeOK, Tables, NEW q \in requests, ProviderUsage(q) PROVE Tables'
  <1> USE DEF Tables
  <1>1. /\ TablesFrame /\ UNCHANGED <<status, lease>>
    BY DEF TablesFrame, ProviderUsage, callVars, runVars
  <1>2. EndsKept /\ HoldsKept
    BY <1>1 DEF EndsKept, HoldsKept, Held, ProviderUsage, runVars
  <1>3. CASE ~ (Held(q) /\ Unfinished(q.run) = {})
    <2>1. requests' \subseteq requests  BY <1>3 DEF ProviderUsage, Answer
    <2> QED  BY <1>1, <1>2, <2>1, TablesSame
  <1>4. CASE Held(q) /\ Unfinished(q.run) = {}
    <2> DEFINE done == [q EXCEPT !.kind = "complete",
                           !.calls = {c \in CallsOf(q.run) : callStatus[c] = "completed"}]
    <2>1. requests' = (requests \ {q}) \cup {done}  BY <1>4 DEF ProviderUsage
    <2>2. done.run = q.run /\ done.calls = {c \in CallsOf(q.run) : callStatus[c] = "completed"}
      BY DEF TypeOK, Request
    <2>3. \A c \in CallsOf(q.run) :
            callStatus[c] # "started" /\ (callStatus[c] = "completed" => c \in done.calls)
      BY <1>4, <2>2 DEF Unfinished
    <2>4. CompletesAll'
      <3> SUFFICES ASSUME NEW p \in requests', p.kind = "complete", Held(p),
                          NEW c \in CallsOf(p.run)
                   PROVE  callStatus[c] # "started" /\ (callStatus[c] = "completed" => c \in p.calls)
        BY <1>1 DEF CompletesAll, Held, CallsOf, TablesFrame
      <3>1. CASE p \in requests  BY <3>1 DEF CompletesAll
      <3>2. CASE p = done  BY <2>2, <2>3, <3>2
      <3> QED  BY <2>1, <3>1, <3>2
    <2>5. CallsRecorded' /\ OnlyOverrun'
      BY <1>1 DEF TablesFrame, CallsRecorded, OnlyOverrun, Overrun, Exposed, Reserved, Spent
    <2>6. EndedRuns'  BY <1>1 DEF TablesFrame, EndedRuns, CallsOf
    <2> QED  BY <2>4, <2>5, <2>6
  <1> QED  BY <1>3, <1>4

(* The row of a whole run sums up all that the run's calls cost.           *)
LEMMA CompleteStep ==
    ASSUME TypeOK, Tables, EndsKept, HoldsKept, NEW q \in requests, Complete(q) PROVE Tables'
  <1> USE DEF Tables
  <1>same. /\ UNCHANGED <<callStatus, callRun, cost, usageRows>>
           /\ requests' \subseteq requests /\ q.run \in Runs
    BY DEF Complete, Answer, TypeOK, Request
  <1>1. CASE UNCHANGED <<summary, summarized>>
    BY <1>1, <1>same, TablesSame DEF TablesFrame
  <1>2. CASE ~ UNCHANGED <<summary, summarized>>
    <2>1. /\ Held(q) /\ q.kind = "complete" /\ CallsOf(q.run) \cap usageRows = {}
          /\ summarized' = summarized \cup {q.run}
          /\ summary' = [summary EXCEPT ![q.run] = q.calls]
          /\ status'[q.run] \in Final
      <3>1. Held(q) /\ q.kind = "complete"  BY <1>2 DEF Complete
      <3>2. ~cancelRequested[q.run] /\ CallsOf(q.run) \cap usageRows = {}
        <4>1. ASSUME cancelRequested[q.run] \/ CallsOf(q.run) \cap usageRows # {}
              PROVE  summarized' = summarized /\ summary' = [summary EXCEPT ![q.run] = @]
          BY <3>1, <4>1 DEF Complete
        <4>2. [summary EXCEPT ![q.run] = @] = summary  BY <1>same DEF TypeOK
        <4> QED  BY <1>2, <4>1, <4>2
      <3> QED  BY <1>same, <3>1, <3>2 DEF Complete, TypeOK, Final
    <2>2. \A r \in Runs : summary'[r] = IF r = q.run THEN q.calls ELSE summary[r]
      BY <2>1 DEF TypeOK
    <2>3. ASSUME NEW c \in CallsOf(q.run)
          PROVE  callStatus[c] # "started" /\ (cost[c] > 0 => c \in q.calls)
      <3>1. c \in Calls /\ c \notin usageRows  BY <2>1 DEF CallsOf
      <3>2. callStatus[c] # "started" /\ (callStatus[c] = "completed" => c \in q.calls)
        BY <2>1 DEF CompletesAll
      <3> QED  BY <3>1, <3>2 DEF CallsRecorded
    <2>4. EndedRuns'
      <3>1. \A r \in summarized : r \in Runs /\ r # q.run /\ status'[r] \in Final
        BY <2>1 DEF EndedRuns, Held, Final, EndsKept, TypeOK
      <3> QED  BY <1>same, <2>1, <2>2, <2>3, <3>1 DEF EndedRuns, CallsOf
    <2>5. CompletesAll'
      BY <1>same DEF CompletesAll, HoldsKept, CallsOf
    <2>6. CallsRecorded' /\ OnlyOverrun'
      BY <1>same DEF CallsRecorded, OnlyOverrun, Overrun, Exposed, Reserved, Spent
    <2> QED  BY <2>4, <2>5, <2>6
  <1> QED  BY <1>1, <1>2

(* Only the gate moves the status of a call.                               *)
LEMMA CallChangers ==
    ASSUME Next, callStatus' # callStatus
    PROVE  \/ \E q \in requests : StartProviderCall(q)
           \/ \E c \in Calls : FinishProviderCall(c)
  <1>1. ASSUME NEW r \in Runs,
               \/ Invoke(r) \/ RequestCancel(r) \/ LeaseExpires(r) \/ Deadline(r)
               \/ BackoffOver(r)
        PROVE  FALSE
    BY <1>1 DEF callVars, Invoke, RequestCancel, LeaseExpires, Deadline, BackoffOver
  <1>2. ASSUME NEW w \in Workers, Claim(w) \/ Heartbeat(w) PROVE FALSE
    BY <1>2
    DEF callVars, Claim, ReapQueued, ReapRunning, ClaimScan, ClaimLock, ClaimAborted,
        ClaimCount, ClaimCommit, Heartbeat
  <1>3. ASSUME NEW w \in Workers, Execute(w) \/ WorkerDies(w) PROVE FALSE
    BY <1>3
    DEF callVars, Execute, SendStart, SendPublish, Preview, SendComplete, WorkerError,
        SendFail, WorkerDies
  <1>4. ASSUME NEW q \in requests,
               \/ Publish(q) \/ PublishRejected(q) \/ ProviderUsage(q) \/ Complete(q) \/ Fail(q)
        PROVE  FALSE
    BY <1>4 DEF callVars, Publish, PublishRejected, ProviderUsage, Complete, Fail
  <1>5. ASSUME NEW c \in Calls, StreamEnds(c) PROVE FALSE  BY <1>5 DEF StreamEnds
  <1>6. ASSUME SetEnabled \/ CoreCrash PROVE FALSE  BY <1>6 DEF callVars, SetEnabled, CoreCrash
  <1> QED
    BY <1>1, <1>2, <1>3, <1>4, <1>5, <1>6 DEF Next, Serve, Gateway

LEMMA TablesStep ==
    ASSUME TypeOK, Tables, OneCall, EndsKept, HoldsKept, Next PROVE Tables'
  <1>1. CASE \E q \in requests : StartProviderCall(q) \/ ProviderUsage(q) \/ Complete(q)
    BY <1>1, AdmitStep, UsageStep, CompleteStep
  <1>2. CASE \E c \in Calls : FinishProviderCall(c)  BY <1>2, FinishStep
  <1> DEFINE Framed == TablesFrame /\ \A q \in requests' \ requests : q.kind # "complete"
  <1>3. ASSUME NEW r \in Runs,
               \/ Invoke(r) \/ RequestCancel(r) \/ LeaseExpires(r) \/ Deadline(r)
               \/ BackoffOver(r)
        PROVE  Framed
    BY <1>3
    DEF TablesFrame, callVars, Invoke, RequestCancel, LeaseExpires, Deadline, BackoffOver
  <1>4. ASSUME NEW w \in Workers, Claim(w) \/ Heartbeat(w) PROVE Framed
    BY <1>4
    DEF TablesFrame, callVars, Claim, ReapQueued, ReapRunning, ClaimScan, ClaimLock,
        ClaimAborted, ClaimCount, ClaimCommit, Heartbeat
  <1>5. ASSUME NEW w \in Workers, Execute(w) \/ WorkerDies(w) PROVE Framed
    <2>1. TablesFrame
      BY <1>5
      DEF TablesFrame, callVars, Execute, SendStart, SendPublish, Preview, SendComplete,
          WorkerError, SendFail, WorkerDies
    <2>2. CASE UNCHANGED requests  BY <2>1, <2>2
    <2>3. ASSUME NEW kind \in Kinds \ {"complete"}, NEW S, NEW next, NEW refused,
                 Send(w, kind, S, next, refused)
          PROVE  \A q \in requests' \ requests : q.kind # "complete"
      BY <2>3 DEF Send, Ask
    <2> QED
      BY <1>5, <2>1, <2>2, <2>3
      DEF Execute, SendStart, SendPublish, Preview, SendComplete, WorkerError, SendFail,
          WorkerDies, Kinds
  <1>6. ASSUME NEW q \in requests, Publish(q) \/ PublishRejected(q) \/ Fail(q) PROVE Framed
    BY <1>6 DEF TablesFrame, callVars, Publish, PublishRejected, Fail, Answer
  <1>7. ASSUME NEW c \in Calls, StreamEnds(c) PROVE Framed
    BY <1>7 DEF TablesFrame, StreamEnds
  <1>8. ASSUME SetEnabled \/ CoreCrash PROVE Framed
    BY <1>8 DEF TablesFrame, callVars, SetEnabled, CoreCrash
  <1> QED
    BY <1>1, <1>2, <1>3, <1>4, <1>5, <1>6, <1>7, <1>8, TablesSame DEF Next, Serve, Gateway

-----------------------------------------------------------------------------
(* Tokens.  Most steps take requests and streams away and leave the        *)
(* workers with the tokens they have, or with none.                        *)
TokenInv == TokensIssued /\ OneCall /\ BetweenCalls

Between == {"work", "publishing", "published", "completing"}

WorkersMove ==
    \A w \in Workers :
        /\ wtoken'[w] = wtoken[w] \/ wtoken'[w] = 0
        /\ wpc'[w] \in Between =>
             /\ wtoken'[w] = wtoken[w]
             /\ \/ wpc[w] \in Between
                \/ /\ \A q \in requests' : Starts(q) => q.token # wtoken[w]
                   /\ \A c \in Calls : Streaming(c)' => callToken[c] # wtoken[w]
        /\ wpc[w] = "completing" /\ wpc'[w] # "completing" =>
             wtoken'[w] = 0 \/ \A q \in requests' : Completes(q) => q.token # wtoken[w]

TokensFrame ==
    /\ requests' \subseteq requests /\ UNCHANGED <<callToken, tokens>>
    /\ \A c \in Calls : callStatus[c] = "none" => callStatus'[c] = "none"
    /\ \A c \in Calls : Streaming(c)' => Streaming(c)

LEMMA TokensSame ==
    ASSUME TypeOK, TokenInv, TokensFrame, WorkersMove PROVE TokenInv'
  <1> USE DEF TokenInv, TokensFrame
  <1>1. \A q \in requests : q.token # 0  BY DEF TypeOK, Request
  <1>2. \A w \in Workers : wtoken'[w] = wtoken[w] \/ wtoken'[w] = 0  BY DEF WorkersMove
  <1>3. TokensIssued'
    <2>1. \A w \in Workers : wtoken'[w] <= tokens
      <3>1. 0 <= tokens  BY DEF TypeOK
      <3>2. \A w \in Workers : wtoken[w] <= tokens  BY DEF TokensIssued
      <3> QED  BY <1>2, <3>1, <3>2
    <2>2. \A v, w \in Workers : v # w /\ wtoken'[v] = wtoken'[w] => wtoken'[v] = 0
      BY <1>2 DEF TokensIssued
    <2>3. \A w \in Workers, q \in requests' : wtoken'[w] = q.token => q.worker = w
      BY <1>1, <1>2 DEF TokensIssued
    <2> QED  BY <2>1, <2>2, <2>3 DEF TokensIssued
  <1>4. OneCall'
    <2>1. (\A q \in requests : Starts(q) => \E c \in Calls : q.calls = {c} /\ callStatus[c] = "none")'
      BY DEF OneCall, Starts
    <2>2. /\ (\A q \in requests, c \in Calls : Starts(q) /\ Streaming(c) => q.token # callToken[c])'
          /\ (\A c, d \in Calls : Streaming(c) /\ Streaming(d) /\ c # d =>
                  callToken[c] # callToken[d])'
      BY DEF OneCall, Starts
    <2>3. /\ (\A p, q \in requests : Starts(p) /\ Starts(q) /\ p # q =>
                 p.calls # q.calls /\ p.token # q.token)'
          /\ (\A p, q \in requests : Completes(q) /\ (Starts(p) \/ (Completes(p) /\ p # q)) =>
                 p.token # q.token)'
      BY DEF OneCall, Starts, Completes
    <2> QED  BY <2>1, <2>2, <2>3 DEF OneCall
  <1>5. BetweenCalls'
    <2> SUFFICES ASSUME NEW w \in Workers
                 PROVE  /\ wpc'[w] \in Between =>
                             /\ \A q \in requests' : Starts(q) => q.token # wtoken'[w]
                             /\ \A c \in Calls : Streaming(c)' => callToken[c] # wtoken'[w]
                        /\ \A q \in requests' : Completes(q) /\ wtoken'[w] = q.token =>
                               wpc'[w] = "completing"
      BY DEF BetweenCalls, Between, Starts, Completes
    <2>1. ASSUME wpc'[w] \in Between
          PROVE  /\ \A q \in requests' : Starts(q) => q.token # wtoken'[w]
                 /\ \A c \in Calls : Streaming(c)' => callToken[c] # wtoken'[w]
      BY <2>1 DEF WorkersMove, BetweenCalls, Between
    <2>2. ASSUME NEW q \in requests', Completes(q), wtoken'[w] = q.token
          PROVE  wpc'[w] = "completing"
      <3>1. wtoken'[w] = wtoken[w] /\ wtoken'[w] # 0  BY <1>1, <1>2, <2>2
      <3>2. wpc[w] = "completing"  BY <2>2, <3>1 DEF BetweenCalls
      <3> QED  BY <2>2, <3>1, <3>2 DEF WorkersMove
    <2> QED  BY <2>1, <2>2
  <1> QED  BY <1>3, <1>4, <1>5

(* A worker that becomes something else than a waiting or working one, or  *)
(* that goes on, moves; the others do not.                                 *)
LEMMA BecomeMoves ==
    ASSUME TypeOK, NEW w \in Workers, NEW pc, Become(w, pc),
           pc \in Between => wpc[w] \in Between,
           wpc[w] # "completing" \/ pc \in {"idle", "completing"}
             \/ \A q \in requests' : Completes(q) => q.token # wtoken[w]
    PROVE  WorkersMove
  <1>1. /\ wpc'[w] = pc /\ (pc # "idle" => wtoken'[w] = wtoken[w])
        /\ pc = "idle" => wtoken'[w] = 0
    BY DEF Become, TypeOK
  <1>2. \A v \in Workers \ {w} : wpc'[v] = wpc[v] /\ wtoken'[v] = wtoken[v]
    BY DEF Become, TypeOK
  <1> QED  BY <1>1, <1>2 DEF WorkersMove, Between

LEMMA StillMoves == ASSUME UNCHANGED <<wpc, wtoken>> PROVE WorkersMove
  BY DEF WorkersMove

(* The answer to a request reaches the worker that waits for it, if any.   *)
LEMMA AnswerMoves ==
    ASSUME TypeOK, TokenInv, NEW q \in requests,
           NEW next \in {"failing", "over_budget", "idle", "published"},
           next = "published" => q.kind = "publish", Answer(q, next)
    PROVE  WorkersMove /\ requests' \subseteq requests
  <1>1. q.worker \in Workers /\ q.kind \in Kinds  BY DEF TypeOK, Request
  <1>2. requests' = requests \ {q}  BY DEF Answer
  <1>3. CASE wpc[q.worker] = Awaits[q.kind] /\ wtoken[q.worker] = q.token
    <2>1. Become(q.worker, next)  BY <1>3 DEF Answer
    <2>2. next \in Between => wpc[q.worker] \in Between
      BY <1>3 DEF Between, Awaits
    <2>3. ASSUME wpc[q.worker] = "completing"
          PROVE  \A p \in requests' : Completes(p) => p.token # wtoken[q.worker]
      <3>1. Completes(q)  BY <1>1, <1>3, <2>3 DEF Awaits, Kinds, Completes
      <3> QED  BY <1>2, <1>3, <3>1 DEF TokenInv, OneCall
    <2> QED  BY <1>1, <1>2, <2>1, <2>2, <2>3, BecomeMoves
  <1>4. CASE UNCHANGED workerVars  BY <1>2, <1>4, StillMoves DEF workerVars
  <1> QED  BY <1>3, <1>4 DEF Answer

(* A new request carries its worker's token.                               *)
LEMMA AskTokens ==
    ASSUME TypeOK, WorkersLeased, TokensIssued, NEW w \in Workers, wpc[w] \in Executing,
           NEW kind, NEW S, NEW pc \in Executing, Ask(w, kind, S), Become(w, pc),
           UNCHANGED <<callToken, tokens>>
    PROVE  TokensIssued' /\ UNCHANGED wtoken /\ wpc' = [wpc EXCEPT ![w] = pc]
  <1>1. pc # "idle"  BY DEF Executing
  <1>2. UNCHANGED wtoken /\ wpc' = [wpc EXCEPT ![w] = pc]  BY <1>1 DEF Become, TypeOK
  <1>3. \A q \in requests' : q \in requests \/ (q.token = wtoken[w] /\ q.worker = w)
    BY DEF Ask
  <1>4. wtoken[w] # 0  BY DEF WorkersLeased
  <1> QED  BY <1>2, <1>3, <1>4 DEF TokensIssued

(* A start asked for by a worker that is between two calls.                *)
LEMMA AskStart ==
    ASSUME TypeOK, WorkersLeased, TokenInv, NEW w \in Workers, wpc[w] = "work",
           NEW c \in Calls, FreshCall(c), Ask(w, "start", {c}), Become(w, "calling"),
           UNCHANGED <<callStatus, callToken, stream, tokens>>
    PROVE  TokenInv'
  <1> USE DEF TokenInv
  <1> DEFINE new == [kind |-> "start", run |-> wrun[w], token |-> wtoken[w], worker |-> w,
                     calls |-> {c}]
  <1>1. TokensIssued' /\ UNCHANGED wtoken /\ wpc' = [wpc EXCEPT ![w] = "calling"]
    BY AskTokens DEF Executing
  <1>2. requests' = requests \cup {new}  BY DEF Ask
  <1>3. /\ \A q \in requests : Starts(q) \/ Completes(q) => q.token # wtoken[w]
        /\ \A d \in Calls : Streaming(d) => callToken[d] # wtoken[w]
        /\ \A q \in requests : q.calls # {c}
        /\ callStatus[c] = "none"
    BY DEF BetweenCalls, FreshCall
  <1>4. Starts(new) /\ ~Completes(new) /\ new.token = wtoken[w] /\ new.calls = {c}
    BY DEF Starts, Completes
  <1>5. OneCall'
    <2>1. (\A q \in requests : Starts(q) => \E d \in Calls : q.calls = {d} /\ callStatus[d] = "none")'
      BY <1>2, <1>3, <1>4 DEF OneCall, Starts
    <2>2. /\ (\A q \in requests, d \in Calls : Starts(q) /\ Streaming(d) => q.token # callToken[d])'
          /\ (\A d, e \in Calls : Streaming(d) /\ Streaming(e) /\ d # e =>
                  callToken[d] # callToken[e])'
      BY <1>2, <1>3, <1>4 DEF OneCall, Starts, Streaming
    <2>3. ASSUME NEW p \in requests', NEW q \in requests', Starts(p), Starts(q), p # q
          PROVE  p.calls # q.calls /\ p.token # q.token
      <3>1. CASE p \in requests /\ q \in requests  BY <2>3, <3>1 DEF OneCall
      <3> QED  BY <1>2, <1>3, <1>4, <2>3, <3>1
    <2>4. ASSUME NEW p \in requests', NEW q \in requests', Completes(q),
                 Starts(p) \/ (Completes(p) /\ p # q)
          PROVE  p.token # q.token
      <3>1. CASE p \in requests /\ q \in requests  BY <2>4, <3>1 DEF OneCall
      <3>2. CASE p = new /\ q \in requests  BY <1>2, <1>3, <1>4, <2>4, <3>2
      <3>3. CASE q = new  BY <1>2, <1>3, <1>4, <2>4, <3>3
      <3> QED  BY <1>2, <3>1, <3>2, <3>3
    <2> QED  BY <2>1, <2>2, <2>3, <2>4 DEF OneCall, Starts, Completes
  <1>6. BetweenCalls'
    <2> SUFFICES ASSUME NEW v \in Workers
                 PROVE  /\ wpc'[v] \in Between =>
                             /\ \A q \in requests' : Starts(q) => q.token # wtoken[v]
                             /\ \A d \in Calls : Streaming(d)' => callToken[d] # wtoken[v]
                        /\ \A q \in requests' : Completes(q) /\ wtoken[v] = q.token =>
                               wpc'[v] = "completing"
      BY <1>1 DEF BetweenCalls, Between, Starts, Completes
    <2>1. CASE v = w
      <3>1. wpc'[v] = "calling"  BY <1>1, <2>1 DEF TypeOK
      <3> QED  BY <1>2, <1>3, <1>4, <2>1, <3>1 DEF Between
    <2>2. CASE v # w
      <3>1. wpc'[v] = wpc[v]  BY <1>1, <2>2 DEF TypeOK
      <3>2. wtoken[w] # 0  BY DEF WorkersLeased, Executing
      <3>3. wtoken[v] # wtoken[w]  BY <2>2, <3>2 DEF TokensIssued
      <3>4. /\ wpc[v] \in Between =>
                  /\ \A q \in requests : Starts(q) => q.token # wtoken[v]
                  /\ \A d \in Calls : Streaming(d) => callToken[d] # wtoken[v]
            /\ \A q \in requests : Completes(q) /\ wtoken[v] = q.token => wpc[v] = "completing"
        BY DEF BetweenCalls, Between
      <3> QED  BY <1>2, <1>4, <3>1, <3>3, <3>4 DEF Streaming
    <2> QED  BY <2>1, <2>2
  <1> QED  BY <1>1, <1>5, <1>6

(* Any other request: an answer to publish, the usage, or a failure.       *)
LEMMA AskOther ==
    ASSUME TypeOK, WorkersLeased, TokenInv, NEW w \in Workers, NEW kind, NEW pc,
           \/ wpc[w] = "work" /\ kind = "publish" /\ pc = "publishing"
           \/ wpc[w] = "published" /\ kind = "usage" /\ pc = "completing"
           \/ /\ wpc[w] \in {"failing", "over_budget"}
              /\ kind \in {"fail", "fail_budget"} /\ pc = "reporting",
           Ask(w, kind, {}), Become(w, pc),
           UNCHANGED <<callStatus, callToken, stream, tokens>>
    PROVE  TokenInv'
  <1> USE DEF TokenInv
  <1> DEFINE new == [kind |-> kind, run |-> wrun[w], token |-> wtoken[w], worker |-> w,
                     calls |-> {}]
  <1>executing. wpc[w] \in Executing /\ pc \in Executing  BY DEF Executing
  <1>1. TokensIssued' /\ UNCHANGED wtoken /\ wpc' = [wpc EXCEPT ![w] = pc]
    BY <1>executing, AskTokens
  <1>2. requests' = requests \cup {new} /\ new.token = wtoken[w] /\ ~Starts(new)
    BY DEF Ask, Starts
  <1>3. Completes(new) => /\ wpc[w] = "published" /\ pc = "completing"
                          /\ \A q \in requests : Starts(q) \/ Completes(q) => q.token # wtoken[w]
    BY DEF BetweenCalls, Completes
  <1>4. OneCall'
    <2>1. (\A q \in requests : Starts(q) => \E d \in Calls : q.calls = {d} /\ callStatus[d] = "none")'
      BY <1>2 DEF OneCall, Starts
    <2>2. /\ (\A q \in requests, d \in Calls : Starts(q) /\ Streaming(d) => q.token # callToken[d])'
          /\ (\A d, e \in Calls : Streaming(d) /\ Streaming(e) /\ d # e =>
                  callToken[d] # callToken[e])'
      BY <1>2 DEF OneCall, Starts, Streaming
    <2>3. ASSUME NEW p \in requests', NEW q \in requests', Starts(p), Starts(q), p # q
          PROVE  p.calls # q.calls /\ p.token # q.token
      <3>1. CASE p \in requests /\ q \in requests  BY <2>3, <3>1 DEF OneCall
      <3> QED  BY <1>2, <1>3, <2>3, <3>1
    <2>4. ASSUME NEW p \in requests', NEW q \in requests', Completes(q),
                 Starts(p) \/ (Completes(p) /\ p # q)
          PROVE  p.token # q.token
      <3>1. CASE p \in requests /\ q \in requests  BY <2>4, <3>1 DEF OneCall
      <3>2. CASE p = new /\ q \in requests  BY <1>2, <1>3, <2>4, <3>2
      <3>3. CASE q = new  BY <1>2, <1>3, <2>4, <3>3
      <3> QED  BY <1>2, <3>1, <3>2, <3>3
    <2> QED  BY <2>1, <2>2, <2>3, <2>4 DEF OneCall, Starts, Completes
  <1>5. BetweenCalls'
    <2> SUFFICES ASSUME NEW v \in Workers
                 PROVE  /\ wpc'[v] \in Between =>
                             /\ \A q \in requests' : Starts(q) => q.token # wtoken[v]
                             /\ \A d \in Calls : Streaming(d)' => callToken[d] # wtoken[v]
                        /\ \A q \in requests' : Completes(q) /\ wtoken[v] = q.token =>
                               wpc'[v] = "completing"
      BY <1>1 DEF BetweenCalls, Between, Starts, Completes
    <2>1. /\ wpc[v] \in Between =>
                /\ \A q \in requests : Starts(q) => q.token # wtoken[v]
                /\ \A d \in Calls : Streaming(d) => callToken[d] # wtoken[v]
          /\ \A q \in requests : Completes(q) /\ wtoken[v] = q.token => wpc[v] = "completing"
      BY DEF BetweenCalls, Between
    <2>2. CASE v = w
      <3>1. wpc'[v] = pc /\ wpc[v] # "completing"  BY <1>1, <2>2 DEF TypeOK
      <3>2. pc \in Between => wpc[w] \in Between  BY DEF Between
      <3> QED  BY <1>2, <1>3, <2>1, <2>2, <3>1, <3>2 DEF Streaming
    <2>3. CASE v # w
      <3>1. wpc'[v] = wpc[v]  BY <1>1, <2>3 DEF TypeOK
      <3>2. wtoken[w] # 0  BY <1>executing DEF WorkersLeased
      <3>3. wtoken[v] # wtoken[w]  BY <2>3, <3>2 DEF TokensIssued
      <3> QED  BY <1>2, <2>1, <3>1, <3>3 DEF Streaming
    <2> QED  BY <2>2, <2>3
  <1> QED  BY <1>1, <1>4, <1>5

(* The admitted call's stream takes the place of the request for it.       *)
LEMMA AdmitTokens ==
    ASSUME TypeOK, TokenInv, NEW q \in requests, StartProviderCall(q) PROVE TokenInv'
  <1> USE DEF TokenInv
  <1>kind. q.kind = "start" /\ UNCHANGED tokens
    BY DEF StartProviderCall, historyVars
  <1>1. CASE UNCHANGED callVars
    <2>1. CASE Answer(q, "failing") \/ Answer(q, "over_budget")
      <3>1. WorkersMove /\ requests' \subseteq requests
        <4>1. CASE Answer(q, "failing")  BY <4>1, AnswerMoves
        <4>2. CASE Answer(q, "over_budget")  BY <4>2, AnswerMoves
        <4> QED  BY <2>1, <4>1, <4>2
      <3>2. TokensFrame  BY <1>1, <1>kind, <3>1 DEF TokensFrame, callVars, Streaming
      <3> QED  BY <3>1, <3>2, TokensSame
    <2>2. CASE requests' = requests \ {q} /\ UNCHANGED workerVars
      <3>1. WorkersMove  BY <2>2, StillMoves DEF workerVars
      <3>2. TokensFrame  BY <1>1, <1>kind, <2>2 DEF TokensFrame, callVars, Streaming
      <3> QED  BY <3>1, <3>2, TokensSame
    <2> QED  BY <2>1, <2>2 DEF StartProviderCall
  <1>2. CASE ~ UNCHANGED callVars
    <2>1. PICK c \in Calls : q.calls = {c} /\ callStatus[c] = "none"
      BY <1>kind DEF OneCall, Starts
    <2>2. (CHOOSE x \in q.calls : TRUE) = c  BY <2>1
    <2>3. /\ callStatus' = [callStatus EXCEPT ![c] = "started"]
          /\ callToken' = [callToken EXCEPT ![c] = q.token]
          /\ stream' = [stream EXCEPT ![c] = "open"]
          /\ requests' = requests \ {q} /\ UNCHANGED <<wpc, wrun, wtoken>>
      BY <1>2, <2>2 DEF StartProviderCall, workerVars
    <2>4. /\ \A d \in Calls : callToken'[d] = IF d = c THEN q.token ELSE callToken[d]
          /\ \A d \in Calls : Streaming(d)' <=> d = c \/ Streaming(d)
          /\ \A d \in Calls : callStatus'[d] = IF d = c THEN "started" ELSE callStatus[d]
      BY <2>3 DEF Streaming, TypeOK
    <2>5. /\ \A d \in Calls : Streaming(d) => callToken[d] # q.token
          /\ \A p \in requests' : Starts(p) => p.token # q.token /\ p.calls # {c}
      BY <1>kind, <2>1, <2>3 DEF OneCall, Starts
    <2>6. TokensIssued'
      BY <1>kind, <2>3, <2>4 DEF TokensIssued
    <2>7. OneCall'
      <3>1. (\A p \in requests : Starts(p) => \E d \in Calls : p.calls = {d} /\ callStatus[d] = "none")'
        BY <2>3, <2>4, <2>5 DEF OneCall, Starts
      <3>2. (\A p \in requests, d \in Calls : Starts(p) /\ Streaming(d) => p.token # callToken[d])'
        BY <2>3, <2>4, <2>5 DEF OneCall, Starts
      <3>3. (\A d, e \in Calls : Streaming(d) /\ Streaming(e) /\ d # e =>
                callToken[d] # callToken[e])'
        BY <2>4, <2>5 DEF OneCall
      <3>4. /\ (\A o, p \in requests : Starts(o) /\ Starts(p) /\ o # p =>
                   o.calls # p.calls /\ o.token # p.token)'
            /\ (\A o, p \in requests : Completes(p) /\ (Starts(o) \/ (Completes(o) /\ o # p)) =>
                   o.token # p.token)'
        BY <2>3 DEF OneCall, Starts, Completes
      <3> QED  BY <3>1, <3>2, <3>3, <3>4 DEF OneCall
    <2>8. BetweenCalls'
      <3>1. \A w \in Workers : wpc[w] \in Between => q.token # wtoken[w]
        BY <1>kind DEF BetweenCalls, Between, Starts
      <3> QED  BY <2>3, <2>4, <3>1 DEF BetweenCalls, Between, Starts, Completes
    <2> QED  BY <2>6, <2>7, <2>8
  <1> QED  BY <1>1, <1>2

(* The completion goes on under the token of the usage request.            *)
LEMMA UsageTokens ==
    ASSUME TypeOK, TokenInv, NEW q \in requests, ProviderUsage(q) PROVE TokenInv'
  <1> USE DEF TokenInv
  <1>same. UNCHANGED <<callStatus, callToken, stream, tokens>>
    BY DEF ProviderUsage, callVars, historyVars
  <1>1. CASE Answer(q, "failing")
    <2>1. WorkersMove /\ requests' \subseteq requests  BY <1>1, AnswerMoves
    <2>2. TokensFrame  BY <1>same, <2>1 DEF TokensFrame, Streaming
    <2> QED  BY <2>1, <2>2, TokensSame
  <1>2. CASE Held(q) /\ Unfinished(q.run) = {}
    <2> DEFINE done == [q EXCEPT !.kind = "complete",
                           !.calls = {c \in CallsOf(q.run) : callStatus[c] = "completed"}]
    <2>1. requests' = (requests \ {q}) \cup {done} /\ UNCHANGED <<wpc, wtoken>>
      BY <1>2 DEF ProviderUsage, workerVars
    <2>2. /\ done.token = q.token /\ done.worker = q.worker
          /\ ~Starts(done) /\ Completes(done) /\ Completes(q)
      BY DEF TypeOK, Request, Starts, Completes, ProviderUsage
    <2> HIDE DEF done
    <2>3. TokensIssued'  BY <1>same, <2>1, <2>2 DEF TokensIssued
    <2>4. OneCall'
      <3>1. (\A p \in requests : Starts(p) => \E d \in Calls : p.calls = {d} /\ callStatus[d] = "none")'
        BY <1>same, <2>1, <2>2 DEF OneCall, Starts
      <3>2. /\ (\A p \in requests, d \in Calls : Starts(p) /\ Streaming(d) => p.token # callToken[d])'
            /\ (\A d, e \in Calls : Streaming(d) /\ Streaming(e) /\ d # e =>
                  callToken[d] # callToken[e])'
        BY <1>same, <2>1, <2>2 DEF OneCall, Starts, Streaming
      <3>3. ASSUME NEW o \in requests', NEW p \in requests', Starts(o), Starts(p), o # p
            PROVE  o.calls # p.calls /\ o.token # p.token
        BY <2>1, <2>2, <3>3 DEF OneCall
      <3>4. ASSUME NEW o \in requests', NEW p \in requests', Completes(p),
                   Starts(o) \/ (Completes(o) /\ o # p)
            PROVE  o.token # p.token
        <4>1. CASE o \in requests /\ p \in requests  BY <3>4, <4>1 DEF OneCall
        <4>2. CASE o = done
          <5>1. p \in requests /\ p # q  BY <2>1, <2>2, <3>4, <4>2
          <5> QED  BY <2>2, <3>4, <4>2, <5>1 DEF OneCall
        <4>3. CASE p = done
          <5>1. o \in requests /\ o # q  BY <2>1, <2>2, <3>4, <4>3
          <5> QED  BY <2>2, <3>4, <4>3, <5>1 DEF OneCall
        <4> QED  BY <2>1, <4>1, <4>2, <4>3
      <3> QED  BY <3>1, <3>2, <3>3, <3>4 DEF OneCall, Starts, Completes
    <2>5. BetweenCalls'
      BY <1>same, <2>1, <2>2 DEF BetweenCalls, Starts, Completes, Streaming
    <2> QED  BY <2>3, <2>4, <2>5
  <1> QED  BY <1>1, <1>2 DEF ProviderUsage

(* A claim brings a token nobody has seen.                                 *)
LEMMA CommitTokens ==
    ASSUME TypeOK, TokenInv, NEW w \in Workers, ClaimCommit(w) PROVE TokenInv'
  <1> USE DEF TokenInv
  <1>1. /\ tokens' = tokens + 1 /\ tokens \in Nat
        /\ UNCHANGED <<requests, callStatus, callToken, stream>>
        /\ \A v \in Workers : wtoken'[v] = IF v = w THEN tokens + 1 ELSE wtoken[v]
        /\ \A v \in Workers : wpc'[v] = IF v = w THEN "work" ELSE wpc[v]
    BY DEF ClaimCommit, callVars, TypeOK
  <1>2. /\ \A q \in requests : q.token # tokens + 1 /\ q.token <= tokens + 1
        /\ \A v \in Workers : wtoken[v] # tokens + 1 /\ wtoken[v] <= tokens + 1
        /\ \A c \in Calls : callToken[c] # tokens + 1 /\ callToken[c] <= tokens + 1
    <2>1. /\ \A q \in requests : q.token \in Nat
          /\ \A v \in Workers : wtoken[v] \in Nat
          /\ \A c \in Calls : callToken[c] \in Nat
      BY DEF TypeOK, Request
    <2> QED  BY <1>1, <2>1 DEF TokensIssued
  <1>3. TokensIssued'
    <2>1. /\ \A v \in Workers : wtoken'[v] <= tokens'
          /\ \A q \in requests' : q.token <= tokens'
          /\ \A c \in Calls : callToken'[c] <= tokens'
      BY <1>1, <1>2
    <2>2. /\ \A u, v \in Workers : u # v /\ wtoken'[u] = wtoken'[v] => wtoken'[u] = 0
          /\ \A v \in Workers, q \in requests' : wtoken'[v] = q.token => q.worker = v
      BY <1>1, <1>2 DEF TokensIssued
    <2> QED  BY <2>1, <2>2 DEF TokensIssued
  <1>4. OneCall'  BY <1>1 DEF OneCall, Starts, Completes, Streaming
  <1>5. BetweenCalls'
    BY <1>1, <1>2 DEF BetweenCalls, Starts, Completes, Streaming
  <1> QED  BY <1>3, <1>4, <1>5

LEMMA SendTokens ==
    ASSUME TypeOK, WorkersLeased, TokenInv, NEW w \in Workers,
           \/ SendStart(w) \/ SendPublish(w) \/ SendComplete(w) \/ SendFail(w)
    PROVE  TokenInv'
  <1>same. UNCHANGED <<callStatus, callToken, stream, tokens>>
    BY DEF SendStart, SendPublish, SendComplete, SendFail, callVars, historyVars
  <1>1. ASSUME NEW pc \in {"failing", "idle"}, Become(w, pc), UNCHANGED requests,
               wpc[w] # "completing"
        PROVE  TokenInv'
    <2>1. WorkersMove  BY <1>1, BecomeMoves DEF Between
    <2>2. TokensFrame  BY <1>1, <1>same DEF TokensFrame, Streaming
    <2> QED  BY <2>1, <2>2, TokensSame
  <1>2. CASE SendStart(w)
    <2>1. PICK c \in Calls : FreshCall(c) /\ Send(w, "start", {c}, "calling", "failing")
      BY <1>2 DEF SendStart
    <2>2. CASE Ask(w, "start", {c}) /\ Become(w, "calling")
      BY <1>same, <1>2, <2>1, <2>2, AskStart DEF SendStart
    <2>3. CASE UNCHANGED requests /\ Become(w, "failing")
      BY <1>1, <1>2, <2>3 DEF SendStart
    <2> QED  BY <2>1, <2>2, <2>3 DEF Send
  <1>3. CASE SendPublish(w)
    <2>1. CASE Ask(w, "publish", {}) /\ Become(w, "publishing")
      BY <1>same, <1>3, <2>1, AskOther DEF SendPublish
    <2>2. CASE UNCHANGED requests /\ Become(w, "failing")
      BY <1>1, <1>3, <2>2 DEF SendPublish
    <2> QED  BY <1>3, <2>1, <2>2 DEF SendPublish, Send
  <1>4. CASE SendComplete(w)
    <2>1. CASE Ask(w, "usage", {}) /\ Become(w, "completing")
      BY <1>same, <1>4, <2>1, AskOther DEF SendComplete
    <2>2. CASE UNCHANGED requests /\ Become(w, "failing")
      BY <1>1, <1>4, <2>2 DEF SendComplete
    <2> QED  BY <1>4, <2>1, <2>2 DEF SendComplete, Send
  <1>5. CASE SendFail(w)
    <2>1. PICK kind \in {"fail", "fail_budget"} : Send(w, kind, {}, "reporting", "idle")
      BY <1>5 DEF SendFail
    <2>2. CASE Ask(w, kind, {}) /\ Become(w, "reporting")
      BY <1>same, <1>5, <2>2, AskOther DEF SendFail
    <2>3. CASE UNCHANGED requests /\ Become(w, "idle")
      BY <1>1, <1>5, <2>3 DEF SendFail
    <2> QED  BY <2>1, <2>2, <2>3 DEF Send
  <1> QED  BY <1>2, <1>3, <1>4, <1>5

(* A worker reads on when its stream is done: it has no other, and no call *)
(* is asked for under its token.                                           *)
LEMMA StreamTokens ==
    ASSUME TypeOK, TokenInv, NEW c \in Calls, StreamEnds(c) \/ FinishProviderCall(c)
    PROVE  TokenInv'
  <1> USE DEF TokenInv
  <1>1. /\ Streaming(c) /\ UNCHANGED <<requests, callToken, tokens, wtoken>>
        /\ StreamDone(c) \/ (stream' = [stream EXCEPT ![c] = "closing"] /\ UNCHANGED wpc)
    BY DEF StreamEnds, FinishProviderCall, Streaming, historyVars
  <1>2. \A d \in Calls : callStatus[d] = "none" => callStatus'[d] = "none"
    <2>1. CASE UNCHANGED callStatus  BY <2>1
    <2>2. CASE /\ Recordable(c)
               /\ \E outcome \in {"completed", "failed"} :
                     callStatus' = [callStatus EXCEPT ![c] = outcome]
      BY <2>2 DEF Recordable, TypeOK
    <2> QED  BY <2>1, <2>2 DEF StreamEnds, FinishProviderCall
  <1>3. \A d \in Calls : Streaming(d)' => Streaming(d)
    BY <1>1 DEF StreamDone, Streaming, TypeOK
  <1>4. CASE StreamDone(c)
    <2>1. \A d \in Calls : Streaming(d)' => d # c /\ Streaming(d)
      BY <1>3, <1>4 DEF StreamDone, Streaming, TypeOK
    <2>2. /\ \A q \in requests' : Starts(q) => q.token # callToken[c]
          /\ \A d \in Calls : Streaming(d)' => callToken[d] # callToken[c]
      BY <1>1, <2>1 DEF OneCall
    <2>3. \A w \in Workers :
            wpc'[w] = wpc[w] \/ (wpc[w] = "calling" /\ wtoken[w] = callToken[c])
      BY <1>4 DEF StreamDone
    <2>4. WorkersMove  BY <1>1, <2>2, <2>3 DEF WorkersMove
    <2> QED  BY <1>1, <1>2, <1>3, <2>4, TokensSame DEF TokensFrame
  <1>5. CASE UNCHANGED wpc
    <2>1. WorkersMove  BY <1>1, <1>5, StillMoves
    <2> QED  BY <1>1, <1>2, <1>3, <2>1, TokensSame DEF TokensFrame
  <1> QED  BY <1>1, <1>4, <1>5

LEMMA TokensStep ==
    ASSUME TypeOK, WorkersLeased, TokenInv, Next PROVE TokenInv'
  <1>1. ASSUME NEW r \in Runs,
               \/ Invoke(r) \/ RequestCancel(r) \/ LeaseExpires(r) \/ Deadline(r)
               \/ BackoffOver(r)
        PROVE  TokenInv'
    <2>1. TokensFrame /\ UNCHANGED <<wpc, wtoken>>
      BY <1>1
      DEF TokensFrame, Streaming, callVars, workerVars, historyVars, Invoke, RequestCancel,
          LeaseExpires, Deadline, BackoffOver
    <2> QED  BY <2>1, StillMoves, TokensSame
  <1>2. ASSUME NEW w \in Workers,
               \/ ReapQueued(w) \/ ReapRunning(w) \/ ClaimScan(w) \/ ClaimLock(w)
               \/ ClaimAborted(w) \/ ClaimCount(w)
        PROVE  TokenInv'
    <2>1. TokensFrame /\ UNCHANGED wtoken
      BY <1>2
      DEF TokensFrame, Streaming, callVars, historyVars, ReapQueued, ReapRunning, ClaimScan,
          ClaimLock, ClaimAborted, ClaimCount
    <2>2. wpc[w] \in {"idle"} \cup ClaimSteps
      BY <1>2
      DEF ClaimSteps, ReapQueued, ReapRunning, ClaimScan, ClaimLock, ClaimAborted, ClaimCount
    <2>3. \E pc \in {"idle"} \cup ClaimSteps : wpc' = [wpc EXCEPT ![w] = pc]
      BY <1>2
      DEF ClaimSteps, ReapQueued, ReapRunning, ClaimScan, ClaimLock, ClaimAborted, ClaimCount,
          NothingClaimed, TryItem
    <2>4. WorkersMove  BY <2>1, <2>2, <2>3 DEF WorkersMove, Between, ClaimSteps, TypeOK
    <2> QED  BY <2>1, <2>4, TokensSame
  <1>3. ASSUME NEW w \in Workers, Heartbeat(w) PROVE TokenInv'
    <2>1. TokensFrame /\ UNCHANGED <<wpc, wtoken>>
      BY <1>3 DEF TokensFrame, Streaming, callVars, workerVars, historyVars, Heartbeat
    <2> QED  BY <2>1, StillMoves, TokensSame
  <1>4. ASSUME NEW w \in Workers, Preview(w) \/ WorkerError(w) \/ WorkerDies(w)
        PROVE  TokenInv'
    <2>1. TokensFrame
      BY <1>4
      DEF TokensFrame, Streaming, callVars, historyVars, Preview, WorkerError, WorkerDies
    <2>2. CASE Preview(w)  BY <2>1, <2>2, BecomeMoves, TokensSame DEF Preview, Between
    <2>3. CASE WorkerError(w)  BY <2>1, <2>3, BecomeMoves, TokensSame DEF WorkerError, Between
    <2>4. CASE WorkerDies(w)  BY <2>1, <2>4, BecomeMoves, TokensSame DEF WorkerDies, Between
    <2> QED  BY <1>4, <2>2, <2>3, <2>4
  <1>5. ASSUME NEW q \in requests, Publish(q) \/ PublishRejected(q) \/ Complete(q) \/ Fail(q)
        PROVE  TokenInv'
    <2>1. UNCHANGED <<callStatus, callToken, stream, tokens>>
      BY <1>5 DEF Publish, PublishRejected, Complete, Fail, callVars, historyVars
    <2>2. PICK next \in {"failing", "over_budget", "idle", "published"} :
            Answer(q, next) /\ (next = "published" => q.kind = "publish")
      BY <1>5 DEF Publish, PublishRejected, Complete, Fail
    <2>3. WorkersMove /\ requests' \subseteq requests  BY <2>2, AnswerMoves
    <2>4. TokensFrame  BY <2>1, <2>3 DEF TokensFrame, Streaming
    <2> QED  BY <2>3, <2>4, TokensSame
  <1>6. ASSUME SetEnabled PROVE TokenInv'
    <2>1. TokensFrame /\ UNCHANGED <<wpc, wtoken>>
      BY <1>6 DEF TokensFrame, Streaming, callVars, workerVars, historyVars, SetEnabled
    <2> QED  BY <2>1, StillMoves, TokensSame
  <1>7. ASSUME CoreCrash PROVE TokenInv'
    <2>1. TokensFrame  BY <1>7 DEF TokensFrame, Streaming, historyVars, CoreCrash, TypeOK
    <2>2. \A w \in Workers : wpc'[w] \in Between => wpc[w] \in Between
      BY <1>7, WaitingStates DEF CoreCrash, Between
    <2>3. WorkersMove  BY <1>7, <2>2 DEF CoreCrash, WorkersMove
    <2> QED  BY <2>1, <2>3, TokensSame
  <1> QED
    BY <1>1, <1>2, <1>3, <1>4, <1>5, <1>6, <1>7, CommitTokens, SendTokens, AdmitTokens,
       UsageTokens, StreamTokens
    DEF Next, Claim, Execute, Serve, Gateway

-----------------------------------------------------------------------------
LEMMA BudgetInit == Init => BudgetInv
  <1> SUFFICES ASSUME Init PROVE BudgetInv
    OBVIOUS
  <1>1. CallsRecorded /\ EndedRuns /\ CompletesAll  BY DEF Init, CallsRecorded, EndedRuns, CompletesAll
  <1>2. TokensIssued /\ OneCall /\ BetweenCalls
    BY DEF Init, TokensIssued, OneCall, BetweenCalls, Streaming
  <1>3. OnlyOverrun
    <2>1. Exposed = {}  BY BoundAssumption DEF Init, Exposed, Reserved, Spent
    <2>2. Exposed \ Overrun = {}  BY <2>1
    <2> QED  BY <2>2, FS_EmptySet, BoundAssumption DEF OnlyOverrun
  <1> QED  BY <1>1, <1>2, <1>3 DEF BudgetInv

LEMMA BudgetStep == QueueInv /\ BudgetInv /\ [Next]_vars => BudgetInv'
  <1> SUFFICES ASSUME QueueInv, BudgetInv, [Next]_vars PROVE BudgetInv'
    OBVIOUS
  <1>1. /\ TypeOK /\ RowsHeld /\ WorkersLeased /\ Tables /\ TokenInv
        /\ OneCall /\ \A q \in requests : q.token <= tokens
    BY DEF QueueInv, BudgetInv, Tables, TokenInv, TokensIssued
  <1>2. EndsKept /\ HoldsKept  BY <1>1, EndsStep, HoldsStep
  <1>3. CASE Next
    <2>1. Tables' /\ TokenInv'  BY <1>1, <1>2, <1>3, TablesStep, TokensStep
    <2> QED  BY <2>1 DEF BudgetInv, Tables, TokenInv
  <1>4. CASE UNCHANGED vars
    <2>1. Tables'
      BY <1>1, <1>2, <1>4, TablesSame DEF TablesFrame, vars, callVars
    <2>2. TokenInv'
      BY <1>1, <1>4, StillMoves, TokensSame
      DEF TokensFrame, Streaming, vars, callVars, workerVars, historyVars
    <2> QED  BY <2>1, <2>2 DEF BudgetInv, Tables, TokenInv
  <1> QED  BY <1>3, <1>4

(* The inductive invariant of the calls: the tables account for every call *)
(* that costs, and no call of a run starts behind its completion.          *)
THEOREM CallsAccounted == Spec => []BudgetInv
  <1>1. Init => BudgetInv  BY BudgetInit
  <1>2. QueueInv /\ BudgetInv /\ [Next]_vars => BudgetInv'  BY BudgetStep
  <1> QED  BY <1>1, <1>2, QueueCorrect, PTL DEF Spec

(* A call is admitted only while all that the agent's calls have cost or   *)
(* have reserved leaves room for it, whatever other calls, completions and *)
(* lost leases race with it.                                               *)
Admission ==
    (\E c \in Calls : callStatus[c] = "none" /\ callStatus'[c] = "started")
        => Cardinality(Exposed') <= Budget

LEMMA AdmissionStep == QueueInv /\ BudgetInv /\ [Next]_vars => Admission
  <1> SUFFICES ASSUME QueueInv, BudgetInv, [Next]_vars,
                      NEW c \in Calls, callStatus[c] = "none", callStatus'[c] = "started"
               PROVE  Cardinality(Exposed') <= Budget
    BY DEF Admission
  <1>1. /\ TypeOK /\ Tables /\ OneCall /\ EndsKept /\ HoldsKept
    <2>1. /\ TypeOK /\ RowsHeld /\ Tables /\ OneCall /\ \A q \in requests : q.token <= tokens
      BY DEF QueueInv, BudgetInv, Tables, TokensIssued
    <2> QED  BY <2>1, EndsStep, HoldsStep
  <1>2. callStatus' # callStatus  OBVIOUS
  <1>3. ASSUME NEW q \in requests, StartProviderCall(q) PROVE Cardinality(Exposed') <= Budget
    <2>1. ~ UNCHANGED callVars  BY <1>2 DEF callVars
    <2> QED  BY <1>1, <1>3, <2>1, Admitted
  <1>4. ASSUME NEW d \in Calls, FinishProviderCall(d) PROVE FALSE
    BY <1>1, <1>4 DEF FinishProviderCall, TypeOK
  <1>5. Next  BY <1>2 DEF vars, callVars
  <1>6. \/ \E q \in requests : StartProviderCall(q)
        \/ \E d \in Calls : FinishProviderCall(d)
    BY <1>2, <1>5, CallChangers
  <1> QED  BY <1>3, <1>4, <1>6

THEOREM BudgetSafe == Spec => BudgetHeld
  <1>1. QueueInv /\ BudgetInv /\ [Next]_vars => [Admission]_vars  BY AdmissionStep
  <1> QED  BY <1>1, QueueCorrect, CallsAccounted, PTL DEF Spec, BudgetHeld, Admission

(* What goes past the budget is never more than what calls cost above      *)
(* their reservation: without estimates that are too low it holds.         *)
THEOREM OverrunIsEstimate == Spec => []OnlyOverrun
  <1>1. BudgetInv => OnlyOverrun  BY DEF BudgetInv
  <1> QED  BY <1>1, CallsAccounted, PTL

-----------------------------------------------------------------------------
(* The queue implements RunQueue.                                          *)
LEMMA QueueMapsInit == Init => Queue!Init
  BY DEF Init, Queue!Init

Mapped == <<status, cancelRequested, claims, published>>

(* A claim that commits starts a run as RunQueue does, in one step: the    *)
(* row lock kept it queued, so it is not canceled and has an attempt left, *)
(* and the advisory lock kept the place in its chat.                       *)
LEMMA CommitStarts ==
    ASSUME QueueInv, NEW w \in Workers, ClaimCommit(w)
    PROVE  \E r \in Runs : Queue!Start(r)
  <1> DEFINE r == wrun[w]
  <1>1. r \in Runs /\ status[r] = "queued"
    BY DEF QueueInv, RowsHeld, ClaimCommit, TypeOK
  <1>2. ~cancelRequested[r]  BY <1>1 DEF QueueInv, CancelSticks
  <1>3. claims[r] < MaxAttempts
    BY <1>1, BoundAssumption DEF QueueInv, AttemptsCount, TypeOK
  <1>4. ASSUME ChatOf[r] \in Chats
        PROVE  Queue!Cardinality(Queue!RunningWith(r)) < ChatLimit
    <2>1. Queue!RunningWith(r) = RunningIn(ChatOf[r])
      BY DEF Queue!RunningWith, RunningIn
    <2>2. ChatOf[r] # NoChat  BY <1>4, RunAssumption
    <2>3. Cardinality(RunningIn(ChatOf[r])) < ChatLimit
      BY <2>2 DEF QueueInv, KeysHeld, ClaimCommit
    <2>4. Queue!Cardinality(RunningIn(ChatOf[r])) = Cardinality(RunningIn(ChatOf[r]))
      BY DEF Queue!Cardinality, Cardinality
    <2> QED  BY <2>1, <2>3, <2>4
  <1>5. /\ status' = [status EXCEPT ![r] = "running"]
        /\ claims' = [claims EXCEPT ![r] = @ + 1]
        /\ UNCHANGED <<cancelRequested, published>>
    BY DEF ClaimCommit
  <1> HIDE DEF r
  <1> QED  BY <1>1, <1>2, <1>3, <1>4, <1>5 DEF Queue!Start

(* The reaper and the reports of workers move runs only where RunQueue     *)
(* lets them go.                                                           *)
LEMMA ReportLeaves ==
    ASSUME QueueInv, TypeOK', NEW q \in requests, Complete(q) \/ Fail(q)
    PROVE  Queue!Leave
  <1> DEFINE r == q.run
  <1>1. r \in Runs  BY DEF QueueInv, TypeOK, Request
  <1>2. status' \in [Runs -> Queue!States]
    BY DEF TypeOK, Statuses, Final, Queue!States, Queue!Ends
  <1>3. UNCHANGED <<cancelRequested, claims, published>>
    BY DEF Complete, Fail, historyVars
  <1>4. \A x \in Runs : status'[x] # status[x] => x = r /\ status[r] = "running"
    BY <1>1 DEF QueueInv, TypeOK, Complete, Fail, Held
  <1>5. status'[r] # status[r] => status'[r] \in Queue!Onward(r)
    <2> SUFFICES ASSUME status'[r] # status[r] PROVE status'[r] \in Queue!Onward(r)
      OBVIOUS
    <2>1. status[r] = "running"  BY <1>1, <1>4
    <2>2. cancelRequested[r] \in BOOLEAN /\ attempt[r] <= MaxAttempts
          /\ claims[r] <= attempt[r]
          /\ attempt[r] \in Nat /\ claims[r] \in Nat /\ MaxAttempts \in Nat
      BY <1>1, BoundAssumption DEF QueueInv, TypeOK, AttemptsCount
    <2>3. CASE cancelRequested[r]
      <3>1. status'[r] = "canceled"
        BY <1>1, <2>3 DEF QueueInv, TypeOK, Complete, Fail, Held, AfterFailure
      <3> QED  BY <2>1, <2>3, <3>1 DEF Queue!Onward
    <2>4. CASE ~cancelRequested[r]
      <3>1. /\ status'[r] \in {"queued", "completed", "failed", "timed_out"}
            /\ status'[r] = "queued" => attempt[r] < MaxAttempts
        BY <1>1, <2>4 DEF QueueInv, TypeOK, Complete, Fail, Held, AfterFailure
      <3>2. status'[r] = "queued" => claims[r] < MaxAttempts  BY <2>2, <3>1
      <3> QED  BY <2>1, <2>4, <3>1, <3>2 DEF Queue!Onward
    <2> QED  BY <2>2, <2>3, <2>4
  <1> QED  BY <1>2, <1>3, <1>4, <1>5 DEF Queue!Leave

LEMMA ReaperLeaves ==
    ASSUME QueueInv, TypeOK', NEW w \in Workers, ReapQueued(w) \/ ReapRunning(w)
    PROVE  Queue!Leave
  <1>1. status' \in [Runs -> Queue!States]
    BY DEF TypeOK, Statuses, Final, Queue!States, Queue!Ends
  <1>2. UNCHANGED <<cancelRequested, claims, published>>
    BY DEF ReapQueued, ReapRunning, historyVars
  <1>3. ASSUME NEW r \in Runs, status'[r] # status[r] PROVE status'[r] \in Queue!Onward(r)
    <2>1. CASE ReapQueued(w)
      <3>1. status[r] = "queued" /\ status'[r] = "timed_out"
        BY <1>3, <2>1 DEF ReapQueued, Due
      <3> QED  BY <3>1 DEF Queue!Onward
    <2>2. CASE ReapRunning(w)
      <3>1. status[r] = "running" /\ status'[r] = AfterReap(r)
        BY <1>3, <2>2 DEF ReapRunning, Reapable
      <3>2. cancelRequested[r] \in BOOLEAN /\ attempt[r] <= MaxAttempts
            /\ claims[r] <= attempt[r]
            /\ attempt[r] \in Nat /\ claims[r] \in Nat /\ MaxAttempts \in Nat
        BY BoundAssumption DEF QueueInv, TypeOK, AttemptsCount
      <3>3. CASE cancelRequested[r]
        <4>1. AfterReap(r) = "canceled"  BY <3>3 DEF AfterReap
        <4> QED  BY <3>1, <3>3, <4>1 DEF Queue!Onward
      <3>4. CASE ~cancelRequested[r]
        <4>1. /\ AfterReap(r) \in {"queued", "timed_out"}
              /\ AfterReap(r) = "queued" => attempt[r] < MaxAttempts
          BY <3>4 DEF AfterReap
        <4>2. AfterReap(r) = "queued" => claims[r] < MaxAttempts  BY <3>2, <4>1
        <4> QED  BY <3>1, <3>4, <4>1, <4>2 DEF Queue!Onward
      <3> QED  BY <3>2, <3>3, <3>4
    <2> QED  BY <2>1, <2>2
  <1> QED  BY <1>1, <1>2, <1>3 DEF Queue!Leave

LEMMA QueueMapsStep ==
    ASSUME QueueInv, TypeOK', [Next]_vars
    PROVE  [Queue!Next]_Mapped
  <1>1. CASE UNCHANGED Recorded  BY <1>1 DEF Recorded, Mapped
  <1>2. ASSUME NEW q \in requests, Publish(q) PROVE [Queue!Next]_Mapped
    <2>1. q.run \in Runs /\ q.token \in Nat \ {0} /\ claims[q.run] > 0
      BY DEF QueueInv, TypeOK, Request, ExecutedIsClaimed
    <2>2. UNCHANGED <<status, cancelRequested, claims>>  BY <1>2 DEF Publish
    <2>3. published' = published
          \/ (published[q.run] = 0 /\ published' = [published EXCEPT ![q.run] = q.token])
      BY <1>2, <2>1 DEF Publish, FinalFree, QueueInv, TypeOK
    <2>4. CASE published' = published  BY <2>2, <2>4 DEF Mapped
    <2>5. CASE published[q.run] = 0 /\ published' = [published EXCEPT ![q.run] = q.token]
      <3>1. published'[q.run] = q.token  BY <2>1, <2>5 DEF QueueInv, TypeOK
      <3> QED  BY <2>1, <2>2, <2>5, <3>1 DEF Queue!Next, Queue!Answer
    <2> QED  BY <2>3, <2>4, <2>5
  <1>3. ASSUME NEW q \in requests, Complete(q) \/ Fail(q) PROVE [Queue!Next]_Mapped
    BY <1>3, ReportLeaves DEF Queue!Next
  <1>4. ASSUME NEW r \in Runs, Invoke(r) PROVE [Queue!Next]_Mapped
    BY <1>4 DEF Invoke, historyVars, Queue!Next, Queue!Enqueue
  <1>5. ASSUME NEW r \in Runs, RequestCancel(r) PROVE [Queue!Next]_Mapped
    BY <1>5 DEF RequestCancel, historyVars, Queue!Next, Queue!Cancel
  <1>6. ASSUME NEW w \in Workers, ReapQueued(w) \/ ReapRunning(w)
        PROVE  [Queue!Next]_Mapped
    BY <1>6, ReaperLeaves DEF Queue!Next
  <1>7. ASSUME NEW w \in Workers, ClaimCommit(w) PROVE [Queue!Next]_Mapped
    BY <1>7, CommitStarts DEF Queue!Next
  <1> QED
    BY <1>1, <1>2, <1>3, <1>4, <1>5, <1>6, <1>7, RunChangers
    DEF vars, runVars, historyVars, Recorded

(* The detailed queue implements RunQueue.  Row locks, advisory locks and  *)
(* leases make a claim one step to everybody else; reaper, workers and     *)
(* cancellations move a run only where RunQueue lets it go, and attempts   *)
(* and the answer agree with what was executed.                            *)
THEOREM QueueRefines == Spec => QueueKept
  <1>1. QueueInv /\ QueueInv' /\ [Next]_vars => [Queue!Next]_Mapped
    BY QueueMapsStep DEF QueueInv
  <1> QED
    BY <1>1, QueueCorrect, QueueMapsInit, PTL
    DEF Spec, QueueKept, Queue!Spec, Queue!queueVars, Mapped

(* What RunQueue is worth: its atomic steps keep the limit of every chat   *)
(* and never revive a run that was asked to stop.                          *)
PromiseInv ==
    /\ status \in [Runs -> Statuses] /\ cancelRequested \in [Runs -> BOOLEAN]
    /\ ChatLimitHeld /\ CancelSticks

LEMMA PromiseInit == Queue!Init => PromiseInv
  <1> SUFFICES ASSUME Queue!Init PROVE PromiseInv
    OBVIOUS
  <1>1. /\ status = [r \in Runs |-> "none"] /\ cancelRequested = [r \in Runs |-> FALSE]
    BY DEF Queue!Init
  <1>2. ASSUME NEW k \in Chats PROVE Cardinality(RunningIn(k)) <= ChatLimit
    <2>1. RunningIn(k) = {}  BY <1>1 DEF RunningIn
    <2> QED  BY <2>1, FS_EmptySet, BoundAssumption
  <1> QED  BY <1>1, <1>2 DEF PromiseInv, ChatLimitHeld, CancelSticks, Statuses

(* Runs that do not start take no place.                                   *)
LEMMA NoStartKeepsLimit ==
    ASSUME ChatLimitHeld, \A x \in Runs : status'[x] = "running" => status[x] = "running"
    PROVE  ChatLimitHeld'
  <1> SUFFICES ASSUME NEW k \in Chats PROVE Cardinality(RunningIn(k)') <= ChatLimit
    BY DEF ChatLimitHeld
  <1>1. RunningIn(k)' \subseteq RunningIn(k)  BY DEF RunningIn
  <1>2. IsFiniteSet(RunningIn(k))  BY RunningFinite
  <1>3. /\ Cardinality(RunningIn(k)) \in Nat /\ Cardinality(RunningIn(k)') \in Nat
        /\ Cardinality(RunningIn(k)') <= Cardinality(RunningIn(k))
    BY <1>1, <1>2, FS_Subset, FS_CardinalityType
  <1> QED  BY <1>3, BoundAssumption DEF ChatLimitHeld

LEMMA PromiseStep == ASSUME PromiseInv, [Queue!Next]_Mapped PROVE PromiseInv'
  <1>types. /\ status \in [Runs -> Statuses] /\ cancelRequested \in [Runs -> BOOLEAN]
            /\ ChatLimitHeld /\ CancelSticks
    BY DEF PromiseInv
  <1>1. CASE UNCHANGED Mapped
    BY <1>1, <1>types, NoStartKeepsLimit DEF Mapped, PromiseInv, CancelSticks
  <1>2. ASSUME NEW r \in Runs, Queue!Enqueue(r) \/ Queue!Cancel(r) \/ Queue!Answer(r)
        PROVE  PromiseInv'
    <2>1. status' \in [Runs -> Statuses] /\ cancelRequested' \in [Runs -> BOOLEAN]
      BY <1>2, <1>types
      DEF Queue!Enqueue, Queue!Cancel, Queue!Answer, Statuses, Final
    <2>2. CancelSticks'
      BY <1>2, <1>types DEF Queue!Enqueue, Queue!Cancel, Queue!Answer, CancelSticks
    <2>3. \A x \in Runs : status'[x] = "running" => status[x] = "running"
      BY <1>2, <1>types DEF Queue!Enqueue, Queue!Cancel, Queue!Answer
    <2> QED  BY <1>types, <2>1, <2>2, <2>3, NoStartKeepsLimit DEF PromiseInv
  <1>3. CASE Queue!Leave
    <2>1. /\ status' \in [Runs -> Statuses] /\ UNCHANGED cancelRequested
          /\ \A r \in Runs : status'[r] # status[r] => status'[r] \in Queue!Onward(r)
      BY <1>3 DEF Queue!Leave, Queue!States, Queue!Ends, Statuses, Final
    <2>2. ASSUME NEW r \in Runs, status'[r] # status[r]
          PROVE  /\ status'[r] # "running"
                 /\ cancelRequested[r] => status'[r] = "canceled"
      <3>1. status'[r] \in Queue!Onward(r)  BY <2>1, <2>2
      <3>2. cancelRequested[r] \in BOOLEAN /\ (cancelRequested[r] => status[r] # "queued")
        BY <1>types DEF CancelSticks
      <3>3. CASE status[r] = "queued"  BY <3>1, <3>2, <3>3 DEF Queue!Onward
      <3>4. CASE status[r] = "running" /\ cancelRequested[r]
        BY <3>1, <3>4 DEF Queue!Onward
      <3>5. CASE status[r] = "running" /\ ~cancelRequested[r]
        BY <3>1, <3>5 DEF Queue!Onward
      <3>6. CASE status[r] \notin {"queued", "running"}
        BY <3>1, <3>6 DEF Queue!Onward
      <3> QED  BY <3>2, <3>3, <3>4, <3>5, <3>6
    <2>3. CancelSticks'  BY <1>types, <2>1, <2>2 DEF CancelSticks
    <2>4. ChatLimitHeld'  BY <1>types, <2>1, <2>2, NoStartKeepsLimit
    <2> QED  BY <1>types, <2>1, <2>3, <2>4 DEF PromiseInv
  <1>4. ASSUME NEW r \in Runs, Queue!Start(r) PROVE PromiseInv'
    <2>1. /\ status' = [status EXCEPT ![r] = "running"] /\ UNCHANGED cancelRequested
          /\ ~cancelRequested[r] /\ status[r] = "queued"
      BY <1>4 DEF Queue!Start
    <2>2. status' \in [Runs -> Statuses] /\ CancelSticks'
      BY <1>types, <2>1 DEF Statuses, CancelSticks
    <2>3. ASSUME NEW k \in Chats PROVE Cardinality(RunningIn(k)') <= ChatLimit
      <3>1. IsFiniteSet(RunningIn(k)) /\ Cardinality(RunningIn(k)) \in Nat
        BY RunningFinite, FS_CardinalityType
      <3>2. CASE ChatOf[r] # k
        <4>1. RunningIn(k)' = RunningIn(k)  BY <1>types, <2>1, <3>2 DEF RunningIn
        <4> QED  BY <1>types, <4>1 DEF ChatLimitHeld
      <3>3. CASE ChatOf[r] = k
        <4>1. RunningIn(k)' = RunningIn(k) \cup {r} /\ r \notin RunningIn(k)
          BY <1>types, <2>1, <3>3 DEF RunningIn
        <4>2. Queue!RunningWith(r) = RunningIn(k)
          BY <3>3 DEF Queue!RunningWith, RunningIn
        <4>3. Queue!Cardinality(RunningIn(k)) < ChatLimit
          BY <1>4, <3>3, <4>2 DEF Queue!Start
        <4>4. Queue!Cardinality(RunningIn(k)) = Cardinality(RunningIn(k))
          BY DEF Queue!Cardinality, Cardinality
        <4>5. Cardinality(RunningIn(k)') = Cardinality(RunningIn(k)) + 1
          BY <3>1, <4>1, FS_AddElement
        <4> QED  BY <3>1, <4>3, <4>4, <4>5, BoundAssumption
      <3> QED  BY <3>2, <3>3
    <2> QED  BY <1>types, <2>1, <2>2, <2>3 DEF PromiseInv, ChatLimitHeld
  <1> QED  BY <1>1, <1>2, <1>3, <1>4 DEF Queue!Next

(* Whatever keeps the promise of RunQueue keeps the limit of every chat    *)
(* and every cancellation.                                                 *)
THEOREM QueuePromises == QueueKept => [](ChatLimitHeld /\ CancelSticks)
  <1>1. PromiseInv /\ [Queue!Next]_Mapped => PromiseInv'  BY PromiseStep
  <1>2. PromiseInv => ChatLimitHeld /\ CancelSticks  BY DEF PromiseInv
  <1> QED
    BY <1>1, <1>2, PromiseInit, PTL
    DEF QueueKept, Queue!Spec, Queue!queueVars, Mapped

=============================================================================

------------------------------ MODULE AgentRun ------------------------------
(***************************************************************************)
(* The queue of agent runs: the agent_runs table, the claim transaction,   *)
(* leases and the reaper, the runtime workers that execute a run, the      *)
(* provider gateway and the cost budget of one agent.                      *)
(*                                                                         *)
(* Every runtime request is authorized by one statement (RuntimeTarget)    *)
(* and carried out by another, so a request that was authorized under a    *)
(* lease may reach the table after the lease is gone.  `requests` holds    *)
(* the authorized ones; they outlive a worker that dies.                   *)
(*                                                                         *)
(* The clock is three facts per run that time can turn: the lease is past  *)
(* lease_expires_at, the run is past timeout_at, the run is still before   *)
(* next_attempt_at.                                                        *)
(*                                                                         *)
(* Money is counted in units of what a provider call reserves, which is an *)
(* estimate: a finished call costs any number of units up to MaxCost.      *)
(***************************************************************************)
EXTENDS Naturals, FiniteSets

CONSTANTS
    Runs, Chats, NoChat, ChatOf,  \* a run belongs to a chat, or to none
    DryRuns,                      \* the runs that must not publish
    Workers,                      \* claim loops
    NoRun,
    Calls,                        \* provider call identifiers
    MaxAttempts,                  \* max_attempts
    ChatLimit,                    \* per_chat_concurrency
    Budget,                       \* cost limit of the agent, in units
    MaxCost,                      \* bound on what one call costs, in units
    MaxFaults                     \* bound on crashes

ASSUME RunAssumption ==
    /\ NoRun \notin Runs /\ NoChat \notin Chats /\ DryRuns \subseteq Runs
    /\ ChatOf \in [Runs -> Chats \cup {NoChat}]
ASSUME BoundAssumption ==
    /\ MaxAttempts \in Nat \ {0} /\ ChatLimit \in Nat \ {0} /\ Budget \in Nat
    /\ MaxCost \in Nat \ {0} /\ MaxFaults \in Nat
ASSUME FiniteAssumption == IsFiniteSet(Runs) /\ IsFiniteSet(Calls)

VARIABLES
    \* agent_runs
    status, attempt, cancelRequested,
    lease,       \* lease_token, 0 when NULL
    expired,     \* lease_expires_at <= now()
    late,        \* timeout_at <= now()
    backoff,     \* next_attempt_at > now()
    published,   \* published_message_id, 0 when NULL
    enabled,     \* agents.enabled
    \* agent_provider_calls and agent_usage
    callStatus, callRun, callToken,
    cost,        \* actual_cost, 0 until the call is finished
    usageRows,   \* calls that have a usage row of their own
    summary,     \* run -> the calls a usage row of the whole run sums up
    summarized,  \* runs that have such a row
    stream,      \* the gateway's side of the call
    \* runtime workers
    wpc, wrun, wtoken,
    rows, candidates, keys,  \* of the claim transaction: row locks, the
                             \* items left to try, advisory locks
    requests,
    tokens,      \* lease tokens issued so far
    claims,      \* history: how often a run was claimed
    messages,    \* history: final messages of a run
    faults

runVars == <<status, attempt, cancelRequested, lease, expired, late, backoff, published>>
callVars == <<callStatus, callRun, callToken, cost, usageRows, summary, summarized, stream>>
claimVars == <<rows, candidates, keys>>
workerVars == <<wpc, wrun, wtoken>>
historyVars == <<tokens, claims, messages>>
vars == <<runVars, enabled, callVars, workerVars, claimVars, requests, historyVars, faults>>

Final == {"completed", "canceled", "failed", "timed_out"}
Statuses == {"none", "queued", "running"} \cup Final
ClaimSteps == {"reap_running", "scan", "lock", "count", "commit"}
Executing == {"work", "calling", "publishing", "published", "completing",
              "failing", "over_budget", "reporting"}
Kinds == {"start", "publish", "usage", "complete", "fail", "fail_budget"}
Awaits == [start |-> "calling", publish |-> "publishing", usage |-> "completing",
           complete |-> "completing", fail |-> "reporting", fail_budget |-> "reporting"]
Waiting == {Awaits[k] : k \in Kinds}

Request == [kind : Kinds, run : Runs, token : Nat \ {0}, worker : Workers,
            calls : SUBSET Calls]

TypeOK ==
    /\ status \in [Runs -> Statuses] /\ attempt \in [Runs -> Nat]
    /\ cancelRequested \in [Runs -> BOOLEAN] /\ lease \in [Runs -> Nat]
    /\ expired \in [Runs -> BOOLEAN] /\ late \in [Runs -> BOOLEAN]
    /\ backoff \in [Runs -> BOOLEAN] /\ published \in [Runs -> Nat]
    /\ enabled \in BOOLEAN
    /\ callStatus \in [Calls -> {"none", "started", "completed", "failed"}]
    /\ callRun \in [Calls -> Runs \cup {NoRun}] /\ callToken \in [Calls -> Nat]
    /\ cost \in [Calls -> 0..MaxCost] /\ usageRows \subseteq Calls
    /\ summary \in [Runs -> SUBSET Calls] /\ summarized \subseteq Runs
    /\ stream \in [Calls -> {"none", "open", "closing", "ended", "lost"}]
    /\ wpc \in [Workers -> {"idle", "stopped"} \cup ClaimSteps \cup Executing]
    /\ wrun \in [Workers -> Runs \cup {NoRun}] /\ wtoken \in [Workers -> Nat]
    /\ rows \in [Workers -> SUBSET Runs] /\ candidates \in [Workers -> SUBSET Runs]
    /\ keys \in [Workers -> SUBSET (Chats \cup {NoChat})]
    /\ requests \subseteq Request
    /\ tokens \in Nat /\ claims \in [Runs -> Nat]
    /\ messages \in [Runs -> SUBSET Nat]
    /\ faults \in 0..MaxFaults

Init ==
    /\ status = [r \in Runs |-> "none"] /\ attempt = [r \in Runs |-> 0]
    /\ cancelRequested = [r \in Runs |-> FALSE] /\ lease = [r \in Runs |-> 0]
    /\ expired = [r \in Runs |-> FALSE] /\ late = [r \in Runs |-> FALSE]
    /\ backoff = [r \in Runs |-> FALSE] /\ published = [r \in Runs |-> 0]
    /\ enabled = TRUE
    /\ callStatus = [c \in Calls |-> "none"] /\ callRun = [c \in Calls |-> NoRun]
    /\ callToken = [c \in Calls |-> 0]
    /\ cost = [c \in Calls |-> 0] /\ usageRows = {} /\ summarized = {}
    /\ summary = [r \in Runs |-> {}] /\ stream = [c \in Calls |-> "none"]
    /\ wpc = [w \in Workers |-> "idle"] /\ wrun = [w \in Workers |-> NoRun]
    /\ wtoken = [w \in Workers |-> 0]
    /\ rows = [w \in Workers |-> {}] /\ candidates = [w \in Workers |-> {}]
    /\ keys = [w \in Workers |-> {}] /\ requests = {}
    /\ tokens = 0 /\ claims = [r \in Runs |-> 0] /\ messages = [r \in Runs |-> {}]
    /\ faults = 0

Fault == faults < MaxFaults /\ faults' = faults + 1

(* Row r is not locked by a claim transaction.                             *)
RowsNotLocked(r) == TRUE
Unlocked(r) == \A w \in Workers : r \notin rows[w]

-----------------------------------------------------------------------------
(* Commands of the workspace, and the clock.                               *)

(* A run is enqueued by a person or by a trigger.  The same client_run_id  *)
(* again, or the same trigger event, changes nothing.                      *)
Invoke(r) ==
    /\ status[r] = "none" /\ (enabled \/ r \in DryRuns)
    /\ status' = [status EXCEPT ![r] = "queued"]
    /\ attempt' = [attempt EXCEPT ![r] = 1]
    /\ UNCHANGED <<cancelRequested, lease, expired, late, backoff, published, enabled,
                   callVars, workerVars, claimVars, requests, historyVars, faults>>

RequestCancel(r) ==
    /\ status[r] \in {"queued", "running"} /\ Unlocked(r)
    /\ status' = [status EXCEPT ![r] = IF @ = "queued" THEN "canceled" ELSE @]
    /\ cancelRequested' = [cancelRequested EXCEPT ![r] = TRUE]
    /\ UNCHANGED <<attempt, lease, expired, late, backoff, published, enabled,
                   callVars, workerVars, claimVars, requests, historyVars, faults>>

SetEnabled ==
    /\ enabled' = ~enabled
    /\ UNCHANGED <<runVars, callVars, workerVars, claimVars, requests, historyVars, faults>>

LeaseExpires(r) ==
    /\ status[r] = "running" /\ ~expired[r]
    /\ expired' = [expired EXCEPT ![r] = TRUE]
    /\ UNCHANGED <<status, attempt, cancelRequested, lease, late, backoff, published,
                   enabled, callVars, workerVars, claimVars, requests, historyVars, faults>>

Deadline(r) ==
    /\ status[r] \in {"queued", "running"} /\ ~late[r]
    /\ late' = [late EXCEPT ![r] = TRUE]
    /\ UNCHANGED <<status, attempt, cancelRequested, lease, expired, backoff, published,
                   enabled, callVars, workerVars, claimVars, requests, historyVars, faults>>

BackoffOver(r) ==
    /\ backoff[r]
    /\ backoff' = [backoff EXCEPT ![r] = FALSE]
    /\ UNCHANGED <<status, attempt, cancelRequested, lease, expired, late, published,
                   enabled, callVars, workerVars, claimVars, requests, historyVars, faults>>

-----------------------------------------------------------------------------
(* Service.claim                                                           *)

(* reap, first statement; it waits for the rows other claims have locked.  *)
DueIfEnabled == {r \in Runs : status[r] = "queued" /\ late[r] /\ enabled}
Due == {r \in Runs : status[r] = "queued" /\ late[r]}

ReapQueued(w) ==
    /\ wpc[w] = "idle" /\ \A r \in Due : Unlocked(r)
    /\ status' = [r \in Runs |-> IF r \in Due THEN "timed_out" ELSE status[r]]
    /\ wpc' = [wpc EXCEPT ![w] = "reap_running"]
    /\ UNCHANGED <<attempt, cancelRequested, lease, expired, late, backoff, published,
                   enabled, callVars, wrun, wtoken, claimVars, requests, historyVars,
                   faults>>

(* What becomes of a run whose lease is reaped, and of one that fails.     *)
ReapIgnoresCancel(r) ==
    CASE attempt[r] < MaxAttempts /\ ~late[r] -> "queued"
      [] OTHER -> "timed_out"

AfterReap(r) ==
    CASE cancelRequested[r] -> "canceled"
      [] ~cancelRequested[r] /\ attempt[r] < MaxAttempts /\ ~late[r] -> "queued"
      [] OTHER -> "timed_out"

AfterFailure(r, retryable) ==
    CASE cancelRequested[r] -> "canceled"
      [] ~cancelRequested[r] /\ late[r] -> "timed_out"
      [] ~cancelRequested[r] /\ ~late[r] /\ retryable /\ attempt[r] < MaxAttempts -> "queued"
      [] OTHER -> "failed"

Reapable == {r \in Runs : status[r] = "running" /\ (expired[r] \/ late[r])}

(* reap, second statement.                                                 *)
ReapRunning(w) ==
    /\ wpc[w] = "reap_running"
    /\ status' = [r \in Runs |-> IF r \in Reapable THEN AfterReap(r) ELSE status[r]]
    /\ attempt' = [r \in Runs |-> IF r \in Reapable /\ AfterReap(r) = "queued"
                                  THEN attempt[r] + 1 ELSE attempt[r]]
    /\ lease' = [r \in Runs |-> IF r \in Reapable THEN 0 ELSE lease[r]]
    /\ expired' = [r \in Runs |-> expired[r] /\ r \notin Reapable]
    /\ backoff' = [r \in Runs |-> backoff[r] /\ r \notin Reapable]
    /\ wpc' = [wpc EXCEPT ![w] = "scan"]
    /\ UNCHANGED <<cancelRequested, late, published, enabled, callVars, wrun, wtoken,
                   claimVars, requests, historyVars, faults>>

(* SELECT ... FOR UPDATE SKIP LOCKED.  The order of the items, by          *)
(* next_attempt_at and created_at, is left open.                           *)
Claimable ==
    {r \in Runs : /\ status[r] = "queued" /\ ~backoff[r] /\ ~late[r]
                  /\ ~cancelRequested[r] /\ (enabled \/ r \in DryRuns) /\ Unlocked(r)}

(* The transaction ends: its row and advisory locks are released.          *)
Release(w) ==
    /\ rows' = [rows EXCEPT ![w] = {}]
    /\ candidates' = [candidates EXCEPT ![w] = {}]
    /\ keys' = [keys EXCEPT ![w] = {}]

NothingClaimed(w) ==
    /\ Release(w)
    /\ wpc' = [wpc EXCEPT ![w] = "idle"] /\ wrun' = [wrun EXCEPT ![w] = NoRun]

(* Go on with another item of S, or give up.                               *)
TryItem(w, S) ==
    /\ candidates' = [candidates EXCEPT ![w] = S]
    /\ wpc' = [wpc EXCEPT ![w] = "lock"]
    /\ \E r \in S : wrun' = [wrun EXCEPT ![w] = r]

ClaimScan(w) ==
    /\ wpc[w] = "scan"
    /\ IF Claimable = {} THEN NothingClaimed(w)
       ELSE /\ rows' = [rows EXCEPT ![w] = Claimable]
            /\ TryItem(w, Claimable) /\ UNCHANGED keys
    /\ UNCHANGED <<runVars, enabled, callVars, wtoken, requests, historyVars, faults>>

(* pg_advisory_xact_lock on agent and chat; held until the transaction     *)
(* ends, also for an item that is passed over.                             *)
NoKeyNeeded(w, k) == TRUE
KeyFree(w, k) == \A v \in Workers \ {w} : k \notin keys[v]

ClaimLock(w) ==
    /\ wpc[w] = "lock" /\ KeyFree(w, ChatOf[wrun[w]])
    /\ keys' = [keys EXCEPT ![w] = @ \cup {ChatOf[wrun[w]]}]
    /\ wpc' = [wpc EXCEPT ![w] = "count"]
    /\ UNCHANGED <<runVars, enabled, callVars, wrun, wtoken, rows, candidates, requests,
                   historyVars, faults>>

(* The database aborts the transaction: two claims wait for each other's   *)
(* advisory lock, or a statement fails.                                    *)
ClaimAborted(w) ==
    /\ wpc[w] = "lock"
    /\ NothingClaimed(w)
    /\ UNCHANGED <<runVars, enabled, callVars, wtoken, requests, historyVars, faults>>

RunningIn(k) == {r \in Runs : status[r] = "running" /\ ChatOf[r] = k}

ClaimCount(w) ==
    LET r == wrun[w]
        full == ChatOf[r] # NoChat /\ Cardinality(RunningIn(ChatOf[r])) >= ChatLimit
        rest == candidates[w] \ {r}
    IN
    /\ wpc[w] = "count"
    /\ \/ /\ ~full
          /\ wpc' = [wpc EXCEPT ![w] = "commit"]
          /\ UNCHANGED <<wrun, claimVars>>
       \/ full /\ rest # {} /\ TryItem(w, rest) /\ UNCHANGED <<rows, keys>>
       \/ full /\ rest = {} /\ NothingClaimed(w)
    /\ UNCHANGED <<runVars, enabled, callVars, wtoken, requests, historyVars, faults>>

ClaimCommit(w) ==
    LET r == wrun[w] IN
    /\ wpc[w] = "commit"
    /\ status' = [status EXCEPT ![r] = "running"]
    /\ lease' = [lease EXCEPT ![r] = tokens + 1]
    /\ expired' = [expired EXCEPT ![r] = FALSE]
    /\ tokens' = tokens + 1
    /\ claims' = [claims EXCEPT ![r] = @ + 1]
    /\ Release(w)
    /\ wtoken' = [wtoken EXCEPT ![w] = tokens + 1]
    /\ wpc' = [wpc EXCEPT ![w] = "work"]
    /\ UNCHANGED <<attempt, cancelRequested, late, backoff, published, enabled, callVars,
                   wrun, requests, messages, faults>>

-----------------------------------------------------------------------------
(* AgentRuntime.execute: the requests of a worker.  Each is authorized     *)
(* here, by RuntimeTarget, and carried out in the next section.            *)

RuntimeTarget(r, t) ==
    lease[r] = t /\ status[r] = "running" /\ ~expired[r] /\ ChatOf[r] # NoChat

Ask(w, kind, S) ==
    requests' = requests \cup
        {[kind |-> kind, run |-> wrun[w], token |-> wtoken[w], worker |-> w, calls |-> S]}

Become(w, pc) ==
    /\ wpc' = [wpc EXCEPT ![w] = pc]
    /\ wrun' = [wrun EXCEPT ![w] = IF pc = "idle" THEN NoRun ELSE @]
    /\ wtoken' = [wtoken EXCEPT ![w] = IF pc = "idle" THEN 0 ELSE @]

(* An authorized request waits at `next`; a refused one answers 409.       *)
Send(w, kind, S, next, refused) ==
    IF RuntimeTarget(wrun[w], wtoken[w])
    THEN Ask(w, kind, S) /\ Become(w, next)
    ELSE UNCHANGED requests /\ Become(w, refused)

(* A heartbeat that was authorized just before the lease expired; earlier  *)
(* ones change nothing.  A refused one, or one that reports a cancellation *)
(* aborts the run: that is WorkerError.                                    *)
Heartbeat(w) ==
    LET r == wrun[w] IN
    /\ wpc[w] \in Executing /\ lease[r] = wtoken[w] /\ status[r] = "running"
    /\ expired[r] /\ ChatOf[r] # NoChat
    /\ expired' = [expired EXCEPT ![r] = FALSE]
    /\ UNCHANGED <<status, attempt, cancelRequested, lease, late, backoff, published,
                   enabled, callVars, workerVars, claimVars, requests, historyVars, faults>>

FreshCall(c) == callStatus[c] = "none" /\ \A q \in requests : c \notin q.calls

SendStart(w) ==
    /\ wpc[w] = "work"
    /\ \E c \in Calls : FreshCall(c) /\ Send(w, "start", {c}, "calling", "failing")
    /\ UNCHANGED <<runVars, enabled, callVars, claimVars, historyVars, faults>>

SendPublish(w) ==
    /\ wpc[w] = "work"
    /\ IF wrun[w] \in DryRuns
       THEN UNCHANGED requests /\ Become(w, "failing")
       ELSE Send(w, "publish", {}, "publishing", "failing")
    /\ UNCHANGED <<runVars, enabled, callVars, claimVars, historyVars, faults>>

(* A sandbox run keeps its answer in the result summary.                   *)
Preview(w) ==
    /\ wpc[w] = "work"
    /\ Become(w, "published")
    /\ UNCHANGED <<runVars, enabled, callVars, claimVars, requests,
                   historyVars, faults>>

SendComplete(w) ==
    /\ wpc[w] = "published"
    /\ Send(w, "usage", {}, "completing", "failing")
    /\ UNCHANGED <<runVars, enabled, callVars, claimVars, historyVars, faults>>

(* The provider stream breaks or reports an error, a limit is reached, a   *)
(* heartbeat fails, the process is told to stop.  The gateway may still be *)
(* reading from the provider.                                              *)
WorkerError(w) ==
    /\ wpc[w] \in {"work", "calling"}
    /\ Become(w, "failing")
    /\ UNCHANGED <<runVars, enabled, callVars, claimVars, requests,
                   historyVars, faults>>

SendFail(w) ==
    /\ wpc[w] \in {"failing", "over_budget"}
    /\ Send(w, IF wpc[w] = "failing" THEN "fail" ELSE "fail_budget", {}, "reporting", "idle")
    /\ UNCHANGED <<runVars, enabled, callVars, claimVars, historyVars, faults>>

(* The worker's process dies and is started again.                         *)
WorkerDies(w) ==
    /\ wpc[w] \in Executing /\ Fault
    /\ Become(w, "idle")
    /\ UNCHANGED <<runVars, enabled, callVars, claimVars, requests, historyVars>>

-----------------------------------------------------------------------------
(* Core carries out an authorized request.                                 *)

Held(q) == lease[q.run] = q.token /\ status[q.run] = "running"

(* The answer to q, if its worker still waits for it.                      *)
Answer(q, next) ==
    /\ requests' = requests \ {q}
    /\ IF wpc[q.worker] = Awaits[q.kind] /\ wtoken[q.worker] = q.token
       THEN Become(q.worker, next) ELSE UNCHANGED workerVars

CallsOf(r) == {c \in Calls : callRun[c] = r}
Unfinished(r) == {c \in CallsOf(r) : callStatus[c] = "started"}

(* Amounts are sets of units, so that what is counted twice counts once.   *)
Reserved(S) == {<<c, 1>> : c \in {d \in S : callStatus[d] = "started"}}
Spent(S) == {u \in S \X (1..MaxCost) : u[2] <= cost[u[1]]}

(* What the budget query adds up: usage rows of calls and of whole runs,   *)
(* and the calls, started or completed, that no usage row accounts for.    *)
Unaccounted ==
    {c \in Calls : /\ callStatus[c] \in {"started", "completed"}
                   /\ c \notin usageRows /\ callRun[c] \notin summarized}
OnlyFinished == Spent(usageRows) \cup UNION {Spent(summary[r]) : r \in summarized}
Counted == OnlyFinished \cup Reserved(Unaccounted) \cup Spent(Unaccounted)

(* startProviderCall, under the advisory lock of the agent's budget.       *)
StartProviderCall(q) ==
    LET c == CHOOSE x \in q.calls : TRUE IN
    /\ q.kind = "start"
    /\ \/ ~Held(q) /\ Answer(q, "failing") /\ UNCHANGED callVars
       \/ Held(q) /\ Cardinality(Counted) + 1 > Budget /\ Answer(q, "over_budget")
          /\ UNCHANGED callVars
       \/ /\ Held(q) /\ Cardinality(Counted) + 1 <= Budget
          /\ callStatus' = [callStatus EXCEPT ![c] = "started"]
          /\ callRun' = [callRun EXCEPT ![c] = q.run]
          /\ callToken' = [callToken EXCEPT ![c] = q.token]
          /\ stream' = [stream EXCEPT ![c] = "open"]
          /\ requests' = requests \ {q}
          /\ UNCHANGED <<cost, usageRows, summary, summarized, workerVars>>
    /\ UNCHANGED <<runVars, enabled, claimVars, historyVars, faults>>

(* The worker reads on when the gateway has finished the call.             *)
StreamDone(c) ==
    /\ stream' = [stream EXCEPT ![c] = "ended"]
    /\ wpc' = [w \in Workers |-> IF wpc[w] = "calling" /\ wtoken[w] = callToken[c]
                                 THEN "work" ELSE wpc[w]]

(* The provider's stream ends; finishProviderCall first asks RuntimeTarget *)
(* and only logs a refusal.                                                *)
StreamEnds(c) ==
    /\ stream[c] = "open"
    /\ IF RuntimeTarget(callRun[c], callToken[c])
       THEN stream' = [stream EXCEPT ![c] = "closing"] /\ UNCHANGED wpc
       ELSE StreamDone(c)
    /\ UNCHANGED <<runVars, enabled, callStatus, callRun, callToken, cost, usageRows,
                   summary, summarized, wrun, wtoken, claimVars, requests, historyVars, faults>>

(* The gateway records the cost of the usage it observed, whatever was     *)
(* reserved, in a row of its own if there was any.  A call that the        *)
(* runtime reports has no row and costs its reservation if completed.      *)
Recordable(c) == /\ callStatus[c] = "started" /\ lease[callRun[c]] = callToken[c]
                 /\ status[callRun[c]] = "running"

FinishProviderCall(c) ==
    /\ stream[c] = "closing"
    /\ \/ ~Recordable(c) /\ UNCHANGED <<callStatus, cost, usageRows>>
       \/ \E outcome \in {"completed", "failed"}, k \in 0..MaxCost, row \in BOOLEAN :
            /\ Recordable(c) /\ (row \/ k = 0 \/ (k = 1 /\ outcome = "completed"))
            /\ callStatus' = [callStatus EXCEPT ![c] = outcome]
            /\ cost' = [cost EXCEPT ![c] = k]
            /\ usageRows' = IF row THEN usageRows \cup {c} ELSE usageRows
    /\ StreamDone(c)
    /\ UNCHANGED <<runVars, enabled, callRun, callToken, summary, summarized, wrun, wtoken,
                   claimVars, requests, historyVars, faults>>

(* CreateFinalForAgentRun: one transaction, which does not look at the     *)
(* lease again.  The message identifier is fresh for every execution.      *)
FinalUnchecked(q) == TRUE
FinalFree(q) == published[q.run] \in {0, q.token}

Publish(q) ==
    /\ q.kind = "publish" /\ Unlocked(q.run)
    /\ \/ /\ FinalFree(q)
          /\ published' = [published EXCEPT ![q.run] = q.token]
          /\ messages' = [messages EXCEPT ![q.run] = @ \cup {q.token}]
          /\ Answer(q, "published")
       \/ ~FinalFree(q) /\ Answer(q, "failing") /\ UNCHANGED <<published, messages>>
    /\ UNCHANGED <<status, attempt, cancelRequested, lease, expired, late, backoff,
                   enabled, callVars, claimVars, tokens, claims, faults>>

(* The agent has left the chat, or the message is not acceptable.          *)
PublishRejected(q) ==
    /\ q.kind = "publish"
    /\ Answer(q, "failing")
    /\ UNCHANGED <<runVars, enabled, callVars, claimVars, historyVars, faults>>

(* CompleteForAgent: the usage of the run is summed up, then completed.    *)
ProviderUsage(q) ==
    /\ q.kind = "usage"
    /\ IF Held(q) /\ Unfinished(q.run) = {}
       THEN /\ requests' = (requests \ {q}) \cup {[q EXCEPT !.kind = "complete",
                  !.calls = {c \in CallsOf(q.run) : callStatus[c] = "completed"}]}
            /\ UNCHANGED workerVars
       ELSE Answer(q, "failing")
    /\ UNCHANGED <<runVars, enabled, callVars, claimVars, historyVars, faults>>

Complete(q) ==
    LET r == q.run
        summed == ~cancelRequested[r] /\ CallsOf(r) \cap usageRows = {}
    IN
    /\ q.kind = "complete"
    /\ \/ /\ Held(q)
          /\ status' = [status EXCEPT ![r] = IF cancelRequested[r] THEN "canceled"
                                             ELSE "completed"]
          /\ lease' = [lease EXCEPT ![r] = 0] /\ expired' = [expired EXCEPT ![r] = FALSE]
          /\ summarized' = IF summed THEN summarized \cup {r} ELSE summarized
          /\ summary' = [summary EXCEPT ![r] = IF summed THEN q.calls ELSE @]
          /\ Answer(q, "idle")
       \/ /\ ~Held(q) /\ Answer(q, "failing")
          /\ UNCHANGED <<status, lease, expired, summarized, summary>>
    /\ UNCHANGED <<attempt, cancelRequested, late, backoff, published, enabled, callStatus,
                   callRun, callToken, cost, usageRows, stream, claimVars, historyVars,
                   faults>>

Fail(q) ==
    LET r == q.run
        after == AfterFailure(r, q.kind = "fail")
        again == after = "queued"
    IN
    /\ q.kind \in {"fail", "fail_budget"}
    /\ IF Held(q)
       THEN /\ status' = [status EXCEPT ![r] = after]
            /\ attempt' = [attempt EXCEPT ![r] = IF again THEN @ + 1 ELSE @]
            /\ backoff' = [backoff EXCEPT ![r] = again]
            /\ lease' = [lease EXCEPT ![r] = 0] /\ expired' = [expired EXCEPT ![r] = FALSE]
       ELSE UNCHANGED <<status, attempt, backoff, lease, expired>>
    /\ Answer(q, "idle")
    /\ UNCHANGED <<cancelRequested, late, published, enabled, callVars, claimVars,
                   historyVars, faults>>

(* Core restarts: requests and streams are gone, the claims roll back.  A  *)
(* claim loop ends for good when its report of a failure gets no answer.   *)
CoreCrash ==
    /\ Fault
    /\ requests' = {}
    /\ stream' = [c \in Calls |-> IF stream[c] \in {"open", "closing"} THEN "lost" ELSE stream[c]]
    /\ rows' = [w \in Workers |-> {}] /\ candidates' = [w \in Workers |-> {}]
    /\ keys' = [w \in Workers |-> {}]
    /\ wpc' = [w \in Workers |->
                 CASE wpc[w] \in ClaimSteps -> "idle"
                   [] wpc[w] \in Waiting \ {"reporting"} -> "failing"
                   [] wpc[w] = "reporting" -> "stopped"
                   [] OTHER -> wpc[w]]
    /\ wrun' = [w \in Workers |-> IF wpc[w] \in ClaimSteps THEN NoRun ELSE wrun[w]]
    /\ UNCHANGED <<runVars, enabled, callStatus, callRun, callToken, cost, usageRows,
                   summary, summarized, wtoken, historyVars>>

-----------------------------------------------------------------------------
Claim(w) ==
    \/ ReapQueued(w) \/ ReapRunning(w) \/ ClaimScan(w)
    \/ ClaimLock(w) \/ ClaimAborted(w) \/ ClaimCount(w) \/ ClaimCommit(w)

Execute(w) ==
    \/ SendStart(w) \/ SendPublish(w) \/ Preview(w) \/ SendComplete(w)
    \/ WorkerError(w) \/ SendFail(w)

Serve(q) ==
    \/ StartProviderCall(q) \/ Publish(q) \/ PublishRejected(q)
    \/ ProviderUsage(q) \/ Complete(q) \/ Fail(q)

Gateway(c) == StreamEnds(c) \/ FinishProviderCall(c)

Next ==
    \/ \E r \in Runs : \/ Invoke(r) \/ RequestCancel(r) \/ LeaseExpires(r)
                       \/ Deadline(r) \/ BackoffOver(r)
    \/ SetEnabled
    \/ \E w \in Workers : Claim(w) \/ Execute(w) \/ Heartbeat(w) \/ WorkerDies(w)
    \/ \E q \in requests : Serve(q)
    \/ \E c \in Calls : Gateway(c)
    \/ CoreCrash

Spec == Init /\ [][Next]_vars

(***************************************************************************)
(* Fairness: the claim loops and what they execute keep running, Core      *)
(* answers the requests it has authorized, streams end, and time passes.   *)
(***************************************************************************)
Fairness ==
    /\ \A r \in Runs : WF_vars(Deadline(r))
    /\ \A w \in Workers :
        /\ WF_vars(ReapQueued(w)) /\ WF_vars(ReapRunning(w))
        /\ WF_vars(ClaimScan(w)) /\ WF_vars(ClaimLock(w) \/ ClaimAborted(w))
        /\ WF_vars(ClaimCount(w)) /\ WF_vars(ClaimCommit(w)) /\ WF_vars(Execute(w))
        /\ WF_vars(\E q \in requests : q.worker = w /\ Serve(q))
    /\ \A c \in Calls : WF_vars(Gateway(c))

FairSpec == Spec /\ Fairness

-----------------------------------------------------------------------------
(* No chat ever has more than per_chat_concurrency runs of the agent       *)
(* executing, however many claim loops compete for its queue.              *)
ChatLimitHeld == \A k \in Chats : Cardinality(RunningIn(k)) <= ChatLimit

(* A cancellation is final: a run that was asked to stop is still running  *)
(* or is canceled.  It is never queued again, completed, failed or timed   *)
(* out, whoever ends it and whatever raced with the request.               *)
CancelSticks == \A r \in Runs : cancelRequested[r] => status[r] \in {"running", "canceled"}

(* A run is executed at most max_attempts times, lost leases included, and *)
(* its attempt counter says how often.                                     *)
AttemptsCount ==
    \A r \in Runs : /\ attempt[r] <= MaxAttempts
                    /\ claims[r] <= attempt[r]
                    /\ status[r] = "queued" => claims[r] < attempt[r]

(* A run has at most one final message, whatever attempts published it.    *)
OneFinalMessage == \A r \in Runs : Cardinality(messages[r]) <= 1

(* What is spent or reserved, whatever rows of the database say so.        *)
Exposed == Reserved(Calls) \cup Spent(Calls)

(* No call is admitted unless all that the agent's calls have cost or have *)
(* reserved, this one included, is within the budget: concurrent runs do   *)
(* not get past the gate together, and no usage row hides a call that it   *)
(* does not account for.  (Later a call may cost more than it reserved.)   *)
BudgetHeld ==
    [][(\E c \in Calls : callStatus[c] = "none" /\ callStatus'[c] = "started")
          => Cardinality(Exposed') <= Budget]_vars

(* What goes past the budget is only what calls cost above what they had   *)
(* reserved.                                                               *)
Overrun == {u \in Exposed : u[2] > 1}
OnlyOverrun == Cardinality(Exposed \ Overrun) <= Budget

-----------------------------------------------------------------------------
(* Between a claim's scan and its commit the runs it tries stay queued:    *)
(* no other transaction changes a row it has locked.                       *)
RowsHeld ==
    /\ \A w \in Workers : rows[w] # {} => wpc[w] \in {"lock", "count", "commit"}
    /\ \A w \in Workers : \A r \in rows[w] : status[r] = "queued"
    /\ \A v, w \in Workers : v # w => rows[v] \cap rows[w] = {}
    /\ \A w \in Workers : wpc[w] \in {"lock", "count", "commit"} =>
          wrun[w] \in candidates[w] /\ candidates[w] \subseteq rows[w]

(* The count of a chat's running runs that a claim has read is still an    *)
(* upper bound when it commits: only the holder of the chat's advisory     *)
(* lock adds one.                                                          *)
KeysHeld ==
    /\ \A v, w \in Workers : v # w => keys[v] \cap keys[w] = {}
    /\ \A w \in Workers : wpc[w] \in {"count", "commit"} => ChatOf[wrun[w]] \in keys[w]
    /\ \A w \in Workers : wpc[w] = "commit" /\ ChatOf[wrun[w]] # NoChat =>
          Cardinality(RunningIn(ChatOf[wrun[w]])) < ChatLimit

WorkersLeased == \A w \in Workers : wpc[w] \in Executing => wrun[w] \in Runs /\ wtoken[w] # 0

NotClaimedYet == \A r \in Runs : status[r] = "none" => claims[r] = 0

(* What is executed, or asked for by a worker, was claimed.                *)
ExecutedIsClaimed ==
    /\ \A w \in Workers : wpc[w] \in Executing => claims[wrun[w]] > 0
    /\ \A q \in requests : claims[q.run] > 0

MessageRecorded == \A r \in Runs : messages[r] = {published[r]} \ {0}

(* What the claim transactions, the reaper, the workers and the requests   *)
(* in flight keep between them: the inductive invariant of the queue.      *)
QueueInv ==
    /\ TypeOK /\ RowsHeld /\ KeysHeld /\ WorkersLeased /\ NotClaimedYet /\ MessageRecorded
    /\ ChatLimitHeld /\ CancelSticks /\ AttemptsCount /\ ExecutedIsClaimed

-----------------------------------------------------------------------------
(* What the tables say of a call: it costs nothing before it is finished,  *)
(* and a cost without a row of its own is that of a completed call.        *)
CallsRecorded ==
    \A c \in Calls :
        /\ callStatus[c] \in {"none", "started"} => cost[c] = 0 /\ c \notin usageRows
        /\ callStatus[c] # "none" => callRun[c] \in Runs
        /\ cost[c] > 0 => c \in usageRows \/ callStatus[c] = "completed"

(* A usage row of a whole run accounts for every call of that run.         *)
EndedRuns ==
    \A r \in summarized :
        /\ status[r] \in Final
        /\ \A c \in CallsOf(r) : callStatus[c] # "started" /\ (cost[c] > 0 => c \in summary[r])

(* While a completion is under way and its lease stands, the calls it was  *)
(* shown are still all the completed calls of the run.                     *)
CompletesAll ==
    \A q \in requests : q.kind = "complete" /\ Held(q) =>
        \A c \in CallsOf(q.run) :
            callStatus[c] # "started" /\ (callStatus[c] = "completed" => c \in q.calls)

(* Every lease token is of one claim, and what carries it was asked for by *)
(* the worker that claimed it.                                             *)
TokensIssued ==
    /\ \A q \in requests : q.token <= tokens
    /\ \A w \in Workers : wtoken[w] <= tokens
    /\ \A c \in Calls : callToken[c] <= tokens
    /\ \A v, w \in Workers : v # w /\ wtoken[v] = wtoken[w] => wtoken[v] = 0
    /\ \A w \in Workers, q \in requests : wtoken[w] = q.token => q.worker = w

(* An execution has one provider call at a time, and none any more when it *)
(* asks for the usage of its run.                                          *)
Streaming(c) == stream[c] \in {"open", "closing"}
Starts(q) == q.kind = "start"
Completes(q) == q.kind \in {"usage", "complete"}

OneCall ==
    /\ \A q \in requests : Starts(q) => \E c \in Calls : q.calls = {c} /\ callStatus[c] = "none"
    /\ \A p, q \in requests : Starts(p) /\ Starts(q) /\ p # q =>
          p.calls # q.calls /\ p.token # q.token
    /\ \A p, q \in requests : Completes(q) /\ (Starts(p) \/ (Completes(p) /\ p # q)) =>
          p.token # q.token
    /\ \A q \in requests, c \in Calls : Starts(q) /\ Streaming(c) => q.token # callToken[c]
    /\ \A c, d \in Calls : Streaming(c) /\ Streaming(d) /\ c # d => callToken[c] # callToken[d]

BetweenCalls ==
    \A w \in Workers :
        /\ wpc[w] \in {"work", "publishing", "published", "completing"} =>
             /\ \A q \in requests : Starts(q) => q.token # wtoken[w]
             /\ \A c \in Calls : Streaming(c) => callToken[c] # wtoken[w]
        /\ \A q \in requests : Completes(q) /\ wtoken[w] = q.token => wpc[w] = "completing"

(* Why the budget holds: nothing that costs escapes the sum of the gate,   *)
(* because no call starts behind the back of a completion.                 *)
BudgetInv ==
    /\ CallsRecorded /\ EndedRuns /\ CompletesAll /\ TokensIssued /\ OneCall
    /\ BetweenCalls /\ OnlyOverrun

(* An ended run stays ended and keeps its message.                         *)
EndIsFinal ==
    [][\A r \in Runs : /\ status[r] \in Final => status'[r] = status[r]
                       /\ published[r] # 0 => published'[r] = published[r]]_vars

(* The claim transactions, leases and workers implement the queue of       *)
(* RunQueue: to everybody else a claim is atomic, whatever it races with.  *)
Queue == INSTANCE RunQueue WITH state <- status, canceled <- cancelRequested,
                                executions <- claims, answer <- published

QueueKept == Queue!Spec

(* Every run ends, also when its lease lapses, its requests are refused or *)
(* the agent is disabled while it waits.                                   *)
EveryRunEnds == \A r \in Runs : status[r] = "queued" ~> status[r] \in Final

(* The completion of a run whose lease is held and that nobody canceled is *)
(* not answered with a conflict.                                           *)
ConflictMeansLost ==
    \A q \in requests : q.kind = "usage" /\ Held(q) /\ ~cancelRequested[q.run]
        => Unfinished(q.run) = {}

=============================================================================

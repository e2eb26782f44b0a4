----------------------------- MODULE MCProgress -----------------------------
(***************************************************************************)
(* What must happen in the end, of the runs of an agent and of the parts   *)
(* of MCParts, in one run: as there, only the chosen part moves.           *)
(***************************************************************************)
EXTENDS MCParts, AgentRun

CONSTANT c1

partVars == <<outboxVars, sessionVars, autosaveVars,
              notificationVars, confirmationVars, fileVars, triggerVars>>
progressVars == <<allVars, vars>>

(* Every run is one of the same chat.                                      *)
OneChat == [r \in Runs |-> c1]

ProgressInit ==
    /\ part \in {"outbox", "session", "autosave", "notifications", "confirmations",
               "files", "triggers", "run"}
    /\ OutboxInit /\ SessionInit /\ AutosaveInit /\ NotificationsInit
    /\ ConfirmationsInit /\ FilesInit /\ TriggersInit /\ Init
    /\ part # "triggers" => live = Alive

(* Bounds on what Session does not drive itself: one tab sends requests and*)
(* signs out, the other one refreshes for its socket; and the access token *)
(* of the last session does not lapse, as no rotation could follow.        *)
Caller == CHOOSE t \in Pages : TRUE
Bounded ==
    /\ \A t \in Pages : t # Caller => request'[t] = "none"
    /\ MaxSession \notin lapsed'

RunPart == part = "run" /\ Next /\ UNCHANGED <<part, partVars>>
OtherPart == PartsNext /\ (part = "session" => Bounded) /\ UNCHANGED vars

(* Fairness of AgentRun, of a run that is the chosen part: its claim loop  *)
(* would go round for ever.  In the first state of every other part        *)
(* nothing is enabled that its fairness is about.                          *)
RunFairness ==
    /\ \A r \in Runs : WF_vars(part = "run" /\ Deadline(r))
    /\ \A w \in Workers :
        /\ WF_vars(part = "run" /\ ReapQueued(w))
        /\ WF_vars(part = "run" /\ ReapRunning(w))
        /\ WF_vars(part = "run" /\ ClaimScan(w))
        /\ WF_vars(part = "run" /\ (ClaimLock(w) \/ ClaimAborted(w)))
        /\ WF_vars(part = "run" /\ ClaimCount(w))
        /\ WF_vars(part = "run" /\ ClaimCommit(w))
        /\ WF_vars(part = "run" /\ Execute(w))
        /\ WF_vars(part = "run" /\ \E q \in requests : q.worker = w /\ Serve(q))

(* Fairness of Session and of Notifications, as they have it; the guards   *)
(* spare TLC the question what of them is enabled in all other states.     *)
RefreshFairness ==
    \A t \in Pages :
        /\ \A s \in Pages : WF_sessionVars(part = "session" /\ BroadcastArrives(s, t))
        /\ WF_sessionVars(part = "session" /\ (LockGranted(t) \/ UseShared(t) \/ AskServer(t)))
        /\ WF_sessionVars(part = "session" /\ (Rotate(t) \/ RotateReused(t) \/ NoCookie(t)))
        /\ WF_sessionVars(part = "session" /\ (Refreshed(t) \/ Denied(t)))
        /\ WF_sessionVars(part = "session" /\ (RequestEnds(t) \/ Unauthorized(t) \/ LoggedOut(t)))
        /\ WF_sessionVars(part = "session" /\ (SocketClosed(t) \/ Connect(t)))

DeliveryFairness ==
    /\ \A d \in Deliveries :
         /\ WF_notificationVars(part = "notifications" /\ holder[d] = Nobody /\ Lapse(d))
         /\ WF_notificationVars(part = "notifications" /\
              \E w \in Senders, kind \in {Subscriptions, Digests} :
                \E taken \in SUBSET {o \in Events \X kind : Leasable(o)} :
                  d \in taken /\ Take(w, taken))
    /\ \A e \in Events :
         WF_notificationVars(part = "notifications" /\
           \E w \in Senders, taken \in SUBSET jobs : e \in taken /\ Materialize(w, taken))
    /\ \A w \in Senders :
         /\ WF_notificationVars(part = "notifications" /\ \E d \in Deliveries : SendNext(w, d))
         /\ WF_notificationVars(part = "notifications" /\ Answered(w, "ok"))
         /\ WF_notificationVars(part = "notifications" /\
              (RecordSent(w) \/ RecordGone(w) \/ RecordFailure(w)))

(* Fairness of Triggers, likewise: its rounds would go round for ever.  For *)
(* one agent the weak fairness of the rounds is enough.                     *)
RoundFairness ==
    \A d \in Dispatchers :
        WF_round(part = "triggers" /\ (DispatchEvents(d) \/ DispatchSchedules(d)))

ProgressSpec ==
    /\ ProgressInit /\ [][RunPart \/ OtherPart]_progressVars
    /\ OutboxFairness /\ RefreshFairness /\ AutosaveFairness
    /\ DeliveryFairness /\ ConfirmationsFairness /\ FilesFairness
    /\ RoundFairness /\ RunFairness
=============================================================================

--------------------------- MODULE Notifications ---------------------------
(***************************************************************************)
(* Web push and the e-mail digest: the jobs that are committed with the    *)
(* events, the deliveries they are materialized to, and the workers of the *)
(* replicas that lease and send them.                                      *)
(*                                                                         *)
(* A delivery is a pair of an event and a target: a push subscription, or  *)
(* the digest of a user.  A push is sent alone; the items of a digest that *)
(* a worker leased together go in one letter.  A lease of 30 seconds is a  *)
(* token, which is the worker as long as the worker has the batch.         *)
(***************************************************************************)
EXTENDS Naturals, FiniteSets

CONSTANTS
    Events,
    Subscriptions, Digests,  \* the targets
    Senders, Nobody,
    MaxTroubles  \* bound on lapses, crashes, lost answers, failed updates

ASSUME NotificationsAssumption ==
    /\ Nobody \notin Senders /\ MaxTroubles \in Nat
    /\ Subscriptions \cap Digests = {}

Targets == Subscriptions \cup Digests
Deliveries == Events \X Targets

VARIABLES
    posted,   \* events that are committed
    jobs,     \* notification_jobs
    wanting,  \* targets whose membership and preferences ask for events
    gone,     \* subscriptions that are deleted
    row,      \* "absent", "due", "sent"
    sendLease, \* "free", "held", "lapsed"
    holder,   \* the worker the token stands for
    batch,    \* what a worker has still to send
    screened, \* a digest's batch was checked for active readers
    sending,  \* the deliveries of the request or letter under way
    outcome,  \* "none", "ok", "gone", "failed"
    pushes,   \* history: how often a delivery went out
    dropped,  \* history: deliveries that were ended unsent on purpose
    troubles

tableVars == <<row, sendLease, holder>>
batchVars == <<batch, screened, sending, outcome>>
wentVars == <<pushes, dropped>>
notificationVars == <<posted, jobs, wanting, gone, tableVars, batchVars, wentVars,
                      troubles>>

NotificationsTypeOK ==
    /\ posted \subseteq Events /\ jobs \subseteq posted
    /\ wanting \subseteq Targets /\ gone \subseteq Subscriptions
    /\ row \in [Deliveries -> {"absent", "due", "sent"}]
    /\ sendLease \in [Deliveries -> {"free", "held", "lapsed"}]
    /\ holder \in [Deliveries -> Senders \cup {Nobody}]
    /\ batch \in [Senders -> SUBSET Deliveries]
    /\ screened \in [Senders -> BOOLEAN]
    /\ sending \in [Senders -> SUBSET Deliveries]
    /\ outcome \in [Senders -> {"none", "ok", "gone", "failed"}]
    /\ pushes \in [Deliveries -> Nat]
    /\ dropped \subseteq Deliveries
    /\ troubles \in 0..MaxTroubles

NotificationsInit ==
    /\ posted = {} /\ jobs = {} /\ wanting = Targets /\ gone = {}
    /\ row = [d \in Deliveries |-> "absent"]
    /\ sendLease = [d \in Deliveries |-> "free"]
    /\ holder = [d \in Deliveries |-> Nobody]
    /\ batch = [w \in Senders |-> {}] /\ screened = [w \in Senders |-> FALSE]
    /\ sending = [w \in Senders |-> {}] /\ outcome = [w \in Senders |-> "none"]
    /\ pushes = [d \in Deliveries |-> 0] /\ dropped = {}
    /\ troubles = 0

Trouble == troubles < MaxTroubles /\ troubles' = troubles + 1

Idle(w) == batch[w] = {} /\ sending[w] = {}
Mark(f, S, v) == [d \in Deliveries |-> IF d \in S THEN v ELSE f[d]]

-----------------------------------------------------------------------------
(* A message, a reaction or a change of members is committed together with *)
(* its job.                                                                *)
Post(e) ==
    /\ e \notin posted
    /\ posted' = posted \cup {e} /\ jobs' = jobs \cup {e}
    /\ UNCHANGED <<wanting, gone, tableVars, batchVars, wentVars, troubles>>

(* A membership, a mute or a preference changes.                           *)
PolicyChanges(t) ==
    /\ wanting' = IF t \in wanting THEN wanting \ {t} ELSE wanting \cup {t}
    /\ UNCHANGED <<posted, jobs, gone, tableVars, batchVars, wentVars, troubles>>

(* A subscription takes its deliveries along.                              *)
DeleteSubscription(t) ==
    LET of == {d \in Deliveries : d[2] = t} IN
    /\ gone' = gone \cup {t}
    /\ row' = Mark(row, of, "absent")
    /\ sendLease' = Mark(sendLease, of, "free")
    /\ holder' = Mark(holder, of, Nobody)

Unsubscribe(t) ==
    /\ t \notin gone
    /\ DeleteSubscription(t)
    /\ UNCHANGED <<posted, jobs, wanting, batchVars, wentVars, troubles>>

(* materialize: one transaction turns jobs into deliveries.  A job another *)
(* worker has locked is skipped.                                           *)
Materialize(w, taken) ==
    /\ Idle(w) /\ taken # {}
    /\ jobs' = jobs \ taken
    /\ row' = Mark(row, {d \in taken \X (wanting \ gone) : row[d] = "absent"}, "due")
    /\ UNCHANGED <<posted, wanting, gone, sendLease, holder, batchVars, wentVars, troubles>>

(* deliver and deliverDigests lease what is due and not leased, and read   *)
(* it; the backoff of available_at leaves out some of it.                  *)
DueAtAll(d) == row[d] = "due"
Leasable(d) == row[d] = "due" /\ sendLease[d] # "held"

Take(w, taken) ==
    /\ Idle(w) /\ taken # {}
    /\ sendLease' = Mark(sendLease, taken, "held")
    /\ holder' = Mark(holder, taken, w)
    /\ batch' = [batch EXCEPT ![w] = taken]
    /\ screened' = [screened EXCEPT ![w] = FALSE]
    /\ UNCHANGED <<posted, jobs, wanting, gone, row, sending, outcome, wentVars, troubles>>

(* The deliveries of S whose token is still the worker's end.              *)
Owned(w, S) == {d \in S : holder[d] = w}

End(w, S) ==
    /\ row' = Mark(row, Owned(w, S), "sent")
    /\ sendLease' = Mark(sendLease, Owned(w, S), "free")
    /\ holder' = Mark(holder, Owned(w, S), Nobody)

(* The recipient has the chat open.  The items of the digests are looked   *)
(* at before the first letter.                                             *)
Suppress(w, d) ==
    /\ d \in batch[w] /\ sending[w] = {} /\ ~screened[w]
    /\ End(w, {d})
    /\ dropped' = dropped \cup {d}
    /\ batch' = [batch EXCEPT ![w] = @ \ {d}]
    /\ UNCHANGED <<posted, jobs, wanting, gone, screened, sending, outcome, pushes, troubles>>

(* The next push, or the next letter with all items of its recipient, is   *)
(* sent.  A failure may be one of the answer only.                         *)
Group(w, d) == IF d[2] \in Digests THEN {x \in batch[w] : x[2] = d[2]} ELSE {d}

SendNext(w, d) ==
    /\ d \in batch[w] /\ sending[w] = {}
    /\ screened' = [screened EXCEPT ![w] = d[2] \in Digests]
    /\ sending' = [sending EXCEPT ![w] = Group(w, d)]
    /\ batch' = [batch EXCEPT ![w] = @ \ Group(w, d)]
    /\ UNCHANGED <<posted, jobs, wanting, gone, tableVars, outcome, wentVars, troubles>>

(* No mail server is set up: the letter is not sent later either.          *)
NoMail(w, d) ==
    /\ d \in batch[w] /\ sending[w] = {} /\ d[2] \in Digests
    /\ End(w, Group(w, d))
    /\ dropped' = dropped \cup Group(w, d)
    /\ screened' = [screened EXCEPT ![w] = TRUE]
    /\ batch' = [batch EXCEPT ![w] = @ \ Group(w, d)]
    /\ UNCHANGED <<posted, jobs, wanting, gone, sending, outcome, pushes, troubles>>

Went(S) == pushes' = [d \in Deliveries |-> IF d \in S THEN pushes[d] + 1 ELSE pushes[d]]

Answered(w, result) ==
    /\ sending[w] # {} /\ outcome[w] = "none"
    /\ CASE result = "ok" -> Went(sending[w]) /\ UNCHANGED troubles
         [] result = "gone" -> sending[w] \subseteq Events \X Subscriptions
                               /\ UNCHANGED <<pushes, troubles>>
         [] result = "failed" -> Trouble /\ (Went(sending[w]) \/ UNCHANGED pushes)
    /\ outcome' = [outcome EXCEPT ![w] = result]
    /\ UNCHANGED <<posted, jobs, wanting, gone, tableVars, batch, screened, sending, dropped>>

(* What came of it is recorded where the token still stands; a dead        *)
(* subscription is deleted in any case.                                    *)
Forget(w) ==
    /\ sending' = [sending EXCEPT ![w] = {}]
    /\ outcome' = [outcome EXCEPT ![w] = "none"]

RecordBatchSent(w) ==
    /\ outcome[w] = "ok"
    /\ End(w, sending[w] \cup batch[w])
    /\ Forget(w)
    /\ UNCHANGED <<posted, jobs, wanting, gone, batch, screened, wentVars, troubles>>

RecordSent(w) ==
    /\ outcome[w] = "ok"
    /\ End(w, sending[w])
    /\ Forget(w)
    /\ UNCHANGED <<posted, jobs, wanting, gone, batch, screened, wentVars, troubles>>

RecordGone(w) ==
    /\ outcome[w] = "gone"
    /\ \E d \in sending[w] : DeleteSubscription(d[2])
    /\ Forget(w)
    /\ UNCHANGED <<posted, jobs, wanting, batch, screened, wentVars, troubles>>

FailureKeepsLease(w) ==
    /\ outcome[w] = "failed"
    /\ Forget(w)
    /\ UNCHANGED <<posted, jobs, wanting, gone, tableVars, batch, screened, wentVars,
                   troubles>>

RecordFailure(w) ==
    /\ outcome[w] = "failed"
    /\ sendLease' = Mark(sendLease, Owned(w, sending[w]), "free")
    /\ holder' = Mark(holder, Owned(w, sending[w]), Nobody)
    /\ Forget(w)
    /\ UNCHANGED <<posted, jobs, wanting, gone, row, batch, screened, wentVars, troubles>>

(* The update fails; its error is dropped and the token stays.             *)
RecordLost(w) ==
    /\ outcome[w] # "none" /\ Trouble
    /\ holder' = Mark(holder, Owned(w, sending[w]), Nobody)
    /\ Forget(w)
    /\ UNCHANGED <<posted, jobs, wanting, gone, row, sendLease, batch, screened, wentVars>>

(* Thirty seconds are over: that of a batch may take longer.               *)
Lapse(d) ==
    /\ sendLease[d] = "held"
    /\ IF holder[d] = Nobody THEN UNCHANGED troubles ELSE Trouble
    /\ sendLease' = [sendLease EXCEPT ![d] = "lapsed"]
    /\ UNCHANGED <<posted, jobs, wanting, gone, row, holder, batchVars, wentVars>>

(* The worker dies, or the reading of its batch fails.                     *)
Crash(w) ==
    /\ ~Idle(w) /\ Trouble
    /\ holder' = [d \in Deliveries |-> IF holder[d] = w THEN Nobody ELSE holder[d]]
    /\ batch' = [batch EXCEPT ![w] = {}]
    /\ Forget(w)
    /\ UNCHANGED <<posted, jobs, wanting, gone, row, sendLease, screened, wentVars>>

-----------------------------------------------------------------------------
NotificationsNext ==
    \/ \E e \in Events : Post(e)
    \/ \E t \in Targets : PolicyChanges(t)
    \/ \E t \in Subscriptions : Unsubscribe(t)
    \/ \E d \in Deliveries : Lapse(d)
    \/ \E w \in Senders :
         \/ \E taken \in SUBSET jobs : Materialize(w, taken)
         \/ \E kind \in {Subscriptions, Digests} :
              \E taken \in SUBSET {d \in Events \X kind : Leasable(d)} : Take(w, taken)
         \/ \E d \in Deliveries : Suppress(w, d) \/ SendNext(w, d) \/ NoMail(w, d)
         \/ \E result \in {"ok", "gone", "failed"} : Answered(w, result)
         \/ RecordSent(w) \/ RecordGone(w) \/ RecordFailure(w) \/ RecordLost(w)
         \/ Crash(w)

NotificationsSpec == NotificationsInit /\ [][NotificationsNext]_notificationVars

(* Workers tick and pass nothing over; providers answer.                   *)
NotificationsFairness ==
    /\ \A d \in Deliveries : WF_notificationVars(holder[d] = Nobody /\ Lapse(d))
    /\ \A e \in Events :
         WF_notificationVars(\E w \in Senders, taken \in SUBSET jobs :
                               e \in taken /\ Materialize(w, taken))
    /\ \A d \in Deliveries :
         WF_notificationVars(\E w \in Senders, kind \in {Subscriptions, Digests} :
             \E taken \in SUBSET {x \in Events \X kind : Leasable(x)} :
               d \in taken /\ Take(w, taken))
    /\ \A w \in Senders :
         /\ WF_notificationVars(\E d \in Deliveries : SendNext(w, d))
         /\ WF_notificationVars(Answered(w, "ok"))
         /\ WF_notificationVars(RecordSent(w) \/ RecordGone(w) \/ RecordFailure(w))

NotificationsFairSpec == NotificationsSpec /\ NotificationsFairness

-----------------------------------------------------------------------------
(* A delivery goes out again only after something went wrong: a lease that *)
(* lapsed, a crash, an answer or an update that was lost.                  *)
RepeatsExplained == \A d \in Deliveries : pushes[d] <= 1 + troubles

(* What is marked as sent was sent, or held back on purpose: also an item  *)
(* of a digest that is marked together with the others.                    *)
SentWentOut == \A d \in Deliveries : row[d] = "sent" => pushes[d] > 0 \/ d \in dropped

(* Every delivery ends, whatever crashed or lapsed on the way.             *)
EveryDeliveryEnds == \A d \in Deliveries : (row[d] = "due") ~> (row[d] # "due")

=============================================================================

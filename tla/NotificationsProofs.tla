------------------------- MODULE NotificationsProofs -------------------------
(***************************************************************************)
(* What is marked as sent went out, and nothing goes out again for no      *)
(* reason, for any number of events, targets and workers.                  *)
(***************************************************************************)
EXTENDS Notifications, FiniteSetTheorems, TLAPS

(* A worker that waits for an answer has something under way, which is not *)
(* what it still has to send; a delivery exists only once its job is done, *)
(* and a token stands only for one that is due.                            *)
Tidy ==
    /\ \A w \in Senders :
         /\ sending[w] = {} => outcome[w] = "none"
         /\ batch[w] \cap sending[w] = {}
         /\ outcome[w] = "gone" => sending[w] \subseteq Events \X Subscriptions
    /\ \A d \in Deliveries :
         /\ row[d] # "absent" => d[1] \in posted /\ d[1] \notin jobs
         /\ holder[d] # Nobody => row[d] = "due"

(* What a worker is about to mark as sent has gone out.                    *)
OkWentOut ==
    \A w \in Senders : outcome[w] = "ok" => \A d \in sending[w] : pushes[d] > 0

SentInv == NotificationsTypeOK /\ Tidy /\ OkWentOut /\ SentWentOut

-----------------------------------------------------------------------------
(* Initially nothing is posted.                                            *)
LEMMA SentInvInit == NotificationsInit => SentInv
  <1> SUFFICES ASSUME NotificationsInit PROVE SentInv  OBVIOUS
  <1>1. NotificationsTypeOK
    BY NotificationsAssumption DEF NotificationsInit, NotificationsTypeOK
  <1>2. Tidy /\ OkWentOut /\ SentWentOut
    BY DEF NotificationsInit, Tidy, OkWentOut, SentWentOut
  <1> QED  BY <1>1, <1>2 DEF SentInv

(* A worker takes deliveries that are due and not leased.                  *)
Leased(w, taken) == Take(w, taken) /\ \A d \in taken : Leasable(d)

(* The steps, one by one.                                                  *)
LEMMA NextCases ==
  ASSUME NotificationsTypeOK, NotificationsNext
  PROVE  \/ \E e \in Events : Post(e)
         \/ \E t \in Targets : PolicyChanges(t)
         \/ \E t \in Subscriptions : Unsubscribe(t)
         \/ \E d \in Deliveries : Lapse(d)
         \/ \E w \in Senders :
              \/ \E taken \in SUBSET jobs : Materialize(w, taken)
              \/ \E taken \in SUBSET Deliveries : Leased(w, taken)
              \/ \E d \in Deliveries : Suppress(w, d) \/ SendNext(w, d) \/ NoMail(w, d)
              \/ Answered(w, "ok") \/ Answered(w, "gone") \/ Answered(w, "failed")
              \/ RecordSent(w) \/ RecordGone(w) \/ RecordFailure(w) \/ RecordLost(w)
              \/ Crash(w)
  <1>1. ASSUME NEW w \in Senders, NEW kind \in {Subscriptions, Digests},
               NEW taken \in SUBSET {d \in Events \X kind : Leasable(d)}, Take(w, taken)
        PROVE  taken \in SUBSET Deliveries /\ Leased(w, taken)
    BY <1>1 DEF Leased, Deliveries, Targets
  <1> QED  BY <1>1 DEF NotificationsNext

(* Every variable keeps its type.                                          *)
LEMMA TypeStep ==
    ASSUME NotificationsTypeOK, Tidy, NotificationsNext PROVE NotificationsTypeOK'
  <1> USE NotificationsAssumption DEF NotificationsTypeOK, tableVars, batchVars, wentVars
  <1>1. ASSUME NEW e \in Events, Post(e)
        PROVE  NotificationsTypeOK'
    BY <1>1 DEF Post
  <1>2. ASSUME NEW t \in Targets, PolicyChanges(t)
        PROVE  NotificationsTypeOK'
    BY <1>2 DEF PolicyChanges
  <1>3. ASSUME NEW t \in Subscriptions, Unsubscribe(t)
        PROVE  NotificationsTypeOK'
    BY <1>3 DEF Unsubscribe, DeleteSubscription, Mark
  <1>4. ASSUME NEW d \in Deliveries, Lapse(d)
        PROVE  NotificationsTypeOK'
    BY <1>4 DEF Lapse, Trouble
  <1>5. ASSUME NEW w \in Senders, NEW taken \in SUBSET jobs, Materialize(w, taken)
        PROVE  NotificationsTypeOK'
    BY <1>5 DEF Materialize, Mark
  <1>6. ASSUME NEW w \in Senders, NEW taken \in SUBSET Deliveries, Leased(w, taken)
        PROVE  NotificationsTypeOK'
    BY <1>6 DEF Leased, Take, Mark, Idle, Leasable
  <1>7. ASSUME NEW w \in Senders, NEW d \in Deliveries, Suppress(w, d)
        PROVE  NotificationsTypeOK'
    BY <1>7 DEF Suppress, End, Owned, Mark
  <1>8. ASSUME NEW w \in Senders, NEW d \in Deliveries, SendNext(w, d)
        PROVE  NotificationsTypeOK'
    BY <1>8 DEF SendNext, Group
  <1>9. ASSUME NEW w \in Senders, NEW d \in Deliveries, NoMail(w, d)
        PROVE  NotificationsTypeOK'
    BY <1>9 DEF NoMail, Group, End, Owned, Mark
  <1>10. ASSUME NEW w \in Senders, Answered(w, "ok")
        PROVE  NotificationsTypeOK'
    BY <1>10 DEF Answered, Went
  <1>11. ASSUME NEW w \in Senders, Answered(w, "gone")
        PROVE  NotificationsTypeOK'
    BY <1>11 DEF Answered, Went
  <1>12. ASSUME NEW w \in Senders, Answered(w, "failed")
        PROVE  NotificationsTypeOK'
    BY <1>12 DEF Answered, Went, Trouble
  <1>13. ASSUME NEW w \in Senders, RecordSent(w)
        PROVE  NotificationsTypeOK'
    BY <1>13 DEF RecordSent, End, Owned, Mark, Forget
  <1>14. ASSUME NEW w \in Senders, RecordGone(w)
        PROVE  NotificationsTypeOK'
    <2>1. PICK d \in sending[w] : DeleteSubscription(d[2])
      BY <1>14 DEF RecordGone
    <2>2. sending[w] \subseteq Events \X Subscriptions  BY <1>14 DEF RecordGone, Tidy
    <2>3. d[2] \in Subscriptions  BY <2>2
    <2> QED  BY <1>14, <2>1, <2>3 DEF RecordGone, DeleteSubscription, Mark, Forget
  <1>15. ASSUME NEW w \in Senders, RecordFailure(w)
        PROVE  NotificationsTypeOK'
    BY <1>15 DEF RecordFailure, Owned, Mark, Forget
  <1>16. ASSUME NEW w \in Senders, RecordLost(w)
        PROVE  NotificationsTypeOK'
    BY <1>16 DEF RecordLost, Owned, Mark, Forget, Trouble
  <1>17. ASSUME NEW w \in Senders, Crash(w)
        PROVE  NotificationsTypeOK'
    BY <1>17 DEF Crash, Forget, Trouble
  <1> QED
    BY <1>1, <1>2, <1>3, <1>4, <1>5, <1>6, <1>7, <1>8, <1>9, <1>10, <1>11,
       <1>12, <1>13, <1>14, <1>15, <1>16, <1>17, NextCases

(* A delivery comes of a job that is done.                                 *)
LEMMA TidyStep ==
    ASSUME NotificationsTypeOK, Tidy, NotificationsNext PROVE Tidy'
  <1> USE NotificationsAssumption DEF NotificationsTypeOK, Tidy, tableVars, batchVars, wentVars
  <1>1. ASSUME NEW e \in Events, Post(e)
        PROVE  Tidy'
    BY <1>1 DEF Post
  <1>2. ASSUME NEW t \in Targets, PolicyChanges(t)
        PROVE  Tidy'
    BY <1>2 DEF PolicyChanges
  <1>3. ASSUME NEW t \in Subscriptions, Unsubscribe(t)
        PROVE  Tidy'
    BY <1>3 DEF Unsubscribe, DeleteSubscription, Mark
  <1>4. ASSUME NEW d \in Deliveries, Lapse(d)
        PROVE  Tidy'
    BY <1>4 DEF Lapse, Trouble
  <1>5. ASSUME NEW w \in Senders, NEW taken \in SUBSET jobs, Materialize(w, taken)
        PROVE  Tidy'
    BY <1>5 DEF Materialize, Mark
  <1>6. ASSUME NEW w \in Senders, NEW taken \in SUBSET Deliveries, Leased(w, taken)
        PROVE  Tidy'
    BY <1>6 DEF Leased, Take, Mark, Idle, Leasable
  <1>7. ASSUME NEW w \in Senders, NEW d \in Deliveries, Suppress(w, d)
        PROVE  Tidy'
    BY <1>7 DEF Suppress, End, Owned, Mark
  <1>8. ASSUME NEW w \in Senders, NEW d \in Deliveries, SendNext(w, d)
        PROVE  Tidy'
    BY <1>8 DEF SendNext, Group
  <1>9. ASSUME NEW w \in Senders, NEW d \in Deliveries, NoMail(w, d)
        PROVE  Tidy'
    BY <1>9 DEF NoMail, Group, End, Owned, Mark
  <1>10. ASSUME NEW w \in Senders, Answered(w, "ok")
        PROVE  Tidy'
    BY <1>10 DEF Answered, Went
  <1>11. ASSUME NEW w \in Senders, Answered(w, "gone")
        PROVE  Tidy'
    BY <1>11 DEF Answered, Went
  <1>12. ASSUME NEW w \in Senders, Answered(w, "failed")
        PROVE  Tidy'
    BY <1>12 DEF Answered, Went, Trouble
  <1>13. ASSUME NEW w \in Senders, RecordSent(w)
        PROVE  Tidy'
    BY <1>13 DEF RecordSent, End, Owned, Mark, Forget
  <1>14. ASSUME NEW w \in Senders, RecordGone(w)
        PROVE  Tidy'
    BY <1>14 DEF RecordGone, DeleteSubscription, Mark, Forget
  <1>15. ASSUME NEW w \in Senders, RecordFailure(w)
        PROVE  Tidy'
    BY <1>15 DEF RecordFailure, Owned, Mark, Forget
  <1>16. ASSUME NEW w \in Senders, RecordLost(w)
        PROVE  Tidy'
    BY <1>16 DEF RecordLost, Owned, Mark, Forget, Trouble
  <1>17. ASSUME NEW w \in Senders, Crash(w)
        PROVE  Tidy'
    BY <1>17 DEF Crash, Forget, Trouble
  <1> QED
    BY <1>1, <1>2, <1>3, <1>4, <1>5, <1>6, <1>7, <1>8, <1>9, <1>10, <1>11,
       <1>12, <1>13, <1>14, <1>15, <1>16, <1>17, NextCases

(* An answer is recorded for what it answers.                              *)
LEMMA OkStep ==
    ASSUME NotificationsTypeOK, Tidy, OkWentOut, NotificationsNext PROVE OkWentOut'
  <1> USE NotificationsAssumption DEF NotificationsTypeOK, Tidy, OkWentOut, tableVars, batchVars,
      wentVars
  <1>1. ASSUME NEW e \in Events, Post(e)
        PROVE  OkWentOut'
    BY <1>1 DEF Post
  <1>2. ASSUME NEW t \in Targets, PolicyChanges(t)
        PROVE  OkWentOut'
    BY <1>2 DEF PolicyChanges
  <1>3. ASSUME NEW t \in Subscriptions, Unsubscribe(t)
        PROVE  OkWentOut'
    BY <1>3 DEF Unsubscribe, DeleteSubscription, Mark
  <1>4. ASSUME NEW d \in Deliveries, Lapse(d)
        PROVE  OkWentOut'
    BY <1>4 DEF Lapse, Trouble
  <1>5. ASSUME NEW w \in Senders, NEW taken \in SUBSET jobs, Materialize(w, taken)
        PROVE  OkWentOut'
    BY <1>5 DEF Materialize, Mark
  <1>6. ASSUME NEW w \in Senders, NEW taken \in SUBSET Deliveries, Leased(w, taken)
        PROVE  OkWentOut'
    BY <1>6 DEF Leased, Take, Mark, Idle, Leasable
  <1>7. ASSUME NEW w \in Senders, NEW d \in Deliveries, Suppress(w, d)
        PROVE  OkWentOut'
    BY <1>7 DEF Suppress, End, Owned, Mark
  <1>8. ASSUME NEW w \in Senders, NEW d \in Deliveries, SendNext(w, d)
        PROVE  OkWentOut'
    BY <1>8 DEF SendNext, Group
  <1>9. ASSUME NEW w \in Senders, NEW d \in Deliveries, NoMail(w, d)
        PROVE  OkWentOut'
    BY <1>9 DEF NoMail, Group, End, Owned, Mark
  <1>10. ASSUME NEW w \in Senders, Answered(w, "ok")
        PROVE  OkWentOut'
    BY <1>10 DEF Answered, Went
  <1>11. ASSUME NEW w \in Senders, Answered(w, "gone")
        PROVE  OkWentOut'
    BY <1>11 DEF Answered, Went
  <1>12. ASSUME NEW w \in Senders, Answered(w, "failed")
        PROVE  OkWentOut'
    BY <1>12 DEF Answered, Went, Trouble
  <1>13. ASSUME NEW w \in Senders, RecordSent(w)
        PROVE  OkWentOut'
    BY <1>13 DEF RecordSent, End, Owned, Mark, Forget
  <1>14. ASSUME NEW w \in Senders, RecordGone(w)
        PROVE  OkWentOut'
    BY <1>14 DEF RecordGone, DeleteSubscription, Mark, Forget
  <1>15. ASSUME NEW w \in Senders, RecordFailure(w)
        PROVE  OkWentOut'
    BY <1>15 DEF RecordFailure, Owned, Mark, Forget
  <1>16. ASSUME NEW w \in Senders, RecordLost(w)
        PROVE  OkWentOut'
    BY <1>16 DEF RecordLost, Owned, Mark, Forget, Trouble
  <1>17. ASSUME NEW w \in Senders, Crash(w)
        PROVE  OkWentOut'
    BY <1>17 DEF Crash, Forget, Trouble
  <1> QED
    BY <1>1, <1>2, <1>3, <1>4, <1>5, <1>6, <1>7, <1>8, <1>9, <1>10, <1>11,
       <1>12, <1>13, <1>14, <1>15, <1>16, <1>17, NextCases

(* Only RecordSent, Suppress and NoMail mark a delivery as sent.           *)
LEMMA SentStep ==
    ASSUME NotificationsTypeOK, OkWentOut, SentWentOut, NotificationsNext PROVE SentWentOut'
  <1> USE NotificationsAssumption DEF NotificationsTypeOK, OkWentOut, SentWentOut, tableVars,
      batchVars, wentVars
  <1>1. ASSUME NEW e \in Events, Post(e)
        PROVE  SentWentOut'
    BY <1>1 DEF Post
  <1>2. ASSUME NEW t \in Targets, PolicyChanges(t)
        PROVE  SentWentOut'
    BY <1>2 DEF PolicyChanges
  <1>3. ASSUME NEW t \in Subscriptions, Unsubscribe(t)
        PROVE  SentWentOut'
    BY <1>3 DEF Unsubscribe, DeleteSubscription, Mark
  <1>4. ASSUME NEW d \in Deliveries, Lapse(d)
        PROVE  SentWentOut'
    BY <1>4 DEF Lapse, Trouble
  <1>5. ASSUME NEW w \in Senders, NEW taken \in SUBSET jobs, Materialize(w, taken)
        PROVE  SentWentOut'
    BY <1>5 DEF Materialize, Mark
  <1>6. ASSUME NEW w \in Senders, NEW taken \in SUBSET Deliveries, Leased(w, taken)
        PROVE  SentWentOut'
    BY <1>6 DEF Leased, Take, Mark, Idle, Leasable
  <1>7. ASSUME NEW w \in Senders, NEW d \in Deliveries, Suppress(w, d)
        PROVE  SentWentOut'
    BY <1>7 DEF Suppress, End, Owned, Mark
  <1>8. ASSUME NEW w \in Senders, NEW d \in Deliveries, SendNext(w, d)
        PROVE  SentWentOut'
    BY <1>8 DEF SendNext, Group
  <1>9. ASSUME NEW w \in Senders, NEW d \in Deliveries, NoMail(w, d)
        PROVE  SentWentOut'
    BY <1>9 DEF NoMail, Group, End, Owned, Mark
  <1>10. ASSUME NEW w \in Senders, Answered(w, "ok")
        PROVE  SentWentOut'
    BY <1>10 DEF Answered, Went
  <1>11. ASSUME NEW w \in Senders, Answered(w, "gone")
        PROVE  SentWentOut'
    BY <1>11 DEF Answered, Went
  <1>12. ASSUME NEW w \in Senders, Answered(w, "failed")
        PROVE  SentWentOut'
    BY <1>12 DEF Answered, Went, Trouble
  <1>13. ASSUME NEW w \in Senders, RecordSent(w)
        PROVE  SentWentOut'
    BY <1>13 DEF RecordSent, End, Owned, Mark, Forget
  <1>14. ASSUME NEW w \in Senders, RecordGone(w)
        PROVE  SentWentOut'
    BY <1>14 DEF RecordGone, DeleteSubscription, Mark, Forget
  <1>15. ASSUME NEW w \in Senders, RecordFailure(w)
        PROVE  SentWentOut'
    BY <1>15 DEF RecordFailure, Owned, Mark, Forget
  <1>16. ASSUME NEW w \in Senders, RecordLost(w)
        PROVE  SentWentOut'
    BY <1>16 DEF RecordLost, Owned, Mark, Forget, Trouble
  <1>17. ASSUME NEW w \in Senders, Crash(w)
        PROVE  SentWentOut'
    BY <1>17 DEF Crash, Forget, Trouble
  <1> QED
    BY <1>1, <1>2, <1>3, <1>4, <1>5, <1>6, <1>7, <1>8, <1>9, <1>10, <1>11,
       <1>12, <1>13, <1>14, <1>15, <1>16, <1>17, NextCases

LEMMA SentInvStep == SentInv /\ [NotificationsNext]_notificationVars => SentInv'
  <1> SUFFICES ASSUME SentInv, [NotificationsNext]_notificationVars PROVE SentInv'
    OBVIOUS
  <1> USE DEF SentInv
  <1>1. CASE NotificationsNext  BY <1>1, TypeStep, TidyStep, OkStep, SentStep
  <1>2. CASE UNCHANGED notificationVars
    <2>1. NotificationsTypeOK'
      BY <1>2 DEF notificationVars, tableVars, batchVars, wentVars, NotificationsTypeOK
    <2>2. (Tidy /\ OkWentOut /\ SentWentOut)'
      BY <1>2
      DEF notificationVars, tableVars, batchVars, wentVars, Tidy, OkWentOut, SentWentOut
    <2> QED  BY <2>1, <2>2
  <1> QED  BY <1>1, <1>2

(* The types, and what leads a delivery to be marked as sent, hold in      *)
(* every reachable state of the workers of push/service.go.                *)
THEOREM NotificationsCorrect == NotificationsSpec => []SentInv
  BY SentInvInit, SentInvStep, PTL DEF NotificationsSpec

(* What deliver and deliverDigests mark as sent was sent, or held back on  *)
(* purpose.                                                                *)
THEOREM MarkedWentOut == NotificationsSpec => []SentWentOut
  BY NotificationsCorrect, PTL DEF SentInv

-----------------------------------------------------------------------------
(* The workers that may still send d, and whether another may lease it     *)
(* without anything going wrong before.                                    *)
Working(d) ==
    {w \in Senders : \/ d \in batch[w]
                     \/ d \in sending[w] /\ outcome[w] \in {"none", "failed"}}

Open(d) ==
    \/ row[d] = "due" /\ (sendLease[d] # "held" \/ holder[d] = Nobody)
    \/ row[d] = "absent" /\ (d[1] \notin posted \/ d[1] \in jobs)

Chance(d) == IF Open(d) THEN 1 ELSE 0

(* Every trouble adds one sending at most.                                 *)
Bounded(d) ==
    /\ IsFiniteSet(Working(d))
    /\ pushes[d] + Cardinality(Working(d)) + Chance(d) <= 1 + troubles

RepeatsInv == SentInv /\ \A d \in Deliveries : Bounded(d)

LEMMA RepeatsInvInit == NotificationsInit => RepeatsInv
  <1> SUFFICES ASSUME NotificationsInit, NEW d \in Deliveries PROVE Bounded(d)
    BY SentInvInit DEF RepeatsInv
  <1>1. Working(d) = {}  BY DEF NotificationsInit, Working
  <1>2. pushes[d] = 0 /\ troubles = 0  BY DEF NotificationsInit
  <1> QED  BY <1>1, <1>2, FS_EmptySet DEF Bounded, Chance

(* The workers of a delivery can be counted, one more or one less.         *)
LEMMA Counted ==
  ASSUME NotificationsTypeOK, NotificationsTypeOK', NEW d \in Deliveries, Bounded(d)
  PROVE  /\ Cardinality(Working(d)) \in Nat /\ pushes[d] \in Nat /\ pushes'[d] \in Nat
         /\ troubles \in Nat /\ troubles' \in Nat /\ Chance(d) \in Nat /\ Chance(d)' \in Nat
         /\ pushes[d] + Cardinality(Working(d)) + Chance(d) <= 1 + troubles
  <1>1. IsFiniteSet(Working(d))  BY DEF Bounded
  <1>2. Cardinality(Working(d)) \in Nat  BY <1>1, FS_CardinalityType
  <1>3. /\ pushes[d] \in Nat /\ pushes'[d] \in Nat
        /\ troubles \in Nat /\ troubles' \in Nat
    BY NotificationsAssumption DEF NotificationsTypeOK
  <1>4. Chance(d) \in Nat /\ Chance(d)' \in Nat  BY DEF Chance
  <1>5. pushes[d] + Cardinality(Working(d)) + Chance(d) <= 1 + troubles  BY DEF Bounded
  <1> QED  BY <1>2, <1>3, <1>4, <1>5

LEMMA OneWorker ==
  ASSUME NEW d \in Deliveries, Bounded(d), NEW w
  PROVE  /\ IsFiniteSet(Working(d)) /\ Cardinality(Working(d)) \in Nat
         /\ IsFiniteSet(Working(d) \ {w})
         /\ Cardinality(Working(d) \ {w}) =
              IF w \in Working(d) THEN Cardinality(Working(d)) - 1 ELSE Cardinality(Working(d))
         /\ IsFiniteSet(Working(d) \cup {w})
         /\ Cardinality(Working(d) \cup {w}) =
              IF w \in Working(d) THEN Cardinality(Working(d)) ELSE Cardinality(Working(d)) + 1
  <1>1. IsFiniteSet(Working(d))  BY DEF Bounded
  <1>2. Cardinality(Working(d)) \in Nat  BY <1>1, FS_CardinalityType
  <1>3. /\ IsFiniteSet(Working(d) \ {w})
        /\ Cardinality(Working(d) \ {w}) =
             IF w \in Working(d) THEN Cardinality(Working(d)) - 1 ELSE Cardinality(Working(d))
    BY <1>1, FS_RemoveElement
  <1>4. /\ IsFiniteSet(Working(d) \cup {w})
        /\ Cardinality(Working(d) \cup {w}) =
             IF w \in Working(d) THEN Cardinality(Working(d)) ELSE Cardinality(Working(d)) + 1
    BY <1>1, FS_AddElement
  <1> QED  BY <1>1, <1>2, <1>3, <1>4

(* What the steps do to the sum of a delivery: nothing, or less; a trouble *)
(* pays for one; a worker sends it, or gives it back; a worker takes it.   *)
LEMMA QuietKeeps ==
  ASSUME NotificationsTypeOK, NotificationsTypeOK', NEW d \in Deliveries, Bounded(d), NEW w,
         Working(d)' = Working(d) \/ Working(d)' = Working(d) \ {w},
         pushes'[d] = pushes[d], troubles' = troubles, Open(d)' => Open(d)
  PROVE  Bounded(d)'
  <1>1. Chance(d)' <= Chance(d)  BY DEF Chance
  <1>2. /\ IsFiniteSet(Working(d)') /\ Cardinality(Working(d)') \in Nat
        /\ Cardinality(Working(d)') <= Cardinality(Working(d))
    <2>1. /\ IsFiniteSet(Working(d)) /\ Cardinality(Working(d)) \in Nat
          /\ IsFiniteSet(Working(d) \ {w}) /\ IsFiniteSet(Working(d) \cup {w})
      BY OneWorker
    <2>2. /\ Cardinality(Working(d) \ {w}) =
               IF w \in Working(d) THEN Cardinality(Working(d)) - 1
                                   ELSE Cardinality(Working(d))
          /\ Cardinality(Working(d) \cup {w}) =
               IF w \in Working(d) THEN Cardinality(Working(d))
                                   ELSE Cardinality(Working(d)) + 1
      BY OneWorker, Zenon
    <2>3. Cardinality(Working(d)') \in Nat /\ IsFiniteSet(Working(d)')
      BY <2>1, FS_CardinalityType
    <2> QED  BY <2>1, <2>2, <2>3
  <1>3. /\ Cardinality(Working(d)) \in Nat /\ pushes[d] \in Nat /\ pushes'[d] \in Nat
        /\ troubles \in Nat /\ troubles' \in Nat /\ Chance(d) \in Nat /\ Chance(d)' \in Nat
        /\ pushes[d] + Cardinality(Working(d)) + Chance(d) <= 1 + troubles
    BY Counted
  <1> QED  BY <1>1, <1>2, <1>3 DEF Bounded

LEMMA TroubleKeeps ==
  ASSUME NotificationsTypeOK, NotificationsTypeOK', NEW d \in Deliveries, Bounded(d), NEW w,
         Working(d)' = Working(d) \/ Working(d)' = Working(d) \ {w},
         \/ pushes'[d] = pushes[d]
         \/ pushes'[d] = pushes[d] + 1 /\ (Open(d)' => Open(d)),
         troubles' = troubles + 1
  PROVE  Bounded(d)'
  <1>1. pushes'[d] + Chance(d)' <= pushes[d] + Chance(d) + 1
    <2>1. pushes[d] \in Nat  BY DEF NotificationsTypeOK
    <2> QED  BY <2>1 DEF Chance
  <1>2. /\ IsFiniteSet(Working(d)') /\ Cardinality(Working(d)') \in Nat
        /\ Cardinality(Working(d)') <= Cardinality(Working(d))
    <2>1. /\ IsFiniteSet(Working(d)) /\ Cardinality(Working(d)) \in Nat
          /\ IsFiniteSet(Working(d) \ {w}) /\ IsFiniteSet(Working(d) \cup {w})
      BY OneWorker
    <2>2. /\ Cardinality(Working(d) \ {w}) =
               IF w \in Working(d) THEN Cardinality(Working(d)) - 1
                                   ELSE Cardinality(Working(d))
          /\ Cardinality(Working(d) \cup {w}) =
               IF w \in Working(d) THEN Cardinality(Working(d))
                                   ELSE Cardinality(Working(d)) + 1
      BY OneWorker, Zenon
    <2>3. Cardinality(Working(d)') \in Nat /\ IsFiniteSet(Working(d)')
      BY <2>1, FS_CardinalityType
    <2> QED  BY <2>1, <2>2, <2>3
  <1>3. /\ Cardinality(Working(d)) \in Nat /\ pushes[d] \in Nat /\ pushes'[d] \in Nat
        /\ troubles \in Nat /\ troubles' \in Nat /\ Chance(d) \in Nat /\ Chance(d)' \in Nat
        /\ pushes[d] + Cardinality(Working(d)) + Chance(d) <= 1 + troubles
    BY Counted
  <1> QED  BY <1>1, <1>2, <1>3 DEF Bounded

LEMMA SendingKeeps ==
  ASSUME NotificationsTypeOK, NotificationsTypeOK', NEW d \in Deliveries, Bounded(d), NEW w,
         w \in Working(d), Working(d)' = Working(d) \ {w}, troubles' = troubles,
         \/ pushes'[d] = pushes[d]
         \/ pushes'[d] = pushes[d] + 1 /\ (Open(d)' => Open(d))
  PROVE  Bounded(d)'
  <1>1. pushes'[d] + Chance(d)' <= pushes[d] + Chance(d) + 1
    <2>1. pushes[d] \in Nat  BY DEF NotificationsTypeOK
    <2> QED  BY <2>1 DEF Chance
  <1>2. /\ IsFiniteSet(Working(d)') /\ Cardinality(Working(d)') \in Nat
        /\ Cardinality(Working(d)') = Cardinality(Working(d)) - 1
    <2>1. /\ IsFiniteSet(Working(d)) /\ Cardinality(Working(d)) \in Nat
          /\ IsFiniteSet(Working(d) \ {w}) /\ IsFiniteSet(Working(d) \cup {w})
      BY OneWorker
    <2>2. /\ Cardinality(Working(d) \ {w}) =
               IF w \in Working(d) THEN Cardinality(Working(d)) - 1
                                   ELSE Cardinality(Working(d))
          /\ Cardinality(Working(d) \cup {w}) =
               IF w \in Working(d) THEN Cardinality(Working(d))
                                   ELSE Cardinality(Working(d)) + 1
      BY OneWorker, Zenon
    <2>3. Cardinality(Working(d)') \in Nat /\ IsFiniteSet(Working(d)')
      BY <2>1, FS_CardinalityType
    <2> QED  BY <2>1, <2>2, <2>3
  <1>3. /\ Cardinality(Working(d)) \in Nat /\ pushes[d] \in Nat /\ pushes'[d] \in Nat
        /\ troubles \in Nat /\ troubles' \in Nat /\ Chance(d) \in Nat /\ Chance(d)' \in Nat
        /\ pushes[d] + Cardinality(Working(d)) + Chance(d) <= 1 + troubles
    BY Counted
  <1> QED  BY <1>1, <1>2, <1>3 DEF Bounded

LEMMA TakingKeeps ==
  ASSUME NotificationsTypeOK, NotificationsTypeOK', NEW d \in Deliveries, Bounded(d), NEW w,
         Working(d)' = Working(d) \cup {w}, pushes'[d] = pushes[d], troubles' = troubles,
         Open(d), ~Open(d)'
  PROVE  Bounded(d)'
  <1>1. Chance(d) = 1 /\ Chance(d)' = 0  BY DEF Chance
  <1>2. /\ IsFiniteSet(Working(d)') /\ Cardinality(Working(d)') \in Nat
        /\ Cardinality(Working(d)') <= Cardinality(Working(d)) + 1
    <2>1. /\ IsFiniteSet(Working(d)) /\ Cardinality(Working(d)) \in Nat
          /\ IsFiniteSet(Working(d) \ {w}) /\ IsFiniteSet(Working(d) \cup {w})
      BY OneWorker
    <2>2. /\ Cardinality(Working(d) \ {w}) =
               IF w \in Working(d) THEN Cardinality(Working(d)) - 1
                                   ELSE Cardinality(Working(d))
          /\ Cardinality(Working(d) \cup {w}) =
               IF w \in Working(d) THEN Cardinality(Working(d))
                                   ELSE Cardinality(Working(d)) + 1
      BY OneWorker, Zenon
    <2>3. Cardinality(Working(d)') \in Nat /\ IsFiniteSet(Working(d)')
      BY <2>1, FS_CardinalityType
    <2> QED  BY <2>1, <2>2, <2>3
  <1>3. /\ Cardinality(Working(d)) \in Nat /\ pushes[d] \in Nat /\ pushes'[d] \in Nat
        /\ troubles \in Nat /\ troubles' \in Nat /\ Chance(d) \in Nat /\ Chance(d)' \in Nat
        /\ pushes[d] + Cardinality(Working(d)) + Chance(d) <= 1 + troubles
    BY Counted
  <1> QED  BY <1>1, <1>2, <1>3 DEF Bounded

(* So every trouble adds one sending at most, by action.                   *)
LEMMA BoundStep ==
  ASSUME SentInv, SentInv', NEW x \in Deliveries, Bounded(x), NotificationsNext
  PROVE  Bounded(x)'
  <1> USE DEF SentInv
  <1>0. NotificationsTypeOK /\ NotificationsTypeOK' /\ Tidy  OBVIOUS
  <1>1. ASSUME NEW e \in Events, Post(e) PROVE Bounded(x)'
    <2>1. Working(x)' = Working(x) /\ pushes' = pushes /\ troubles' = troubles
      BY <1>1 DEF Post, Working, batchVars, wentVars
    <2>2. Open(x)' => Open(x)  BY <1>1 DEF Post, Open, tableVars
    <2> QED  BY <1>0, <2>1, <2>2, QuietKeeps
  <1>2. ASSUME NEW t \in Targets, PolicyChanges(t) PROVE Bounded(x)'
    <2>1. Working(x)' = Working(x) /\ pushes' = pushes /\ troubles' = troubles
      BY <1>2 DEF PolicyChanges, Working, batchVars, wentVars
    <2>2. Open(x)' => Open(x)  BY <1>2 DEF PolicyChanges, Open, tableVars
    <2> QED  BY <1>0, <2>1, <2>2, QuietKeeps
  <1>3. ASSUME NEW t \in Subscriptions, DeleteSubscription(t), UNCHANGED <<posted, jobs>>
        PROVE  Open(x)' => Open(x)
    BY <1>0, <1>3 DEF DeleteSubscription, Mark, Open, Tidy, NotificationsTypeOK
  <1>4. ASSUME NEW t \in Subscriptions, Unsubscribe(t) PROVE Bounded(x)'
    <2>1. Working(x)' = Working(x) /\ pushes' = pushes /\ troubles' = troubles
      BY <1>4 DEF Unsubscribe, Working, batchVars, wentVars
    <2>2. Open(x)' => Open(x)  BY <1>3, <1>4 DEF Unsubscribe
    <2> QED  BY <1>0, <2>1, <2>2, QuietKeeps
  <1>5. ASSUME NEW d \in Deliveries, Lapse(d) PROVE Bounded(x)'
    <2>1. Working(x)' = Working(x) /\ pushes' = pushes
      BY <1>5 DEF Lapse, Working, batchVars, wentVars
    <2>2. CASE troubles' = troubles + 1  BY <1>0, <2>1, <2>2, TroubleKeeps
    <2>3. CASE holder[d] = Nobody
      <3>1. troubles' = troubles  BY <1>5, <2>3 DEF Lapse
      <3>2. Open(x)' => Open(x)
        BY <1>0, <1>5, <2>3 DEF Lapse, Open, NotificationsTypeOK
      <3> QED  BY <1>0, <2>1, <3>1, <3>2, QuietKeeps
    <2> QED  BY <1>5, <2>2, <2>3 DEF Lapse, Trouble
  <1>6. ASSUME NEW w \in Senders, NEW taken \in SUBSET jobs, Materialize(w, taken)
        PROVE  Bounded(x)'
    <2>1. Working(x)' = Working(x) /\ pushes' = pushes /\ troubles' = troubles
      BY <1>6 DEF Materialize, Working, batchVars, wentVars
    <2>2. Open(x)' => Open(x)
      BY <1>0, <1>6 DEF Materialize, Mark, Open, NotificationsTypeOK
    <2> QED  BY <1>0, <2>1, <2>2, QuietKeeps
  <1>7. ASSUME NEW w \in Senders, NEW taken \in SUBSET Deliveries, Leased(w, taken)
        PROVE  Bounded(x)'
    <2>1. pushes' = pushes /\ troubles' = troubles  BY <1>7 DEF Leased, Take, wentVars
    <2>2. CASE x \in taken
      <3>1. Working(x)' = Working(x) \cup {w}
        BY <1>0, <1>7, <2>2 DEF Leased, Take, Idle, Working, NotificationsTypeOK
      <3>2. Open(x) /\ ~Open(x)'
        BY <1>0, <1>7, <2>2, NotificationsAssumption
        DEF Leased, Take, Leasable, Mark, Open, NotificationsTypeOK
      <3> QED  BY <1>0, <2>1, <3>1, <3>2, TakingKeeps
    <2>3. CASE x \notin taken
      <3>1. Working(x)' = Working(x)
        BY <1>0, <1>7, <2>3 DEF Leased, Take, Idle, Working, NotificationsTypeOK
      <3>2. Open(x)' => Open(x)
        BY <1>0, <1>7, <2>3 DEF Leased, Take, Mark, Open, NotificationsTypeOK
      <3> QED  BY <1>0, <2>1, <3>1, <3>2, QuietKeeps
    <2> QED  BY <2>2, <2>3
  <1>8. ASSUME NEW w \in Senders, NEW S \in SUBSET Deliveries, End(w, S),
               UNCHANGED <<posted, jobs>>
        PROVE  Open(x)' => Open(x)
    BY <1>0, <1>8 DEF End, Owned, Mark, Open, NotificationsTypeOK
  <1>9. ASSUME NEW w \in Senders, NEW d \in Deliveries, Suppress(w, d) PROVE Bounded(x)'
    <2>1. pushes' = pushes /\ troubles' = troubles  BY <1>9 DEF Suppress
    <2>2. Working(x)' = Working(x) \/ Working(x)' = Working(x) \ {w}
      BY <1>0, <1>9 DEF Suppress, Working, NotificationsTypeOK
    <2>3. Open(x)' => Open(x)  BY <1>8, <1>9 DEF Suppress
    <2> QED  BY <1>0, <2>1, <2>2, <2>3, QuietKeeps
  <1>10. ASSUME NEW w \in Senders, NEW d \in Deliveries, SendNext(w, d) PROVE Bounded(x)'
    <2>1. pushes' = pushes /\ troubles' = troubles  BY <1>10 DEF SendNext, wentVars
    <2>2. outcome[w] = "none" /\ Group(w, d) \subseteq batch[w]
      BY <1>0, <1>10 DEF SendNext, Tidy, Group
    <2>3. Working(x)' = Working(x)
      <3>1. /\ sending' = [sending EXCEPT ![w] = Group(w, d)]
            /\ batch' = [batch EXCEPT ![w] = @ \ Group(w, d)]
            /\ outcome' = outcome /\ sending[w] = {}
        BY <1>10 DEF SendNext
      <3> QED  BY <1>0, <2>2, <3>1 DEF Working, NotificationsTypeOK
    <2>4. Open(x)' => Open(x)  BY <1>10 DEF SendNext, Open, tableVars
    <2> QED  BY <1>0, <2>1, <2>3, <2>4, QuietKeeps
  <1>11. ASSUME NEW w \in Senders, NEW d \in Deliveries, NoMail(w, d) PROVE Bounded(x)'
    <2>1. pushes' = pushes /\ troubles' = troubles  BY <1>11 DEF NoMail
    <2>2. Group(w, d) \in SUBSET Deliveries
      BY <1>0, <1>11 DEF NoMail, Group, NotificationsTypeOK
    <2>3. Working(x)' = Working(x) \/ Working(x)' = Working(x) \ {w}
      <3>1. /\ batch' = [batch EXCEPT ![w] = @ \ Group(w, d)] /\ sending[w] = {}
            /\ UNCHANGED <<sending, outcome>>
        BY <1>11 DEF NoMail
      <3> QED  BY <1>0, <3>1 DEF Working, NotificationsTypeOK
    <2>4. Open(x)' => Open(x)  BY <1>8, <1>11, <2>2 DEF NoMail
    <2> QED  BY <1>0, <2>1, <2>3, <2>4, QuietKeeps
  <1>12. ASSUME NEW w \in Senders, NEW result \in {"ok", "gone", "failed"},
                Answered(w, result)
         PROVE  Bounded(x)'
    <2>1. /\ outcome[w] = "none" /\ outcome' = [outcome EXCEPT ![w] = result]
          /\ UNCHANGED <<posted, jobs, row, sendLease, holder, batch, sending>>
      BY <1>12 DEF Answered, tableVars
    <2>2. Open(x)' => Open(x)  BY <2>1 DEF Open
    <2>3. pushes'[x] = pushes[x] \/ (pushes'[x] = pushes[x] + 1 /\ x \in sending[w])
      <3>1. \/ pushes' = pushes
            \/ Went(sending[w])
        BY <1>12 DEF Answered
      <3>2. pushes[x] \in Nat  BY <1>0 DEF NotificationsTypeOK
      <3> QED  BY <3>1, <3>2 DEF Went
    <2>4. CASE result = "failed"
      <3>1. troubles' = troubles + 1  BY <1>12, <2>4 DEF Answered, Trouble
      <3>2. Working(x)' = Working(x)
        BY <1>0, <2>1, <2>4 DEF Working, NotificationsTypeOK
      <3> QED  BY <1>0, <2>2, <2>3, <3>1, <3>2, TroubleKeeps
    <2>5. CASE result # "failed"
      <3>1. troubles' = troubles  BY <1>12, <2>5 DEF Answered
      <3>2. CASE x \in sending[w]
        <4>1. x \notin batch[w]  BY <1>0, <3>2 DEF Tidy
        <4>2. w \in Working(x)  BY <2>1, <3>2 DEF Working
        <4>3. Working(x)' = Working(x) \ {w}
          BY <1>0, <2>1, <2>5, <3>2, <4>1 DEF Working, NotificationsTypeOK
        <4> QED  BY <1>0, <2>2, <2>3, <3>1, <4>2, <4>3, SendingKeeps
      <3>3. CASE x \notin sending[w]
        <4>1. Working(x)' = Working(x)
          BY <1>0, <2>1, <3>3 DEF Working, NotificationsTypeOK
        <4> QED  BY <1>0, <2>2, <2>3, <3>1, <3>3, <4>1, QuietKeeps
      <3> QED  BY <3>2, <3>3
    <2> QED  BY <2>4, <2>5
  <1>13. ASSUME NEW w \in Senders, Forget(w), outcome[w] \notin {"none", "failed"},
                batch' = batch
         PROVE  Working(x)' = Working(x)
    BY <1>0, <1>13 DEF Forget, Working, NotificationsTypeOK
  <1>14. ASSUME NEW w \in Senders, RecordSent(w) PROVE Bounded(x)'
    <2>1. pushes' = pushes /\ troubles' = troubles  BY <1>14 DEF RecordSent, wentVars
    <2>2. Working(x)' = Working(x)  BY <1>13, <1>14 DEF RecordSent
    <2>3. Open(x)' => Open(x)
      BY <1>0, <1>8, <1>14 DEF RecordSent, NotificationsTypeOK
    <2> QED  BY <1>0, <2>1, <2>2, <2>3, QuietKeeps
  <1>15. ASSUME NEW w \in Senders, RecordGone(w) PROVE Bounded(x)'
    <2>1. pushes' = pushes /\ troubles' = troubles  BY <1>15 DEF RecordGone, wentVars
    <2>2. Working(x)' = Working(x)  BY <1>13, <1>15 DEF RecordGone
    <2>3. PICK d \in sending[w] : DeleteSubscription(d[2])  BY <1>15 DEF RecordGone
    <2>4. d[2] \in Subscriptions
      <3>1. sending[w] \subseteq Events \X Subscriptions  BY <1>0, <1>15 DEF RecordGone, Tidy
      <3> QED  BY <3>1
    <2>5. Open(x)' => Open(x)  BY <1>3, <1>15, <2>3, <2>4 DEF RecordGone
    <2> QED  BY <1>0, <2>1, <2>2, <2>5, QuietKeeps
  <1>16. ASSUME NEW w \in Senders, Forget(w), batch' = batch, outcome[w] = "failed"
         PROVE  IF x \in sending[w]
                THEN w \in Working(x) /\ Working(x)' = Working(x) \ {w}
                ELSE Working(x)' = Working(x)
    <2>1. x \in sending[w] => x \notin batch[w]  BY <1>0 DEF Tidy
    <2> QED  BY <1>0, <1>16, <2>1 DEF Forget, Working, NotificationsTypeOK
  <1>17. ASSUME NEW w \in Senders, RecordFailure(w) PROVE Bounded(x)'
    <2>1. pushes' = pushes /\ troubles' = troubles  BY <1>17 DEF RecordFailure, wentVars
    <2>2. CASE x \in sending[w]
      <3>1. w \in Working(x) /\ Working(x)' = Working(x) \ {w}
        BY <1>16, <1>17, <2>2 DEF RecordFailure
      <3> QED  BY <1>0, <2>1, <3>1, SendingKeeps
    <2>3. CASE x \notin sending[w]
      <3>1. Working(x)' = Working(x)  BY <1>16, <1>17, <2>3 DEF RecordFailure
      <3>2. Open(x)' => Open(x)
        BY <1>0, <1>17, <2>3 DEF RecordFailure, Owned, Mark, Open, NotificationsTypeOK
      <3> QED  BY <1>0, <2>1, <3>1, <3>2, QuietKeeps
    <2> QED  BY <2>2, <2>3
  <1>18. ASSUME NEW w \in Senders, RecordLost(w) PROVE Bounded(x)'
    <2>1. pushes' = pushes /\ troubles' = troubles + 1
      BY <1>18 DEF RecordLost, Trouble, wentVars
    <2>2. Working(x)' = Working(x) \/ Working(x)' = Working(x) \ {w}
      BY <1>13, <1>16, <1>18 DEF RecordLost
    <2> QED  BY <1>0, <2>1, <2>2, TroubleKeeps
  <1>19. ASSUME NEW w \in Senders, Crash(w) PROVE Bounded(x)'
    <2>1. pushes' = pushes /\ troubles' = troubles + 1
      BY <1>19 DEF Crash, Trouble, wentVars
    <2>2. Working(x)' = Working(x) \ {w}
      BY <1>0, <1>19 DEF Crash, Forget, Working, NotificationsTypeOK
    <2> QED  BY <1>0, <2>1, <2>2, TroubleKeeps
  <1> QED
    BY <1>0, <1>1, <1>2, <1>4, <1>5, <1>6, <1>7, <1>9, <1>10, <1>11, <1>12, <1>14, <1>15,
       <1>17, <1>18, <1>19, NextCases

LEMMA RepeatsInvStep == RepeatsInv /\ [NotificationsNext]_notificationVars => RepeatsInv'
  <1> SUFFICES ASSUME RepeatsInv, [NotificationsNext]_notificationVars PROVE RepeatsInv'
    OBVIOUS
  <1>1. SentInv /\ SentInv'  BY SentInvStep DEF RepeatsInv
  <1>2. CASE NotificationsNext  BY <1>1, <1>2, BoundStep DEF RepeatsInv
  <1>3. CASE UNCHANGED notificationVars
    <2>1. \A d \in Deliveries : Bounded(d)'
      BY <1>3
      DEF RepeatsInv, Bounded, Working, Chance, Open, notificationVars, tableVars, batchVars,
          wentVars
    <2> QED  BY <1>1, <2>1 DEF RepeatsInv
  <1> QED  BY <1>2, <1>3

(* A delivery goes out again only after something went wrong, once for     *)
(* each time, however many workers lease, crash and overtake each other    *)
(* (the tokens and leases of deliver and deliverDigests).                  *)
THEOREM RepeatsAreExplained == NotificationsSpec => []RepeatsExplained
  <1>1. RepeatsInv => RepeatsExplained
    <2> SUFFICES ASSUME RepeatsInv, NEW d \in Deliveries PROVE pushes[d] <= 1 + troubles
      BY DEF RepeatsExplained
    <2>1. Cardinality(Working(d)) \in Nat /\ Bounded(d)
      BY FS_CardinalityType DEF RepeatsInv, Bounded
    <2>2. pushes[d] \in Nat /\ troubles \in Nat /\ Chance(d) \in Nat
      BY NotificationsAssumption DEF RepeatsInv, SentInv, NotificationsTypeOK, Chance
    <2> QED  BY <2>1, <2>2 DEF Bounded
  <1> QED  BY <1>1, RepeatsInvInit, RepeatsInvStep, PTL DEF NotificationsSpec
=============================================================================

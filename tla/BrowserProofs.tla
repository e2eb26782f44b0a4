---------------------------- MODULE BrowserProofs ----------------------------
(***************************************************************************)
(* What the tabs of a browser keep with the server, for any number of      *)
(* tabs: the outbox, which implements MessageDelivery, the session they    *)
(* refresh together, and the settings page.                                *)
(***************************************************************************)
EXTENDS Outbox, Session, Autosave, SequenceTheorems, TLAPS

Busy == {"call", "answered", "refused"}

(* A flush that has an entry under way knows it, and once the server has   *)
(* answered the entry is in the messages table.                            *)
ItemKnown ==
    \A t \in Tabs :
        /\ flush[t] \in Busy => item[t] \in Messages
        /\ flush[t] = "answered" => copies[item[t]] = 1

(* What is not in the table and not in the queue was never sent: no flush  *)
(* has listed it and no abandoned request carries it.                      *)
Untouched ==
    \A m \in Messages :
        copies[m] = 0 /\ queue[m] = "absent" =>
            /\ m \notin strays
            /\ \A t \in Tabs : listed[t][m] = "absent" /\ item[t] # m

AtMostOnce == \A m \in Messages : copies[m] \in {0, 1}

(* An entry that a flush has listed is still in the queue, or another tab  *)
(* has taken it off.                                                       *)
Covered(t, m) == queue[m] # "absent" \/ givers[m] \ {t} # {}

ListedCovered ==
    \A t \in Tabs, m \in Messages :
        listed[t][m] # "absent" \/ item[t] = m => Covered(t, m)

OutboxInv ==
    OutboxTypeOK /\ ItemKnown /\ Untouched /\ AtMostOnce /\ ListedCovered /\ StatusTrue

-----------------------------------------------------------------------------
(* Initially nothing is queued.                                            *)
LEMMA OutboxInvInit == OutboxInit => OutboxInv
  BY OutboxAssumption
  DEF OutboxInit, OutboxInv, OutboxTypeOK, ItemKnown, Untouched, AtMostOnce, ListedCovered,
      StatusTrue, Pending, Entry, Status, Flushing, NoEntries, Busy

(* Types.                                                                  *)
LEMMA OutboxTypeStep ==
    ASSUME OutboxTypeOK, ItemKnown, OutboxNext PROVE OutboxTypeOK'
  <1> USE OutboxAssumption DEF OutboxTypeOK, Entry, Status, Flushing, NoEntries, Busy,
      wireVars
  <1>1. ASSUME NEW m \in Messages, HandledLate(m) PROVE OutboxTypeOK'
    BY <1>1 DEF HandledLate, CreateMessage, Recognized
  <1>2. ASSUME NEW t \in Tabs, NEW m \in Messages, Enqueue(t, m) PROVE OutboxTypeOK'
    BY <1>2 DEF Enqueue, FlushAsked
  <1>3. ASSUME NEW t \in Tabs, NEW m \in Messages, SendEntry(t, m) PROVE OutboxTypeOK'
    BY <1>3 DEF SendEntry
  <1>4. ASSUME NEW t \in Tabs, NEW m \in Messages, FrameArrives(t, m) PROVE OutboxTypeOK'
    BY <1>4 DEF FrameArrives
  <1>5. ASSUME NEW t \in Tabs, Retry(t) \/ ListEntries(t) \/ FlushDone(t) PROVE OutboxTypeOK'
    <2>1. CASE Retry(t)  BY <2>1 DEF Retry, FlushAsked
    <2>2. CASE ListEntries(t)  BY <2>2 DEF ListEntries
    <2>3. CASE FlushDone(t)  BY <2>3 DEF FlushDone
    <2> QED  BY <1>5, <2>1, <2>2, <2>3
  <1>6. ASSUME NEW t \in Tabs, Handled(t) PROVE OutboxTypeOK'
    BY <1>6 DEF ItemKnown, Handled, CreateMessage, Recognized
  <1>7. ASSUME NEW t \in Tabs, SendFails(t) PROVE OutboxTypeOK'
    BY <1>7 DEF ItemKnown, SendFails, Lose
  <1>8. ASSUME NEW t \in Tabs, Delivered(t) \/ Failed(t) PROVE OutboxTypeOK'
    <2>1. item[t] \in Messages  BY <1>8 DEF ItemKnown, Delivered, Failed
    <2>2. CASE Delivered(t)  BY <2>1, <2>2 DEF Delivered, EntryDone
    <2>3. CASE Failed(t)  BY <2>1, <2>3 DEF Failed, EntryDone
    <2> QED  BY <1>8, <2>2, <2>3
  <1>9. ASSUME NEW t \in Tabs, PageShown(t) PROVE OutboxTypeOK'
    BY <1>9 DEF PageShown
  <1>10. ASSUME NEW t \in Tabs, ReloadTab(t) PROVE OutboxTypeOK'
    BY <1>10 DEF ItemKnown, ReloadTab, Lose
  <1>11. ASSUME NEW t \in Tabs, TokenDropped(t) \/ TokenRefreshed(t) PROVE OutboxTypeOK'
    BY <1>11 DEF TokenDropped, TokenRefreshed, Lose
  <1> QED
    BY <1>1, <1>2, <1>3, <1>4, <1>5, <1>6, <1>7, <1>8, <1>9, <1>10, <1>11 DEF OutboxNext

(* A flush keeps its entry until it is done; a row is never deleted.       *)
LEMMA ItemKnownStep ==
    ASSUME OutboxTypeOK, ItemKnown, AtMostOnce, OutboxNext PROVE ItemKnown'
  <1> USE OutboxAssumption DEF OutboxTypeOK, wireVars, Entry, Status, Flushing, NoEntries, Busy,
      ItemKnown, AtMostOnce
  <1>1. ASSUME NEW m \in Messages, HandledLate(m) PROVE ItemKnown'
    BY <1>1 DEF HandledLate, CreateMessage, Recognized
  <1>2. ASSUME NEW t \in Tabs, NEW m \in Messages, Enqueue(t, m) PROVE ItemKnown'
    BY <1>2 DEF Enqueue, FlushAsked
  <1>3. ASSUME NEW t \in Tabs, NEW m \in Messages, SendEntry(t, m) PROVE ItemKnown'
    BY <1>3 DEF SendEntry
  <1>4. ASSUME NEW t \in Tabs, NEW m \in Messages, FrameArrives(t, m) PROVE ItemKnown'
    BY <1>4 DEF FrameArrives
  <1>5. ASSUME NEW t \in Tabs, Retry(t) PROVE ItemKnown'
    BY <1>5 DEF Retry, FlushAsked
  <1>6. ASSUME NEW t \in Tabs, ListEntries(t) PROVE ItemKnown'
    BY <1>6 DEF ListEntries
  <1>7. ASSUME NEW t \in Tabs, FlushDone(t) PROVE ItemKnown'
    BY <1>7 DEF FlushDone
  <1>8. ASSUME NEW t \in Tabs, Handled(t) PROVE ItemKnown'
    BY <1>8 DEF Handled, CreateMessage, Recognized
  <1>9. ASSUME NEW t \in Tabs, SendFails(t) PROVE ItemKnown'
    BY <1>9 DEF SendFails, Lose
  <1>10. ASSUME NEW t \in Tabs, Delivered(t) PROVE ItemKnown'
    BY <1>10 DEF Delivered, EntryDone
  <1>11. ASSUME NEW t \in Tabs, Failed(t) PROVE ItemKnown'
    BY <1>11 DEF Failed, EntryDone
  <1>12. ASSUME NEW t \in Tabs, PageShown(t) PROVE ItemKnown'
    BY <1>12 DEF PageShown
  <1>13. ASSUME NEW t \in Tabs, ReloadTab(t) PROVE ItemKnown'
    BY <1>13 DEF ReloadTab, Lose
  <1>14. ASSUME NEW t \in Tabs, TokenDropped(t) \/ TokenRefreshed(t) PROVE ItemKnown'
    BY <1>14 DEF TokenDropped, TokenRefreshed, Lose
  <1> QED
    BY <1>1, <1>2, <1>3, <1>4, <1>5, <1>6, <1>7, <1>8, <1>9, <1>10, <1>11, <1>12, <1>13, <1>14
    DEF OutboxNext

(* An entry leaves the queue only when the server has answered.            *)
LEMMA UntouchedStep ==
    ASSUME OutboxTypeOK, ItemKnown, Untouched, AtMostOnce, OutboxNext PROVE Untouched'
  <1> USE OutboxAssumption DEF OutboxTypeOK, wireVars, Entry, Status, Flushing, NoEntries, Busy,
      ItemKnown, Untouched, AtMostOnce
  <1>1. ASSUME NEW m \in Messages, HandledLate(m) PROVE Untouched'
    BY <1>1 DEF HandledLate, CreateMessage, Recognized
  <1>2. ASSUME NEW t \in Tabs, NEW m \in Messages, Enqueue(t, m) PROVE Untouched'
    BY <1>2 DEF Enqueue, FlushAsked
  <1>3. ASSUME NEW t \in Tabs, NEW m \in Messages, SendEntry(t, m) PROVE Untouched'
    BY <1>3 DEF SendEntry
  <1>4. ASSUME NEW t \in Tabs, NEW m \in Messages, FrameArrives(t, m) PROVE Untouched'
    BY <1>4 DEF FrameArrives
  <1>5. ASSUME NEW t \in Tabs, Retry(t) PROVE Untouched'
    BY <1>5 DEF Retry, FlushAsked
  <1>6. ASSUME NEW t \in Tabs, ListEntries(t) PROVE Untouched'
    BY <1>6 DEF ListEntries
  <1>7. ASSUME NEW t \in Tabs, FlushDone(t) PROVE Untouched'
    BY <1>7 DEF FlushDone
  <1>8. ASSUME NEW t \in Tabs, Handled(t) PROVE Untouched'
    BY <1>8 DEF Handled, CreateMessage, Recognized
  <1>9. ASSUME NEW t \in Tabs, SendFails(t) PROVE Untouched'
    BY <1>9 DEF SendFails, Lose
  <1>10. ASSUME NEW t \in Tabs, Delivered(t) PROVE Untouched'
    BY <1>10 DEF Delivered, EntryDone
  <1>11. ASSUME NEW t \in Tabs, Failed(t) PROVE Untouched'
    BY <1>11 DEF Failed, EntryDone
  <1>12. ASSUME NEW t \in Tabs, PageShown(t) PROVE Untouched'
    BY <1>12 DEF PageShown
  <1>13. ASSUME NEW t \in Tabs, ReloadTab(t) PROVE Untouched'
    BY <1>13 DEF ReloadTab, Lose
  <1>14. ASSUME NEW t \in Tabs, TokenDropped(t) \/ TokenRefreshed(t) PROVE Untouched'
    BY <1>14 DEF TokenDropped, TokenRefreshed, Lose
  <1> QED
    BY <1>1, <1>2, <1>3, <1>4, <1>5, <1>6, <1>7, <1>8, <1>9, <1>10, <1>11, <1>12, <1>13, <1>14
    DEF OutboxNext

(* The insert is skipped for a client_msg_id that is there.                *)
LEMMA AtMostOnceStep ==
    ASSUME OutboxTypeOK, ItemKnown, AtMostOnce, OutboxNext PROVE AtMostOnce'
  <1> USE OutboxAssumption DEF OutboxTypeOK, wireVars, Entry, Status, Flushing, NoEntries, Busy,
      ItemKnown, AtMostOnce
  <1>1. ASSUME NEW m \in Messages, HandledLate(m) PROVE AtMostOnce'
    BY <1>1 DEF HandledLate, CreateMessage, Recognized
  <1>2. ASSUME NEW t \in Tabs, NEW m \in Messages, Enqueue(t, m) PROVE AtMostOnce'
    BY <1>2 DEF Enqueue, FlushAsked
  <1>3. ASSUME NEW t \in Tabs, NEW m \in Messages, SendEntry(t, m) PROVE AtMostOnce'
    BY <1>3 DEF SendEntry
  <1>4. ASSUME NEW t \in Tabs, NEW m \in Messages, FrameArrives(t, m) PROVE AtMostOnce'
    BY <1>4 DEF FrameArrives
  <1>5. ASSUME NEW t \in Tabs, Retry(t) PROVE AtMostOnce'
    BY <1>5 DEF Retry, FlushAsked
  <1>6. ASSUME NEW t \in Tabs, ListEntries(t) PROVE AtMostOnce'
    BY <1>6 DEF ListEntries
  <1>7. ASSUME NEW t \in Tabs, FlushDone(t) PROVE AtMostOnce'
    BY <1>7 DEF FlushDone
  <1>8. ASSUME NEW t \in Tabs, Handled(t) PROVE AtMostOnce'
    BY <1>8 DEF Handled, CreateMessage, Recognized
  <1>9. ASSUME NEW t \in Tabs, SendFails(t) PROVE AtMostOnce'
    BY <1>9 DEF SendFails, Lose
  <1>10. ASSUME NEW t \in Tabs, Delivered(t) PROVE AtMostOnce'
    BY <1>10 DEF Delivered, EntryDone
  <1>11. ASSUME NEW t \in Tabs, Failed(t) PROVE AtMostOnce'
    BY <1>11 DEF Failed, EntryDone
  <1>12. ASSUME NEW t \in Tabs, PageShown(t) PROVE AtMostOnce'
    BY <1>12 DEF PageShown
  <1>13. ASSUME NEW t \in Tabs, ReloadTab(t) PROVE AtMostOnce'
    BY <1>13 DEF ReloadTab, Lose
  <1>14. ASSUME NEW t \in Tabs, TokenDropped(t) \/ TokenRefreshed(t) PROVE AtMostOnce'
    BY <1>14 DEF TokenDropped, TokenRefreshed, Lose
  <1> QED
    BY <1>1, <1>2, <1>3, <1>4, <1>5, <1>6, <1>7, <1>8, <1>9, <1>10, <1>11, <1>12, <1>13, <1>14
    DEF OutboxNext

(* A tab that takes an entry off the queue drops it from what it listed.   *)
LEMMA CoveredStep ==
    ASSUME OutboxTypeOK, ItemKnown, ListedCovered, OutboxNext PROVE ListedCovered'
  <1> USE OutboxAssumption DEF OutboxTypeOK, wireVars, Entry, Status, Flushing, NoEntries, Busy,
      ItemKnown, ListedCovered, Covered
  <1>1. ASSUME NEW m \in Messages, HandledLate(m) PROVE ListedCovered'
    BY <1>1 DEF HandledLate, CreateMessage, Recognized
  <1>2. ASSUME NEW t \in Tabs, NEW m \in Messages, Enqueue(t, m) PROVE ListedCovered'
    BY <1>2 DEF Enqueue, FlushAsked
  <1>3. ASSUME NEW t \in Tabs, NEW m \in Messages, SendEntry(t, m) PROVE ListedCovered'
    BY <1>3 DEF SendEntry
  <1>4. ASSUME NEW t \in Tabs, NEW m \in Messages, FrameArrives(t, m) PROVE ListedCovered'
    BY <1>4 DEF FrameArrives
  <1>5. ASSUME NEW t \in Tabs, Retry(t) PROVE ListedCovered'
    BY <1>5 DEF Retry, FlushAsked
  <1>6. ASSUME NEW t \in Tabs, ListEntries(t) PROVE ListedCovered'
    BY <1>6 DEF ListEntries
  <1>7. ASSUME NEW t \in Tabs, FlushDone(t) PROVE ListedCovered'
    BY <1>7 DEF FlushDone
  <1>8. ASSUME NEW t \in Tabs, Handled(t) PROVE ListedCovered'
    BY <1>8 DEF Handled, CreateMessage, Recognized
  <1>9. ASSUME NEW t \in Tabs, SendFails(t) PROVE ListedCovered'
    BY <1>9 DEF SendFails, Lose
  <1>10. ASSUME NEW t \in Tabs, Delivered(t) PROVE ListedCovered'
    BY <1>10 DEF Delivered, EntryDone
  <1>11. ASSUME NEW t \in Tabs, Failed(t) PROVE ListedCovered'
    BY <1>11 DEF Failed, EntryDone
  <1>12. ASSUME NEW t \in Tabs, PageShown(t) PROVE ListedCovered'
    BY <1>12 DEF PageShown
  <1>13. ASSUME NEW t \in Tabs, ReloadTab(t) PROVE ListedCovered'
    BY <1>13 DEF ReloadTab, Lose
  <1>14. ASSUME NEW t \in Tabs, TokenDropped(t) \/ TokenRefreshed(t) PROVE ListedCovered'
    BY <1>14 DEF TokenDropped, TokenRefreshed, Lose
  <1> QED
    BY <1>1, <1>2, <1>3, <1>4, <1>5, <1>6, <1>7, <1>8, <1>9, <1>10, <1>11, <1>12, <1>13, <1>14
    DEF OutboxNext

(* A tab is told of what it has taken off itself, and of each failure.     *)
LEMMA StatusStep ==
    ASSUME OutboxTypeOK, ItemKnown, ListedCovered, StatusTrue, OutboxNext PROVE StatusTrue'
  <1> USE OutboxAssumption DEF OutboxTypeOK, wireVars, Entry, Status, Flushing, NoEntries, Busy,
      ItemKnown, ListedCovered, Covered, StatusTrue, Pending
  <1>1. ASSUME NEW m \in Messages, HandledLate(m) PROVE StatusTrue'
    BY <1>1 DEF HandledLate, CreateMessage, Recognized
  <1>2. ASSUME NEW t \in Tabs, NEW m \in Messages, Enqueue(t, m) PROVE StatusTrue'
    BY <1>2 DEF Enqueue, FlushAsked
  <1>3. ASSUME NEW t \in Tabs, NEW m \in Messages, SendEntry(t, m) PROVE StatusTrue'
    BY <1>3 DEF SendEntry
  <1>4. ASSUME NEW t \in Tabs, NEW m \in Messages, FrameArrives(t, m) PROVE StatusTrue'
    BY <1>4 DEF FrameArrives
  <1>5. ASSUME NEW t \in Tabs, Retry(t) PROVE StatusTrue'
    BY <1>5 DEF Retry, FlushAsked
  <1>6. ASSUME NEW t \in Tabs, ListEntries(t) PROVE StatusTrue'
    BY <1>6 DEF ListEntries
  <1>7. ASSUME NEW t \in Tabs, FlushDone(t) PROVE StatusTrue'
    BY <1>7 DEF FlushDone
  <1>8. ASSUME NEW t \in Tabs, Handled(t) PROVE StatusTrue'
    BY <1>8 DEF Handled, CreateMessage, Recognized
  <1>9. ASSUME NEW t \in Tabs, SendFails(t) PROVE StatusTrue'
    BY <1>9 DEF SendFails, Lose
  <1>10. ASSUME NEW t \in Tabs, Delivered(t) PROVE StatusTrue'
    BY <1>10 DEF Delivered, EntryDone
  <1>11. ASSUME NEW t \in Tabs, Failed(t) PROVE StatusTrue'
    BY <1>11 DEF Failed, EntryDone
  <1>12. ASSUME NEW t \in Tabs, PageShown(t) PROVE StatusTrue'
    BY <1>12 DEF PageShown
  <1>13. ASSUME NEW t \in Tabs, ReloadTab(t) PROVE StatusTrue'
    BY <1>13 DEF ReloadTab, Lose
  <1>14. ASSUME NEW t \in Tabs, TokenDropped(t) \/ TokenRefreshed(t) PROVE StatusTrue'
    BY <1>14 DEF TokenDropped, TokenRefreshed, Lose
  <1> QED
    BY <1>1, <1>2, <1>3, <1>4, <1>5, <1>6, <1>7, <1>8, <1>9, <1>10, <1>11, <1>12, <1>13, <1>14
    DEF OutboxNext

(* Every step preserves the invariant.                                     *)
LEMMA OutboxInvStep == OutboxInv /\ [OutboxNext]_outboxVars => OutboxInv'
  <1> SUFFICES ASSUME OutboxInv, [OutboxNext]_outboxVars PROVE OutboxInv'  OBVIOUS
  <1>1. CASE OutboxNext
    BY <1>1, OutboxTypeStep, ItemKnownStep, UntouchedStep, AtMostOnceStep, CoveredStep,
       StatusStep DEF OutboxInv
  <1>2. CASE UNCHANGED outboxVars
    BY <1>2 DEF outboxVars, wireVars, OutboxInv, OutboxTypeOK, ItemKnown, Untouched,
       AtMostOnce, ListedCovered, Covered, StatusTrue, Pending, Busy
  <1> QED  BY <1>1, <1>2

-----------------------------------------------------------------------------
(* No tab ever shows a message as under way, or as failed with a retry,    *)
(* that has no entry any more, whatever tabs flush at a time; and what it  *)
(* rests on (flush and its callbacks in outbox.ts).                        *)
THEOREM OutboxCorrect == OutboxSpec => []OutboxInv
  BY OutboxInvInit, OutboxInvStep, PTL DEF OutboxSpec

(* The status of a message is never left wrong by this tab.                *)
THEOREM StatusStaysTrue == OutboxSpec => []StatusTrue
  <1>1. OutboxInv => StatusTrue  BY DEF OutboxInv
  <1> QED  BY <1>1, OutboxCorrect, PTL

(* The state of a message under the mapping.                               *)
LEMMA Mapped ==
    ASSUME OutboxInv, NEW m \in Messages
    PROVE  DeliveryOf(m) = IF copies[m] = 1 THEN "posted"
                           ELSE IF queue[m] = "absent" THEN "unsent" ELSE "accepted"
  <1>1. copies[m] = 0 \/ copies[m] = 1  BY DEF OutboxInv, AtMostOnce
  <1>2. CASE copies[m] = 0  BY <1>2 DEF DeliveryOf
  <1>3. CASE copies[m] = 1  BY <1>3 DEF DeliveryOf
  <1> QED  BY <1>1, <1>2, <1>3

(* What an action may do to a message, in terms of the promise: nothing,   *)
(* to accept it, or to post it.                                            *)
Promised ==
    \A m \in Messages :
        DeliveryOf(m)' # DeliveryOf(m) =>
            /\ \/ DeliveryOf(m) = "unsent" /\ DeliveryOf(m)' = "accepted"
               \/ DeliveryOf(m) = "accepted" /\ DeliveryOf(m)' = "posted"
            /\ \A n \in Messages \ {m} : DeliveryOf(n)' = DeliveryOf(n)

LEMMA StepPromised ==
    ASSUME OutboxInv, OutboxInv', OutboxNext PROVE Promised
  <1> DEFINE Of(q, c) ==
        IF c = 1 THEN "posted" ELSE IF q = "absent" THEN "unsent" ELSE "accepted"
  <1>a. \A m \in Messages : DeliveryOf(m) = Of(queue[m], copies[m])  BY Mapped
  <1>b. \A m \in Messages : DeliveryOf(m)' = Of(queue'[m], copies'[m])
    <2> SUFFICES ASSUME NEW m \in Messages
                 PROVE  DeliveryOf(m)' = Of(queue'[m], copies'[m])
      OBVIOUS
    <2>1. copies'[m] = 0 \/ copies'[m] = 1  BY DEF OutboxInv, AtMostOnce
    <2>2. CASE copies'[m] = 0  BY <2>2 DEF DeliveryOf
    <2>3. CASE copies'[m] = 1  BY <2>3 DEF DeliveryOf
    <2> QED  BY <2>1, <2>2, <2>3
  <1> USE DEF OutboxInv, OutboxTypeOK, ItemKnown, Untouched, AtMostOnce, Busy, Entry, wireVars
  <1>1. ASSUME NEW m \in Messages, HandledLate(m) PROVE Promised
    BY <1>1, <1>a, <1>b DEF Promised, HandledLate, CreateMessage, Recognized
  <1>2. ASSUME NEW t \in Tabs, NEW m \in Messages, Enqueue(t, m) PROVE Promised
    BY <1>2, <1>a, <1>b DEF Promised, Enqueue, Posted
  <1>3. ASSUME NEW t \in Tabs, Handled(t) PROVE Promised
    BY <1>3, <1>a, <1>b DEF Promised, Handled, CreateMessage, Recognized
  <1>4. ASSUME NEW t \in Tabs, Delivered(t) PROVE Promised
    BY <1>4, <1>a, <1>b DEF Promised, Delivered
  <1>5. ASSUME NEW t \in Tabs, Failed(t) PROVE Promised
    BY <1>5, <1>a, <1>b DEF Promised, Failed
  <1>6. ASSUME UNCHANGED <<queue, copies>> PROVE Promised
    BY <1>6, <1>a, <1>b DEF Promised
  <1>7. ASSUME NEW t \in Tabs, NEW m \in Messages, SendEntry(t, m) \/ FrameArrives(t, m)
        PROVE  UNCHANGED <<queue, copies>>
    BY <1>7 DEF SendEntry, FrameArrives
  <1>8. ASSUME NEW t \in Tabs, Retry(t) \/ ListEntries(t) \/ FlushDone(t) \/ SendFails(t)
        PROVE  UNCHANGED <<queue, copies>>
    BY <1>8 DEF Retry, ListEntries, FlushDone, SendFails
  <1>9. ASSUME NEW t \in Tabs,
               PageShown(t) \/ ReloadTab(t) \/ TokenDropped(t) \/ TokenRefreshed(t)
        PROVE  UNCHANGED <<queue, copies>>
    BY <1>9 DEF PageShown, ReloadTab, TokenDropped, TokenRefreshed
  <1> QED
    BY <1>1, <1>2, <1>3, <1>4, <1>5, <1>6, <1>7, <1>8, <1>9 DEF OutboxNext

(* The refinement mapping, as a function of the messages.                  *)
Mapping == [m \in Messages |-> DeliveryOf(m)]

LEMMA PromiseInit == OutboxInit => Promise!Init
  BY DEF OutboxInit, Promise!Init, DeliveryOf, NoEntries

LEMMA PromiseStep ==
    ASSUME OutboxInv, OutboxInv', [OutboxNext]_outboxVars PROVE [Promise!Next]_Mapping
  <1>1. CASE OutboxNext
    <2>1. Promised  BY <1>1, StepPromised
    <2>2. CASE \A m \in Messages : DeliveryOf(m)' = DeliveryOf(m)
      BY <2>2 DEF Mapping
    <2>3. ASSUME NEW m \in Messages, DeliveryOf(m)' # DeliveryOf(m) PROVE Promise!Next
      <3>1. \A n \in Messages \ {m} : DeliveryOf(n)' = DeliveryOf(n)
        BY <2>1, <2>3 DEF Promised
      <3>2. Mapping' = [Mapping EXCEPT ![m] = DeliveryOf(m)']
        BY <3>1 DEF Mapping
      <3>3. Promise!Accept(m) \/ Promise!Post(m)
        BY <2>1, <2>3, <3>2 DEF Promised, Mapping, Promise!Accept, Promise!Post
      <3> QED  BY <3>3 DEF Promise!Next
    <2> QED  BY <2>2, <2>3
  <1>2. CASE UNCHANGED outboxVars
    BY <1>2 DEF outboxVars, wireVars, Mapping, DeliveryOf
  <1> QED  BY <1>1, <1>2

(* A message is accepted once and posted once: Outbox implements           *)
(* MessageDelivery.                                                        *)
THEOREM OutboxKeepsPromise == OutboxSpec => PostedOnce
  <1>1. OutboxInv /\ OutboxInv' /\ [OutboxNext]_outboxVars => [Promise!Next]_Mapping
    BY PromiseStep
  <1> QED
    BY <1>1, OutboxCorrect, PromiseInit, PTL
    DEF OutboxSpec, PostedOnce, Promise!Spec, Mapping

-----------------------------------------------------------------------------

(* Only the session that was issued last can be live.                      *)
LastIsLive == issued \in Nat /\ Live \subseteq {issued}

LEMMA LastIsLiveInit == SessionInit => LastIsLive
  BY DEF SessionInit, LastIsLive, Live

LEMMA LastIsLiveStep == LastIsLive /\ [SessionNext]_sessionVars => LastIsLive'
  <1> SUFFICES ASSUME LastIsLive, [SessionNext]_sessionVars PROVE LastIsLive'  OBVIOUS
  <1> USE DEF LastIsLive, Live
  <1>1. ASSUME NEW t \in Pages, Rotate(t) PROVE LastIsLive'
    BY <1>1 DEF Rotate
  <1>2. ASSUME NEW t \in Pages, RotateReused(t) PROVE LastIsLive'
    BY <1>2 DEF RotateReused
  <1>3. ASSUME NEW t \in Pages, LoggedOut(t) PROVE LastIsLive'
    BY <1>3 DEF LoggedOut
  <1>4. ASSUME EndedElsewhere PROVE LastIsLive'
    BY <1>4 DEF EndedElsewhere
  <1>5. ASSUME NEW s \in Pages, NEW t \in Pages,
               BroadcastArrives(s, t) \/ LockGranted(t) \/ UseShared(t) \/ AskServer(t)
        PROVE  UNCHANGED <<issued, revoked>>
    BY <1>5 DEF BroadcastArrives, LockGranted, UseShared, AskServer, serverVars
  <1>6. ASSUME NEW t \in Pages, NoCookie(t) \/ Refreshed(t) \/ Denied(t) \/ AnswerLost(t)
        PROVE  UNCHANGED <<issued, revoked>>
    BY <1>6 DEF NoCookie, Refreshed, Denied, AnswerLost, serverVars
  <1>7. ASSUME NEW t \in Pages,
               \/ SendRequest(t) \/ RequestEnds(t) \/ Unauthorized(t) \/ LogoutLet(t)
               \/ SocketClosed(t) \/ Connect(t)
        PROVE  UNCHANGED <<issued, revoked>>
    BY <1>7
    DEF SendRequest, RequestEnds, Unauthorized, LogoutLet, SocketClosed, Connect, serverVars
  <1>8. ASSUME AccessLapses PROVE UNCHANGED <<issued, revoked>>  BY <1>8 DEF AccessLapses
  <1>9. CASE UNCHANGED sessionVars  BY <1>9 DEF sessionVars, serverVars
  <1>10. ASSUME UNCHANGED <<issued, revoked>> PROVE LastIsLive'  BY <1>10
  <1> QED
    BY <1>1, <1>2, <1>3, <1>4, <1>5, <1>6, <1>7, <1>8, <1>9, <1>10 DEF SessionNext

(* However rotations, logouts and revocations overlap, at most one session *)
(* of a family is live (RotateSession under the lock of its row).          *)
THEOREM AtMostOneLive == SessionSpec => []OneLive
  <1>1. LastIsLive => OneLive  BY DEF LastIsLive, OneLive
  <1> QED  BY <1>1, LastIsLiveInit, LastIsLiveStep, PTL DEF SessionSpec

-----------------------------------------------------------------------------
(* While nothing is lost and nobody signs out: who is past the wait for    *)
(* the lock is the head of its queue, what it carries is the newest        *)
(* session, and the cookie is behind it only until its answer arrives.     *)
Holds(t) == step[t] \notin {"idle", "wait"}

Steps == {"idle", "wait", "check", "ask", "answered", "denied"}
Requests == {"none", "sent", "again", "held", "let"}

UnderLock ==
    /\ ~reused
    /\ issued \notin revoked
    /\ \A t \in Pages : step[t] # "denied" /\ request[t] # "let"
    /\ \A t \in Pages : Holds(t) => waiting # <<>> /\ Head(waiting) = t
    /\ \A t \in Pages : step[t] \in {"ask", "answered"} => carries[t] = issued
    /\ (\A t \in Pages : step[t] # "answered") => cookie = issued

LockTypes ==
    /\ issued \in Nat /\ issued > 0 /\ revoked \subseteq 1..issued /\ cookie \in Nat
    /\ waiting \in Seq(Pages) /\ step \in [Pages -> Steps]
    /\ carries \in [Pages -> Nat] /\ request \in [Pages -> Requests]

LockInv == mishaps \in Nat /\ ((Locks /\ mishaps = 0) => LockTypes /\ UnderLock)

LEMMA LockInvInit == SessionInit => LockInv
  <1> SUFFICES ASSUME SessionInit PROVE LockInv  OBVIOUS
  <1>1. /\ issued = 1 /\ revoked = {} /\ mishaps = 0 /\ waiting = <<>> /\ cookie = 1
        /\ ~reused /\ \A t \in Pages : step[t] = "idle" /\ request[t] = "none"
    BY DEF SessionInit
  <1>2. /\ step \in [Pages -> Steps] /\ carries \in [Pages -> Nat]
        /\ request \in [Pages -> Requests]
    BY DEF SessionInit, Steps, Requests
  <1>3. waiting \in Seq(Pages)  BY <1>1
  <1> QED  BY <1>1, <1>2, <1>3 DEF LockInv, LockTypes, UnderLock, Holds

(* Asking for a refresh leaves the holder of the lock where it is, and     *)
(* nobody comes to hold it.                                                *)
LEMMA AskedKeepsHolder ==
  ASSUME NEW t \in Pages, LockTypes, RefreshAsked(t)
  PROVE  /\ waiting' \in Seq(Pages) /\ step' \in [Pages -> Steps] /\ carries' = carries
         /\ Locks => \A u \in Pages : step'[u] = step[u] \/ step'[u] = "wait"
         /\ waiting # <<>> => waiting' # <<>> /\ Head(waiting') = Head(waiting)
  <1>1. CASE step[t] # "idle"  BY <1>1 DEF RefreshAsked, lockVars, LockTypes
  <1>2. CASE step[t] = "idle"
    <2>1. /\ waiting' = IF Locks THEN Append(waiting, t) ELSE waiting
          /\ step' = [step EXCEPT ![t] = IF Locks THEN "wait" ELSE "check"]
          /\ carries' = carries
      BY <1>2 DEF RefreshAsked
    <2>2. /\ waiting' \in Seq(Pages)
          /\ waiting # <<>> => waiting' # <<>> /\ Head(waiting') = Head(waiting)
      <3>1. waiting \in Seq(Pages)  BY DEF LockTypes
      <3>2. CASE ~Locks  BY <2>1, <3>1, <3>2
      <3>3. CASE Locks
        <4>1. waiting' = Append(waiting, t)  BY <2>1, <3>3
        <4>2. /\ waiting' \in Seq(Pages) /\ Len(waiting') = Len(waiting) + 1
              /\ waiting # <<>> => waiting'[1] = waiting[1]
          BY <3>1, <4>1, AppendProperties
        <4> QED  BY <3>1, <4>2, HeadTailProperties, EmptySeq
      <3> QED  BY <3>2, <3>3
    <2>3. step' \in [Pages -> Steps]  BY <2>1 DEF LockTypes, Steps
    <2>4. Locks => \A u \in Pages : step'[u] = step[u] \/ step'[u] = "wait"
      BY <2>1 DEF LockTypes
    <2> QED  BY <2>1, <2>2, <2>3, <2>4
  <1> QED  BY <1>1, <1>2

(* So such a step, which touches nothing the server or the cookie jar      *)
(* keeps and authenticates no logout, preserves the invariant.             *)
LEMMA AskedKeepsUnderLock ==
  ASSUME NEW t \in Pages, LockTypes, UnderLock, Locks, RefreshAsked(t),
         UNCHANGED <<issued, revoked, reused, cookie>>,
         \A u \in Pages : request'[u] # "let"
  PROVE  UnderLock'
  <1>1. \A u \in Pages : Holds(u) => step'[u] = step[u]
    BY DEF Holds, RefreshAsked, lockVars, LockTypes
  <1>2. \A u \in Pages : Holds(u)' => Holds(u) /\ step'[u] = step[u]
    BY AskedKeepsHolder DEF Holds
  <1>3. \A u \in Pages : Holds(u)' => waiting' # <<>> /\ Head(waiting') = u
    BY <1>2, AskedKeepsHolder DEF UnderLock
  <1>4. \A u \in Pages : step'[u] \in {"ask", "answered", "denied"} => step[u] = step'[u]
    BY <1>2 DEF Holds
  <1>5. (\A u \in Pages : step'[u] # "answered") => \A u \in Pages : step[u] # "answered"
    BY <1>1 DEF Holds
  <1> QED  BY <1>3, <1>4, <1>5, AskedKeepsHolder DEF UnderLock

(* The end of a refresh frees the lock.                                    *)
LEMMA OverKeepsUnderLock ==
  ASSUME NEW t \in Pages, LockTypes, UnderLock, Locks, Holds(t), RefreshOver(t),
         UNCHANGED <<issued, revoked, reused>>,
         cookie' = IF step[t] = "answered" THEN carries[t] ELSE cookie,
         \A u \in Pages : request'[u] # "let"
  PROVE  UnderLock'
  <1>1. \A u \in Pages : Holds(u) => u = t  BY DEF UnderLock
  <1>2. \A u \in Pages : step'[u] = IF u = t THEN "idle" ELSE step[u]
    BY DEF RefreshOver, LockTypes
  <1>3. \A u \in Pages : ~Holds(u)'  BY <1>1, <1>2 DEF Holds
  <1>4. cookie' = issued
    <2>1. CASE step[t] = "answered"  BY <2>1 DEF UnderLock
    <2>2. CASE step[t] # "answered"
      <3>1. \A u \in Pages : step[u] # "answered"  BY <1>1, <2>2 DEF Holds
      <3> QED  BY <2>2, <3>1 DEF UnderLock
    <2> QED  BY <2>1, <2>2
  <1>5. \A u \in Pages : step'[u] \notin {"ask", "answered", "denied"}  BY <1>3 DEF Holds
  <1> QED  BY <1>3, <1>4, <1>5 DEF UnderLock

LEMMA OverKeepsTypes ==
  ASSUME NEW t \in Pages, LockTypes, UnderLock, Locks, Holds(t), RefreshOver(t)
  PROVE  /\ waiting' \in Seq(Pages) /\ step' \in [Pages -> Steps]
         /\ carries' \in [Pages -> Nat]
  <1>1. waiting \in Seq(Pages) /\ waiting # <<>>  BY DEF LockTypes, UnderLock
  <1>2. waiting' \in Seq(Pages)  BY <1>1, HeadTailProperties DEF RefreshOver
  <1>3. step' = [step EXCEPT ![t] = "idle"] /\ carries' = [carries EXCEPT ![t] = 0]
    BY DEF RefreshOver
  <1> QED  BY <1>2, <1>3 DEF LockTypes, Steps

(* Requests other than a logout, while a refresh holds or releases them.   *)
LEMMA GoOnKeeps ==
  ASSUME NEW t \in Pages, NEW with, LockTypes, GoOn(t, with)
  PROVE  /\ request' \in [Pages -> Requests]
         /\ \A u \in Pages : request'[u] = request[u] \/ request'[u] = "again"
  <1>1. request \in [Pages -> Requests] /\ "again" \in Requests  BY DEF LockTypes, Requests
  <1>2. request' = request \/ request' = [request EXCEPT ![t] = "again"]
    BY DEF GoOn, requestVars
  <1> QED  BY <1>1, <1>2

(* Steps that move neither the lock nor the server nor the cookie.         *)
LEMMA IdleKeeps ==
  ASSUME LockTypes, UnderLock,
         UNCHANGED <<issued, revoked, reused, cookie, waiting, step, carries>>,
         request' \in [Pages -> Requests], \A u \in Pages : request'[u] # "let"
  PROVE  LockTypes' /\ UnderLock'
  BY DEF LockTypes, UnderLock, Holds

LEMMA AskedKeeps ==
  ASSUME NEW t \in Pages, LockTypes, UnderLock, Locks, RefreshAsked(t),
         UNCHANGED <<issued, revoked, reused, cookie>>,
         request' \in [Pages -> Requests], \A u \in Pages : request'[u] # "let"
  PROVE  LockTypes' /\ UnderLock'
  <1>1. UnderLock'  BY AskedKeepsUnderLock
  <1>2. LockTypes'  BY AskedKeepsHolder DEF LockTypes
  <1> QED  BY <1>1, <1>2

LEMMA OverKeeps ==
  ASSUME NEW t \in Pages, NEW with, LockTypes, UnderLock, Locks, Holds(t),
         RefreshOver(t), GoOn(t, with),
         UNCHANGED <<issued, revoked, reused>>,
         cookie' = IF step[t] = "answered" THEN carries[t] ELSE cookie
  PROVE  LockTypes' /\ UnderLock'
  <1>1. /\ request' \in [Pages -> Requests]
        /\ \A u \in Pages : request'[u] # "let"
    BY GoOnKeeps DEF UnderLock
  <1>2. UnderLock'  BY <1>1, OverKeepsUnderLock
  <1>3. LockTypes'  BY <1>1, OverKeepsTypes DEF LockTypes
  <1> QED  BY <1>2, <1>3

(* Every step, by action: those with a mishap are excluded, and so is what *)
(* only comes of one.                                                      *)
LEMMA UnderLockStep ==
  ASSUME LockTypes, UnderLock, Locks, mishaps \in Nat, mishaps = 0, mishaps' = 0,
         [SessionNext]_sessionVars
  PROVE  LockTypes' /\ UnderLock'
  <1>1. ASSUME AccessLapses PROVE LockTypes' /\ UnderLock'
    BY <1>1, IdleKeeps DEF AccessLapses, lockVars, requestVars, LockTypes, UnderLock
  <1>2. ASSUME NEW s \in Pages, NEW t \in Pages, BroadcastArrives(s, t)
        PROVE  LockTypes' /\ UnderLock'
    BY <1>2, IdleKeeps
    DEF BroadcastArrives, serverVars, lockVars, requestVars, LockTypes, UnderLock
  <1>3. ASSUME NEW t \in Pages, LockGranted(t) PROVE LockTypes' /\ UnderLock'
    <2>1. /\ step[t] = "wait" /\ waiting # <<>> /\ Head(waiting) = t
          /\ step' = [step EXCEPT ![t] = "check"]
          /\ UNCHANGED <<issued, revoked, reused, cookie, waiting, carries, request>>
      BY <1>3 DEF LockGranted, serverVars, requestVars
    <2>2. \A u \in Pages : step'[u] = IF u = t THEN "check" ELSE step[u]
      BY <2>1 DEF LockTypes
    <2>3. \A u \in Pages : ~Holds(u)  BY <2>1 DEF UnderLock, Holds
    <2>4. step' \in [Pages -> Steps]  BY <2>1 DEF LockTypes, Steps
    <2>5. (\A u \in Pages : step[u] # "answered")  BY <2>3 DEF Holds
    <2>6. UnderLock'
      <3>1. \A u \in Pages : Holds(u)' => u = t  BY <2>2, <2>3 DEF Holds
      <3>2. cookie' = issued' /\ issued' \notin revoked' /\ ~reused'
        BY <2>1, <2>5 DEF UnderLock
      <3>3. \A u \in Pages : step'[u] \notin {"ask", "answered", "denied"}
        BY <2>2, <2>3 DEF Holds
      <3> QED  BY <2>1, <3>1, <3>2, <3>3 DEF UnderLock
    <2> QED  BY <2>1, <2>4, <2>6 DEF LockTypes
  <1>4. ASSUME NEW t \in Pages, UseShared(t) PROVE LockTypes' /\ UnderLock'
    <2>1. /\ step[t] = "check" /\ GoOn(t, shared[t]) /\ RefreshOver(t)
          /\ UNCHANGED <<issued, revoked, reused, cookie>>
      BY <1>4 DEF UseShared, serverVars
    <2> QED  BY <2>1, OverKeeps DEF Holds
  <1>5. ASSUME NEW t \in Pages, AskServer(t) PROVE LockTypes' /\ UnderLock'
    <2>1. /\ step[t] = "check" /\ step' = [step EXCEPT ![t] = "ask"]
          /\ carries' = [carries EXCEPT ![t] = cookie]
          /\ UNCHANGED <<issued, revoked, reused, cookie, waiting, request>>
      BY <1>5 DEF AskServer, serverVars, requestVars
    <2>2. \A u \in Pages : Holds(u) => u = t  BY <2>1 DEF UnderLock, Holds
    <2>3. cookie = issued  BY <2>1, <2>2 DEF UnderLock, Holds
    <2>4. \A u \in Pages : step'[u] = IF u = t THEN "ask" ELSE step[u]
      BY <2>1 DEF LockTypes
    <2>5. carries'[t] = issued  BY <2>1, <2>3 DEF LockTypes
    <2>6. UnderLock'
      <3>1. \A u \in Pages : Holds(u)' => u = t  BY <2>2, <2>4 DEF Holds
      <3>2. Holds(t)  BY <2>1 DEF Holds
      <3>3. \A u \in Pages : step'[u] \in {"ask", "answered"} => u = t  BY <3>1 DEF Holds
      <3>4. \A u \in Pages : step'[u] # "denied"  BY <2>4 DEF UnderLock
      <3> QED  BY <2>1, <2>3, <2>5, <3>1, <3>2, <3>3, <3>4 DEF UnderLock
    <2>7. step' \in [Pages -> Steps] /\ carries' \in [Pages -> Nat]
      BY <2>1 DEF LockTypes, Steps
    <2> QED  BY <2>1, <2>6, <2>7 DEF LockTypes
  <1>6. ASSUME NEW t \in Pages, Rotate(t) PROVE LockTypes' /\ UnderLock'
    <2>1. /\ step[t] = "ask" /\ issued' = issued + 1
          /\ revoked' = revoked \cup {carries[t]}
          /\ carries' = [carries EXCEPT ![t] = issued + 1]
          /\ step' = [step EXCEPT ![t] = "answered"]
          /\ UNCHANGED <<reused, cookie, waiting, request>>
      BY <1>6 DEF Rotate, requestVars
    <2>2. carries[t] = issued  BY <2>1 DEF UnderLock
    <2>3. \A u \in Pages : Holds(u) => u = t  BY <2>1 DEF UnderLock, Holds
    <2>4. \A u \in Pages : step'[u] = IF u = t THEN "answered" ELSE step[u]
      BY <2>1 DEF LockTypes
    <2>5. carries'[t] = issued'  BY <2>1 DEF LockTypes
    <2>6. issued' \notin revoked' /\ revoked' \subseteq 1..issued'
      BY <2>1, <2>2 DEF LockTypes
    <2>7. UnderLock'
      <3>1. \A u \in Pages : Holds(u)' => u = t  BY <2>3, <2>4 DEF Holds
      <3>2. Holds(t)  BY <2>1 DEF Holds
      <3>3. \A u \in Pages : step'[u] \in {"ask", "answered"} => u = t  BY <3>1 DEF Holds
      <3>4. \A u \in Pages : step'[u] # "denied"  BY <2>4 DEF UnderLock
      <3>5. step'[t] = "answered"  BY <2>4
      <3> QED  BY <2>1, <2>5, <2>6, <3>1, <3>2, <3>3, <3>4, <3>5 DEF UnderLock
    <2>8. /\ step' \in [Pages -> Steps] /\ carries' \in [Pages -> Nat]
          /\ issued' \in Nat /\ issued' > 0
      BY <2>1 DEF LockTypes, Steps
    <2> QED  BY <2>1, <2>6, <2>7, <2>8 DEF LockTypes
  <1>7. ASSUME NEW t \in Pages, RotateReused(t) \/ NoCookie(t) PROVE FALSE
    BY <1>7 DEF RotateReused, NoCookie, LockTypes, UnderLock
  <1>8. ASSUME NEW t \in Pages, Refreshed(t) PROVE LockTypes' /\ UnderLock'
    <2>1. /\ step[t] = "answered" /\ GoOn(t, carries[t]) /\ RefreshOver(t)
          /\ cookie' = carries[t] /\ UNCHANGED <<issued, revoked, reused>>
      BY <1>8 DEF Refreshed, serverVars
    <2> QED  BY <2>1, OverKeeps DEF Holds
  <1>9. ASSUME NEW t \in Pages, Denied(t) \/ LoggedOut(t) PROVE FALSE
    BY <1>9 DEF Denied, LoggedOut, UnderLock
  <1>10. ASSUME Mishap PROVE FALSE  BY <1>10 DEF Mishap
  <1>11. ASSUME NEW t \in Pages, SendRequest(t) \/ RequestEnds(t)
         PROVE  LockTypes' /\ UnderLock'
    <2>1. /\ UNCHANGED <<issued, revoked, reused, cookie, waiting, step, carries>>
          /\ \/ request' = [request EXCEPT ![t] = "sent"]
             \/ request' = [request EXCEPT ![t] = "none"]
      BY <1>11 DEF SendRequest, RequestEnds, serverVars, lockVars
    <2>2. request' \in [Pages -> Requests] /\ \A u \in Pages : request'[u] # "let"
      BY <2>1 DEF LockTypes, Requests, UnderLock
    <2> QED  BY <2>1, <2>2, IdleKeeps
  <1>12. ASSUME NEW t \in Pages, Unauthorized(t) PROVE LockTypes' /\ UnderLock'
    <2>1. /\ request' = [request EXCEPT ![t] = "held"] /\ RefreshAsked(t)
          /\ UNCHANGED <<issued, revoked, reused, cookie>>
      BY <1>12 DEF Unauthorized, serverVars
    <2>2. request' \in [Pages -> Requests] /\ \A u \in Pages : request'[u] # "let"
      BY <2>1 DEF LockTypes, Requests, UnderLock
    <2> QED  BY <2>1, <2>2, AskedKeeps
  <1>13. ASSUME NEW t \in Pages, SocketClosed(t) \/ Connect(t)
         PROVE  LockTypes' /\ UnderLock'
    <2>1. /\ UNCHANGED <<issued, revoked, reused, cookie, request>>
          /\ RefreshAsked(t) \/ UNCHANGED <<waiting, step, carries>>
      BY <1>13 DEF SocketClosed, Connect, serverVars, requestVars, lockVars
    <2>2. request' \in [Pages -> Requests] /\ \A u \in Pages : request'[u] # "let"
      BY <2>1 DEF LockTypes, UnderLock
    <2> QED  BY <2>1, <2>2, AskedKeeps, IdleKeeps
  <1>14. ASSUME EndedElsewhere \/ \E t \in Pages : AnswerLost(t) \/ LogoutLet(t) PROVE FALSE
    BY <1>10, <1>14 DEF EndedElsewhere, AnswerLost, LogoutLet
  <1>15. CASE UNCHANGED sessionVars
    BY <1>15, IdleKeeps
    DEF sessionVars, serverVars, lockVars, requestVars, LockTypes, UnderLock
  <1> QED
    BY <1>1, <1>2, <1>3, <1>4, <1>5, <1>6, <1>7, <1>8, <1>9, <1>11, <1>12, <1>13, <1>14,
       <1>15
    DEF SessionNext

LEMMA MishapsCount ==
  ASSUME mishaps \in Nat, [SessionNext]_sessionVars
  PROVE  mishaps' \in Nat /\ (mishaps' = 0 => mishaps = 0)
  <1> SUFFICES mishaps' = mishaps \/ mishaps' = mishaps + 1  OBVIOUS
  <1>1. ASSUME AccessLapses \/ EndedElsewhere PROVE mishaps' \in {mishaps, mishaps + 1}
    BY <1>1 DEF AccessLapses, EndedElsewhere, Mishap
  <1>2. ASSUME NEW s \in Pages, NEW t \in Pages, BroadcastArrives(s, t)
        PROVE  mishaps' = mishaps
    BY <1>2 DEF BroadcastArrives
  <1>3. ASSUME NEW t \in Pages, LockGranted(t) \/ UseShared(t) \/ AskServer(t)
        PROVE  mishaps' = mishaps
    BY <1>3 DEF LockGranted, UseShared, AskServer
  <1>4. ASSUME NEW t \in Pages, Rotate(t) \/ RotateReused(t) \/ NoCookie(t)
        PROVE  mishaps' = mishaps
    BY <1>4 DEF Rotate, RotateReused, NoCookie
  <1>5. ASSUME NEW t \in Pages, Refreshed(t) \/ Denied(t) \/ AnswerLost(t)
        PROVE  mishaps' \in {mishaps, mishaps + 1}
    BY <1>5 DEF Refreshed, Denied, AnswerLost, Mishap
  <1>6. ASSUME NEW t \in Pages, SendRequest(t) \/ RequestEnds(t) \/ Unauthorized(t)
        PROVE  mishaps' = mishaps
    BY <1>6 DEF SendRequest, RequestEnds, Unauthorized
  <1>7. ASSUME NEW t \in Pages, LogoutLet(t) \/ LoggedOut(t) \/ SocketClosed(t) \/ Connect(t)
        PROVE  mishaps' \in {mishaps, mishaps + 1}
    BY <1>7 DEF LogoutLet, LoggedOut, SocketClosed, Connect, Mishap
  <1>8. CASE UNCHANGED sessionVars  BY <1>8 DEF sessionVars
  <1> QED  BY <1>1, <1>2, <1>3, <1>4, <1>5, <1>6, <1>7, <1>8 DEF SessionNext

LEMMA LockInvStep == LockInv /\ [SessionNext]_sessionVars => LockInv'
  BY MishapsCount, UnderLockStep DEF LockInv

(* With navigator.locks, and as long as no answer is lost and nobody ends  *)
(* the session, no tab presents a refresh token that was rotated away, for *)
(* any number of tabs and of rotations (withRefreshLock in session.ts).    *)
THEOREM TokensNotReused == SessionSpec => []NoFalseReuse
  <1>1. LockInv => NoFalseReuse  BY DEF LockInv, UnderLock, NoFalseReuse
  <1> QED  BY <1>1, LockInvInit, LockInvStep, PTL DEF SessionSpec

-----------------------------------------------------------------------------
(* A copy of the settings is not newer than the row, and agrees with it in *)
(* what other pages edit when it has its version.                          *)
Agrees(copy) ==
    /\ copy.version \in Nat /\ copy.version <= server.version
    /\ copy.version = server.version => copy.theirs = server.theirs

CopyInv ==
    /\ server \in Settings /\ cached \in Settings /\ draft \in Settings
    /\ fetched \in SettingsOrNothing /\ timer \in SettingsOrNothing
    /\ saving \in SettingsOrNothing /\ result \in SettingsOrNothing
    /\ answer = "read" => result # Nothing
    /\ others \in Nat /\ grafted \in BOOLEAN
    /\ ~grafted => \A copy \in {draft, timer, saving, result, fetched, cached} : Agrees(copy)

LEMMA CopyInvInit == AutosaveInit => CopyInv
  <1> SUFFICES ASSUME AutosaveInit PROVE CopyInv  OBVIOUS
  <1>1. /\ server \in Settings /\ cached = server /\ draft = server
        /\ others = 0 /\ grafted = FALSE /\ answer = "none" /\ server.version = 1
    BY AutosaveAssumption DEF AutosaveInit, Settings
  <1>2. \A copy \in {fetched, timer, saving, result} : copy = Nothing /\ copy.version = 0
    BY DEF AutosaveInit, Nothing
  <1>3. Agrees(draft) /\ Agrees(cached)  BY <1>1 DEF Agrees
  <1>4. \A copy \in {fetched, timer, saving, result} : Agrees(copy)
    BY <1>1, <1>2 DEF Agrees
  <1> QED  BY <1>1, <1>2, <1>3, <1>4 DEF CopyInv, SettingsOrNothing

(* Rendering d: the draft becomes d, the timer is d or what it was.        *)
LEMMA RenderedSets ==
  ASSUME NEW d, NEW saved, NEW set, NEW shown, Rendered(d, saved, set, shown)
  PROVE  draft' = d /\ timer' \in {d, set, Nothing}
  BY DEF Rendered

LEMMA CopyInvStep == CopyInv /\ [AutosaveNext]_autosaveVars => CopyInv'
  <1> SUFFICES ASSUME CopyInv, [AutosaveNext]_autosaveVars PROVE CopyInv'  OBVIOUS
  <1> USE AutosaveAssumption
      DEF CopyInv, Agrees, Settings, SettingsOrNothing, Nothing
  <1>1. ASSUME NEW i \in Inputs, Edit(i) PROVE CopyInv'
    <2> DEFINE d == [draft EXCEPT !.mine = i]
    <2>1. d \in Settings /\ d.version = draft.version /\ d.theirs = draft.theirs  OBVIOUS
    <2>2. draft' = d /\ timer' \in {d, timer, Nothing}  BY <1>1, RenderedSets DEF Edit
    <2>3. UNCHANGED <<server, cached, fetched, saving, answer, result, others, grafted>>
      BY <1>1 DEF Edit, saveVars
    <2> QED  BY <2>1, <2>2, <2>3
  <1>2. ASSUME TimerFires PROVE CopyInv'
    BY <1>2 DEF TimerFires, Persist, inputVars
  <1>3. ASSUME RetryPressed PROVE CopyInv'
    BY <1>3 DEF RetryPressed, Persist
  <1>4. ASSUME ConfirmSaved PROVE CopyInv'
    BY <1>4 DEF ConfirmSaved, saveVars
  <1>5. ASSUME UpdateSettings PROVE CopyInv'
    BY <1>5 DEF UpdateSettings, pageVars
  <1>6. ASSUME ReadBack PROVE CopyInv'
    BY <1>6 DEF ReadBack, pageVars
  <1>7. ASSUME CallFails PROVE CopyInv'
    BY <1>7 DEF CallFails, pageVars
  <1>8. ASSUME SaveSucceeds PROVE CopyInv'
    <2> DEFINE d == Reconciled(result, saving)
    <2>1. result \in Settings  BY <1>8 DEF SaveSucceeds
    <2>2. d \in Settings /\ d.version = result.version  BY <2>1 DEF Reconciled
    <2>3. d.theirs = result.theirs \/ grafted'  BY <1>8 DEF SaveSucceeds
    <2>4. draft' = d /\ timer' \in {d, draft, timer, Nothing}
      BY <1>8, RenderedSets DEF SaveSucceeds
    <2>5. /\ saving' = Nothing /\ answer' = "none" /\ result' = Nothing
          /\ UNCHANGED <<server, cached, fetched, others>>
          /\ grafted' \in BOOLEAN /\ (~grafted' => ~grafted)
      BY <1>8 DEF SaveSucceeds
    <2> QED  BY <2>1, <2>2, <2>3, <2>4, <2>5
  <1>9. ASSUME SaveFails PROVE CopyInv'
    BY <1>9 DEF SaveFails
  <1>10. ASSUME OtherEdits PROVE CopyInv'
    <2>1. /\ others' = others + 1 /\ others' \in 0..MaxOthers
          /\ server' = [server EXCEPT !.theirs = others + 1, !.version = @ + 1]
      BY <1>10 DEF OtherEdits
    <2>3. server' \in Settings /\ server'.version = server.version + 1
      <3>1. /\ server.mine \in Inputs /\ server.version \in Nat \ {0}
            /\ server' = [mine |-> server.mine, theirs |-> others + 1,
                          version |-> server.version + 1]
        BY <2>1
      <3>2. server.version + 1 \in Nat \ {0}  BY <3>1
      <3> QED  BY <2>1, <3>1, <3>2
    <2>2. UNCHANGED <<cached, fetched, draft, timer, saving, answer, result, grafted>>
      BY <1>10 DEF OtherEdits, pageVars, saveVars
    <2> QED  BY <2>1, <2>2, <2>3
  <1>11. ASSUME Refetch PROVE CopyInv'
    BY <1>11 DEF Refetch, pageVars, saveVars
  <1>12. ASSUME RefetchArrives PROVE CopyInv'
    <2>1. fetched \in Settings  BY <1>12 DEF RefetchArrives
    <2>2. draft' = fetched /\ timer' \in {fetched, timer, Nothing}
      BY <1>12, RenderedSets DEF RefetchArrives
    <2>3. /\ cached' = fetched /\ fetched' = Nothing
          /\ UNCHANGED <<server, saving, answer, result, others, grafted>>
      BY <1>12 DEF RefetchArrives, saveVars
    <2> QED  BY <2>1, <2>2, <2>3
  <1>13. CASE UNCHANGED autosaveVars
    BY <1>13 DEF autosaveVars, pageVars, saveVars
  <1> QED
    BY <1>1, <1>2, <1>3, <1>4, <1>5, <1>6, <1>7, <1>8, <1>9, <1>10, <1>11, <1>12, <1>13
    DEF AutosaveNext

(* A save of this page undoes what another administrator saved only after  *)
(* useDraftReconciler gave the draft a version whose other fields it does  *)
(* not have: the version check of UpdateSettings is enough otherwise.      *)
THEOREM OtherEditsKept == AutosaveSpec => LostOnlyAfterGraft
  <1> DEFINE Kept == server'.theirs = server.theirs \/ OtherEdits \/ grafted
  <1>1. ASSUME CopyInv, [AutosaveNext]_autosaveVars PROVE [Kept]_autosaveVars
    <2>1. ASSUME UpdateSettings PROVE Kept
      BY <1>1, <2>1
      DEF UpdateSettings, CopyInv, Agrees, Settings, SettingsOrNothing, Nothing
    <2>2. ASSUME OtherEdits PROVE Kept  BY <2>2
    <2>3. ASSUME NEW i \in Inputs, Edit(i) PROVE server' = server  BY <2>3 DEF Edit
    <2>4. ASSUME TimerFires \/ RetryPressed \/ ConfirmSaved PROVE server' = server
      BY <2>4 DEF TimerFires, RetryPressed, ConfirmSaved
    <2>5. ASSUME ReadBack \/ CallFails \/ SaveSucceeds \/ SaveFails PROVE server' = server
      BY <2>5 DEF ReadBack, CallFails, SaveSucceeds, SaveFails
    <2>6. ASSUME Refetch \/ RefetchArrives PROVE server' = server
      BY <2>6 DEF Refetch, RefetchArrives
    <2> QED  BY <1>1, <2>1, <2>2, <2>3, <2>4, <2>5, <2>6 DEF AutosaveNext
  <1> QED  BY <1>1, CopyInvInit, CopyInvStep, PTL DEF AutosaveSpec, LostOnlyAfterGraft

-----------------------------------------------------------------------------
(* A rendered draft brings no new kind of claim: the phase is the one      *)
(* shown before or "dirty", and a draft that is not what was saved last    *)
(* leaves the timer set.                                                   *)
LEMMA RenderedShows ==
  ASSUME NEW d \in Settings, NEW saved, NEW set \in SettingsOrNothing,
         NEW shown, draft \in Settings, Rendered(d, saved, set, shown)
  PROVE  /\ draft' = d /\ committed' = saved
         /\ \/ d.mine = draft.mine /\ timer' = set /\ phase' = shown
            \/ d.mine = saved /\ phase' = shown
            \/ timer' # Nothing /\ phase' = "dirty"
  <1>1. d # Nothing  BY DEF Settings, Nothing
  <1> QED  BY <1>1 DEF Rendered

LEMMA SavedInvInit == AutosaveInit => SavedInv
  BY AutosaveAssumption
  DEF AutosaveInit, SavedInv, DraftIsTyped, SaveUnderWay, SettledIsStored, Settled

LEMMA SavedInvStep == CopyInv /\ SavedInv /\ [AutosaveNext]_autosaveVars => SavedInv'
  <1> SUFFICES ASSUME CopyInv, SavedInv, [AutosaveNext]_autosaveVars PROVE SavedInv'
    OBVIOUS
  <1> USE DEF SavedInv
  <1>types. /\ server \in Settings /\ draft \in Settings /\ timer \in SettingsOrNothing
            /\ fetched \in SettingsOrNothing /\ saving \in SettingsOrNothing
            /\ answer = "read" => result \in Settings
    BY DEF CopyInv, SettingsOrNothing
  <1>1. ASSUME NEW i \in Inputs, Edit(i) PROVE SavedInv'
    <2> DEFINE d == [draft EXCEPT !.mine = i]
    <2>1. d \in Settings /\ d.mine = i  BY <1>types DEF Settings
    <2>2. /\ Rendered(d, committed, timer, phase) /\ typed' = i
          /\ UNCHANGED <<server, saving, answer, result, confirm>>  /\ i # draft.mine
      BY <1>1 DEF Edit, saveVars
    <2>3. /\ draft'.mine = i /\ committed' = committed
          /\ (i = committed /\ phase' = phase) \/ (timer' # Nothing /\ phase' = "dirty")
      <3> HIDE DEF d
      <3>1. /\ draft' = d /\ committed' = committed
            /\ \/ d.mine = draft.mine /\ timer' = timer /\ phase' = phase
               \/ d.mine = committed /\ phase' = phase
               \/ timer' # Nothing /\ phase' = "dirty"
        BY <1>types, <2>1, <2>2, RenderedShows
      <3> QED  BY <2>1, <2>2, <3>1
    <2>4. DraftIsTyped' /\ SaveUnderWay'
      BY <2>2, <2>3 DEF DraftIsTyped, SaveUnderWay
    <2>5. SettledIsStored'
      BY <2>2, <2>3 DEF DraftIsTyped, SettledIsStored, Settled
    <2> QED  BY <2>4, <2>5
  <1>2. ASSUME TimerFires PROVE SavedInv'
    <2>1. timer # Nothing /\ ~confirm /\ confirm' = confirm
          /\ UNCHANGED <<server, draft, committed, answer, result, typed>>
      BY <1>2 DEF TimerFires, inputVars
    <2>2. \/ saving # Nothing /\ UNCHANGED <<saving, phase>>
          \/ saving = Nothing /\ saving' = timer /\ phase' = "saving"
      BY <1>2 DEF TimerFires, Persist
    <2> QED
      BY <2>1, <2>2 DEF DraftIsTyped, SaveUnderWay, SettledIsStored, Settled
  <1>3. ASSUME RetryPressed PROVE SavedInv'
    <2>1. /\ phase = "error" /\ confirm' = confirm
          /\ UNCHANGED <<server, draft, committed, timer, answer, result, typed>>
      BY <1>3 DEF RetryPressed
    <2>2. saving = Nothing /\ ~confirm /\ draft # Nothing
      BY <1>types, <2>1 DEF SettledIsStored, Settings, Nothing
    <2>3. saving' = draft /\ phase' = "saving"  BY <1>3, <2>2 DEF RetryPressed, Persist
    <2> QED
      BY <2>1, <2>2, <2>3 DEF DraftIsTyped, SaveUnderWay, SettledIsStored, Settled
  <1>4. ASSUME ConfirmSaved PROVE SavedInv'
    BY <1>4
    DEF ConfirmSaved, saveVars, inputVars, DraftIsTyped, SaveUnderWay, SettledIsStored, Settled
  <1>5. ASSUME UpdateSettings PROVE SavedInv'
    <2>1. saving # Nothing /\ ~Settled  BY <1>5 DEF UpdateSettings, SettledIsStored, Settled
    <2>2. UNCHANGED <<saving, result, draft, typed, confirm, phase, committed, timer>>
      BY <1>5 DEF UpdateSettings, pageVars, inputVars
    <2>3. \/ UNCHANGED server /\ answer' = "failed"
          \/ server'.mine = Stored[saving.mine] /\ answer' = "saved"
      BY <1>5 DEF UpdateSettings
    <2>4. saving.mine \in Inputs  BY <1>types, <2>1 DEF Settings, SettingsOrNothing
    <2> QED
      BY <2>1, <2>2, <2>3, <2>4, AutosaveAssumption
      DEF DraftIsTyped, SaveUnderWay, SettledIsStored, Settled
  <1>6. ASSUME ReadBack PROVE SavedInv'
    BY <1>6
    DEF ReadBack, pageVars, inputVars, DraftIsTyped, SaveUnderWay, SettledIsStored, Settled
  <1>7. ASSUME CallFails PROVE SavedInv'
    BY <1>7
    DEF CallFails, pageVars, inputVars, DraftIsTyped, SaveUnderWay, SettledIsStored, Settled
  <1>8. ASSUME SaveSucceeds PROVE SavedInv'
    <2> DEFINE d == Reconciled(result, saving)
               again == draft.mine # result.mine
               set == IF again THEN draft ELSE timer
               shown == IF again THEN "dirty" ELSE phase
    <2>1. /\ answer = "read" /\ result \in Settings /\ saving \in Settings
          /\ server.mine = result.mine /\ result.mine = Stored[saving.mine]
          /\ ~confirm /\ phase \notin {"saved", "error"}
      BY <1>types, <1>8
      DEF SaveSucceeds, SaveUnderWay, SettledIsStored, SettingsOrNothing
    <2>2. /\ Rendered(d, result.mine, set, shown)
          /\ saving' = Nothing /\ answer' = "none" /\ UNCHANGED <<server, typed>>
      BY <1>8 DEF SaveSucceeds, inputVars
    <2>3. d \in Settings /\ (d.mine = draft.mine \/ (draft.mine = saving.mine /\ d = result))
      BY <1>types, <2>1 DEF Reconciled, Settings
    <2>4. draft # Nothing  BY <1>types DEF Settings, Nothing
    <2>5. /\ draft' = d /\ committed' = result.mine
          /\ \/ d.mine = draft.mine /\ timer' = set /\ phase' = shown
             \/ d.mine = result.mine /\ phase' = shown
             \/ timer' # Nothing /\ phase' = "dirty"
      <3>1. set \in SettingsOrNothing  BY <1>types DEF SettingsOrNothing
      <3> QED  BY <1>types, <2>2, <2>3, <3>1, RenderedShows
    <2>6. Stored[d.mine] = Stored[typed]
      <3>1. CASE d.mine = draft.mine  BY <3>1 DEF DraftIsTyped
      <3>2. CASE draft.mine = saving.mine /\ d = result
        <4>1. Stored[d.mine] = Stored[saving.mine]
          BY <2>1, <3>2, AutosaveAssumption DEF Settings
        <4> QED  BY <3>2, <4>1 DEF DraftIsTyped
      <3> QED  BY <2>3, <3>1, <3>2
    <2>7. DraftIsTyped' /\ SaveUnderWay'
      BY <2>2, <2>5, <2>6 DEF DraftIsTyped, SaveUnderWay
    <2>8. timer' = Nothing => server.mine = Stored[d.mine]
      BY <2>1, <2>4, <2>5 DEF DraftIsTyped
    <2>9. phase' \notin {"saved", "error"}  BY <2>1, <2>5
    <2>10. SettledIsStored'
      BY <2>1, <2>2, <2>5, <2>8, <2>9 DEF SettledIsStored, Settled
    <2> QED  BY <2>7, <2>10
  <1>9. ASSUME SaveFails PROVE SavedInv'
    BY <1>9 DEF SaveFails, inputVars, DraftIsTyped, SaveUnderWay, SettledIsStored, Settled
  <1>10. ASSUME OtherEdits PROVE SavedInv'
    <2>1. server'.mine = server.mine  BY <1>10, <1>types DEF OtherEdits, Settings
    <2>2. UNCHANGED <<draft, typed, saving, answer, result, confirm, phase, committed, timer>>
      BY <1>10 DEF OtherEdits, pageVars, saveVars, inputVars
    <2> QED  BY <2>1, <2>2 DEF DraftIsTyped, SaveUnderWay, SettledIsStored, Settled
  <1>11. ASSUME Refetch PROVE SavedInv'
    BY <1>11
    DEF Refetch, pageVars, saveVars, inputVars, DraftIsTyped, SaveUnderWay, SettledIsStored,
        Settled
  <1>12. ASSUME RefetchArrives PROVE SavedInv'
    <2>1. fetched \in Settings  BY <1>types, <1>12 DEF RefetchArrives, SettingsOrNothing
    <2>2. /\ Rendered(fetched, committed, timer, phase) /\ typed' = fetched.mine
          /\ UNCHANGED <<server, saving, answer, result, confirm>>
      BY <1>12 DEF RefetchArrives, saveVars
    <2>3. /\ draft' = fetched /\ committed' = committed
          /\ \/ fetched.mine = draft.mine /\ timer' = timer /\ phase' = phase
             \/ fetched.mine = committed /\ phase' = phase
             \/ timer' # Nothing /\ phase' = "dirty"
      BY <1>types, <2>1, <2>2, RenderedShows
    <2>4. DraftIsTyped' /\ SaveUnderWay'
      BY <2>2, <2>3 DEF DraftIsTyped, SaveUnderWay
    <2>5. SettledIsStored'
      BY <2>2, <2>3 DEF DraftIsTyped, SettledIsStored, Settled
    <2> QED  BY <2>4, <2>5
  <1>13. CASE UNCHANGED autosaveVars
    BY <1>13
    DEF autosaveVars, pageVars, saveVars, inputVars, DraftIsTyped, SaveUnderWay,
        SettledIsStored, Settled
  <1> QED
    BY <1>1, <1>2, <1>3, <1>4, <1>5, <1>6, <1>7, <1>8, <1>9, <1>10, <1>11, <1>12, <1>13
    DEF AutosaveNext

(* The page shows "saved" only when the server has the last input, however *)
(* edits, saves, failures and refetches cross.                             *)
THEOREM SavedIsStored == AutosaveSpec => []SavedMeansStored
  <1>1. SavedInv => SavedMeansStored
    BY DEF SavedInv, DraftIsTyped, SettledIsStored, Settled, SavedMeansStored
  <1> QED
    BY <1>1, CopyInvInit, CopyInvStep, SavedInvInit, SavedInvStep, PTL DEF AutosaveSpec

=============================================================================

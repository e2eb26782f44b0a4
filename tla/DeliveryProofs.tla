--------------------------- MODULE DeliveryProofs ---------------------------
(***************************************************************************)
(* DeliveryInv is inductive, whatever the constants are.  With it: no      *)
(* checkpoint passes an event its session is entitled to, no frame reaches *)
(* a session it is not addressed to, and a live queue is in the order of   *)
(* the log.                                                                *)
(***************************************************************************)
EXTENDS RealtimeProofs

-----------------------------------------------------------------------------
(* A conjunct of the invariant survives a step that leaves alone what it   *)
(* is about.                                                               *)

LEMMA WiringFrame ==
    ASSUME Wiring, UNCHANGED <<conn, owner, cpc, subs, wire, delivered, live, cancelled>>
    PROVE  Wiring'
  BY DEF Wiring, Attached

LEMMA NotAheadFrame ==
    ASSUME NotAhead, UNCHANGED <<eventSeq, watermark, dFrom, dCurrent, latest, backlogHigh,
                                 delivered, checkpoint, storeSeq>>
    PROVE  NotAhead'
  BY DEF NotAhead

LEMMA EntitledFrame ==
    ASSUME EntitledReads, UNCHANGED logVars PROVE EntitledReads'
  BY DEF EntitledReads, logVars, Readers, VisibleTo

LEMMA CheckpointFrame ==
    ASSUME NoSilentSkip, UNCHANGED <<logVars, checkpoint, covered, resyncs, abandoned>>
    PROVE  NoSilentSkip'
  BY DEF NoSilentSkip, logVars, Due, Accounted, Excused

LEMMA StoreFrame ==
    ASSUME StoreAccounted, UNCHANGED <<logVars, storeSeq, covered, resyncs, abandoned>>
    PROVE  StoreAccounted'
  BY DEF StoreAccounted, logVars, Due, Accounted, Excused

LEMMA ArrivesFrame ==
    ASSUME DeliveredArrives, UNCHANGED <<logVars, conn, owner, cpc, delivered, wire,
                                         covered, resyncs, abandoned>>
    PROVE  DeliveredArrives'
  BY DEF DeliveredArrives, logVars, Attached, Due, Accounted, Excused

LEMMA WireFrame ==
    ASSUME WireClosed, UNCHANGED <<logVars, conn, owner, cpc, wire, covered, resyncs, abandoned>>
    PROVE  WireClosed'
  BY DEF WireClosed, logVars, Attached, Due, Accounted, Excused

LEMMA HubFrame ==
    ASSUME HubBehind, UNCHANGED <<cpc, cancelled, watermark, dpc, dFrom, latest, backlogHigh>>
    PROVE  HubBehind'
  BY DEF HubBehind, Behind

LEMMA QueueFrame ==
    ASSUME QueueComplete, UNCHANGED <<logVars, cpc, owner, backlogHigh, delivered, cancelled,
                                      latest, live>>
    PROVE  QueueComplete'
  BY DEF QueueComplete, PastBacklog, Due, logVars

LEMMA BatchFrame ==
    ASSUME BatchComplete, UNCHANGED <<logVars, dispatcherVars>>
    PROVE  BatchComplete'
  BY DEF BatchComplete, Through, Greatest, logVars, dispatcherVars

LEMMA AddressedFrame ==
    ASSUME OnlyAddressed, UNCHANGED <<logVars, owner, wire, live>>
    PROVE  OnlyAddressed'
  BY DEF OnlyAddressed, logVars

LEMMA BatchAddressedFrame ==
    ASSUME BatchAddressed, UNCHANGED <<logVars, dFrames>> PROVE BatchAddressed'
  BY DEF BatchAddressed, logVars

LEMMA SeenFrame ==
    ASSUME LiveSeen, UNCHANGED <<live, latest>> PROVE LiveSeen'
  BY DEF LiveSeen

-----------------------------------------------------------------------------
LEMMA InitDelivers == Init => DeliveryInv
<1> SUFFICES ASSUME Init PROVE DeliveryInv
  OBVIOUS
<1>1. TypeOK
  BY InitTyped
<1>2. Wiring
  BY ConnAssumption DEF Init, Wiring, Attached
<1>3. NotAhead
  BY DEF Init, InitLog, NotAhead
<1>4. EntitledReads /\ NoSilentSkip /\ StoreAccounted /\ DeliveredArrives
  BY DEF Init, InitLog, EntitledReads, NoSilentSkip, StoreAccounted, DeliveredArrives
<1>5. WireClosed /\ OnlyAddressed /\ BatchAddressed /\ LiveSeen
  BY DEF Init, InitLog, WireClosed, OnlyAddressed, BatchAddressed, LiveSeen
<1>6. HubBehind /\ QueueComplete /\ BatchComplete
  BY DEF Init, InitLog, HubBehind, QueueComplete, BatchComplete
<1> QED
  BY <1>1, <1>2, <1>3, <1>4, <1>5, <1>6 DEF DeliveryInv

-----------------------------------------------------------------------------
(* The log: rows are never renumbered or readdressed, an entitlement is    *)
(* only ever lost, and whoever keeps it still passes the filter.           *)
LEMMA AppendKeeps ==
    ASSUME TypeOKLog, NEW e \in Event, NEW f \in Event, NEW m \in SUBSET Actors,
           Append1(e, m) \/ Append2(e, f, m)
    PROVE  /\ eventSeq <= eventSeq'
           /\ \A n \in 1..eventSeq : events'[n] = events[n] /\ entitled'[n] \subseteq entitled[n]
           /\ \A n \in retained' : n <= eventSeq => n \in retained
           /\ EntitledReads'
<1>1. eventSeq \in Nat
  BY DEF TypeOKLog
<1>2. ASSUME NEW n \in 1..eventSeq
      PROVE  /\ events'[n] = events[n] /\ entitled'[n] = StillEntitled(n, m)
             /\ StillEntitled(n, m) \subseteq entitled[n]
  BY <1>1 DEF Append1, Append2, StillEntitled
<1>3. ASSUME NEW n \in 1..eventSeq', n > eventSeq
      PROVE  entitled'[n] = Readers(events'[n], m)
  BY <1>1, <1>3 DEF Append1, Append2
<1>4. members' = m /\ eventSeq' \in Nat
  BY <1>1 DEF Append1, Append2
<1>5. ASSUME NEW n \in 1..eventSeq' PROVE entitled'[n] \subseteq Readers(events[n], members)'
  <2>1. CASE n <= eventSeq
    <3>1. n \in 1..eventSeq
      BY <1>1, <1>4, <2>1
    <3>2. StillEntitled(n, m) \subseteq Readers(events[n], m)
      BY <3>1 DEF StillEntitled, Readers, TypeOKLog
    <3> QED
      BY <1>2, <1>4, <3>1, <3>2 DEF Readers, VisibleTo
  <2>2. CASE n > eventSeq
    BY <1>3, <1>4, <2>2 DEF Readers, VisibleTo
  <2> QED
    BY <1>1, <1>4, <2>1, <2>2
<1>6. ASSUME NEW n \in retained', n <= eventSeq PROVE n \in retained
  BY <1>1, <1>6 DEF Append1, Append2
<1>7. eventSeq <= eventSeq'
  BY <1>1 DEF Append1, Append2
<1> QED
  BY <1>2, <1>5, <1>6, <1>7 DEF EntitledReads

LEMMA LogKeeps ==
    ASSUME TypeOK, EntitledReads, LogCommit \/ LogPrune
    PROVE  /\ eventSeq <= eventSeq'
           /\ \A n \in 1..eventSeq : events'[n] = events[n] /\ entitled'[n] \subseteq entitled[n]
           /\ \A n \in retained' : n <= eventSeq => n \in retained
           /\ EntitledReads'
<1>1. CASE LogCommit
  BY <1>1, CommitAppends, AppendKeeps DEF LogCommit, TypeOK
<1>2. CASE LogPrune
  <2>1. UNCHANGED <<eventSeq, events, members, entitled>> /\ retained' \subseteq retained
    BY <1>2 DEF LogPrune, Prune
  <2> QED
    BY <2>1 DEF EntitledReads, Readers, VisibleTo, TypeOK, TypeOKLog
<1> QED
  BY <1>1, <1>2

LEMMA LogDelivers ==
    ASSUME DeliveryInv, LogCommit \/ LogPrune, TypeOK'
    PROVE  DeliveryInv'
<1> USE DEF DeliveryInv
<1>1. /\ UNCHANGED <<hubVars, dispatcherVars, sessionVars, netVars, clientVars>>
      /\ eventSeq \in Nat /\ eventSeq' \in Nat /\ eventSeq <= eventSeq' /\ EntitledReads'
      /\ retained' \subseteq 1..eventSeq'
  BY LogKeeps DEF LogCommit, LogPrune, TypeOK, TypeOKLog
<1>2. ASSUME NEW n \in 1..eventSeq
      PROVE  events'[n] = events[n] /\ entitled'[n] \subseteq entitled[n]
  BY LogKeeps
<1>3. ASSUME NEW s \in Sessions, NEW n \in retained', n <= eventSeq, s \in entitled'[n]
      PROVE  n \in retained /\ Due(s, n)
  <2>1. n \in retained /\ n \in 1..eventSeq
    BY <1>1, <1>3, LogKeeps
  <2> QED
    BY <1>2, <1>3, <2>1 DEF Due
<1>4. \A s \in Sessions, n \in Nat : Accounted(s, n)' <=> Accounted(s, n)
  BY <1>1 DEF Accounted, Excused, clientVars
<1>5. ASSUME NEW n \in retained' PROVE n \in Nat
  BY <1>1
<1>6. Wiring'
  BY <1>1, WiringFrame DEF hubVars, sessionVars, netVars, clientVars
<1>7. NotAhead'
  BY <1>1 DEF NotAhead, TypeOK, TypeOKHub, TypeOKDispatcher, TypeOKSession, TypeOKClient,
     hubVars, dispatcherVars, sessionVars, clientVars
<1>8. NoSilentSkip'
  <2> SUFFICES ASSUME NEW s \in Sessions, NEW n \in retained', n <= checkpoint[s],
      s \in entitled'[n]
               PROVE  Accounted(s, n)
    BY <1>1, <1>4, <1>5 DEF NoSilentSkip, Due, clientVars
  <2>1. n <= eventSeq
    BY <1>1, <1>5 DEF NotAhead, TypeOK, TypeOKClient
  <2> QED
    BY <1>3, <2>1 DEF NoSilentSkip
<1>9. StoreAccounted'
  <2> SUFFICES ASSUME NEW s \in Sessions, NEW n \in retained', n <= storeSeq[s], s \in entitled'[n]
               PROVE  Accounted(s, n)
    BY <1>1, <1>4, <1>5 DEF StoreAccounted, Due, clientVars
  <2>1. n <= eventSeq
    BY <1>1, <1>5 DEF NotAhead, TypeOK, TypeOKClient
  <2> QED
    BY <1>3, <2>1 DEF StoreAccounted
<1>10. \A k \in Conns : Attached(k) => owner[k] \in Sessions
  BY DEF Wiring, Attached
<1>11. DeliveredArrives'
  <2> SUFFICES ASSUME NEW k \in Conns, NEW n \in retained', Attached(k), cpc[k] # "closed",
                      n <= delivered[k], owner[k] \in entitled'[n]
               PROVE  Accounted(owner[k], n) \/ n \in wire[k]
    BY <1>1 DEF DeliveredArrives, Attached, sessionVars, clientVars, netVars, Due, Accounted,
       Excused
  <2>1. n <= eventSeq
    BY <1>1, <1>5 DEF NotAhead, TypeOK, TypeOKSession
  <2> QED
    BY <1>3, <1>10, <2>1 DEF DeliveredArrives
<1>12. WireClosed'
  <2> SUFFICES ASSUME NEW k \in Conns, NEW x \in wire[k], NEW n \in retained', Attached(k),
                      n < x, owner[k] \in entitled'[n]
               PROVE  Accounted(owner[k], n) \/ n \in wire[k]
    BY <1>1 DEF WireClosed, Attached, sessionVars, clientVars, netVars, Due, Accounted, Excused
  <2>1. x \in 1..eventSeq
    BY DEF TypeOK, TypeOKNet
  <2>2. n <= eventSeq
    BY <1>1, <1>5, <2>1
  <2> QED
    BY <1>3, <1>10, <2>2 DEF WireClosed
<1>13. HubBehind'
  BY <1>1, HubFrame DEF hubVars, dispatcherVars, sessionVars
<1>14. QueueComplete'
  <2> SUFFICES ASSUME NEW k \in Conns, NEW n \in retained', cpc[k] = "open",
                      n > backlogHigh[k], n > delivered[k], owner[k] \in entitled'[n]
               PROVE  /\ ~cancelled[k] /\ n <= latest[k] => n \in live[k]
                      /\ \A x \in live[k] : n < x => n \in live[k]
    BY <1>1 DEF QueueComplete, PastBacklog, Due, hubVars, sessionVars
  <2>1. owner[k] \in Sessions /\ live[k] \subseteq 1..eventSeq /\ latest[k] <= eventSeq
        /\ latest[k] \in Nat
    BY DEF Wiring, TypeOK, TypeOKHub, NotAhead
  <2>2. CASE n <= eventSeq
    BY <1>3, <2>1, <2>2 DEF QueueComplete, PastBacklog
  <2>3. CASE n > eventSeq
    BY <1>1, <1>5, <2>1, <2>3
  <2> QED
    BY <1>1, <1>5, <2>2, <2>3
<1>15. BatchComplete'
  <2>1. /\ DOMAIN dFrames \subseteq 1..eventSeq /\ dCurrent <= eventSeq /\ dCurrent \in Nat
        /\ dFrom \in Nat
    BY DEF TypeOK, TypeOKDispatcher, NotAhead
  <2>2. Through \in Nat /\ Through <= eventSeq
    <3>1. DOMAIN dFrames \subseteq 0..eventSeq
      BY <2>1
    <3>2. DOMAIN dFrames # {} => Greatest(DOMAIN dFrames) \in DOMAIN dFrames
      BY <1>1, <3>1, GreatestTyped
    <3> QED
      BY <2>1, <3>2 DEF Through
  <2>3. Through' = Through
    BY <1>1 DEF Through, Greatest, dispatcherVars
  <2>4. ASSUME NEW n \in DOMAIN dFrames PROVE entitled'[n] \subseteq dFrames[n]
    BY <1>2, <2>1 DEF BatchComplete
  <2>5. ASSUME dpc = "publish", NEW n \in retained', dFrom < n, n <= Through
        PROVE  n \in DOMAIN dFrames
    <3>1. n \in retained
      BY <1>1, <1>5, <2>2, <2>5, LogKeeps
    <3> QED
      BY <2>5, <3>1 DEF BatchComplete
  <2> QED
    BY <1>1, <2>3, <2>4, <2>5 DEF BatchComplete, dispatcherVars
<1>16. OnlyAddressed'
  <2> SUFFICES ASSUME NEW k \in Conns, NEW n \in wire[k] \cup live[k]
               PROVE  /\ events'[n].exclude # owner[k]
                      /\ events'[n].audience \in {NoActor, ActorOf[owner[k]]}
    BY <1>1 DEF OnlyAddressed, hubVars, sessionVars, netVars
  <2>1. n \in 1..eventSeq
    BY DEF TypeOK, TypeOKNet, TypeOKHub
  <2> QED
    BY <1>2, <2>1 DEF OnlyAddressed
<1>17. BatchAddressed'
  <2>1. DOMAIN dFrames \subseteq 1..eventSeq
    BY DEF TypeOK, TypeOKDispatcher
  <2> QED
    BY <1>1, <1>2, <2>1 DEF BatchAddressed, dispatcherVars
<1>18. LiveSeen'
  BY <1>1, SeenFrame DEF hubVars
<1> QED
  BY <1>1, <1>6, <1>7, <1>8, <1>9, <1>11, <1>12, <1>13, <1>14, <1>15, <1>16, <1>17, <1>18

-----------------------------------------------------------------------------
(* The dispatcher                                                          *)

(* What a poll leaves alone while it only reads.                           *)
LEMMA PollFrames ==
    ASSUME DeliveryInv, UNCHANGED <<logVars, hubVars, sessionVars, netVars, clientVars>>
    PROVE  /\ Wiring' /\ EntitledReads' /\ NoSilentSkip' /\ StoreAccounted'
           /\ DeliveredArrives' /\ WireClosed' /\ QueueComplete' /\ OnlyAddressed' /\ LiveSeen'
<1> USE DEF DeliveryInv, hubVars, sessionVars, netVars, clientVars
<1>1. Wiring' /\ EntitledReads' /\ NoSilentSkip' /\ StoreAccounted'
  BY WiringFrame, EntitledFrame, CheckpointFrame, StoreFrame
<1>2. DeliveredArrives' /\ WireClosed' /\ QueueComplete'
  BY ArrivesFrame, WireFrame, QueueFrame
<1>3. OnlyAddressed' /\ LiveSeen'
  BY AddressedFrame, SeenFrame
<1> QED
  BY <1>1, <1>2, <1>3

LEMMA PollReadsDeliver ==
    ASSUME DeliveryInv, PollStart \/ PollCurrent \/ PollFail, TypeOK'
    PROVE  DeliveryInv'
<1> USE DEF DeliveryInv
<1>1. UNCHANGED <<logVars, hubVars, sessionVars, netVars, clientVars, dFrames>>
  BY DEF PollStart, PollCurrent, PollFail
<1>2. /\ eventSeq \in Nat /\ watermark \in Nat /\ dFrom \in Nat /\ dCurrent \in Nat
      /\ watermark <= eventSeq /\ dFrom <= eventSeq /\ dCurrent <= eventSeq
  BY DEF TypeOK, TypeOKLog, TypeOKHub, TypeOKDispatcher, NotAhead
<1>3. \/ dpc' = "current" /\ dFrom' = watermark /\ dCurrent' = dCurrent /\ dpc = "idle"
      \/ dpc' = "read" /\ dFrom' = dFrom /\ dCurrent' = eventSeq /\ dFrom < eventSeq
         /\ dpc = "current"
      \/ dpc' = "idle" /\ dFrom' = 0 /\ dCurrent' = 0 /\ dpc # "publish"
  BY <1>2 DEF PollStart, PollCurrent, PollFail, PollDone
<1>4. NotAhead'
  BY <1>1, <1>2, <1>3 DEF NotAhead, logVars, hubVars, sessionVars, clientVars
<1>5. HubBehind'
  BY <1>1, <1>2, <1>3 DEF HubBehind, Behind, hubVars, sessionVars
<1>6. dFrames = <<>>
  BY <1>3 DEF BatchComplete
<1>7. BatchComplete'
  BY <1>1, <1>3, <1>6 DEF BatchComplete
<1>8. BatchAddressed'
  BY <1>1, BatchAddressedFrame
<1> QED
  BY <1>1, <1>4, <1>5, <1>7, <1>8, PollFrames

LEMMA PollReadDelivers ==
    ASSUME DeliveryInv, PollRead, TypeOK'
    PROVE  DeliveryInv'
<1> USE DEF DeliveryInv
<1> DEFINE rows == LiveRows(dFrom, dCurrent)
           D == FirstSeqs(rows, LiveLimit)
<1>1. /\ UNCHANGED <<logVars, hubVars, sessionVars, netVars, clientVars, dFrom, dCurrent>>
      /\ dFrames' = [n \in D |-> Readers(events[n], members)] /\ dpc' = "publish" /\ dpc = "read"
  BY DEF PollRead
<1>2. eventSeq \in Nat /\ rows \subseteq 0..eventSeq
  <2>1. eventSeq \in Nat /\ retained \subseteq 1..eventSeq
    BY DEF TypeOK, TypeOKLog
  <2>2. ASSUME NEW n \in rows PROVE n \in 0..eventSeq
    <3>1. n \in retained
      BY DEF LiveRows
    <3> QED
      BY <2>1, <3>1
  <2> QED
    BY <2>1, <2>2
<1>3. /\ LiveLimit \in Nat \ {0} /\ LiveLimit \in Int
  BY LimitAssumption
<1>4. \A n \in rows : n \in retained /\ n > dFrom /\ n <= dCurrent
  BY DEF LiveRows
<1>5. \A n \in retained : n > dFrom /\ n <= dCurrent => n \in rows
  BY DEF LiveRows
<1> HIDE DEF rows
<1>6. D \subseteq rows /\ \A n \in rows, x \in D : n < x => n \in D
  BY <1>2, <1>3, FirstSeqsPrefix
<1>7. D = {} => rows = {}
  BY <1>2, <1>3, EmptyReadIsAll
<1> HIDE DEF D
<1>8. DOMAIN dFrames' = D
  BY <1>1
<1>9. BatchComplete'
  <2>1. dFrom < dCurrent
    BY <1>1 DEF BatchComplete
  <2>2. ASSUME NEW n \in D
        PROVE  dFrom < n /\ n <= dCurrent /\ entitled[n] \subseteq dFrames'[n]
    <3>1. n \in retained /\ n > dFrom /\ n <= dCurrent
      BY <1>4, <1>6
    <3>2. n \in 1..eventSeq
      BY <3>1 DEF TypeOK, TypeOKLog
    <3>3. n \in Nat /\ dFrom \in Nat
      BY <1>2, <3>2 DEF TypeOK, TypeOKDispatcher
    <3>4. entitled[n] \subseteq dFrames'[n]
      BY <1>1, <3>2 DEF EntitledReads
    <3> QED
      BY <3>1, <3>3, <3>4
  <2>3. ASSUME NEW n \in retained, dFrom < n, n <= Through' PROVE n \in D
    <3>1. n \in Nat /\ dFrom \in Nat /\ dCurrent \in Nat
      BY <1>2 DEF TypeOK, TypeOKLog, TypeOKDispatcher
    <3>2. CASE D = {}
      <4>1. Through' = dCurrent
        BY <1>1, <1>8, <3>2 DEF Through
      <4> QED
        BY <1>5, <1>7, <2>3, <3>1, <3>2, <4>1
    <3>3. CASE D # {}
      <4>1. Through' = Greatest(D)
        BY <1>8, <3>3 DEF Through, Greatest
      <4>2. D \subseteq 0..eventSeq
        BY <1>2, <1>6
      <4>3. Greatest(D) \in D
        BY <1>2, <3>3, <4>2, GreatestTyped
      <4>4. Greatest(D) \in Nat /\ Greatest(D) <= dCurrent
        <5>1. Greatest(D) \in rows /\ Greatest(D) \in 0..eventSeq
          BY <1>6, <4>2, <4>3
        <5> QED
          BY <1>2, <1>4, <5>1
      <4>5. n \in rows
        BY <1>5, <2>3, <3>1, <4>1, <4>4
      <4> QED
        BY <1>6, <2>3, <3>1, <4>1, <4>3, <4>4, <4>5
    <3> QED
      BY <3>2, <3>3
  <2> QED
    BY <1>1, <1>8, <2>1, <2>2, <2>3 DEF BatchComplete, logVars
<1>10. BatchAddressed'
  <2> SUFFICES ASSUME NEW n \in D, NEW s \in dFrames'[n]
               PROVE  events[n].exclude # s /\ events[n].audience \in {NoActor, ActorOf[s]}
    BY <1>1, <1>8 DEF BatchAddressed, logVars
  <2> QED
    BY <1>1 DEF Readers, VisibleTo
<1>11. NotAhead'
  BY <1>1, NotAheadFrame DEF logVars, hubVars, sessionVars, clientVars
<1>12. HubBehind'
  BY <1>1 DEF HubBehind, Behind, hubVars, sessionVars
<1> QED
  BY <1>1, <1>9, <1>10, <1>11, <1>12, PollFrames

(* How far the batch under way reaches.                                    *)
LEMMA ThroughIs ==
    ASSUME TypeOK, NotAhead, BatchComplete, dpc = "publish"
    PROVE  /\ Through \in Nat /\ dFrom \in Nat /\ dFrom < Through
           /\ Through <= dCurrent /\ Through <= eventSeq
           /\ \A n \in DOMAIN dFrames : n \in Nat /\ n <= Through
<1>1. /\ eventSeq \in Nat /\ dCurrent \in Nat /\ dFrom \in Nat /\ dCurrent <= eventSeq
      /\ DOMAIN dFrames \subseteq 1..eventSeq /\ dFrom < dCurrent
  BY DEF TypeOK, TypeOKLog, TypeOKDispatcher, NotAhead, BatchComplete
<1>2. DOMAIN dFrames \subseteq 0..eventSeq
  BY <1>1
<1>3. CASE DOMAIN dFrames = {}
  BY <1>1, <1>3 DEF Through
<1>4. CASE DOMAIN dFrames # {}
  <2>1. /\ Greatest(DOMAIN dFrames) \in DOMAIN dFrames
        /\ \A n \in DOMAIN dFrames : n <= Greatest(DOMAIN dFrames)
    BY <1>1, <1>2, <1>4, GreatestTyped
  <2>2. dFrom < Greatest(DOMAIN dFrames) /\ Greatest(DOMAIN dFrames) <= dCurrent
    BY <2>1 DEF BatchComplete
  <2>3. Through = Greatest(DOMAIN dFrames)
    BY <1>4 DEF Through
  <2> QED
    BY <1>1, <2>1, <2>2, <2>3
<1> QED
  BY <1>3, <1>4

(* A subscription takes a prefix of what it is offered, and all of it when *)
(* its queue does not overflow.                                            *)
LEMMA TakenIs ==
    ASSUME TypeOK, NEW k \in Conns, NEW room \in 0..MaxQueued
    PROVE  /\ Taken(k, room) \subseteq Offered(k)
           /\ \A n \in Offered(k), x \in Taken(k, room) : n < x => n \in Taken(k, room)
           /\ ~Overflows(k, room) => Taken(k, room) = Offered(k)
<1>1. eventSeq \in Nat /\ DOMAIN dFrames \subseteq 1..eventSeq
  BY DEF TypeOK, TypeOKLog, TypeOKDispatcher
<1>2. ASSUME NEW n \in Offered(k) PROVE n \in 0..eventSeq
  <2>1. n \in DOMAIN dFrames
    BY DEF Offered
  <2> QED
    BY <1>1, <2>1
<1>3. Smaller(room, MaxQueued - Cardinality(live[k])) \in Int
  BY WindowTyped, LimitAssumption DEF Smaller
<1>4. Offered(k) \subseteq 0..eventSeq
  BY <1>2
<1> QED
  BY <1>1, <1>3, <1>4, FirstSeqsPrefix DEF Taken, Overflows

(* The event a subscription must still see is in the batch, and offered.   *)
LEMMA OfferedIs ==
    ASSUME DeliveryInv, dpc = "publish", NEW k \in Conns, cpc[k] = "open", ~cancelled[k],
           NEW n \in retained, PastBacklog(k, n), n > latest[k], n <= Through
    PROVE  n \in Offered(k)
<1> USE DEF DeliveryInv
<1>1. /\ n \in Nat /\ latest[k] \in Nat /\ backlogHigh[k] \in Nat /\ dFrom \in Nat
  BY DEF TypeOK, TypeOKLog, TypeOKHub, TypeOKSession, TypeOKDispatcher
<1>2. Behind(k, dFrom)
  BY DEF HubBehind
<1>3. dFrom < n
  BY <1>1, <1>2 DEF Behind, PastBacklog
<1>4. n \in DOMAIN dFrames /\ entitled[n] \subseteq dFrames[n]
  BY <1>3 DEF BatchComplete
<1> QED
  BY <1>4 DEF Offered, PastBacklog, Due

LEMMA PublishDelivers ==
    ASSUME DeliveryInv, PollPublish, TypeOK'
    PROVE  DeliveryInv'
<1> USE DEF DeliveryInv
<1>1. /\ UNCHANGED <<logVars, subs, sessionVars, netVars, clientVars>> /\ dFrames' = <<>>
      /\ dpc = "publish"
  BY DEF PollPublish
<1>2. /\ Through \in Nat /\ dFrom \in Nat /\ dFrom < Through
      /\ Through <= dCurrent /\ Through <= eventSeq
      /\ \A n \in DOMAIN dFrames : n \in Nat /\ n <= Through
  BY <1>1, ThroughIs
<1>3. /\ eventSeq \in Nat /\ dCurrent \in Nat /\ watermark \in Nat /\ dCurrent <= eventSeq
      /\ \A k \in Conns : latest[k] \in Nat /\ latest[k] <= eventSeq /\ backlogHigh[k] \in Nat
  BY DEF TypeOK, TypeOKLog, TypeOKDispatcher, TypeOKHub, TypeOKSession, NotAhead
<1>4. \/ dpc' = "idle" /\ dFrom' = 0 /\ dCurrent' = 0
      \/ dpc' = "read" /\ dFrom' = Through /\ dCurrent' = dCurrent /\ Through < dCurrent
  BY <1>2, <1>3 DEF PollPublish, PollDone
<1>5. BatchComplete' /\ BatchAddressed'
  BY <1>1, <1>4 DEF BatchComplete, BatchAddressed
<1>6. EntitledReads' /\ NoSilentSkip' /\ StoreAccounted' /\ DeliveredArrives' /\ WireClosed'
  BY <1>1, EntitledFrame, CheckpointFrame, StoreFrame, ArrivesFrame, WireFrame
     DEF sessionVars, netVars, clientVars
<1>7. CASE ~(subs # {} /\ Through > watermark)
  <2>1. UNCHANGED hubVars
    BY <1>1, <1>7 DEF PollPublish, Publish, hubVars
  <2>2. NotAhead'
    BY <1>1, <1>2, <1>3, <1>4, <2>1 DEF NotAhead, hubVars, logVars, sessionVars, clientVars
  <2>3. HubBehind'
    <3> SUFFICES ASSUME NEW k \in Conns, cpc[k] = "open", ~cancelled[k]
                 PROVE  Behind(k, watermark) /\ (dpc' # "idle" => Behind(k, dFrom'))
      BY <1>1, <2>1 DEF HubBehind, Behind, hubVars, sessionVars
    <3>1. k \in subs
      BY DEF Wiring
    <3>2. Through <= watermark
      BY <1>2, <1>3, <1>7, <3>1
    <3>3. Behind(k, watermark)
      BY DEF HubBehind
    <3> QED
      BY <1>2, <1>3, <1>4, <3>2, <3>3 DEF Behind
  <2>4. Wiring' /\ QueueComplete' /\ OnlyAddressed' /\ LiveSeen'
    BY <1>1, <2>1, WiringFrame, QueueFrame, AddressedFrame, SeenFrame
       DEF hubVars, sessionVars, netVars, clientVars
  <2> QED
    BY <1>5, <1>6, <2>2, <2>3, <2>4
<1>8. CASE subs # {} /\ Through > watermark
  <2> PICK room \in [Conns -> 0..MaxQueued] : Publish(room)
    BY DEF PollPublish
  <2>1. /\ watermark' = Through
        /\ live' = [k \in Conns |-> IF k \in subs /\ ~cancelled[k]
                                    THEN live[k] \cup Taken(k, room[k]) ELSE live[k]]
        /\ cancelled' = [k \in Conns |-> cancelled[k] \/ (k \in subs /\ Overflows(k, room[k]))]
        /\ latest' = [k \in Conns |->
                        IF k \in subs /\ (DOMAIN dFrames = {} \/ ~cancelled[k])
                        THEN Larger(latest[k], Through) ELSE latest[k]]
    BY <1>8 DEF Publish
  <2>2. \A k \in Conns : latest[k] <= latest'[k] /\ latest'[k] <= eventSeq /\ latest'[k] \in Nat
    BY <1>2, <1>3, <2>1 DEF Larger
  <2>3. \A k \in Conns : k \in subs /\ ~cancelled[k] => latest'[k] = Larger(latest[k], Through)
    BY <2>1
  <2>4. NotAhead'
    BY <1>1, <1>2, <1>3, <1>4, <2>1, <2>2 DEF NotAhead, logVars, sessionVars, clientVars
  <2>5. HubBehind'
    <3> SUFFICES ASSUME NEW k \in Conns, cpc[k] = "open", ~cancelled[k]
                 PROVE  /\ Through <= latest'[k]
                        /\ dpc' # "idle" => dFrom' <= latest'[k]
      BY <1>1, <2>1 DEF HubBehind, Behind, sessionVars
    <3>1. k \in subs
      BY DEF Wiring
    <3> QED
      BY <1>2, <1>3, <1>4, <2>3, <3>1 DEF Larger
  <2>6. Wiring'
    BY <1>1, <2>1 DEF Wiring, Attached, sessionVars, netVars, clientVars
  <2>7. LiveSeen'
    <3> SUFFICES ASSUME NEW k \in Conns, NEW n \in live'[k] PROVE n <= latest'[k]
      BY DEF LiveSeen
    <3>1. CASE n \in live[k]
      <4>1. n \in Nat /\ n <= latest[k]
        BY <1>3, <3>1 DEF LiveSeen, TypeOK, TypeOKHub
      <4> QED
        BY <1>3, <2>2, <4>1
    <3>2. CASE n \notin live[k]
      <4>1. k \in subs /\ ~cancelled[k] /\ n \in Taken(k, room[k])
        BY <2>1, <3>2
      <4>2. n \in DOMAIN dFrames
        BY <4>1, TakenIs DEF Offered
      <4> QED
        BY <1>2, <1>3, <2>3, <4>1, <4>2 DEF Larger
    <3> QED
      BY <3>1, <3>2
  <2>8. OnlyAddressed'
    <3> SUFFICES ASSUME NEW k \in Conns, NEW n \in wire[k] \cup live'[k]
                 PROVE  /\ events[n].exclude # owner[k]
                        /\ events[n].audience \in {NoActor, ActorOf[owner[k]]}
      BY <1>1 DEF OnlyAddressed, logVars, sessionVars, netVars
    <3>1. CASE n \in wire[k] \cup live[k]
      BY <3>1 DEF OnlyAddressed
    <3>2. CASE n \notin wire[k] \cup live[k]
      <4>1. n \in Offered(k)
        BY <2>1, <3>2, TakenIs
      <4> QED
        BY <4>1 DEF Offered, BatchAddressed
    <3> QED
      BY <3>1, <3>2
  <2>9. QueueComplete'
    <3> SUFFICES ASSUME NEW k \in Conns, NEW n \in retained, cpc[k] = "open", PastBacklog(k, n)
                 PROVE  /\ ~cancelled'[k] /\ n <= latest'[k] => n \in live'[k]
                        /\ \A x \in live'[k] : n < x => n \in live'[k]
      BY <1>1 DEF QueueComplete, PastBacklog, Due, logVars, sessionVars
    <3>1. k \in subs /\ n \in Nat
      BY <1>3 DEF Wiring, TypeOK, TypeOKLog
    <3>2. ~cancelled[k] /\ n <= latest[k] => n \in live[k]
      BY DEF QueueComplete
    <3>3. \A x \in live[k] : n < x => n \in live[k]
      BY DEF QueueComplete
    <3>4. ASSUME ~cancelled'[k], n <= latest'[k] PROVE n \in live'[k]
      <4>1. ~cancelled[k] /\ ~Overflows(k, room[k])
        BY <2>1, <3>1, <3>4
      <4>2. CASE n <= latest[k]
        BY <2>1, <3>2, <4>1, <4>2
      <4>3. CASE n > latest[k]
        <5>1. n <= Through
          BY <1>2, <1>3, <2>3, <3>1, <3>4, <4>1, <4>3 DEF Larger
        <5>2. n \in Offered(k)
          BY <1>1, <4>1, <4>3, <5>1, OfferedIs
        <5> QED
          BY <2>1, <3>1, <4>1, <5>2, TakenIs
      <4> QED
        BY <1>3, <3>1, <4>2, <4>3
    <3>5. ASSUME NEW x \in live'[k], n < x PROVE n \in live'[k]
      <4>1. CASE x \in live[k]
        BY <2>1, <3>3, <3>5, <4>1
      <4>2. CASE x \notin live[k]
        <5>1. ~cancelled[k] /\ x \in Taken(k, room[k])
          BY <2>1, <4>2
        <5>2. x \in Nat /\ x <= Through
          BY <1>2, <5>1, TakenIs DEF Offered
        <5>3. CASE n <= latest[k]
          BY <2>1, <3>2, <5>1, <5>3
        <5>4. CASE n > latest[k]
          <6>1. n \in Offered(k)
            BY <1>1, <1>2, <3>1, <3>5, <5>1, <5>2, <5>4, OfferedIs
          <6> QED
            BY <2>1, <3>1, <3>5, <5>1, <6>1, TakenIs
        <5> QED
          BY <1>3, <3>1, <5>3, <5>4
      <4> QED
        BY <4>1, <4>2
    <3> QED
      BY <3>4, <3>5
  <2> QED
    BY <1>5, <1>6, <2>4, <2>5, <2>6, <2>7, <2>8, <2>9
<1> QED
  BY <1>7, <1>8

-----------------------------------------------------------------------------
(* The server's side of a connection                                       *)

LEMMA EndDelivers ==
    ASSUME DeliveryInv, NEW k \in Conns, cpc[k] \notin {"free", "closed"}, End(k), TypeOK'
    PROVE  DeliveryInv'
<1> USE DEF DeliveryInv
<1>1. UNCHANGED <<logVars, dispatcherVars, clientVars>>
  BY DEF End
<1>2. /\ subs' = subs \ {k} /\ watermark' = IF subs \ {k} = {} THEN 0 ELSE watermark
      /\ live' = [live EXCEPT ![k] = {}] /\ latest' = [latest EXCEPT ![k] = 0]
      /\ cancelled' = [cancelled EXCEPT ![k] = FALSE]
      /\ backlogHigh' = [backlogHigh EXCEPT ![k] = 0]
      /\ delivered' = [delivered EXCEPT ![k] = 0]
      /\ cpc' = [cpc EXCEPT ![k] = IF Detached(k) THEN "free" ELSE "closed"]
      /\ wire' = [wire EXCEPT ![k] = IF Detached(k) THEN {} ELSE wire[k]]
      /\ owner' = [owner EXCEPT ![k] = IF Detached(k) THEN NoSession ELSE owner[k]]
  BY DEF End
<1>3. /\ live \in [Conns -> SUBSET (1..eventSeq)] /\ latest \in [Conns -> Nat]
      /\ cancelled \in [Conns -> BOOLEAN] /\ backlogHigh \in [Conns -> Nat]
      /\ delivered \in [Conns -> Nat] /\ cpc \in [Conns -> Phases]
      /\ wire \in [Conns -> SUBSET (1..eventSeq)]
      /\ owner \in [Conns -> Sessions \cup {NoSession}] /\ eventSeq \in Nat /\ watermark \in Nat
  BY DEF TypeOK, TypeOKHub, TypeOKSession, TypeOKNet, TypeOKLog
<1>4. ASSUME NEW j \in Conns, j # k
      PROVE  /\ live'[j] = live[j] /\ latest'[j] = latest[j] /\ cancelled'[j] = cancelled[j]
             /\ backlogHigh'[j] = backlogHigh[j] /\ delivered'[j] = delivered[j]
             /\ cpc'[j] = cpc[j] /\ wire'[j] = wire[j] /\ owner'[j] = owner[j]
             /\ Attached(j)' <=> Attached(j)
  BY <1>1, <1>2, <1>3, <1>4 DEF Attached, clientVars
<1>5. /\ live'[k] = {} /\ latest'[k] = 0 /\ ~cancelled'[k] /\ backlogHigh'[k] = 0
      /\ delivered'[k] = 0 /\ cpc'[k] \in {"free", "closed"}
      /\ wire'[k] = IF Detached(k) THEN {} ELSE wire[k]
      /\ owner'[k] = IF Detached(k) THEN NoSession ELSE owner[k]
      /\ cpc'[k] = IF Detached(k) THEN "free" ELSE "closed"
  BY <1>2, <1>3
<1>6. Attached(k)' => Attached(k) /\ ~Detached(k)
  BY <1>1, <1>5 DEF Attached, Detached, clientVars
<1>7. Wiring'
  <2>1. ASSUME NEW s \in Sessions, conn[s] \in Conns
        PROVE  owner'[conn[s]] = s /\ cpc'[conn[s]] # "free"
    <3>1. owner[conn[s]] = s /\ cpc[conn[s]] # "free"
      BY <2>1 DEF Wiring
    <3>2. CASE conn[s] = k
      BY <1>5, <3>1, <3>2 DEF Detached
    <3>3. CASE conn[s] # k
      BY <1>4, <2>1, <3>1, <3>3
    <3> QED
      BY <3>2, <3>3
  <2>2. ASSUME NEW j \in Conns, j # k
        PROVE  /\ cpc'[j] # "free" => owner'[j] \in Sessions
               /\ j \in subs' <=> cpc'[j] \in {"bounds", "open"}
               /\ ~Attached(j)' => wire'[j] = {}
               /\ cpc'[j] \in {"current", "register", "bounds"} => wire'[j] = {}
               /\ cpc'[j] # "closed" => \A n \in wire'[j] : n <= delivered'[j]
               /\ j \notin subs' => live'[j] = {} /\ ~cancelled'[j]
    <3>1. j \in subs' <=> j \in subs
      BY <1>2, <2>2
    <3> QED
      BY <1>4, <2>2, <3>1 DEF Wiring
  <2>3. /\ cpc'[k] # "free" => owner'[k] \in Sessions
        /\ k \in subs' <=> cpc'[k] \in {"bounds", "open"}
        /\ ~Attached(k)' => wire'[k] = {}
        /\ cpc'[k] \in {"current", "register", "bounds"} => wire'[k] = {}
        /\ cpc'[k] # "closed" => \A n \in wire'[k] : n <= delivered'[k]
        /\ k \notin subs' => live'[k] = {} /\ ~cancelled'[k]
    <3>1. owner[k] \in Sessions
      BY DEF Wiring
    <3>2. k \notin subs' /\ cpc'[k] \notin {"bounds", "open", "current", "register"}
      BY <1>2, <1>5
    <3>3. CASE Detached(k)
      BY <1>5, <3>2, <3>3
    <3>4. CASE ~Detached(k)
      <4>1. Attached(k)'
        BY <1>1, <1>5, <3>4 DEF Attached, Detached, clientVars
      <4> QED
        BY <1>5, <3>1, <3>2, <3>4, <4>1
    <3> QED
      BY <3>3, <3>4
  <2> QED
    BY <1>1, <2>1, <2>2, <2>3 DEF Wiring, clientVars
<1>8. NotAhead'
  <2>1. ASSUME NEW j \in Conns
        PROVE  latest'[j] <= eventSeq /\ backlogHigh'[j] <= eventSeq /\ delivered'[j] <= eventSeq
    BY <1>3, <1>4, <1>5 DEF NotAhead
  <2> QED
    BY <1>1, <1>2, <1>3, <2>1 DEF NotAhead, logVars, dispatcherVars, clientVars
<1>9. EntitledReads' /\ NoSilentSkip' /\ StoreAccounted'
  BY <1>1, EntitledFrame, CheckpointFrame, StoreFrame DEF clientVars
<1>10. \A s, n : (Accounted(s, n)' <=> Accounted(s, n)) /\ (Due(s, n)' <=> Due(s, n))
  BY <1>1 DEF Accounted, Excused, Due, clientVars, logVars
<1>11. DeliveredArrives'
  <2> SUFFICES ASSUME NEW j \in Conns, NEW n \in retained, Attached(j)', cpc'[j] # "closed",
                      n <= delivered'[j], Due(owner'[j], n)
               PROVE  Accounted(owner'[j], n) \/ n \in wire'[j]
    BY <1>1 DEF DeliveredArrives, logVars, clientVars, Due, Accounted, Excused
  <2>1. j # k
    BY <1>5, <1>6
  <2> QED
    BY <1>4, <2>1 DEF DeliveredArrives
<1>12. WireClosed'
  <2> SUFFICES ASSUME NEW j \in Conns, NEW x \in wire'[j], NEW n \in retained, Attached(j)',
                      n < x, Due(owner'[j], n)
               PROVE  Accounted(owner'[j], n) \/ n \in wire'[j]
    BY <1>1 DEF WireClosed, logVars, clientVars, Due, Accounted, Excused
  <2>1. Attached(j) /\ wire'[j] = wire[j] /\ owner'[j] = owner[j]
    BY <1>4, <1>5, <1>6
  <2> QED
    BY <2>1 DEF WireClosed
<1>13. HubBehind'
  <2> SUFFICES ASSUME NEW j \in Conns, cpc'[j] = "open", ~cancelled'[j]
               PROVE  Behind(j, watermark)' /\ (dpc # "idle" => Behind(j, dFrom)')
    BY <1>1 DEF HubBehind, dispatcherVars
  <2>1. j # k
    BY <1>5
  <2>2. cpc[j] = "open" /\ ~cancelled[j] /\ latest'[j] = latest[j]
        /\ backlogHigh'[j] = backlogHigh[j]
    BY <1>4, <2>1
  <2>3. j \in subs
    BY <2>2 DEF Wiring
  <2>4. watermark' = watermark
    BY <1>2, <2>1, <2>3
  <2> QED
    BY <1>1, <2>2, <2>4 DEF HubBehind, Behind, dispatcherVars
<1>14. QueueComplete'
  <2> SUFFICES ASSUME NEW j \in Conns, NEW n \in retained, cpc'[j] = "open",
                      n > backlogHigh'[j], n > delivered'[j], Due(owner'[j], n)
               PROVE  /\ ~cancelled'[j] /\ n <= latest'[j] => n \in live'[j]
                      /\ \A x \in live'[j] : n < x => n \in live'[j]
    BY <1>1 DEF QueueComplete, PastBacklog, logVars, Due
  <2>1. j # k
    BY <1>5
  <2> QED
    BY <1>4, <2>1 DEF QueueComplete, PastBacklog
<1>15. BatchComplete' /\ BatchAddressed'
  BY <1>1, BatchFrame, BatchAddressedFrame DEF dispatcherVars
<1>16. OnlyAddressed'
  <2> SUFFICES ASSUME NEW j \in Conns, NEW n \in wire'[j] \cup live'[j]
               PROVE  /\ events[n].exclude # owner'[j]
                      /\ events[n].audience \in {NoActor, ActorOf[owner'[j]]}
    BY <1>1 DEF OnlyAddressed, logVars
  <2>1. n \in wire[j] \cup live[j] /\ owner'[j] = owner[j]
    BY <1>4, <1>5
  <2> QED
    BY <2>1 DEF OnlyAddressed
<1>17. LiveSeen'
  BY <1>4, <1>5 DEF LiveSeen
<1> QED
  BY <1>7, <1>8, <1>9, <1>11, <1>12, <1>13, <1>14, <1>15, <1>16, <1>17

LEMMA ReadCurrentDelivers ==
    ASSUME DeliveryInv, NEW k \in Conns, ReadCurrent(k), TypeOK'
    PROVE  DeliveryInv'
<1> USE DEF DeliveryInv
<1>1. /\ UNCHANGED <<logVars, subs, watermark, live, cancelled, dispatcherVars, owner,
                     backlogHigh, delivered, netVars, clientVars>>
      /\ cpc[k] = "current" /\ cpc' = [cpc EXCEPT ![k] = "register"]
      /\ latest' = [latest EXCEPT ![k] = eventSeq]
  BY DEF ReadCurrent
<1>2. /\ cpc \in [Conns -> Phases] /\ latest \in [Conns -> Nat] /\ eventSeq \in Nat
  BY DEF TypeOK, TypeOKHub, TypeOKSession, TypeOKLog
<1>3. k \notin subs
  BY <1>1 DEF Wiring
<1>4. ASSUME NEW j \in Conns
      PROVE  /\ cpc'[j] # "free" <=> cpc[j] # "free"
             /\ cpc'[j] # "closed" <=> cpc[j] # "closed"
             /\ cpc'[j] = "open" <=> cpc[j] = "open"
             /\ cpc'[j] \in {"bounds", "open"} <=> cpc[j] \in {"bounds", "open"}
             /\ cpc'[j] \in {"current", "register", "bounds"} <=>
                  cpc[j] \in {"current", "register", "bounds"}
             /\ cpc[j] = "open" => latest'[j] = latest[j]
             /\ Attached(j)' <=> Attached(j)
  BY <1>1, <1>2 DEF Attached, clientVars
<1>5. Wiring'
  BY <1>1, <1>4 DEF Wiring, netVars, clientVars
<1>6. NotAhead'
  BY <1>1, <1>2 DEF NotAhead, logVars, dispatcherVars, clientVars
<1>7. EntitledReads' /\ NoSilentSkip' /\ StoreAccounted'
  BY <1>1, EntitledFrame, CheckpointFrame, StoreFrame DEF clientVars
<1>8. DeliveredArrives' /\ WireClosed'
  BY <1>1, <1>4 DEF DeliveredArrives, WireClosed, Due, Accounted, Excused, logVars, netVars,
     clientVars
<1>9. HubBehind'
  BY <1>1, <1>4 DEF HubBehind, Behind, dispatcherVars
<1>10. QueueComplete'
  BY <1>1, <1>4 DEF QueueComplete, PastBacklog, Due, logVars
<1>11. BatchComplete' /\ BatchAddressed' /\ OnlyAddressed'
  BY <1>1, BatchFrame, BatchAddressedFrame, AddressedFrame DEF dispatcherVars, netVars
<1>12. LiveSeen'
  BY <1>1, <1>2, <1>3 DEF LiveSeen, Wiring
<1> QED
  BY <1>5, <1>6, <1>7, <1>8, <1>9, <1>10, <1>11, <1>12

LEMMA RegisterDelivers ==
    ASSUME DeliveryInv, NEW k \in Conns, Register(k), TypeOK'
    PROVE  DeliveryInv'
<1> USE DEF DeliveryInv
<1>1. /\ UNCHANGED <<logVars, live, latest, cancelled, dispatcherVars, owner,
                     backlogHigh, delivered, netVars, clientVars>>
      /\ cpc[k] = "register" /\ cpc' = [cpc EXCEPT ![k] = "bounds"]
      /\ subs' = subs \cup {k}
      /\ watermark' = IF subs = {} THEN latest[k] ELSE watermark
  BY DEF Register
<1>2. /\ cpc \in [Conns -> Phases] /\ latest \in [Conns -> Nat] /\ eventSeq \in Nat
  BY DEF TypeOK, TypeOKHub, TypeOKSession, TypeOKLog
<1>3. ASSUME NEW j \in Conns
      PROVE  /\ cpc'[j] # "free" <=> cpc[j] # "free"
             /\ cpc'[j] # "closed" <=> cpc[j] # "closed"
             /\ cpc'[j] = "open" <=> cpc[j] = "open"
             /\ cpc'[j] \in {"current", "register", "bounds"} <=>
                  cpc[j] \in {"current", "register", "bounds"}
             /\ Attached(j)' <=> Attached(j)
             /\ j \in subs' <=> cpc'[j] \in {"bounds", "open"}
  BY <1>1, <1>2 DEF Attached, clientVars, Wiring
<1>4. Wiring'
  BY <1>1, <1>3 DEF Wiring, netVars, clientVars
<1>5. NotAhead'
  BY <1>1, <1>2 DEF NotAhead, logVars, dispatcherVars, clientVars
<1>6. EntitledReads' /\ NoSilentSkip' /\ StoreAccounted'
  BY <1>1, EntitledFrame, CheckpointFrame, StoreFrame DEF clientVars
<1>7. DeliveredArrives' /\ WireClosed'
  BY <1>1, <1>3 DEF DeliveredArrives, WireClosed, Due, Accounted, Excused, logVars, netVars,
     clientVars
<1>8. HubBehind'
  BY <1>1, <1>3 DEF HubBehind, Behind, dispatcherVars, Wiring
<1>9. QueueComplete'
  BY <1>1, <1>3 DEF QueueComplete, PastBacklog, Due, logVars
<1>10. BatchComplete' /\ BatchAddressed' /\ OnlyAddressed' /\ LiveSeen'
  BY <1>1, BatchFrame, BatchAddressedFrame, AddressedFrame, SeenFrame DEF dispatcherVars, netVars
<1> QED
  BY <1>4, <1>5, <1>6, <1>7, <1>8, <1>9, <1>10

(* The backlog reaches everything the dispatcher may have passed by.       *)
LEMMA AcceptDelivers ==
    ASSUME DeliveryInv, NEW k \in Conns, BoundsAccept(k), TypeOK'
    PROVE  DeliveryInv'
<1> USE DEF DeliveryInv
<1>1. /\ UNCHANGED <<logVars, hubVars, dispatcherVars, owner, delivered, netVars, clientVars>>
      /\ cpc[k] = "bounds" /\ cpc' = [cpc EXCEPT ![k] = "open"]
      /\ backlogHigh' = [backlogHigh EXCEPT ![k] = eventSeq]
  BY DEF BoundsAccept, BacklogTarget
<1>2. /\ cpc \in [Conns -> Phases] /\ backlogHigh \in [Conns -> Nat] /\ eventSeq \in Nat
      /\ retained \subseteq 1..eventSeq
  BY DEF TypeOK, TypeOKHub, TypeOKSession, TypeOKLog
<1>3. ASSUME NEW j \in Conns
      PROVE  /\ cpc'[j] # "free" <=> cpc[j] # "free"
             /\ cpc'[j] # "closed" <=> cpc[j] # "closed"
             /\ cpc'[j] \in {"bounds", "open"} <=> cpc[j] \in {"bounds", "open"}
             /\ cpc'[j] \in {"current", "register", "bounds"} =>
                  cpc[j] \in {"current", "register", "bounds"}
             /\ j # k => cpc'[j] = cpc[j] /\ backlogHigh'[j] = backlogHigh[j]
             /\ Attached(j)' <=> Attached(j)
  BY <1>1, <1>2 DEF Attached, clientVars
<1>4. backlogHigh'[k] = eventSeq
  BY <1>1, <1>2
<1>5. Wiring'
  BY <1>1, <1>3 DEF Wiring, hubVars, netVars, clientVars
<1>6. NotAhead'
  BY <1>1, <1>2 DEF NotAhead, logVars, hubVars, dispatcherVars, clientVars
<1>7. EntitledReads' /\ NoSilentSkip' /\ StoreAccounted'
  BY <1>1, EntitledFrame, CheckpointFrame, StoreFrame DEF clientVars
<1>8. DeliveredArrives' /\ WireClosed'
  BY <1>1, <1>3 DEF DeliveredArrives, WireClosed, Due, Accounted, Excused, logVars, netVars,
     clientVars
<1>9. HubBehind'
  <2> SUFFICES ASSUME NEW j \in Conns, cpc'[j] = "open", ~cancelled[j]
               PROVE  Behind(j, watermark)' /\ (dpc # "idle" => Behind(j, dFrom)')
    BY <1>1 DEF HubBehind, hubVars, dispatcherVars
  <2>1. CASE j = k
    BY <1>1, <1>4, <2>1 DEF Behind, NotAhead, hubVars, dispatcherVars
  <2>2. CASE j # k
    BY <1>1, <1>3, <2>2 DEF HubBehind, Behind, hubVars, dispatcherVars
  <2> QED
    BY <2>1, <2>2
<1>10. QueueComplete'
  <2> SUFFICES ASSUME NEW j \in Conns, NEW n \in retained, cpc'[j] = "open",
                      n > backlogHigh'[j], n > delivered[j], Due(owner[j], n)
               PROVE  /\ ~cancelled[j] /\ n <= latest[j] => n \in live[j]
                      /\ \A x \in live[j] : n < x => n \in live[j]
    BY <1>1 DEF QueueComplete, PastBacklog, logVars, hubVars, Due
  <2>1. j # k
    BY <1>2, <1>4
  <2> QED
    BY <1>3, <2>1 DEF QueueComplete, PastBacklog
<1>11. BatchComplete' /\ BatchAddressed' /\ OnlyAddressed' /\ LiveSeen'
  BY <1>1, BatchFrame, BatchAddressedFrame, AddressedFrame, SeenFrame
     DEF dispatcherVars, netVars, hubVars
<1> QED
  BY <1>5, <1>6, <1>7, <1>8, <1>9, <1>10, <1>11

(* Frames go out without a gap: everything due between the old and the new *)
(* deliveredThrough is among them.                                         *)
LEMMA SendDelivers ==
    ASSUME DeliveryInv, TypeOK', NEW k \in Conns, cpc[k] = "open", NEW S, NEW d \in Nat,
           wire' = [wire EXCEPT ![k] = IF Detached(k) THEN @ ELSE @ \cup S],
           delivered' = [delivered EXCEPT ![k] = d],
           UNCHANGED <<logVars, subs, watermark, latest, cancelled, dispatcherVars, cpc, owner,
                       backlogHigh, clientVars>>,
           \A j \in Conns : live'[j] \subseteq live[j],
           delivered[k] <= d, d <= eventSeq, \A n \in S : n <= d,
           \A n \in S : /\ events[n].exclude # owner[k]
                        /\ events[n].audience \in {NoActor, ActorOf[owner[k]]},
           \A n \in retained : n > delivered[k] /\ n <= d /\ Due(owner[k], n) => n \in S
    PROVE  /\ Wiring' /\ NotAhead' /\ EntitledReads' /\ NoSilentSkip' /\ StoreAccounted'
           /\ DeliveredArrives' /\ WireClosed' /\ HubBehind' /\ BatchComplete'
           /\ OnlyAddressed' /\ BatchAddressed'
<1> USE DEF DeliveryInv
<1>1. /\ wire \in [Conns -> SUBSET (1..eventSeq)] /\ delivered \in [Conns -> Nat]
      /\ eventSeq \in Nat /\ retained \subseteq 1..eventSeq
  BY DEF TypeOK, TypeOKNet, TypeOKSession, TypeOKLog
<1>2. \A n \in retained : n \in Nat
  BY <1>1
<1>3. \A j \in Conns : Attached(j)' <=> Attached(j)
  BY DEF Attached, clientVars
<1>4. ASSUME NEW j \in Conns, j # k PROVE wire'[j] = wire[j] /\ delivered'[j] = delivered[j]
  BY <1>1, <1>4
<1>5. /\ delivered'[k] = d
      /\ wire'[k] = IF Detached(k) THEN wire[k] ELSE wire[k] \cup S
      /\ Attached(k) <=> ~Detached(k)
  BY <1>1 DEF Attached, Detached
<1>6. ASSUME NEW n \in wire'[k] PROVE n <= d
  <2>1. CASE n \in wire[k]
    <3>1. n <= delivered[k] /\ n \in Nat
      BY <1>1, <2>1 DEF Wiring
    <3> QED
      BY <1>1, <3>1
  <2>2. CASE n \in S
    BY <2>2
  <2> QED
    BY <1>5, <2>1, <2>2
<1>7. Wiring'
  <2>1. ASSUME NEW j \in Conns
        PROVE  /\ ~Attached(j)' => wire'[j] = {}
               /\ cpc[j] \in {"current", "register", "bounds"} => wire'[j] = {}
               /\ cpc[j] # "closed" => \A n \in wire'[j] : n <= delivered'[j]
    <3>1. CASE j = k
      BY <1>3, <1>5, <1>6, <3>1 DEF Wiring
    <3>2. CASE j # k
      BY <1>3, <1>4, <3>2 DEF Wiring
    <3> QED
      BY <3>1, <3>2
  <2>2. \A j \in Conns : j \notin subs => live'[j] = {} /\ ~cancelled[j]
    BY DEF Wiring
  <2> QED
    BY <2>1, <2>2 DEF Wiring, clientVars
<1>8. NotAhead'
  BY <1>1 DEF NotAhead, logVars, dispatcherVars, clientVars
<1>9. EntitledReads' /\ NoSilentSkip' /\ StoreAccounted'
  BY EntitledFrame, CheckpointFrame, StoreFrame DEF clientVars
<1>10. ASSUME NEW j \in Conns, NEW n \in retained, Attached(j), cpc[j] # "closed",
              n <= delivered'[j], Due(owner[j], n)
       PROVE  Accounted(owner[j], n) \/ n \in wire'[j]
  <2>1. CASE j # k
    BY <1>4, <1>10, <2>1 DEF DeliveredArrives
  <2>2. CASE j = k /\ n <= delivered[k]
    BY <1>5, <1>10, <2>2 DEF DeliveredArrives
  <2>3. CASE j = k /\ n > delivered[k]
    BY <1>5, <1>10, <2>3
  <2> QED
    BY <1>1, <1>2, <2>1, <2>2, <2>3
<1>11. DeliveredArrives'
  BY <1>3, <1>10 DEF DeliveredArrives, Due, Accounted, Excused, logVars, clientVars
<1>12. WireClosed'
  <2> SUFFICES ASSUME NEW j \in Conns, NEW x \in wire'[j], NEW n \in retained, Attached(j),
                      n < x, Due(owner[j], n)
               PROVE  Accounted(owner[j], n) \/ n \in wire'[j]
    BY <1>3 DEF WireClosed, Due, Accounted, Excused, logVars, clientVars
  <2>1. CASE j # k
    BY <1>4, <2>1 DEF WireClosed
  <2>2. CASE j = k
    <3>1. x <= d /\ x \in Nat
      BY <1>6, <2>2 DEF TypeOK, TypeOKNet, TypeOKLog
    <3>2. n <= delivered'[j]
      BY <1>2, <1>5, <2>2, <3>1
    <3> QED
      BY <1>10, <2>2, <3>2
  <2> QED
    BY <2>1, <2>2
<1>13. HubBehind' /\ BatchComplete' /\ BatchAddressed'
  BY HubFrame, BatchFrame, BatchAddressedFrame DEF dispatcherVars
<1>14. OnlyAddressed'
  <2> SUFFICES ASSUME NEW j \in Conns, NEW n \in wire'[j] \cup live'[j]
               PROVE  /\ events[n].exclude # owner[j]
                      /\ events[n].audience \in {NoActor, ActorOf[owner[j]]}
    BY DEF OnlyAddressed, logVars
  <2>1. n \in wire[j] \cup live[j] \/ (j = k /\ n \in S)
    BY <1>4, <1>5
  <2> QED
    BY <2>1 DEF OnlyAddressed
<1> QED
  BY <1>7, <1>8, <1>9, <1>11, <1>12, <1>13, <1>14

LEMMA ReplayDelivers ==
    ASSUME DeliveryInv, NEW k \in Conns, ReplayBatch(k), TypeOK'
    PROVE  DeliveryInv'
<1> USE DEF DeliveryInv
<1> DEFINE rows == ReplayRows(owner[k], delivered[k], backlogHigh[k])
<1>1. PICK batch \in SUBSET rows, d \in Nat :
        /\ Send(k, batch) /\ delivered' = [delivered EXCEPT ![k] = d]
        /\ \A n \in batch : n <= d
        /\ delivered[k] <= d /\ d <= backlogHigh[k]
        /\ \A n \in rows : n <= d => n \in batch
  BY ReplayBatchIs
<1>2. /\ UNCHANGED <<logVars, hubVars, dispatcherVars, cpc, owner, backlogHigh, clientVars>>
      /\ cpc[k] = "open" /\ owner[k] \in Sessions
  BY DEF ReplayBatch, Wiring
<1>3. /\ eventSeq \in Nat /\ backlogHigh \in [Conns -> Nat] /\ backlogHigh[k] <= eventSeq
      /\ delivered \in [Conns -> Nat] /\ retained \subseteq 1..eventSeq
  BY DEF TypeOK, TypeOKLog, TypeOKSession, NotAhead
<1>4. wire' = [wire EXCEPT ![k] = IF Detached(k) THEN @ ELSE @ \cup batch]
  BY <1>1 DEF Send
<1>5. ASSUME NEW n \in batch
      PROVE  events[n].exclude # owner[k] /\ events[n].audience \in {NoActor, ActorOf[owner[k]]}
  BY <1>1 DEF ReplayRows, VisibleTo
<1>6. ASSUME NEW n \in retained, n > delivered[k], n <= d, Due(owner[k], n) PROVE n \in batch
  <2>1. n \in 1..eventSeq /\ n \in Nat
    BY <1>3
  <2>2. VisibleTo(events[n], owner[k], members)
    BY <1>6, <2>1 DEF EntitledReads, Readers, Due
  <2>3. n <= backlogHigh[k]
    BY <1>1, <1>3, <1>6, <2>1
  <2>4. n \in rows
    BY <1>6, <2>2, <2>3 DEF ReplayRows
  <2> QED
    BY <1>1, <1>6, <2>4
<1>7. d <= eventSeq
  BY <1>1, <1>3
<1> HIDE DEF rows
<1>8. /\ Wiring' /\ NotAhead' /\ EntitledReads' /\ NoSilentSkip' /\ StoreAccounted'
      /\ DeliveredArrives' /\ WireClosed' /\ HubBehind' /\ BatchComplete'
      /\ OnlyAddressed' /\ BatchAddressed'
  BY <1>1, <1>2, <1>4, <1>5, <1>6, <1>7, SendDelivers DEF hubVars
<1>9. QueueComplete'
  <2> SUFFICES ASSUME NEW j \in Conns, NEW n \in retained, cpc[j] = "open",
                      n > backlogHigh[j], n > delivered'[j], Due(owner[j], n)
               PROVE  /\ ~cancelled[j] /\ n <= latest[j] => n \in live[j]
                      /\ \A x \in live[j] : n < x => n \in live[j]
    BY <1>2 DEF QueueComplete, PastBacklog, logVars, hubVars, Due
  <2>1. n > delivered[j]
    <3>1. CASE j = k
      BY <1>1, <1>3, <3>1
    <3>2. CASE j # k
      BY <1>1, <1>3, <3>2
    <3> QED
      BY <3>1, <3>2
  <2> QED
    BY <2>1 DEF QueueComplete, PastBacklog
<1>10. LiveSeen'
  BY <1>2, SeenFrame DEF hubVars
<1> QED
  BY <1>8, <1>9, <1>10

LEMMA LiveFrameDelivers ==
    ASSUME DeliveryInv, NEW k \in Conns, LiveFrame(k), TypeOK'
    PROVE  DeliveryInv'
<1> USE DEF DeliveryInv
<1> DEFINE n0 == Least(live[k])
<1>1. /\ live \in [Conns -> SUBSET (1..eventSeq)] /\ live[k] # {} /\ eventSeq \in Nat
      /\ delivered \in [Conns -> Nat] /\ retained \subseteq 1..eventSeq
      /\ backlogHigh \in [Conns -> Nat] /\ wire \in [Conns -> SUBSET (1..eventSeq)]
  BY DEF LiveFrame, TypeOK, TypeOKHub, TypeOKLog, TypeOKSession, TypeOKNet
<1>2. live[k] \subseteq Nat
  BY <1>1
<1>3. n0 \in live[k] /\ \A o \in live[k] : n0 <= o
  BY <1>1, <1>2, LeastExists
<1> HIDE DEF n0
<1>4. /\ UNCHANGED <<logVars, subs, watermark, latest, cancelled, dispatcherVars, cpc, owner,
                     backlogHigh, clientVars>>
      /\ cpc[k] = "open" /\ owner[k] \in Sessions /\ ~InBacklog(k)
      /\ live' = [live EXCEPT ![k] = live[k] \ {n0}]
      /\ IF n0 <= delivered[k] THEN UNCHANGED <<wire, delivered>>
         ELSE Send(k, {n0}) /\ delivered' = [delivered EXCEPT ![k] = n0]
  BY DEF LiveFrame, Wiring, n0
<1>5. n0 \in 1..eventSeq /\ n0 \in Nat /\ n0 <= eventSeq
  BY <1>1, <1>2, <1>3
<1>6. \A j \in Conns : live'[j] \subseteq live[j]
  BY <1>1, <1>4
<1> DEFINE S == IF n0 <= delivered[k] THEN {} ELSE {n0}
           d == IF n0 <= delivered[k] THEN delivered[k] ELSE n0
<1>7. /\ wire' = [wire EXCEPT ![k] = IF Detached(k) THEN @ ELSE @ \cup S]
      /\ delivered' = [delivered EXCEPT ![k] = d]
  BY <1>1, <1>4 DEF Send
<1>8. d \in Nat /\ delivered[k] <= d /\ d <= eventSeq /\ \A n \in S : n <= d
  BY <1>1, <1>5 DEF NotAhead
<1>9. ASSUME NEW n \in S
      PROVE  events[n].exclude # owner[k] /\ events[n].audience \in {NoActor, ActorOf[owner[k]]}
  BY <1>3 DEF OnlyAddressed
<1>10. ASSUME NEW n \in retained, n > delivered[k], n <= d, Due(owner[k], n) PROVE n \in S
  <2>1. n \in Nat /\ delivered[k] \in Nat /\ backlogHigh[k] \in Nat
    BY <1>1
  <2>2. ~(n0 <= delivered[k]) /\ n <= n0
    BY <1>5, <1>10, <2>1
  <2>3. PastBacklog(k, n)
    BY <1>4, <1>10, <2>1 DEF PastBacklog, InBacklog
  <2>4. n < n0 => n \in live[k]
    BY <1>3, <1>4, <2>3 DEF QueueComplete
  <2>5. n = n0
    BY <1>3, <1>5, <2>1, <2>2, <2>4
  <2> QED
    BY <2>2, <2>5
<1> HIDE DEF S, d
<1>11. /\ Wiring' /\ NotAhead' /\ EntitledReads' /\ NoSilentSkip' /\ StoreAccounted'
       /\ DeliveredArrives' /\ WireClosed' /\ HubBehind' /\ BatchComplete'
       /\ OnlyAddressed' /\ BatchAddressed'
  BY <1>4, <1>6, <1>7, <1>8, <1>9, <1>10, SendDelivers
<1>12. QueueComplete'
  <2> SUFFICES ASSUME NEW j \in Conns, NEW n \in retained, cpc[j] = "open",
                      n > backlogHigh[j], n > delivered'[j], Due(owner[j], n)
               PROVE  /\ ~cancelled[j] /\ n <= latest[j] => n \in live'[j]
                      /\ \A x \in live'[j] : n < x => n \in live'[j]
    BY <1>4 DEF QueueComplete, PastBacklog, logVars, Due
  <2>1. n \in Nat
    BY <1>1
  <2>2. n > delivered[j]
    BY <1>1, <1>7, <1>8, <2>1
  <2>3. /\ ~cancelled[j] /\ n <= latest[j] => n \in live[j]
        /\ \A x \in live[j] : n < x => n \in live[j]
    BY <2>2 DEF QueueComplete, PastBacklog
  <2>4. CASE j # k
    BY <1>1, <1>4, <2>3, <2>4
  <2>5. CASE j = k
    <3>1. n # n0
      BY <1>1, <1>5, <1>7, <2>1, <2>5 DEF d
    <3> QED
      BY <1>1, <1>4, <2>3, <2>5, <3>1
  <2> QED
    BY <2>4, <2>5
<1>13. LiveSeen'
  BY <1>4, <1>6 DEF LiveSeen
<1> QED
  BY <1>11, <1>12, <1>13

-----------------------------------------------------------------------------
(* The client's side                                                       *)

(* Acknowledgements move no event.                                         *)
LEMMA AcksDeliver ==
    ASSUME DeliveryInv, TypeOK', UNCHANGED <<logVars, hubVars, dispatcherVars, cpc, owner,
             backlogHigh, delivered, wire, conn, checkpoint, storeSeq, resyncs, covered,
             abandoned>>
    PROVE  DeliveryInv'
<1> USE DEF DeliveryInv, hubVars, dispatcherVars
<1>1. Wiring' /\ NotAhead' /\ EntitledReads' /\ NoSilentSkip' /\ StoreAccounted'
  BY WiringFrame, NotAheadFrame, EntitledFrame, CheckpointFrame, StoreFrame DEF logVars
<1>2. DeliveredArrives' /\ WireClosed' /\ HubBehind' /\ QueueComplete'
  BY ArrivesFrame, WireFrame, HubFrame, QueueFrame
<1>3. BatchComplete' /\ OnlyAddressed' /\ BatchAddressed' /\ LiveSeen'
  BY BatchFrame, AddressedFrame, BatchAddressedFrame, SeenFrame
<1> QED
  BY <1>1, <1>2, <1>3

LEMMA ConnectDelivers ==
    ASSUME DeliveryInv, NEW s \in Sessions, NEW k \in Conns, Connect(s, k), TypeOK'
    PROVE  DeliveryInv'
<1> USE DEF DeliveryInv
<1>1. /\ UNCHANGED <<logVars, hubVars, dispatcherVars, backlogHigh, wire, checkpoint, storeSeq,
                     resyncs, covered, abandoned>>
      /\ conn[s] = NoConn /\ cpc[k] = "free" /\ conn' = [conn EXCEPT ![s] = k]
      /\ owner' = [owner EXCEPT ![k] = s] /\ cpc' = [cpc EXCEPT ![k] = "current"]
      /\ delivered' = [delivered EXCEPT ![k] = checkpoint[s]]
  BY DEF Connect, netVars
<1>2. /\ conn \in [Sessions -> Conns \cup {NoConn}] /\ cpc \in [Conns -> Phases]
      /\ owner \in [Conns -> Sessions \cup {NoSession}] /\ delivered \in [Conns -> Nat]
      /\ checkpoint \in [Sessions -> Nat] /\ NoConn \notin Conns
  BY ConnAssumption DEF TypeOK, TypeOKClient, TypeOKSession
<1>3. wire[k] = {} /\ k \notin subs /\ live[k] = {} /\ ~cancelled[k]
  BY <1>1 DEF Wiring, Attached
<1>4. /\ owner'[k] = s /\ cpc'[k] = "current" /\ conn'[s] = k /\ delivered'[k] = checkpoint[s]
  BY <1>1, <1>2
<1>5. ASSUME NEW j \in Conns, j # k
      PROVE  /\ owner'[j] = owner[j] /\ cpc'[j] = cpc[j] /\ delivered'[j] = delivered[j]
             /\ Attached(j)' <=> Attached(j)
  <2>1. owner'[j] = owner[j] /\ cpc'[j] = cpc[j] /\ delivered'[j] = delivered[j]
    BY <1>1, <1>2, <1>5
  <2>2. CASE owner[j] = s
    BY <1>1, <1>2, <1>4, <1>5, <2>1, <2>2 DEF Attached
  <2>3. CASE owner[j] # s
    <3>1. cpc[j] # "free" => owner[j] \in Sessions
      BY DEF Wiring
    <3> QED
      BY <1>1, <1>2, <2>1, <2>3, <3>1 DEF Attached
  <2> QED
    BY <2>1, <2>2, <2>3
<1>6. Wiring'
  <2>1. ASSUME NEW t \in Sessions, conn'[t] \in Conns
        PROVE  owner'[conn'[t]] = t /\ cpc'[conn'[t]] # "free"
    <3>1. CASE t = s
      BY <1>4, <3>1
    <3>2. CASE t # s
      <4>1. conn'[t] = conn[t] /\ owner[conn[t]] = t /\ cpc[conn[t]] # "free"
        BY <1>1, <1>2, <2>1, <3>2 DEF Wiring
      <4>2. conn[t] # k
        BY <1>1, <4>1
      <4> QED
        BY <1>5, <2>1, <4>1, <4>2
    <3> QED
      BY <3>1, <3>2
  <2>2. ASSUME NEW j \in Conns
        PROVE  /\ cpc'[j] # "free" => owner'[j] \in Sessions
               /\ j \in subs <=> cpc'[j] \in {"bounds", "open"}
               /\ ~Attached(j)' => wire[j] = {}
               /\ cpc'[j] \in {"current", "register", "bounds"} => wire[j] = {}
               /\ cpc'[j] # "closed" => \A n \in wire[j] : n <= delivered'[j]
               /\ j \notin subs => live[j] = {} /\ ~cancelled[j]
    <3>1. CASE j = k
      BY <1>3, <1>4, <3>1
    <3>2. CASE j # k
      BY <1>5, <3>2 DEF Wiring
    <3> QED
      BY <3>1, <3>2
  <2> QED
    BY <1>1, <2>1, <2>2 DEF Wiring, hubVars
<1>7. NotAhead'
  BY <1>1, <1>2 DEF NotAhead, logVars, hubVars, dispatcherVars
<1>8. EntitledReads' /\ NoSilentSkip' /\ StoreAccounted'
  BY <1>1, EntitledFrame, CheckpointFrame, StoreFrame
<1>9. DeliveredArrives'
  <2> SUFFICES ASSUME NEW j \in Conns, NEW n \in retained, Attached(j)', cpc'[j] # "closed",
                      n <= delivered'[j], Due(owner'[j], n)
               PROVE  Accounted(owner'[j], n) \/ n \in wire[j]
    BY <1>1 DEF DeliveredArrives, logVars, Due, Accounted, Excused
  <2>1. CASE j = k
    BY <1>4, <2>1 DEF NoSilentSkip
  <2>2. CASE j # k
    BY <1>5, <2>2 DEF DeliveredArrives
  <2> QED
    BY <2>1, <2>2
<1>10. WireClosed'
  <2> SUFFICES ASSUME NEW j \in Conns, NEW x \in wire[j], NEW n \in retained, Attached(j)',
                      n < x, Due(owner'[j], n)
               PROVE  Accounted(owner'[j], n) \/ n \in wire[j]
    BY <1>1 DEF WireClosed, logVars, Due, Accounted, Excused
  <2>1. j # k
    BY <1>3
  <2> QED
    BY <1>5, <2>1 DEF WireClosed
<1>11. HubBehind'
  BY <1>1, <1>4, <1>5 DEF HubBehind, Behind, hubVars, dispatcherVars
<1>12. QueueComplete'
  <2> SUFFICES ASSUME NEW j \in Conns, NEW n \in retained, cpc'[j] = "open",
                      n > backlogHigh[j], n > delivered'[j], Due(owner'[j], n)
               PROVE  /\ ~cancelled[j] /\ n <= latest[j] => n \in live[j]
                      /\ \A x \in live[j] : n < x => n \in live[j]
    BY <1>1 DEF QueueComplete, PastBacklog, logVars, hubVars, Due
  <2>1. j # k
    BY <1>4
  <2> QED
    BY <1>5, <2>1 DEF QueueComplete, PastBacklog
<1>13. OnlyAddressed'
  <2> SUFFICES ASSUME NEW j \in Conns, NEW n \in wire[j] \cup live[j]
               PROVE  /\ events[n].exclude # owner'[j]
                      /\ events[n].audience \in {NoActor, ActorOf[owner'[j]]}
    BY <1>1 DEF OnlyAddressed, logVars, hubVars
  <2>1. j # k
    BY <1>3
  <2> QED
    BY <1>5, <2>1 DEF OnlyAddressed
<1>14. BatchComplete' /\ BatchAddressed' /\ LiveSeen'
  BY <1>1, BatchFrame, BatchAddressedFrame, SeenFrame DEF dispatcherVars, hubVars
<1> QED
  BY <1>6, <1>7, <1>8, <1>9, <1>10, <1>11, <1>12, <1>13, <1>14

(* Letting go of a socket detaches its connection and nothing else.        *)
LEMMA LetGoDelivers ==
    ASSUME DeliveryInv, TypeOK', NEW s \in Sessions, LetGo(s),
           UNCHANGED <<logVars, hubVars, dispatcherVars, backlogHigh, delivered>>,
           \A t \in Sessions : \A n \in retained : Accounted(t, n) => Accounted(t, n)'
    PROVE  /\ Wiring' /\ EntitledReads' /\ DeliveredArrives' /\ WireClosed' /\ HubBehind'
           /\ QueueComplete' /\ BatchComplete' /\ OnlyAddressed' /\ BatchAddressed' /\ LiveSeen'
<1> USE DEF DeliveryInv
<1>1. /\ conn \in [Sessions -> Conns \cup {NoConn}] /\ cpc \in [Conns -> Phases]
      /\ owner \in [Conns -> Sessions \cup {NoSession}] /\ NoConn \notin Conns
      /\ wire \in [Conns -> SUBSET (1..eventSeq)] /\ conn' = [conn EXCEPT ![s] = NoConn]
  BY ConnAssumption DEF TypeOK, TypeOKClient, TypeOKSession, TypeOKNet, LetGo
<1>2. ASSUME NEW j \in Conns, j # conn[s]
      PROVE  owner'[j] = owner[j] /\ cpc'[j] = cpc[j] /\ wire'[j] = wire[j]
  BY <1>1, <1>2 DEF LetGo
<1>3. ASSUME NEW j \in Conns, j = conn[s]
      PROVE  /\ wire'[j] = {} /\ owner[j] = s
             /\ cpc[j] = "closed" => owner'[j] = NoSession /\ cpc'[j] = "free"
             /\ cpc[j] # "closed" => owner'[j] = owner[j] /\ cpc'[j] = cpc[j]
             /\ cpc[j] # "free"
  BY <1>1, <1>3 DEF LetGo, Wiring
<1>4. ASSUME NEW j \in Conns, Attached(j)'
      PROVE  Attached(j) /\ j # conn[s] /\ owner[j] \in Sessions
  <2>1. cpc'[j] # "free" /\ conn'[owner'[j]] = j
    BY <1>4 DEF Attached
  <2>2. j # conn[s]
    <3> SUFFICES ASSUME j = conn[s] PROVE FALSE
      OBVIOUS
    <3>1. owner'[j] = s
      BY <1>3, <2>1
    <3> QED
      BY <1>1, <2>1, <3>1
  <2>3. owner[j] \in Sessions /\ owner'[j] = owner[j] /\ cpc[j] # "free"
    BY <1>2, <2>1, <2>2 DEF Wiring
  <2>4. conn[owner[j]] = j
    BY <1>1, <2>1, <2>3
  <2> QED
    BY <2>2, <2>3, <2>4 DEF Attached
<1>5. ASSUME NEW j \in Conns, cpc'[j] # "free"
      PROVE  cpc'[j] = cpc[j] /\ owner'[j] = owner[j]
  BY <1>2, <1>3, <1>5
<1>6. Wiring'
  <2>1. ASSUME NEW t \in Sessions, conn'[t] \in Conns
        PROVE  owner'[conn'[t]] = t /\ cpc'[conn'[t]] # "free"
    <3>1. t # s /\ conn'[t] = conn[t]
      BY <1>1, <2>1
    <3>2. owner[conn[t]] = t /\ cpc[conn[t]] # "free"
      BY <2>1, <3>1 DEF Wiring
    <3>3. conn[t] # conn[s]
      BY <1>3, <2>1, <3>1, <3>2
    <3> QED
      BY <1>2, <2>1, <3>1, <3>2, <3>3
  <2>2. ASSUME NEW j \in Conns
        PROVE  /\ cpc'[j] # "free" => owner'[j] \in Sessions
               /\ j \in subs <=> cpc'[j] \in {"bounds", "open"}
               /\ ~Attached(j)' => wire'[j] = {}
               /\ cpc'[j] \in {"current", "register", "bounds"} => wire'[j] = {}
               /\ cpc'[j] # "closed" => \A n \in wire'[j] : n <= delivered[j]
               /\ j \notin subs => live[j] = {} /\ ~cancelled[j]
    <3>1. CASE j = conn[s]
      BY <1>3, <3>1 DEF Wiring
    <3>2. CASE j # conn[s]
      <4>1. owner'[j] = owner[j] /\ cpc'[j] = cpc[j] /\ wire'[j] = wire[j]
        BY <1>2, <3>2
      <4>2. Attached(j) => Attached(j)'
        <5> SUFFICES ASSUME Attached(j) PROVE conn'[owner[j]] = j
          BY <4>1 DEF Attached
        <5>1. owner[j] \in Sessions /\ owner[j] # s
          BY <3>2 DEF Attached, Wiring
        <5> QED
          BY <1>1, <5>1 DEF Attached
      <4> QED
        BY <4>1, <4>2 DEF Wiring
    <3> QED
      BY <3>1, <3>2
  <2> QED
    BY <2>1, <2>2 DEF Wiring, hubVars
<1>7. EntitledReads' /\ BatchComplete' /\ BatchAddressed' /\ LiveSeen'
  BY EntitledFrame, BatchFrame, BatchAddressedFrame, SeenFrame DEF dispatcherVars, hubVars
<1>8. DeliveredArrives'
  <2> SUFFICES ASSUME NEW j \in Conns, NEW n \in retained, Attached(j)', cpc'[j] # "closed",
                      n <= delivered[j], Due(owner'[j], n)
               PROVE  Accounted(owner[j], n)' \/ n \in wire'[j]
    BY DEF DeliveredArrives, logVars, Due
  <2>1. /\ Attached(j) /\ owner[j] \in Sessions /\ owner'[j] = owner[j] /\ cpc'[j] = cpc[j]
        /\ wire'[j] = wire[j]
    BY <1>2, <1>4
  <2>2. Accounted(owner[j], n) \/ n \in wire[j]
    BY <2>1 DEF DeliveredArrives
  <2> QED
    BY <2>1, <2>2
<1>9. WireClosed'
  <2> SUFFICES ASSUME NEW j \in Conns, NEW x \in wire'[j], NEW n \in retained, Attached(j)',
                      n < x, Due(owner'[j], n)
               PROVE  Accounted(owner[j], n)' \/ n \in wire'[j]
    BY DEF WireClosed, logVars, Due
  <2>1. /\ Attached(j) /\ owner[j] \in Sessions /\ owner'[j] = owner[j] /\ wire'[j] = wire[j]
    BY <1>2, <1>4
  <2>2. Accounted(owner[j], n) \/ n \in wire[j]
    BY <2>1 DEF WireClosed
  <2> QED
    BY <2>1, <2>2
<1>10. HubBehind'
  BY <1>5 DEF HubBehind, Behind, hubVars, dispatcherVars
<1>11. QueueComplete'
  BY <1>5 DEF QueueComplete, PastBacklog, Due, logVars, hubVars
<1>12. OnlyAddressed'
  <2> SUFFICES ASSUME NEW j \in Conns, NEW n \in wire'[j] \cup live[j]
               PROVE  /\ events[n].exclude # owner'[j]
                      /\ events[n].audience \in {NoActor, ActorOf[owner'[j]]}
    BY DEF OnlyAddressed, logVars, hubVars
  <2>1. n \in wire[j] \cup live[j] /\ owner'[j] = owner[j]
    <3>1. CASE j = conn[s]
      <4>1. n \in live[j]
        BY <1>3, <3>1
      <4>2. cpc[j] # "closed"
        BY <4>1 DEF Wiring
      <4> QED
        BY <1>3, <3>1, <4>1, <4>2
    <3>2. CASE j # conn[s]
      BY <1>2, <3>2
    <3> QED
      BY <3>1, <3>2
  <2> QED
    BY <2>1 DEF OnlyAddressed
<1> QED
  BY <1>6, <1>7, <1>8, <1>9, <1>10, <1>11, <1>12

(* The frame at the head of the wire: what came before it is accounted for. *)
LEMMA ReceiveEventDelivers ==
    ASSUME DeliveryInv, NEW s \in Sessions, ReceiveEvent(s), TypeOK'
    PROVE  DeliveryInv'
<1> USE DEF DeliveryInv
<1> DEFINE k == conn[s]
           n0 == Least(wire[k])
<1>1. /\ k \in Conns /\ wire[k] # {} /\ eventSeq \in Nat /\ retained \subseteq 1..eventSeq
      /\ wire \in [Conns -> SUBSET (1..eventSeq)] /\ storeSeq \in [Sessions -> Nat]
      /\ checkpoint \in [Sessions -> Nat] /\ covered \in [Sessions -> SUBSET Nat]
  BY DEF ReceiveEvent, TypeOK, TypeOKClient, TypeOKNet, TypeOKLog
<1>2. wire[k] \subseteq Nat
  BY <1>1
<1>3. n0 \in wire[k] /\ \A o \in wire[k] : n0 <= o
  BY <1>1, <1>2, LeastExists
<1>4. /\ UNCHANGED <<logVars, hubVars, dispatcherVars, sessionVars, conn, resyncs, abandoned>>
      /\ wire' = [wire EXCEPT ![k] = wire[k] \ {n0}]
      /\ n0 > storeSeq[s] => /\ storeSeq' = [storeSeq EXCEPT ![s] = n0]
                             /\ covered' = [covered EXCEPT ![s] = covered[s] \cup {n0}]
      /\ ~(n0 > storeSeq[s]) => UNCHANGED <<storeSeq, covered>>
      /\ \/ checkpoint' = [checkpoint EXCEPT ![s] = n0]
         \/ checkpoint' = checkpoint
  BY <1>1 DEF ReceiveEvent
<1>5. owner[k] = s /\ Attached(k)
  BY <1>1 DEF Wiring, Attached
<1> HIDE DEF k, n0
<1>6. n0 \in Nat /\ n0 <= eventSeq /\ n0 \in 1..eventSeq
  BY <1>1, <1>3
<1>7. \A n \in retained : n \in Nat
  BY <1>1
<1>8. \A t \in Sessions : covered[t] \subseteq covered'[t]
  BY <1>1, <1>4
<1>9. \A t \in Sessions : \A n : Accounted(t, n) => Accounted(t, n)'
  BY <1>4, <1>8 DEF Accounted, Excused
<1>10. ASSUME NEW n \in retained, n <= n0, Due(s, n) PROVE Accounted(s, n)'
  <2>1. CASE n = n0 /\ n0 > storeSeq[s]
    BY <1>1, <1>4, <2>1 DEF Accounted
  <2>2. CASE n = n0 /\ ~(n0 > storeSeq[s])
    <3>1. n <= storeSeq[s]
      BY <1>1, <1>6, <2>2
    <3> QED
      BY <1>9, <1>10, <3>1 DEF StoreAccounted
  <2>3. CASE n < n0
    <3>1. Accounted(s, n) \/ n \in wire[k]
      BY <1>1, <1>3, <1>5, <1>10, <2>3 DEF WireClosed
    <3>2. n \notin wire[k]
      BY <1>3, <1>6, <1>7, <2>3
    <3> QED
      BY <1>9, <3>1, <3>2
  <2> QED
    BY <1>6, <1>7, <1>10, <2>1, <2>2, <2>3
<1>11. NoSilentSkip'
  <2> SUFFICES ASSUME NEW t \in Sessions, NEW n \in retained, n <= checkpoint'[t], Due(t, n)
               PROVE  Accounted(t, n)'
    BY <1>4 DEF NoSilentSkip, Due, logVars
  <2>1. CASE checkpoint'[t] = checkpoint[t]
    BY <1>9, <2>1 DEF NoSilentSkip
  <2>2. CASE t = s /\ checkpoint'[t] = n0
    BY <1>10, <2>2
  <2> QED
    BY <1>1, <1>4, <2>1, <2>2
<1>12. StoreAccounted'
  <2> SUFFICES ASSUME NEW t \in Sessions, NEW n \in retained, n <= storeSeq'[t], Due(t, n)
               PROVE  Accounted(t, n)'
    BY <1>4 DEF StoreAccounted, Due, logVars
  <2>1. CASE storeSeq'[t] = storeSeq[t]
    BY <1>9, <2>1 DEF StoreAccounted
  <2>2. CASE t = s /\ storeSeq'[t] = n0
    BY <1>10, <2>2
  <2> QED
    BY <1>1, <1>4, <2>1, <2>2
<1>13. \A j \in Conns : Attached(j)' <=> Attached(j)
  BY <1>4 DEF Attached, sessionVars
<1>14. ASSUME NEW j \in Conns, NEW n \in wire[j] PROVE n \in wire'[j] \/ (j = k /\ n = n0)
  BY <1>1, <1>4
<1>15. \A j \in Conns : wire'[j] \subseteq wire[j]
  BY <1>1, <1>4
<1>16. \A j \in Conns : Attached(j) => owner[j] \in Sessions
  BY DEF Attached, Wiring
<1>17. ASSUME NEW j \in Conns, NEW n \in retained, Attached(j), Due(owner[j], n),
              Accounted(owner[j], n) \/ n \in wire[j]
       PROVE  Accounted(owner[j], n)' \/ n \in wire'[j]
  <2>1. owner'[j] = owner[j] /\ owner[j] \in Sessions
    BY <1>4, <1>16, <1>17 DEF sessionVars
  <2>2. CASE Accounted(owner[j], n)
    BY <1>9, <2>1, <2>2
  <2>3. CASE j = k /\ n = n0
    <3>1. n <= n0
      BY <1>6, <2>3
    <3>2. owner[j] = s /\ owner'[j] = s
      BY <1>5, <2>1, <2>3
    <3>3. Accounted(s, n)'
      BY <1>10, <1>17, <3>1, <3>2
    <3> QED
      BY <3>2, <3>3
  <2> QED
    BY <1>14, <1>17, <2>2, <2>3
<1>18. DeliveredArrives'
  <2> SUFFICES ASSUME NEW j \in Conns, NEW n \in retained, Attached(j), cpc[j] # "closed",
                      n <= delivered[j], Due(owner[j], n)
               PROVE  Accounted(owner[j], n)' \/ n \in wire'[j]
    BY <1>4, <1>13 DEF DeliveredArrives, logVars, sessionVars, Due
  <2> QED
    BY <1>17 DEF DeliveredArrives
<1>19. WireClosed'
  <2> SUFFICES ASSUME NEW j \in Conns, NEW x \in wire'[j], NEW n \in retained, Attached(j),
                      n < x, Due(owner[j], n)
               PROVE  Accounted(owner[j], n)' \/ n \in wire'[j]
    BY <1>4, <1>13 DEF WireClosed, logVars, sessionVars, Due
  <2> QED
    BY <1>15, <1>17 DEF WireClosed
<1>20. Wiring'
  BY <1>4, <1>13, <1>15 DEF Wiring, hubVars, sessionVars
<1>21. NotAhead'
  <2>1. \A t \in Sessions : checkpoint'[t] <= eventSeq /\ storeSeq'[t] <= eventSeq
    BY <1>1, <1>4, <1>6 DEF NotAhead
  <2> QED
    BY <1>4, <2>1 DEF NotAhead, logVars, hubVars, dispatcherVars, sessionVars
<1>22. EntitledReads' /\ HubBehind' /\ QueueComplete' /\ BatchComplete' /\ BatchAddressed'
       /\ LiveSeen'
  BY <1>4, EntitledFrame, HubFrame, QueueFrame, BatchFrame, BatchAddressedFrame, SeenFrame
     DEF hubVars, dispatcherVars, sessionVars
<1>23. OnlyAddressed'
  BY <1>4, <1>15 DEF OnlyAddressed, logVars, hubVars, sessionVars
<1> QED
  BY <1>11, <1>12, <1>18, <1>19, <1>20, <1>21, <1>22, <1>23

LEMMA ReceiveResyncDelivers ==
    ASSUME DeliveryInv, NEW s \in Sessions, ReceiveResync(s), TypeOK'
    PROVE  DeliveryInv'
<1> USE DEF DeliveryInv
<1> DEFINE r == resyncTo[conn[s]]
<1>1. /\ UNCHANGED <<logVars, hubVars, dispatcherVars, cpc, owner, backlogHigh, delivered, wire,
                     conn, checkpoint, covered, abandoned>>
      /\ storeSeq' = [storeSeq EXCEPT ![s] = r]
      /\ resyncs' = [resyncs EXCEPT ![s] = resyncs[s] \cup {r}]
  BY DEF ReceiveResync, netVars
<1>2. /\ r \in 0..eventSeq /\ eventSeq \in Nat /\ storeSeq \in [Sessions -> Nat]
      /\ resyncs \in [Sessions -> SUBSET (1..eventSeq)]
  BY DEF ReceiveResync, TypeOK, TypeOKClient, TypeOKSession, TypeOKLog
<1> HIDE DEF r
<1>3. \A t \in Sessions : resyncs[t] \subseteq resyncs'[t]
  BY <1>1, <1>2
<1>4. \A t \in Sessions : \A n : Accounted(t, n) => Accounted(t, n)'
  BY <1>1, <1>3 DEF Accounted, Excused
<1>5. StoreAccounted'
  <2> SUFFICES ASSUME NEW t \in Sessions, NEW n \in retained, n <= storeSeq'[t], Due(t, n)
               PROVE  Accounted(t, n)'
    BY <1>1 DEF StoreAccounted, Due, logVars
  <2>1. CASE t # s
    BY <1>1, <1>2, <1>4, <2>1 DEF StoreAccounted
  <2>2. CASE t = s
    <3>1. r \in resyncs'[t] /\ n <= r
      BY <1>1, <1>2, <2>2
    <3> QED
      BY <3>1 DEF Accounted, Excused
  <2> QED
    BY <2>1, <2>2
<1>6. NoSilentSkip'
  BY <1>1, <1>4 DEF NoSilentSkip, Due, logVars
<1>7. \A j \in Conns : (Attached(j)' <=> Attached(j)) /\ (Attached(j) => owner[j] \in Sessions)
  BY <1>1 DEF Attached, Wiring
<1>8. ASSUME NEW j \in Conns, NEW n, Attached(j), Accounted(owner[j], n)
      PROVE  Accounted(owner[j], n)'
  BY <1>1, <1>4, <1>7, <1>8
<1>9. DeliveredArrives'
  <2> SUFFICES ASSUME NEW j \in Conns, NEW n \in retained, Attached(j), cpc[j] # "closed",
                      n <= delivered[j], Due(owner[j], n)
               PROVE  Accounted(owner[j], n)' \/ n \in wire[j]
    BY <1>1, <1>7 DEF DeliveredArrives, logVars, Due
  <2> QED
    BY <1>8 DEF DeliveredArrives
<1>10. WireClosed'
  <2> SUFFICES ASSUME NEW j \in Conns, NEW x \in wire[j], NEW n \in retained, Attached(j),
                      n < x, Due(owner[j], n)
               PROVE  Accounted(owner[j], n)' \/ n \in wire[j]
    BY <1>1, <1>7 DEF WireClosed, logVars, Due
  <2> QED
    BY <1>8 DEF WireClosed
<1>11. NotAhead'
  BY <1>1, <1>2 DEF NotAhead, logVars, hubVars, dispatcherVars
<1>12. Wiring' /\ EntitledReads' /\ HubBehind' /\ QueueComplete' /\ BatchComplete'
       /\ OnlyAddressed' /\ BatchAddressed' /\ LiveSeen'
  BY <1>1, WiringFrame, EntitledFrame, HubFrame, QueueFrame, BatchFrame, AddressedFrame,
     BatchAddressedFrame, SeenFrame DEF hubVars, dispatcherVars
<1> QED
  BY <1>5, <1>6, <1>9, <1>10, <1>11, <1>12

(* A resync that fails, or dies with the page, leaves its mark.            *)
LEMMA AbandonGrows ==
    ASSUME TypeOK, TypeOK', UNCHANGED covered,
           \A t \in Sessions : abandoned[t] <= abandoned'[t],
           \A t \in Sessions : \A r \in resyncs[t] : r \in resyncs'[t] \/ r <= abandoned'[t]
    PROVE  \A t \in Sessions : \A n \in retained : Accounted(t, n) => Accounted(t, n)'
<1> SUFFICES ASSUME NEW t \in Sessions, NEW n \in retained, Accounted(t, n)
             PROVE  Accounted(t, n)'
  OBVIOUS
<1>1. n \in Nat /\ abandoned[t] \in Nat /\ abandoned'[t] \in Nat /\ resyncs[t] \subseteq Nat
  <2>1. eventSeq \in Nat /\ n \in 1..eventSeq /\ resyncs[t] \subseteq 1..eventSeq
    BY DEF TypeOK, TypeOKLog, TypeOKClient
  <2> QED
    BY <2>1 DEF TypeOK, TypeOKClient
<1>2. CASE n \in covered[t]
  BY <1>2 DEF Accounted
<1>3. CASE n <= abandoned[t]
  BY <1>1, <1>3 DEF Accounted, Excused
<1>4. ASSUME NEW r \in resyncs[t], n <= r PROVE Accounted(t, n)'
  <2>1. r \in resyncs'[t] \/ n <= abandoned'[t]
    BY <1>1, <1>4
  <2> QED
    BY <1>4, <2>1 DEF Accounted, Excused
<1> QED
  BY <1>2, <1>3, <1>4 DEF Accounted, Excused

LEMMA ResyncDoneDelivers ==
    ASSUME DeliveryInv, NEW s \in Sessions, NEW r \in resyncs[s], ResyncDone(s, r), TypeOK'
    PROVE  DeliveryInv'
<1> USE DEF DeliveryInv
<1>1. /\ UNCHANGED <<logVars, hubVars, dispatcherVars, backlogHigh, delivered, storeSeq,
                     abandoned>>
      /\ resyncs' = [resyncs EXCEPT ![s] = resyncs[s] \ {r}]
      /\ checkpoint' = [checkpoint EXCEPT ![s] = r]
      /\ covered' = [covered EXCEPT ![s] = covered[s] \cup 1..r]
      /\ LetGo(s)
  BY DEF ResyncDone, SaveWatermark
<1>2. /\ resyncs \in [Sessions -> SUBSET (1..eventSeq)] /\ checkpoint \in [Sessions -> Nat]
      /\ covered \in [Sessions -> SUBSET Nat] /\ eventSeq \in Nat
      /\ retained \subseteq 1..eventSeq
  BY DEF TypeOK, TypeOKClient, TypeOKLog
<1>3. r \in Nat /\ r <= eventSeq
  BY <1>2
<1>4. ASSUME NEW t \in Sessions, NEW n \in retained, Accounted(t, n) PROVE Accounted(t, n)'
  <2>1. n \in Nat /\ n >= 1
    BY <1>2
  <2>2. CASE n \in covered[t]
    BY <1>1, <1>2, <2>2 DEF Accounted
  <2>3. CASE n <= abandoned[t]
    BY <1>1, <2>3 DEF Accounted, Excused
  <2>4. ASSUME NEW q \in resyncs[t], n <= q PROVE Accounted(t, n)'
    <3>1. CASE t = s /\ q = r
      <4>1. n \in covered'[t]
        BY <1>1, <1>2, <1>3, <2>1, <2>4, <3>1
      <4> QED
        BY <4>1 DEF Accounted
    <3>2. CASE ~(t = s /\ q = r)
      <4>1. q \in resyncs'[t]
        BY <1>1, <1>2, <3>2
      <4> QED
        BY <2>4, <4>1 DEF Accounted, Excused
    <3> QED
      BY <3>1, <3>2
  <2> QED
    BY <1>4, <2>2, <2>3, <2>4 DEF Accounted, Excused
<1>5. NoSilentSkip'
  <2> SUFFICES ASSUME NEW t \in Sessions, NEW n \in retained, n <= checkpoint'[t], Due(t, n)
               PROVE  Accounted(t, n)'
    BY <1>1 DEF NoSilentSkip, Due, logVars
  <2>1. CASE t # s
    BY <1>1, <1>2, <1>4, <2>1 DEF NoSilentSkip
  <2>2. CASE t = s
    <3>1. n <= r /\ n \in Nat /\ n >= 1
      BY <1>1, <1>2, <2>2
    <3>2. n \in covered'[t]
      BY <1>1, <1>2, <1>3, <2>2, <3>1
    <3> QED
      BY <3>2 DEF Accounted
  <2> QED
    BY <2>1, <2>2
<1>6. StoreAccounted'
  BY <1>1, <1>4 DEF StoreAccounted, Due, logVars
<1>7. NotAhead'
  BY <1>1, <1>2, <1>3 DEF NotAhead, logVars, hubVars, dispatcherVars
<1>8. /\ Wiring' /\ EntitledReads' /\ DeliveredArrives' /\ WireClosed' /\ HubBehind'
      /\ QueueComplete' /\ BatchComplete' /\ OnlyAddressed' /\ BatchAddressed' /\ LiveSeen'
  BY <1>1, <1>4, LetGoDelivers
<1> QED
  BY <1>5, <1>6, <1>7, <1>8

LEMMA ResyncUnloadedDelivers ==
    ASSUME DeliveryInv, NEW s \in Sessions, NEW r \in resyncs[s], ResyncUnloaded(s, r), TypeOK'
    PROVE  DeliveryInv'
<1> USE DEF DeliveryInv
<1>1. /\ UNCHANGED <<logVars, hubVars, dispatcherVars, backlogHigh, delivered, storeSeq,
                     covered>>
      /\ resyncs' = [resyncs EXCEPT ![s] = resyncs[s] \ {r}]
      /\ checkpoint' = [checkpoint EXCEPT ![s] = r]
      /\ abandoned' = [abandoned EXCEPT ![s] = Larger(abandoned[s], r)]
      /\ LetGo(s)
  BY DEF ResyncUnloaded, SaveWatermark
<1>2. /\ resyncs \in [Sessions -> SUBSET (1..eventSeq)] /\ checkpoint \in [Sessions -> Nat]
      /\ abandoned \in [Sessions -> Nat] /\ eventSeq \in Nat
      /\ retained \subseteq 1..eventSeq
  BY DEF TypeOK, TypeOKClient, TypeOKLog
<1>3. r \in Nat /\ r <= eventSeq
  BY <1>2
<1>4. \A t \in Sessions : \A n \in retained : Accounted(t, n) => Accounted(t, n)'
  <2>1. \A t \in Sessions : abandoned[t] <= abandoned'[t]
    BY <1>1, <1>2, <1>3 DEF Larger
  <2>2. \A t \in Sessions : \A q \in resyncs[t] : q \in resyncs'[t] \/ q <= abandoned'[t]
    BY <1>1, <1>2, <1>3 DEF Larger
  <2> QED
    BY <1>1, <2>1, <2>2, AbandonGrows
<1>5. NoSilentSkip'
  <2> SUFFICES ASSUME NEW t \in Sessions, NEW n \in retained, n <= checkpoint'[t], Due(t, n)
               PROVE  Accounted(t, n)'
    BY <1>1 DEF NoSilentSkip, Due, logVars
  <2>1. CASE t # s
    BY <1>1, <1>2, <1>4, <2>1 DEF NoSilentSkip
  <2>2. CASE t = s
    <3>1. n <= r /\ n \in Nat /\ abandoned'[t] = Larger(abandoned[s], r)
      BY <1>1, <1>2, <2>2
    <3>2. n <= abandoned'[t]
      BY <1>2, <1>3, <3>1 DEF Larger
    <3> QED
      BY <3>2 DEF Accounted, Excused
  <2> QED
    BY <2>1, <2>2
<1>6. StoreAccounted'
  BY <1>1, <1>4 DEF StoreAccounted, Due, logVars
<1>7. NotAhead'
  BY <1>1, <1>2, <1>3 DEF NotAhead, logVars, hubVars, dispatcherVars
<1>8. /\ Wiring' /\ EntitledReads' /\ DeliveredArrives' /\ WireClosed' /\ HubBehind'
      /\ QueueComplete' /\ BatchComplete' /\ OnlyAddressed' /\ BatchAddressed' /\ LiveSeen'
  BY <1>1, <1>4, LetGoDelivers
<1> QED
  BY <1>5, <1>6, <1>7, <1>8

LEMMA ResyncFailedDelivers ==
    ASSUME DeliveryInv, NEW s \in Sessions, NEW r \in resyncs[s], ResyncFailed(s, r), TypeOK'
    PROVE  DeliveryInv'
<1> USE DEF DeliveryInv
<1>1. /\ UNCHANGED <<logVars, hubVars, dispatcherVars, sessionVars, netVars, conn, checkpoint,
                     storeSeq, covered>>
      /\ resyncs' = [resyncs EXCEPT ![s] = resyncs[s] \ {r}]
      /\ abandoned' = [abandoned EXCEPT ![s] = Larger(abandoned[s], r)]
  BY DEF ResyncFailed
<1>2. /\ resyncs \in [Sessions -> SUBSET (1..eventSeq)] /\ abandoned \in [Sessions -> Nat]
      /\ r \in Nat /\ eventSeq \in Nat
  BY DEF TypeOK, TypeOKClient, TypeOKLog
<1>3. \A t \in Sessions : \A n \in retained : Accounted(t, n) => Accounted(t, n)'
  <2>1. \A t \in Sessions : abandoned[t] <= abandoned'[t]
    BY <1>1, <1>2 DEF Larger
  <2>2. \A t \in Sessions : \A q \in resyncs[t] : q \in resyncs'[t] \/ q <= abandoned'[t]
    BY <1>1, <1>2 DEF Larger
  <2> QED
    BY <1>1, <2>1, <2>2, AbandonGrows
<1>4. NoSilentSkip' /\ StoreAccounted'
  BY <1>1, <1>3 DEF NoSilentSkip, StoreAccounted, Due, logVars
<1>5. \A j \in Conns : /\ Attached(j)' <=> Attached(j)
                       /\ Attached(j) => owner[j] \in Sessions
                       /\ owner'[j] = owner[j]
  BY <1>1 DEF Attached, Wiring, sessionVars
<1>6. ASSUME NEW j \in Conns, NEW n \in retained, Attached(j), Accounted(owner[j], n)
      PROVE  Accounted(owner[j], n)'
  BY <1>3, <1>5, <1>6
<1>7. DeliveredArrives'
  <2> SUFFICES ASSUME NEW j \in Conns, NEW n \in retained, Attached(j), cpc[j] # "closed",
                      n <= delivered[j], Due(owner[j], n)
               PROVE  Accounted(owner[j], n)' \/ n \in wire[j]
    BY <1>1, <1>5 DEF DeliveredArrives, logVars, sessionVars, netVars, Due
  <2> QED
    BY <1>6 DEF DeliveredArrives
<1>8. WireClosed'
  <2> SUFFICES ASSUME NEW j \in Conns, NEW x \in wire[j], NEW n \in retained, Attached(j),
                      n < x, Due(owner[j], n)
               PROVE  Accounted(owner[j], n)' \/ n \in wire[j]
    BY <1>1, <1>5 DEF WireClosed, logVars, sessionVars, netVars, Due
  <2> QED
    BY <1>6 DEF WireClosed
<1>9. Wiring' /\ NotAhead' /\ EntitledReads' /\ HubBehind' /\ QueueComplete' /\ BatchComplete'
      /\ OnlyAddressed' /\ BatchAddressed' /\ LiveSeen'
  BY <1>1, WiringFrame, NotAheadFrame, EntitledFrame, HubFrame, QueueFrame, BatchFrame,
     AddressedFrame, BatchAddressedFrame, SeenFrame
     DEF logVars, hubVars, dispatcherVars, sessionVars, netVars
<1> QED
  BY <1>4, <1>7, <1>8, <1>9

LEMMA CloseDelivers ==
    ASSUME DeliveryInv, NEW s \in Sessions, SeeClose(s) \/ LoseSocket(s), TypeOK'
    PROVE  DeliveryInv'
<1> USE DEF DeliveryInv
<1>1. /\ UNCHANGED <<logVars, hubVars, dispatcherVars, backlogHigh, delivered, checkpoint,
                     storeSeq, resyncs, covered, abandoned>>
      /\ LetGo(s)
  BY DEF SeeClose, LoseSocket
<1>2. \A t \in Sessions : \A n \in retained : Accounted(t, n) => Accounted(t, n)'
  BY <1>1 DEF Accounted, Excused
<1>3. NotAhead' /\ NoSilentSkip' /\ StoreAccounted'
  BY <1>1, NotAheadFrame, CheckpointFrame, StoreFrame DEF logVars, hubVars, dispatcherVars
<1> QED
  BY <1>1, <1>2, <1>3, LetGoDelivers

LEMMA ReloadDelivers ==
    ASSUME DeliveryInv, NEW s \in Sessions, Reload(s), TypeOK'
    PROVE  DeliveryInv'
<1> USE DEF DeliveryInv
<1>1. /\ UNCHANGED <<logVars, hubVars, dispatcherVars, backlogHigh, delivered, checkpoint,
                     covered>>
      /\ LetGo(s) /\ storeSeq' = [storeSeq EXCEPT ![s] = 0]
      /\ resyncs' = [resyncs EXCEPT ![s] = {}]
      /\ abandoned' = [abandoned EXCEPT ![s] = IF resyncs[s] = {} THEN abandoned[s]
                                               ELSE Larger(abandoned[s], Greatest(resyncs[s]))]
  BY DEF Reload
<1>2. /\ resyncs \in [Sessions -> SUBSET (1..eventSeq)] /\ abandoned \in [Sessions -> Nat]
      /\ storeSeq \in [Sessions -> Nat] /\ eventSeq \in Nat /\ retained \subseteq 1..eventSeq
      /\ resyncs[s] \subseteq 0..eventSeq
  BY DEF TypeOK, TypeOKClient, TypeOKLog
<1>3. resyncs[s] # {} => /\ Greatest(resyncs[s]) \in resyncs[s]
                         /\ \A o \in resyncs[s] : o <= Greatest(resyncs[s])
  BY <1>2, GreatestTyped
<1>4. \A t \in Sessions : \A n \in retained : Accounted(t, n) => Accounted(t, n)'
  <2>1. ASSUME NEW q \in resyncs[s] PROVE q <= abandoned'[s]
    <3> DEFINE g == Greatest(resyncs[s])
    <3>1. abandoned'[s] = Larger(abandoned[s], g) /\ q <= g /\ g \in resyncs[s]
      BY <1>1, <1>2, <1>3, <2>1
    <3> HIDE DEF g
    <3>2. g \in Nat /\ q \in Nat /\ abandoned[s] \in Nat
      BY <1>2, <3>1
    <3> QED
      BY <3>1, <3>2 DEF Larger
  <2>2. ASSUME NEW t \in Sessions PROVE abandoned[t] <= abandoned'[t]
    <3>1. CASE t # s \/ resyncs[s] = {}
      BY <1>1, <1>2, <3>1
    <3>2. CASE t = s /\ resyncs[s] # {}
      <4> DEFINE g == Greatest(resyncs[s])
      <4>1. abandoned'[t] = Larger(abandoned[s], g) /\ g \in resyncs[s]
        BY <1>1, <1>2, <1>3, <3>2
      <4> HIDE DEF g
      <4>2. g \in Nat /\ abandoned[s] \in Nat
        BY <1>2, <4>1
      <4> QED
        BY <3>2, <4>1, <4>2 DEF Larger
    <3> QED
      BY <3>1, <3>2
  <2>3. \A t \in Sessions : \A q \in resyncs[t] : q \in resyncs'[t] \/ q <= abandoned'[t]
    BY <1>1, <1>2, <2>1
  <2> QED
    BY <1>1, <2>2, <2>3, AbandonGrows
<1>5. NoSilentSkip'
  BY <1>1, <1>4 DEF NoSilentSkip, Due, logVars
<1>6. StoreAccounted'
  <2> SUFFICES ASSUME NEW t \in Sessions, NEW n \in retained, n <= storeSeq'[t], Due(t, n)
               PROVE  Accounted(t, n)'
    BY <1>1 DEF StoreAccounted, Due, logVars
  <2>1. t # s
    BY <1>1, <1>2
  <2> QED
    BY <1>1, <1>2, <1>4, <2>1 DEF StoreAccounted
<1>7. NotAhead'
  BY <1>1, <1>2 DEF NotAhead, logVars, hubVars, dispatcherVars
<1> QED
  BY <1>1, <1>4, <1>5, <1>6, <1>7, LetGoDelivers

-----------------------------------------------------------------------------
(* Every step keeps the invariant.                                         *)
LEMMA NextDelivers ==
    ASSUME DeliveryInv, Next
    PROVE  DeliveryInv'
<1>1. TypeOK'
  BY NextTyped DEF DeliveryInv
<1>2. CASE LogCommit \/ LogPrune
  BY <1>1, <1>2, LogDelivers
<1>3. CASE Dispatch
  BY <1>1, <1>3, PollReadsDeliver, PollReadDelivers, PublishDelivers DEF Dispatch
<1>4. ASSUME NEW k \in Conns,
             RegisterRefused(k) \/ BoundsResync(k) \/ InvalidAck(k) \/ AckTimeout(k)
             \/ SlowConsumer(k) \/ PeerGone(k) \/ ServerClose(k)
      PROVE  DeliveryInv'
  <2>1. End(k) /\ cpc[k] \notin {"free", "closed"}
    BY <1>4 DEF RegisterRefused, BoundsResync, InvalidAck, AckTimeout, SlowConsumer, PeerGone,
       ServerClose
  <2> QED
    BY <1>1, <2>1, EndDelivers
<1>5. ASSUME NEW k \in Conns, AckFrame(k) PROVE DeliveryInv'
  BY <1>1, <1>5, AcksDeliver DEF AckFrame, clientVars
<1>6. ASSUME NEW k \in Conns, Serve(k) PROVE DeliveryInv'
  BY <1>1, <1>4, <1>5, <1>6, ReadCurrentDelivers, RegisterDelivers, AcceptDelivers,
     ReplayDelivers, LiveFrameDelivers DEF Serve
<1>7. ASSUME NEW s \in Sessions, AckTimer(s) PROVE DeliveryInv'
  BY <1>1, <1>7, AcksDeliver DEF AckTimer, sessionVars
<1>8. ASSUME NEW s \in Sessions, Client(s) PROVE DeliveryInv'
  BY <1>1, <1>7, <1>8, ConnectDelivers, ReceiveEventDelivers, ReceiveResyncDelivers,
     ResyncDoneDelivers, ResyncUnloadedDelivers, ResyncFailedDelivers, CloseDelivers,
     ReloadDelivers DEF Client
<1> QED
  BY <1>2, <1>3, <1>6, <1>8 DEF Next

(* The invariant holds in every reachable state.                           *)
THEOREM Delivery == Spec => []DeliveryInv
<1>1. ASSUME DeliveryInv, UNCHANGED vars PROVE DeliveryInv'
  <2>1. TypeOK'
    BY <1>1 DEF DeliveryInv, TypeOK, TypeOKLog, TypeOKHub, TypeOKDispatcher, TypeOKSession,
       TypeOKNet, TypeOKClient, vars, logVars, hubVars, dispatcherVars, sessionVars, netVars,
       clientVars
  <2> QED
    BY <1>1, <2>1, AcksDeliver DEF vars, sessionVars, netVars, clientVars
<1> QED
  BY <1>1, InitDelivers, NextDelivers, PTL DEF Spec

(* No client's checkpoint ever passes a retained event that its session    *)
(* has been entitled to since the commit, unless the event was applied or  *)
(* a resync has emptied the store past it: Register before Bounds, the     *)
(* backlog, the live queue and the overflow cut leave no gap.              *)
THEOREM CheckpointSafe == Spec => []NoSilentSkip
<1>1. DeliveryInv => NoSilentSkip
  BY DEF DeliveryInv
<1> QED
  BY <1>1, Delivery, PTL

(* No frame is queued for or sent to a session that its row excludes or an *)
(* actor it is not addressed to.                                           *)
THEOREM AddressedOnly == Spec => []OnlyAddressed
<1>1. DeliveryInv => OnlyAddressed
  BY DEF DeliveryInv
<1> QED
  BY <1>1, Delivery, PTL

(* Whatever PublishLive queues comes after all that is queued, so the      *)
(* channel is in the order of the log and the writer may take its head.    *)
THEOREM QueueInOrder == Spec => EnqueueInOrder
<1> DEFINE InOrder == \A k \in Conns : \A n \in live'[k] \ live[k], o \in live[k] : o < n
<1>1. ASSUME DeliveryInv, [Next]_vars PROVE InOrder
  <2> SUFFICES ASSUME NEW k \in Conns, NEW n \in live'[k] \ live[k], NEW o \in live[k]
               PROVE  o < n
    OBVIOUS
  <2>1. live \in [Conns -> SUBSET (1..eventSeq)]
    BY <1>1 DEF DeliveryInv, TypeOK, TypeOKHub
  <2>2. CASE PollPublish
    <3> PICK room \in [Conns -> 0..MaxQueued] : Publish(room)
      BY <2>2 DEF PollPublish
    <3>1. n \in Offered(k)
      BY <1>1, <2>1, TakenIs DEF Publish, DeliveryInv
    <3>2. n > latest[k] /\ n \in DOMAIN dFrames
      BY <3>1 DEF Offered
    <3>3. o <= latest[k]
      BY <1>1 DEF DeliveryInv, LiveSeen
    <3>4. n \in Nat /\ o \in Nat /\ latest[k] \in Nat
      <4>1. DOMAIN dFrames \subseteq 1..eventSeq /\ eventSeq \in Nat /\ latest[k] \in Nat
        BY <1>1 DEF DeliveryInv, TypeOK, TypeOKLog, TypeOKDispatcher, TypeOKHub
      <4> QED
        BY <2>1, <3>2, <4>1
    <3> QED
      BY <3>2, <3>3, <3>4
  <2>3. ASSUME NEW j \in Conns, End(j) PROVE FALSE
    BY <2>1, <2>3 DEF End
  <2>4. ASSUME NEW j \in Conns, LiveFrame(j) PROVE FALSE
    BY <2>1, <2>4 DEF LiveFrame
  <2>5. CASE live' = live
    BY <2>5
  <2>6. \/ PollPublish \/ live' = live
        \/ \E j \in Conns : End(j) \/ LiveFrame(j)
    <3>1. CASE LogCommit \/ LogPrune
      BY <3>1 DEF LogCommit, LogPrune, hubVars
    <3>2. CASE Dispatch
      BY <3>2 DEF Dispatch, PollStart, PollCurrent, PollRead, PollFail, hubVars
    <3>3. ASSUME NEW j \in Conns, Serve(j) PROVE live' = live \/ End(j) \/ LiveFrame(j)
      BY <3>3 DEF Serve, ReadCurrent, Register, RegisterRefused, BoundsResync, BoundsAccept,
         ReplayBatch, AckFrame, InvalidAck, AckTimeout, SlowConsumer, PeerGone, ServerClose,
         hubVars
    <3>4. ASSUME NEW s \in Sessions, Client(s) PROVE live' = live
      BY <3>4 DEF Client, Connect, ReceiveEvent, AckTimer, ReceiveResync, ResyncDone,
         ResyncUnloaded, SaveWatermark, ResyncFailed, SeeClose, LoseSocket, Reload, hubVars
    <3>5. CASE UNCHANGED vars
      BY <3>5 DEF vars, hubVars
    <3> QED
      BY <1>1, <3>1, <3>2, <3>3, <3>4, <3>5 DEF Next
  <2> QED
    BY <2>2, <2>3, <2>4, <2>5, <2>6
<1>2. ASSUME DeliveryInv, [Next]_vars PROVE [InOrder]_vars
  BY <1>1, <1>2
<1> QED
  BY <1>2, Delivery, PTL DEF Spec, EnqueueInOrder

-----------------------------------------------------------------------------
(* Delivery implements EventStream.                                        *)
AddressedTo == [n \in 1..eventSeq |-> Readers(events[n], Actors)]
AwaitedNow == [s \in Sessions |-> AwaitedBy(s)]
LogMapped == <<eventSeq, retained, AddressedTo, entitled>>
Mapped == <<LogMapped, <<checkpoint, covered, AwaitedNow>>>>

LEMMA StreamInit == Init => Stream!Init
<1> SUFFICES ASSUME Init PROVE Stream!Init
  OBVIOUS
<1>1. eventSeq = 0 /\ retained = {} /\ entitled \in [1..eventSeq -> SUBSET Sessions]
  BY InitTyped DEF Init, InitLog, TypeOK, TypeOKLog
<1>2. AddressedTo \in [1..eventSeq -> SUBSET Sessions]
  BY DEF AddressedTo, Readers
<1>3. ASSUME NEW s \in Sessions PROVE AwaitedBy(s) = {}
  <2>1. 1..0 = {}
    OBVIOUS
  <2>2. resyncs[s] \cup {abandoned[s]} = {0}
    BY DEF Init
  <2> QED
    BY <2>1, <2>2 DEF AwaitedBy
<1>4. AwaitedNow = [s \in Sessions |-> {}]
  BY <1>3 DEF AwaitedNow
<1>5. checkpoint = [s \in Sessions |-> 0] /\ covered = [s \in Sessions |-> {}]
  BY DEF Init
<1> QED
  BY <1>1, <1>2, <1>4, <1>5 DEF Stream!Init, AddressedTo, AwaitedNow

(* A number is awaited when a resync excuses it.                           *)
LEMMA AwaitedIsExcused ==
    ASSUME TypeOK, NEW s \in Sessions, NEW n \in Nat \ {0}
    PROVE  n \in AwaitedBy(s) <=> Excused(s, n)
<1>1. /\ abandoned[s] \in Nat /\ eventSeq \in Nat
      /\ \A r \in resyncs[s] : r \in 1..eventSeq
  BY DEF TypeOK, TypeOKClient, TypeOKLog
<1>2. \A r \in resyncs[s] \cup {abandoned[s]} : r \in Nat
  BY <1>1
<1>3. n \in AwaitedBy(s) <=> \E r \in resyncs[s] \cup {abandoned[s]} : n <= r
  BY <1>2 DEF AwaitedBy
<1> QED
  BY <1>3 DEF Excused

(* Steps that leave the log and the device alone.                          *)
LEMMA SameMapped ==
    ASSUME UNCHANGED <<logVars, checkpoint, covered, resyncs, abandoned>>
    PROVE  UNCHANGED Mapped
  BY DEF Mapped, LogMapped, AddressedTo, AwaitedNow, AwaitedBy, logVars, Readers, VisibleTo

LEMMA SameAwaited == ASSUME UNCHANGED <<resyncs, abandoned>> PROVE UNCHANGED AwaitedNow
  BY DEF AwaitedNow, AwaitedBy

LEMMA SameLog == ASSUME UNCHANGED logVars PROVE UNCHANGED LogMapped
  BY DEF LogMapped, AddressedTo, logVars, Readers, VisibleTo

LEMMA LogStreams ==
    ASSUME TypeOK, TypeOK', LogCommit \/ LogPrune
    PROVE  Stream!Append \/ Stream!Prune
<1>1. /\ UNCHANGED <<checkpoint, covered>> /\ UNCHANGED AwaitedNow
  BY SameAwaited DEF LogCommit, LogPrune, clientVars
<1>2. CASE LogPrune
  <2>1. UNCHANGED <<eventSeq, events, entitled>> /\ retained' \subseteq retained
    BY <1>2 DEF LogPrune, Prune
  <2>2. UNCHANGED AddressedTo
    BY <2>1 DEF AddressedTo, Readers, VisibleTo
  <2> QED
    BY <1>1, <2>1, <2>2 DEF Stream!Prune, Stream!device, AddressedTo, AwaitedNow
<1>3. CASE LogCommit
  <2>1. PICK e \in Event, f \in Event, m \in SUBSET Actors : Append1(e, m) \/ Append2(e, f, m)
    BY <1>3, CommitAppends DEF LogCommit, TypeOK
  <2>2. eventSeq \in Nat /\ eventSeq' \in Nat /\ TypeOKLog
    BY DEF TypeOK, TypeOKLog
  <2>3. eventSeq' > eventSeq /\ retained' = retained \cup (eventSeq + 1)..eventSeq'
    <3>1. CASE Append1(e, m)
      BY <2>2, <3>1 DEF Append1
    <3>2. CASE Append2(e, f, m)
      BY <2>2, <3>2 DEF Append2
    <3> QED
      BY <2>1, <3>1, <3>2
  <2>4. \A n \in 1..eventSeq : events'[n] = events[n] /\ entitled'[n] \subseteq entitled[n]
    BY <2>1, <2>2, AppendKeeps
  <2>5. \A n \in 1..eventSeq : n \in 1..eventSeq'
    BY <2>2, <2>3
  <2>6. /\ \A n \in 1..eventSeq : AddressedTo[n] = Readers(events[n], Actors)
        /\ \A n \in 1..eventSeq' : AddressedTo'[n] = Readers(events'[n], Actors)
    BY DEF AddressedTo, Readers, VisibleTo
  <2>7. \A n \in 1..eventSeq : AddressedTo'[n] = AddressedTo[n]
    BY <2>4, <2>5, <2>6
  <2>8. ASSUME NEW n \in (eventSeq + 1)..eventSeq' PROVE entitled'[n] \subseteq AddressedTo'[n]
    <3>1. n \in 1..eventSeq' /\ n > eventSeq
      BY <2>2
    <3>2. entitled'[n] = Readers(events'[n], m)
      BY <2>1, <2>2, <3>1 DEF Append1, Append2
    <3>3. Readers(events'[n], m) \subseteq Readers(events'[n], Actors)
      BY DEF Readers, VisibleTo
    <3> QED
      BY <2>6, <3>1, <3>2, <3>3
  <2> QED
    BY <1>1, <2>2, <2>3, <2>4, <2>7, <2>8
    DEF Stream!Append, Stream!device, AddressedTo, AwaitedNow
<1> QED
  BY <1>2, <1>3

(* The next frame of the wire is one the device may take: what it is owed  *)
(* before it has arrived, or a resync gave it up.                          *)
LEMMA ReceiveStreams ==
    ASSUME DeliveryInv, NEW s \in Sessions, ReceiveEvent(s)
    PROVE  \E n \in 1..eventSeq : Stream!Receive(s, n)
<1> DEFINE k == conn[s]
           n0 == Least(wire[k])
           K == IF n0 > storeSeq[s] THEN covered[s] \cup {n0} ELSE covered[s]
           c == IF n0 > storeSeq[s] \/ ProfileEvent(events[n0]) THEN n0 ELSE checkpoint[s]
<1>1. /\ k \in Conns /\ wire[k] # {} /\ eventSeq \in Nat /\ retained \subseteq 1..eventSeq
      /\ wire[k] \subseteq 1..eventSeq /\ storeSeq[s] \in Nat /\ TypeOK
      /\ checkpoint \in [Sessions -> Nat] /\ covered \in [Sessions -> SUBSET Nat]
  BY DEF DeliveryInv, ReceiveEvent, TypeOK, TypeOKClient, TypeOKNet, TypeOKLog
<1>2. n0 \in wire[k] /\ \A o \in wire[k] : n0 <= o
  <2>1. wire[k] \subseteq Nat
    BY <1>1
  <2> QED
    BY <1>1, <2>1, LeastExists
<1>3. n0 \in 1..eventSeq
  BY <1>1, <1>2
<1>4. owner[k] = s /\ Attached(k)
  BY <1>1 DEF DeliveryInv, Wiring, Attached
<1>5. s \in AddressedTo[n0]
  <2>1. events[n0].exclude # s /\ events[n0].audience \in {NoActor, ActorOf[s]}
    BY <1>1, <1>2, <1>4 DEF DeliveryInv, OnlyAddressed
  <2>2. ActorOf[s] \in Actors
    BY SessionAssumption
  <2> QED
    BY <1>3, <2>1, <2>2 DEF AddressedTo, Readers, VisibleTo
<1>6. ASSUME NEW m \in retained, m <= n0, s \in entitled[m]
      PROVE  m \in K \cup AwaitedNow[s]
  <2>1. m \in Nat \ {0} /\ n0 \in Nat /\ Due(s, m)
    BY <1>1, <1>3, <1>6 DEF Due
  <2>2. (m = n0 /\ n0 > storeSeq[s]) \/ Accounted(s, m)
    <3>1. CASE m = n0 /\ ~(n0 > storeSeq[s])
      BY <1>1, <2>1, <3>1 DEF DeliveryInv, StoreAccounted
    <3>2. CASE m # n0
      <4>1. m < n0
        BY <1>6, <2>1, <3>2
      <4>2. m \notin wire[k]
        BY <1>2, <2>1, <4>1
      <4> QED
        BY <1>1, <1>2, <1>4, <2>1, <4>1, <4>2 DEF DeliveryInv, WireClosed
    <3> QED
      BY <3>1, <3>2
  <2>3. Accounted(s, m) => m \in covered[s] \/ m \in AwaitedBy(s)
    BY <1>1, <2>1, AwaitedIsExcused DEF Accounted
  <2> QED
    BY <2>2, <2>3 DEF AwaitedNow
<1>7. /\ covered' = [covered EXCEPT ![s] = K]
      /\ checkpoint' = [checkpoint EXCEPT ![s] = c]
  BY <1>1 DEF ReceiveEvent
<1>8. UNCHANGED LogMapped /\ UNCHANGED AwaitedNow
  BY SameLog, SameAwaited DEF ReceiveEvent
<1>9. K \in {covered[s], covered[s] \cup {n0}} /\ c \in {checkpoint[s], n0}
  OBVIOUS
<1> HIDE DEF K, c, n0, k
<1>10. Stream!Whole(s, n0, K)
  BY <1>6 DEF Stream!Whole, AwaitedNow
<1>11. Stream!Receive(s, n0)
  BY <1>5, <1>7, <1>8, <1>9, <1>10
  DEF Stream!Receive, Stream!log, LogMapped, AddressedTo, AwaitedNow
<1> QED
  BY <1>3, <1>11

LEMMA ResyncStreams ==
    ASSUME TypeOK, NEW s \in Sessions, ReceiveResync(s)
    PROVE  \E n \in 1..eventSeq : Stream!Empty(s, n)
<1> DEFINE r == resyncTo[conn[s]]
<1>1. r \in 1..eventSeq
  BY DEF ReceiveResync, TypeOK, TypeOKClient, TypeOKSession, TypeOKLog
<1>2. resyncs' = [resyncs EXCEPT ![s] = @ \cup {r}] /\ UNCHANGED abandoned
  BY DEF ReceiveResync
<1>3. ASSUME NEW t \in Sessions
      PROVE  AwaitedBy(t)' = IF t = s THEN AwaitedBy(t) \cup 1..r ELSE AwaitedBy(t)
  <2>1. resyncs'[t] = IF t = s THEN resyncs[t] \cup {r} ELSE resyncs[t]
    BY <1>2 DEF TypeOK, TypeOKClient
  <2> QED
    BY <1>2, <2>1 DEF AwaitedBy
<1>4. AwaitedNow' = [AwaitedNow EXCEPT ![s] = @ \cup 1..r]
  BY <1>3 DEF AwaitedNow
<1>5. UNCHANGED LogMapped /\ UNCHANGED <<checkpoint, covered>>
  BY SameLog DEF ReceiveResync
<1> HIDE DEF r
<1>6. Stream!Empty(s, r)
  BY <1>4, <1>5 DEF Stream!Empty, Stream!log, LogMapped, AddressedTo, AwaitedNow
<1> QED
  BY <1>1, <1>6

LEMMA SnapshotStreams ==
    ASSUME TypeOK, NEW s \in Sessions, NEW n \in resyncs[s], ResyncDone(s, n)
    PROVE  n \in 1..eventSeq /\ Stream!Load(s, n)
<1>1. n \in 1..eventSeq
  BY DEF TypeOK, TypeOKClient
<1>2. /\ resyncs' = [resyncs EXCEPT ![s] = @ \ {n}] /\ UNCHANGED abandoned
      /\ covered' = [covered EXCEPT ![s] = @ \cup 1..n]
      /\ checkpoint' = [checkpoint EXCEPT ![s] = n]
  BY DEF ResyncDone, SaveWatermark
<1> DEFINE A == AwaitedBy(s)'
<1>3. \A t \in Sessions : resyncs'[t] = IF t = s THEN resyncs[t] \ {n} ELSE resyncs[t]
  BY <1>2 DEF TypeOK, TypeOKClient
<1>4. \A t \in Sessions : t # s => AwaitedBy(t)' = AwaitedBy(t)
  BY <1>2, <1>3 DEF AwaitedBy
<1>5. A \in SUBSET AwaitedBy(s) /\ AwaitedBy(s) \subseteq A \cup 1..n /\ 1..n \subseteq AwaitedBy(s)
  BY <1>2, <1>3 DEF AwaitedBy
<1>6. AwaitedNow' = [AwaitedNow EXCEPT ![s] = A] /\ AwaitedNow[s] = AwaitedBy(s)
  BY <1>4 DEF AwaitedNow
<1>7. UNCHANGED LogMapped
  BY SameLog DEF ResyncDone, SaveWatermark
<1> HIDE DEF A
<1> QED
  BY <1>1, <1>2, <1>5, <1>6, <1>7
  DEF Stream!Load, Stream!log, LogMapped, AddressedTo, AwaitedNow

(* A watermark saved without its snapshot: what it covers stays awaited.   *)
LEMMA UnloadedStreams ==
    ASSUME TypeOK, NEW s \in Sessions, NEW n \in resyncs[s], ResyncUnloaded(s, n)
    PROVE  n \in 1..eventSeq /\ Stream!SaveUnloaded(s, n)
<1>1. n \in 1..eventSeq /\ n \in Nat /\ abandoned \in [Sessions -> Nat]
  BY DEF TypeOK, TypeOKClient, TypeOKLog
<1>2. /\ resyncs' = [resyncs EXCEPT ![s] = @ \ {n}] /\ UNCHANGED covered
      /\ abandoned' = [abandoned EXCEPT ![s] = Larger(@, n)]
      /\ checkpoint' = [checkpoint EXCEPT ![s] = n]
  BY DEF ResyncUnloaded, SaveWatermark
<1>3. ASSUME NEW t \in Sessions PROVE AwaitedBy(t)' = AwaitedBy(t)
  <2>1. /\ resyncs'[t] = IF t = s THEN resyncs[t] \ {n} ELSE resyncs[t]
        /\ abandoned'[t] = IF t = s THEN Larger(abandoned[t], n) ELSE abandoned[t]
    BY <1>1, <1>2 DEF TypeOK, TypeOKClient
  <2>2. abandoned[t] \in Nat
    BY <1>1
  <2>3. 1..Larger(abandoned[t], n) = 1..abandoned[t] \cup 1..n
    BY <1>1, <2>2 DEF Larger
  <2> QED
    BY <2>1, <2>3 DEF AwaitedBy
<1>4. UNCHANGED AwaitedNow /\ AwaitedNow[s] = AwaitedBy(s) /\ 1..n \subseteq AwaitedBy(s)
  BY <1>3 DEF AwaitedNow, AwaitedBy
<1>5. UNCHANGED LogMapped
  BY SameLog DEF ResyncUnloaded, SaveWatermark
<1> QED
  BY <1>1, <1>2, <1>4, <1>5
  DEF Stream!SaveUnloaded, Stream!log, LogMapped, AddressedTo, AwaitedNow

(* A resync that fails, or dies with the page, still awaits its snapshot.  *)
LEMMA AbandonStreams ==
    ASSUME TypeOK, NEW s \in Sessions,
           Reload(s) \/ \E n \in resyncs[s] : ResyncFailed(s, n)
    PROVE  UNCHANGED Mapped
<1>1. UNCHANGED <<logVars, checkpoint, covered>>
  BY DEF Reload, ResyncFailed
<1>2. /\ resyncs \in [Sessions -> SUBSET (1..eventSeq)] /\ abandoned \in [Sessions -> Nat]
      /\ eventSeq \in Nat
  BY DEF TypeOK, TypeOKClient, TypeOKLog
<1>3. ASSUME NEW a \in Nat, NEW b \in Nat PROVE 1..Larger(a, b) = 1..a \cup 1..b
  BY DEF Larger
<1>4. ASSUME NEW t \in Sessions PROVE AwaitedBy(t)' = AwaitedBy(t)
  <2>1. CASE \E n \in resyncs[s] : ResyncFailed(s, n)
    <3>1. PICK n \in resyncs[s] : ResyncFailed(s, n)
      BY <2>1
    <3>2. /\ resyncs'[t] = IF t = s THEN resyncs[t] \ {n} ELSE resyncs[t]
          /\ abandoned'[t] = IF t = s THEN Larger(abandoned[t], n) ELSE abandoned[t]
      BY <1>2, <3>1 DEF ResyncFailed
    <3>3. n \in Nat /\ abandoned[t] \in Nat
      BY <1>2
    <3>4. 1..Larger(abandoned[t], n) = 1..abandoned[t] \cup 1..n
      BY <1>3, <3>3
    <3> QED
      BY <3>2, <3>4 DEF AwaitedBy
  <2>2. CASE Reload(s)
    <3>1. /\ resyncs'[t] = IF t = s THEN {} ELSE resyncs[t]
          /\ abandoned'[t] = IF t = s /\ resyncs[s] # {}
                             THEN Larger(abandoned[s], Greatest(resyncs[s]))
                             ELSE abandoned[t]
      BY <1>2, <2>2 DEF Reload
    <3>2. CASE t # s \/ resyncs[s] = {}
      BY <3>1, <3>2 DEF AwaitedBy
    <3>3. CASE t = s /\ resyncs[s] # {}
      <4> DEFINE g == Greatest(resyncs[s])
      <4>1. g \in resyncs[s] /\ \A o \in resyncs[s] : o <= g
        <5>1. resyncs[s] \subseteq 0..eventSeq
          BY <1>2
        <5> QED
          BY <1>2, <3>3, <5>1, GreatestTyped
      <4>2. g \in Nat /\ abandoned[s] \in Nat /\ \A o \in resyncs[s] : o \in Nat
        BY <1>2, <4>1
      <4>3. 1..Larger(abandoned[s], g) = 1..abandoned[s] \cup 1..g
        BY <1>3, <4>2
      <4>4. \A o \in resyncs[s] : 1..o \subseteq 1..g
        BY <4>1, <4>2
      <4> HIDE DEF g
      <4>5. AwaitedBy(s) = 1..abandoned[s] \cup 1..g
        BY <4>1, <4>4 DEF AwaitedBy
      <4>6. AwaitedBy(s)' = 1..Larger(abandoned[s], g)
        BY <3>1, <3>3 DEF AwaitedBy, g
      <4> QED
        BY <3>3, <4>3, <4>5, <4>6
    <3> QED
      BY <3>2, <3>3
  <2> QED
    BY <2>1, <2>2
<1>5. UNCHANGED AwaitedNow
  BY <1>4 DEF AwaitedNow
<1> QED
  BY <1>1, <1>5, SameLog DEF Mapped

LEMMA StreamStep ==
    ASSUME DeliveryInv, DeliveryInv', [Next]_vars
    PROVE  [Stream!Next]_Mapped
<1> DEFINE Same == UNCHANGED <<logVars, checkpoint, covered, resyncs, abandoned>>
<1>1. TypeOK /\ TypeOK'
  BY DEF DeliveryInv
<1>2. CASE LogCommit \/ LogPrune
  BY <1>1, <1>2, LogStreams DEF Stream!Next
<1>3. ASSUME Dispatch PROVE Same
  BY <1>3
  DEF Dispatch, PollStart, PollCurrent, PollRead, PollFail, PollPublish, clientVars
<1>4. ASSUME NEW k \in Conns, Serve(k) PROVE Same
  <2>1. ASSUME End(k) PROVE Same
    BY <2>1 DEF End, clientVars
  <2> QED
    BY <1>4, <2>1
    DEF Serve, ReadCurrent, Register, RegisterRefused, BoundsResync, BoundsAccept, ReplayBatch,
        LiveFrame, AckFrame, InvalidAck, AckTimeout, SlowConsumer, PeerGone, ServerClose,
        clientVars
<1>5. ASSUME NEW s \in Sessions,
             (\E k \in Conns : Connect(s, k)) \/ AckTimer(s) \/ SeeClose(s) \/ LoseSocket(s)
      PROVE  Same
  BY <1>5 DEF Connect, AckTimer, SeeClose, LoseSocket
<1>6. ASSUME NEW s \in Sessions, Client(s) PROVE [Stream!Next]_Mapped \/ Same
  <2>1. CASE ReceiveEvent(s)
    BY <2>1, ReceiveStreams DEF Stream!Next
  <2>2. CASE ReceiveResync(s)
    BY <1>1, <2>2, ResyncStreams DEF Stream!Next
  <2>3. ASSUME NEW n \in resyncs[s], ResyncDone(s, n) PROVE Stream!Next
    BY <1>1, <2>3, SnapshotStreams DEF Stream!Next
  <2>4. ASSUME NEW n \in resyncs[s], ResyncUnloaded(s, n) PROVE Stream!Next
    BY <1>1, <2>4, UnloadedStreams DEF Stream!Next
  <2>5. CASE Reload(s) \/ \E n \in resyncs[s] : ResyncFailed(s, n)
    BY <1>1, <2>5, AbandonStreams
  <2> QED
    BY <1>5, <1>6, <2>1, <2>2, <2>3, <2>4, <2>5 DEF Client
<1>7. ASSUME UNCHANGED vars PROVE Same
  BY <1>7 DEF vars, clientVars
<1>8. ASSUME Same PROVE [Stream!Next]_Mapped
  BY <1>8, SameMapped
<1> HIDE DEF Same
<1> QED
  BY <1>2, <1>3, <1>4, <1>6, <1>7, <1>8 DEF Next

(* Delivery implements EventStream: whatever the dispatcher, the hub, the  *)
(* sessions, the sockets and the coordinators do between commit and        *)
(* checkpoint, a device follows the log as if it read the table itself.    *)
THEOREM StreamRefines == Spec => StreamKept
<1>1. DeliveryInv /\ DeliveryInv' /\ [Next]_vars => [Stream!Next]_Mapped
  BY StreamStep
<1> QED
  BY <1>1, Delivery, StreamInit, PTL
  DEF Spec, StreamKept, Stream!Spec, Stream!streamVars, Stream!log, Stream!device, Mapped,
      LogMapped, AddressedTo, AwaitedNow

(* What EventStream is worth: a saved number that is in the log has no gap *)
(* below it.                                                               *)
StreamInv ==
    /\ eventSeq \in Nat /\ retained \subseteq 1..eventSeq
    /\ checkpoint \in [Sessions -> 0..eventSeq] /\ covered \in [Sessions -> SUBSET Nat]
    /\ Stream!NoGap

LEMMA GapInit == Stream!Init => StreamInv
<1> SUFFICES ASSUME Stream!Init PROVE StreamInv
  OBVIOUS
<1>1. eventSeq = 0 /\ retained = {} /\ checkpoint = [s \in Sessions |-> 0]
      /\ covered = [s \in Sessions |-> {}]
  BY DEF Stream!Init
<1> QED
  BY <1>1 DEF StreamInv, Stream!NoGap, Stream!Whole

LEMMA GapStep == ASSUME StreamInv, [Stream!Next]_Mapped PROVE StreamInv'
<1> DEFINE Whole(s, c, K) == \A m \in retained : m <= c /\ s \in entitled[m]
                                              => m \in K \cup AwaitedNow[s]
<1>1. /\ eventSeq \in Nat /\ retained \subseteq 1..eventSeq
      /\ checkpoint \in [Sessions -> 0..eventSeq] /\ covered \in [Sessions -> SUBSET Nat]
      /\ \A s \in Sessions : Whole(s, checkpoint[s], covered[s])
  BY DEF StreamInv, Stream!NoGap, Stream!Whole, AwaitedNow
<1>2. SUFFICES
        /\ eventSeq' \in Nat /\ retained' \subseteq 1..eventSeq'
        /\ checkpoint' \in [Sessions -> 0..eventSeq'] /\ covered' \in [Sessions -> SUBSET Nat]
        /\ \A s \in Sessions : Whole(s, checkpoint[s], covered[s])'
  BY DEF StreamInv, Stream!NoGap, Stream!Whole, AwaitedNow
<1>3. CASE UNCHANGED Mapped
  BY <1>1, <1>3 DEF Mapped, LogMapped
<1>4. CASE Stream!Append
  <2>1. /\ eventSeq' \in Nat /\ eventSeq' > eventSeq
        /\ retained' = retained \cup (eventSeq + 1)..eventSeq'
        /\ \A n \in 1..eventSeq : entitled'[n] \subseteq entitled[n]
        /\ UNCHANGED <<checkpoint, covered, AwaitedNow>>
    BY <1>4 DEF Stream!Append, Stream!device, AwaitedNow
  <2>2. retained' \subseteq 1..eventSeq' /\ checkpoint' \in [Sessions -> 0..eventSeq']
    BY <1>1, <2>1
  <2>3. ASSUME NEW s \in Sessions, NEW m \in retained', m <= checkpoint[s], s \in entitled'[m]
        PROVE  m \in covered[s] \cup AwaitedNow[s]
    <3>1. m \in retained /\ m \in 1..eventSeq
      BY <1>1, <2>1, <2>3
    <3> QED
      BY <1>1, <2>1, <2>3, <3>1
  <2> QED
    BY <1>1, <2>1, <2>2, <2>3
<1>5. CASE Stream!Prune
  <2>1. retained' \subseteq retained
        /\ UNCHANGED <<eventSeq, entitled, checkpoint, covered, AwaitedNow>>
    BY <1>5 DEF Stream!Prune, Stream!device, AwaitedNow
  <2> QED
    BY <1>1, <2>1
<1>6. ASSUME NEW s \in Sessions, NEW n \in 1..eventSeq,
             \/ Stream!Receive(s, n) \/ Stream!Empty(s, n)
             \/ Stream!Load(s, n) \/ Stream!SaveUnloaded(s, n)
      PROVE  /\ UNCHANGED <<eventSeq, retained, entitled>>
             /\ checkpoint' \in [Sessions -> 0..eventSeq]
             /\ covered' \in [Sessions -> SUBSET Nat]
             /\ \A t \in Sessions : Whole(t, checkpoint[t], covered[t])'
  <2> USE DEF AwaitedNow
  <2>1. UNCHANGED <<eventSeq, retained, entitled>>
    BY <1>6 DEF Stream!Receive, Stream!Empty, Stream!Load, Stream!SaveUnloaded, Stream!log
  <2>2. n \in Nat /\ n \in 0..eventSeq /\ 1..n \in SUBSET Nat
    BY <1>1
  <2>3. CASE Stream!Receive(s, n)
    <3>1. PICK K \in {covered[s], covered[s] \cup {n}}, c \in {checkpoint[s], n} :
             /\ Stream!Whole(s, n, K)
             /\ covered' = [covered EXCEPT ![s] = K]
             /\ checkpoint' = [checkpoint EXCEPT ![s] = c]
      BY <2>3 DEF Stream!Receive
    <3>2. UNCHANGED AwaitedNow
      BY <2>3 DEF Stream!Receive
    <3>3. Whole(s, n, K)
      BY <3>1 DEF Stream!Whole
    <3>4. covered[s] \subseteq K /\ K \in SUBSET Nat /\ c \in 0..eventSeq
      BY <1>1, <2>2
    <3>5. Whole(s, c, K)
      BY <1>1, <3>3, <3>4
    <3> QED
      BY <1>1, <2>1, <3>1, <3>2, <3>4, <3>5
  <2>4. CASE Stream!Empty(s, n)
    <3>1. /\ AwaitedNow' = [AwaitedNow EXCEPT ![s] = AwaitedNow[s] \cup 1..n]
          /\ UNCHANGED <<checkpoint, covered>>
      BY <2>4 DEF Stream!Empty
    <3> QED
      BY <1>1, <2>1, <3>1
  <2>5. CASE Stream!Load(s, n)
    <3>1. PICK A : /\ AwaitedNow[s] \subseteq A \cup 1..n
                   /\ AwaitedNow' = [AwaitedNow EXCEPT ![s] = A]
      BY <2>5 DEF Stream!Load
    <3>2. /\ covered' = [covered EXCEPT ![s] = covered[s] \cup 1..n]
          /\ checkpoint' = [checkpoint EXCEPT ![s] = n]
      BY <2>5 DEF Stream!Load
    <3>3. \A m \in retained : m <= n => m \in 1..n
      BY <1>1, <2>2
    <3> QED
      BY <1>1, <2>1, <2>2, <3>1, <3>2, <3>3
  <2>6. CASE Stream!SaveUnloaded(s, n)
    <3>1. /\ checkpoint' = [checkpoint EXCEPT ![s] = n]
          /\ UNCHANGED <<covered, AwaitedNow>> /\ 1..n \subseteq AwaitedNow[s]
      BY <2>6 DEF Stream!SaveUnloaded
    <3>2. \A m \in retained : m <= n => m \in 1..n
      BY <1>1, <2>2
    <3> QED
      BY <1>1, <2>1, <2>2, <3>1, <3>2
  <2> QED
    BY <1>6, <2>3, <2>4, <2>5, <2>6, <2>1
<1> HIDE DEF Whole
<1>7. CASE Stream!Next
  BY <1>1, <1>4, <1>5, <1>6, <1>7 DEF Stream!Next
<1> QED
  BY <1>3, <1>7

(* Whatever keeps the promise of EventStream leaves no gap: the abstract   *)
(* cursor already has the property the pipeline is built for.              *)
THEOREM StreamHasNoGap == StreamKept => []Stream!NoGap
<1>1. StreamInv /\ [Stream!Next]_Mapped => StreamInv'
  BY GapStep
<1>2. StreamInv => Stream!NoGap
  BY DEF StreamInv
<1> QED
  BY <1>1, <1>2, GapInit, PTL
  DEF StreamKept, Stream!Spec, Stream!streamVars, Stream!log, Stream!device, Mapped,
      LogMapped, AddressedTo, AwaitedNow

=============================================================================

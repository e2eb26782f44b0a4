--------------------------- MODULE RealtimeProofs ---------------------------
(***************************************************************************)
(* Proofs about the durable delivery path, for any number of actors, login *)
(* sessions, connections, events and faults.                               *)
(***************************************************************************)
EXTENDS Realtime, FiniteSetTheorems, TLAPS

-----------------------------------------------------------------------------
(* Facts about the operators of EventLog: the least and greatest member of *)
(* a set of sequence numbers, and what ORDER BY seq LIMIT n returns.       *)

(* A set of sequence numbers has a least member, which is what min(seq)    *)
(* and the head of an ordered queue are.                                   *)
LEMMA LeastExists ==
    ASSUME NEW S, S \subseteq Nat, S # {}
    PROVE  Least(S) \in S /\ \A o \in S : Least(S) <= o
<1> DEFINE R == {ss \in Nat \X Nat : ss[1] < ss[2]}
<1>1. IsWellFoundedOn(R, Nat)
  BY NatLessThanWellFounded, Zenon DEF OpToRel
<1> HIDE DEF R
<1>2. PICK x \in S : \A y \in S : ~ (<<y, x>> \in R)
  BY <1>1, WFMin
<1>3. ASSUME NEW y \in S PROVE x <= y
  <2> SUFFICES ASSUME y < x PROVE FALSE
    OBVIOUS
  <2> QED
    BY <1>2 DEF R
<1> QED
  BY <1>3 DEF Least

(* A bounded, non-empty set of sequence numbers has a greatest member.     *)
LEMMA GreatestExists ==
    ASSUME NEW N \in Nat, NEW S, S \subseteq 0..N, S # {}
    PROVE  \E n \in S : \A o \in S : o <= n
<1> DEFINE T == {N - x : x \in S}
<1>1. T \subseteq Nat /\ T # {}
  <2>1. ASSUME NEW x \in S PROVE N - x \in Nat
    <3>1. x \in 0..N
      OBVIOUS
    <3> QED
      BY <3>1
  <2>2. PICK x \in S : TRUE
    OBVIOUS
  <2>3. N - x \in T
    BY <2>2
  <2> QED
    BY <2>1, <2>3
<1>2. Least(T) \in T /\ \A o \in T : Least(T) <= o
  BY <1>1, LeastExists
<1>3. PICK x \in S : Least(T) = N - x
  BY <1>2
<1>4. ASSUME NEW o \in S PROVE o <= x
  <2>1. N - o \in T
    OBVIOUS
  <2>2. N - x <= N - o
    BY <1>2, <1>3, <2>1
  <2> QED
    BY <2>2
<1> QED
  BY <1>4

(* The first `limit` members of a set of sequence numbers are some of its  *)
(* members, and whatever is below one of them is one of them.              *)
LEMMA FirstSeqsPrefix ==
    ASSUME NEW N \in Nat, NEW S, S \subseteq 0..N, NEW limit \in Int
    PROVE  /\ FirstSeqs(S, limit) \subseteq S
           /\ \A n \in S, x \in FirstSeqs(S, limit) : n < x => n \in FirstSeqs(S, limit)
<1>1. FirstSeqs(S, limit) \subseteq S
  BY DEF FirstSeqs
<1>2. ASSUME NEW n \in S, NEW x \in FirstSeqs(S, limit), n < x
      PROVE  n \in FirstSeqs(S, limit)
  <2> DEFINE A == {o \in S : o < n}
             B == {o \in S : o < x}
  <2>1. IsFiniteSet(S)
    <3>1. IsFiniteSet(0..N)
      BY FS_Interval
    <3> QED
      BY <3>1, FS_Subset
  <2>2. IsFiniteSet(B) /\ IsFiniteSet(A)
    BY <2>1, FS_Subset
  <2>3. A \subseteq B
    <3> SUFFICES ASSUME NEW o \in S, o < n PROVE o < x
      OBVIOUS
    <3>1. x \in S
      BY <1>1
    <3>2. o \in Int /\ n \in Int /\ x \in Int
      BY <3>1
    <3> QED
      BY <1>2, <3>2
  <2>4. Cardinality(A) <= Cardinality(B)
    BY <2>2, <2>3, FS_Subset
  <2>5. Cardinality(B) < limit
    BY DEF FirstSeqs, Below
  <2>6. Cardinality(A) \in Int /\ Cardinality(B) \in Int
    BY <2>2, FS_CardinalityType
  <2> HIDE DEF A, B
  <2>7. Cardinality(A) < limit
    BY <2>4, <2>5, <2>6
  <2> QED
    BY <2>7 DEF FirstSeqs, Below, A
<1> QED
  BY <1>1, <1>2

(* A read that returns fewer rows than its limit has returned all of them. *)
LEMMA ShortReadIsAll ==
    ASSUME NEW N \in Nat, NEW S, S \subseteq 0..N, NEW limit \in Int,
           Cardinality(FirstSeqs(S, limit)) < limit
    PROVE  FirstSeqs(S, limit) = S
<1> DEFINE F == FirstSeqs(S, limit)
           Rest == S \ F
<1>1. F \subseteq S /\ \A n \in S, x \in F : n < x => n \in F
  BY FirstSeqsPrefix
<1>2. SUFFICES ASSUME Rest # {} PROVE FALSE
  BY <1>1
<1>3. Rest \subseteq Nat
  <2> SUFFICES ASSUME NEW o \in Rest PROVE o \in Nat
    OBVIOUS
  <2> QED
    OBVIOUS
<1>4. Least(Rest) \in Rest /\ \A o \in Rest : Least(Rest) <= o
  BY <1>2, <1>3, LeastExists
<1>5. PICK r \in Rest : \A o \in Rest : r <= o
  BY <1>4
<1>6. {o \in S : o < r} = F
  <2>1. ASSUME NEW o \in S, o < r PROVE o \in F
    BY <1>1, <1>5, <2>1
  <2>2. ASSUME NEW o \in F PROVE o < r
    <3>1. o \in S /\ r \in S /\ r \notin F /\ r # o
      BY <1>1, <1>5, <2>2, Zenon
    <3>2. o \in Int /\ r \in Int
      BY <3>1
    <3>3. ~(r < o)
      BY <1>1, <3>1, <2>2, Zenon
    <3> QED
      BY <3>1, <3>2, <3>3
  <2> QED
    BY <1>1, <2>1, <2>2
<1>7. Below(S, r) < limit
  BY <1>6 DEF Below
<1> QED
  BY <1>5, <1>7 DEF FirstSeqs

(* A read with a positive limit that returns nothing had nothing to read.  *)
LEMMA EmptyReadIsAll ==
    ASSUME NEW N \in Nat, NEW S, S \subseteq 0..N, NEW limit \in Nat \ {0},
           FirstSeqs(S, limit) = {}
    PROVE  S = {}
<1>1. Cardinality(FirstSeqs(S, limit)) = 0
  BY FS_EmptySet
<1>2. Cardinality(FirstSeqs(S, limit)) < limit /\ limit \in Int
  BY <1>1
<1>3. FirstSeqs(S, limit) = S
  BY <1>2, ShortReadIsAll
<1> QED
  BY <1>3

-----------------------------------------------------------------------------
(* What the log does to the other types: it only grows.                    *)

LEMMA Append1Typed ==
    ASSUME TypeOKLog, NEW e \in Event, NEW m, m \subseteq Actors, Append1(e, m)
    PROVE  TypeOKLog' /\ eventSeq <= eventSeq'
<1>1. eventSeq \in Nat /\ eventSeq' = eventSeq + 1 /\ eventSeq' \in Nat
  BY DEF Append1, TypeOKLog
<1>2. events' \in [1..eventSeq' -> Event]
  BY <1>1 DEF Append1, TypeOKLog
<1>3. retained' \subseteq 1..eventSeq'
  BY <1>1 DEF Append1, TypeOKLog
<1>4. entitled' \in [1..eventSeq' -> SUBSET Sessions]
  <2>1. \A i \in 1..eventSeq : StillEntitled(i, m) \subseteq Sessions
    BY DEF TypeOKLog, StillEntitled
  <2>2. Readers(e, m) \subseteq Sessions
    BY DEF Readers
  <2> QED
    BY <1>1, <2>1, <2>2 DEF Append1
<1> QED
  BY <1>1, <1>2, <1>3, <1>4 DEF TypeOKLog, Append1

LEMMA Append2Typed ==
    ASSUME TypeOKLog, NEW e \in Event, NEW f \in Event, NEW m, m \subseteq Actors,
           Append2(e, f, m)
    PROVE  TypeOKLog' /\ eventSeq <= eventSeq'
<1>1. eventSeq \in Nat /\ eventSeq' = eventSeq + 2 /\ eventSeq' \in Nat
  BY DEF Append2, TypeOKLog
<1>2. events' \in [1..eventSeq' -> Event]
  BY <1>1 DEF Append2, TypeOKLog
<1>3. retained' \subseteq 1..eventSeq'
  BY <1>1 DEF Append2, TypeOKLog
<1>4. entitled' \in [1..eventSeq' -> SUBSET Sessions]
  <2>1. \A i \in 1..eventSeq : StillEntitled(i, m) \subseteq Sessions
    BY DEF TypeOKLog, StillEntitled
  <2>2. Readers(e, m) \subseteq Sessions /\ Readers(f, m) \subseteq Sessions
    BY DEF Readers
  <2> QED
    BY <1>1, <2>1, <2>2 DEF Append2
<1> QED
  BY <1>1, <1>2, <1>3, <1>4 DEF TypeOKLog, Append2

LEMMA EventKinds ==
    /\ ChatEvent \in Event /\ OrgEvent \in Event
    /\ \A a \in Actors : AddressedEvent(a) \in Event /\ FollowEvent(a) \in Event
    /\ \A s \in Sessions : ActorEvent(s) \in Event
  BY SessionAssumption DEF Event, ChatEvent, OrgEvent, AddressedEvent, FollowEvent, ActorEvent

(* Every command is one of the two appends.                                *)
LEMMA CommitAppends ==
    ASSUME TypeOKLog, Commit
    PROVE  \E e, f \in Event, m \in SUBSET Actors : Append1(e, m) \/ Append2(e, f, m)
<1>1. members \in SUBSET Actors
  BY DEF TypeOKLog
<1>2. CASE CommitMessage
  BY <1>1, <1>2, EventKinds DEF CommitMessage
<1>3. ASSUME NEW a \in Actors, CommitReply(a) \/ Join(a) \/ RemoveMember(a)
      PROVE  \E e, f \in Event, m \in SUBSET Actors : Append1(e, m) \/ Append2(e, f, m)
  <2>1. members \cup {a} \in SUBSET Actors /\ members \ {a} \in SUBSET Actors
    BY <1>1
  <2> QED
    BY <1>1, <1>3, <2>1, EventKinds DEF CommitReply, Join, RemoveMember
<1>4. ASSUME NEW s \in Sessions, CommitActorState(s)
      PROVE  \E e, f \in Event, m \in SUBSET Actors : Append1(e, m) \/ Append2(e, f, m)
  BY <1>1, <1>4, EventKinds DEF CommitActorState
<1>5. CASE CommitStatus
  BY <1>1, <1>5, EventKinds DEF CommitStatus
<1> QED
  BY <1>2, <1>3, <1>4, <1>5 DEF Commit

-----------------------------------------------------------------------------
(* Type correctness                                                        *)

LEMMA InitTyped == Init => TypeOK
<1> SUFFICES ASSUME Init PROVE TypeOK
  OBVIOUS
<1>1. TypeOKLog
  BY DEF Init, InitLog, TypeOKLog
<1>2. TypeOKHub
  BY DEF Init, TypeOKHub, InitLog
<1>3. TypeOKDispatcher
  BY DEF Init, TypeOKDispatcher, InitLog
<1>4. TypeOKSession
  BY DEF Init, TypeOKSession, Phases, InitLog
<1>5. TypeOKNet
  BY DEF Init, TypeOKNet, InitLog
<1>6. TypeOKClient
  BY DEF Init, TypeOKClient, InitLog
<1> QED
  BY <1>1, <1>2, <1>3, <1>4, <1>5, <1>6, LimitAssumption DEF Init, TypeOK

(* The log only grows, so everything bounded by it stays bounded by it.    *)
LEMMA LogTyped ==
    ASSUME TypeOK, TypeOKLog', eventSeq <= eventSeq',
           UNCHANGED <<hubVars, dispatcherVars, sessionVars, netVars, clientVars, faults>>
    PROVE  TypeOK'
<1>1. eventSeq \in Nat /\ eventSeq' \in Nat
  BY DEF TypeOK, TypeOKLog
<1>2. 1..eventSeq \subseteq 1..eventSeq' /\ 0..eventSeq \subseteq 0..eventSeq'
  BY <1>1
<1>3. TypeOKHub'
  BY <1>2 DEF TypeOK, TypeOKHub, hubVars
<1>4. TypeOKDispatcher'
  BY <1>2 DEF TypeOK, TypeOKDispatcher, dispatcherVars
<1>5. TypeOKSession'
  BY <1>2 DEF TypeOK, TypeOKSession, sessionVars
<1>6. TypeOKNet'
  BY <1>2 DEF TypeOK, TypeOKNet, netVars
<1>7. TypeOKClient'
  BY <1>2 DEF TypeOK, TypeOKClient, clientVars
<1> QED
  BY <1>3, <1>4, <1>5, <1>6, <1>7 DEF TypeOK

LEMMA EndTyped ==
    ASSUME TypeOK, NEW k \in Conns, End(k),
           resyncTo' \in [Conns -> 0..eventSeq], faults' \in 0..MaxFaults
    PROVE  TypeOK'
<1>1. TypeOKLog'
  BY DEF TypeOK, TypeOKLog, End, logVars
<1>2. TypeOKHub'
  BY DEF TypeOK, TypeOKHub, TypeOKLog, End, logVars
<1>3. TypeOKDispatcher'
  BY DEF TypeOK, TypeOKDispatcher, End, logVars, dispatcherVars
<1>4. TypeOKSession'
  BY DEF TypeOK, TypeOKSession, TypeOKLog, End, Phases, logVars
<1>5. TypeOKNet'
  BY DEF TypeOK, TypeOKNet, TypeOKLog, End, logVars
<1>6. TypeOKClient'
  BY DEF TypeOK, TypeOKClient, End, logVars, clientVars
<1> QED
  BY <1>1, <1>2, <1>3, <1>4, <1>5, <1>6 DEF TypeOK

(* A fault is counted and stays within its bound.                          *)
LEMMA FaultTyped == ASSUME TypeOK, Fault PROVE faults' \in 0..MaxFaults
  BY LimitAssumption DEF TypeOK, Fault

LEMMA LetGoTyped ==
    ASSUME TypeOK, NEW s \in Sessions, LetGo(s), UNCHANGED eventSeq
    PROVE  /\ conn' \in [Sessions -> Conns \cup {NoConn}]
           /\ cpc' \in [Conns -> Phases]
           /\ owner' \in [Conns -> Sessions \cup {NoSession}]
           /\ wire' \in [Conns -> SUBSET (1..eventSeq)]
           /\ resyncTo' \in [Conns -> 0..eventSeq]
<1>1. conn[s] \in Conns \cup {NoConn} /\ eventSeq \in Nat
  BY DEF TypeOK, TypeOKClient, TypeOKLog
<1>2. CASE conn[s] = NoConn
  BY <1>2 DEF LetGo, TypeOK, TypeOKClient, TypeOKSession, TypeOKNet
<1>3. CASE conn[s] \in Conns /\ conn[s] # NoConn
  <2>1. conn' \in [Sessions -> Conns \cup {NoConn}]
    BY DEF LetGo, TypeOK, TypeOKClient
  <2>2. cpc' \in [Conns -> Phases]
    BY <1>3 DEF LetGo, TypeOK, TypeOKSession, Phases
  <2>3. owner' \in [Conns -> Sessions \cup {NoSession}]
    BY <1>3 DEF LetGo, TypeOK, TypeOKSession
  <2>4. wire' \in [Conns -> SUBSET (1..eventSeq)]
    BY <1>3 DEF LetGo, TypeOK, TypeOKNet
  <2>5. resyncTo' \in [Conns -> 0..eventSeq]
    BY <1>1, <1>3 DEF LetGo, TypeOK, TypeOKSession
  <2> QED
    BY <2>1, <2>2, <2>3, <2>4, <2>5
<1> QED
  BY <1>1, <1>2, <1>3

LEMMA AckTyped ==
    ASSUME TypeOK, NEW s \in Sessions, NEW n \in Nat, Ack(s, n)
    PROVE  /\ ackTimer' \in [Sessions -> Nat] /\ clientAck' \in [Sessions -> Nat]
           /\ acks' \in [Conns -> Seq(Nat)]
<1>1. ackTimer' \in [Sessions -> Nat] /\ clientAck' \in [Sessions -> Nat]
  BY DEF TypeOK, TypeOKClient, Ack
<1>2. CASE conn[s] # NoConn /\ cpc[conn[s]] # "closed"
  <2>1. conn[s] \in Conns
    BY <1>2 DEF TypeOK, TypeOKClient
  <2>2. Append(acks[conn[s]], n) \in Seq(Nat)
    BY <2>1 DEF TypeOK, TypeOKNet
  <2> QED
    BY <1>1, <1>2, <2>1, <2>2 DEF TypeOK, TypeOKNet, Ack, SendAck
<1>3. CASE ~(conn[s] # NoConn /\ cpc[conn[s]] # "closed")
  BY <1>1, <1>3 DEF TypeOK, TypeOKNet, Ack, SendAck
<1> QED
  BY <1>2, <1>3

(* The number of frames a Replay may still send is positive when the       *)
(* window is open.                                                         *)
LEMMA WindowTyped ==
    ASSUME TypeOK, NEW k \in Conns
    PROVE  /\ IsFiniteSet(pending[k]) /\ Cardinality(pending[k]) \in Nat
           /\ IsFiniteSet(live[k]) /\ Cardinality(live[k]) \in Nat
<1>1. IsFiniteSet(1..eventSeq)
  BY FS_Interval DEF TypeOK, TypeOKLog
<1>2. pending[k] \in SUBSET (1..eventSeq) /\ live[k] \in SUBSET (1..eventSeq)
  BY DEF TypeOK, TypeOKSession, TypeOKHub
<1> QED
  BY <1>1, <1>2, FS_Subset, FS_CardinalityType

LEMMA GreatestTyped ==
    ASSUME NEW N \in Nat, NEW S, S \subseteq 0..N, S # {}
    PROVE  Greatest(S) \in S /\ \A o \in S : o <= Greatest(S)
  BY GreatestExists DEF Greatest

(* The rows a Replay returns, and how far they bring the connection.       *)
LEMMA ReplayBatchIs ==
    ASSUME TypeOK, NEW k \in Conns, ReplayBatch(k)
    PROVE  \E batch \in SUBSET ReplayRows(owner[k], delivered[k], backlogHigh[k]), d \in Nat :
             /\ Send(k, batch)
             /\ delivered' = [delivered EXCEPT ![k] = d]
             /\ \A n \in batch : n <= d
             /\ delivered[k] <= d /\ d <= backlogHigh[k]
             /\ \A n \in ReplayRows(owner[k], delivered[k], backlogHigh[k]) :
                    n <= d => n \in batch
<1> DEFINE rows == ReplayRows(owner[k], delivered[k], backlogHigh[k])
           limit == Smaller(MaxUnacked - Cardinality(pending[k]), MaxQueued)
           batch == FirstSeqs(rows, limit)
           d == IF LastBatch(batch, limit) THEN backlogHigh[k] ELSE Greatest(batch)
<1>1. limit \in Int /\ limit > 0
  BY WindowTyped, LimitAssumption DEF ReplayBatch, HasWindow, Smaller
<1>2. /\ eventSeq \in Nat /\ backlogHigh[k] \in Nat /\ delivered[k] \in Nat
      /\ delivered[k] < backlogHigh[k]
  BY DEF TypeOK, TypeOKLog, TypeOKSession, ReplayBatch, InBacklog
<1>3. ASSUME NEW n \in rows PROVE n \in 0..eventSeq /\ n <= backlogHigh[k] /\ n > delivered[k]
  <2>1. n \in retained /\ n <= backlogHigh[k] /\ n > delivered[k]
    BY DEF ReplayRows
  <2>2. retained \subseteq 1..eventSeq
    BY DEF TypeOK, TypeOKLog
  <2> QED
    BY <1>2, <2>1, <2>2
<1>4. Send(k, batch) /\ delivered' = [delivered EXCEPT ![k] = d]
  BY DEF ReplayBatch
<1> HIDE DEF rows, limit
<1>5. rows \subseteq 0..eventSeq
  BY <1>3
<1>6. batch \subseteq rows /\ \A n \in rows, x \in batch : n < x => n \in batch
  BY <1>1, <1>2, <1>5, FirstSeqsPrefix
<1> DEFINE Reached ==
        d \in Nat /\ (\A n \in batch : n <= d) /\ delivered[k] <= d /\ d <= backlogHigh[k]
        /\ \A n \in rows : n <= d => n \in batch
<1>7. ASSUME LastBatch(batch, limit) PROVE Reached
  <2>1. Cardinality(FirstSeqs(rows, limit)) < limit
    BY <1>7 DEF LastBatch
  <2>2. batch = rows
    BY <1>1, <1>2, <1>5, <2>1, ShortReadIsAll
  <2>3. d = backlogHigh[k]
    BY <1>7
  <2> HIDE DEF batch, d
  <2> QED
    BY <1>2, <1>3, <2>2, <2>3
<1>8. ASSUME ~LastBatch(batch, limit) PROVE Reached
  <2>1. batch # {}
    BY <1>1, <1>8, FS_EmptySet DEF LastBatch
  <2>2. d = Greatest(batch)
    BY <1>8
  <2> HIDE DEF batch, d
  <2>3. batch \subseteq 0..eventSeq
    BY <1>5, <1>6
  <2>4. d \in batch /\ \A o \in batch : o <= d
    BY <1>2, <2>1, <2>2, <2>3, GreatestTyped
  <2>5. d \in Nat /\ delivered[k] <= d /\ d <= backlogHigh[k]
    BY <1>2, <1>3, <1>6, <2>4
  <2>6. ASSUME NEW n \in rows, n <= d PROVE n \in batch
    <3>1. n \in Int
      BY <1>3
    <3> QED
      BY <1>6, <2>4, <2>5, <2>6, <3>1
  <2> QED
    BY <2>4, <2>5, <2>6
<1> HIDE DEF batch, d
<1>9. /\ batch \in SUBSET rows /\ d \in Nat
      /\ \A n \in batch : n <= d
      /\ delivered[k] <= d /\ d <= backlogHigh[k]
      /\ \A n \in rows : n <= d => n \in batch
  BY <1>6, <1>7, <1>8
<1> QED
  BY <1>4, <1>9 DEF rows

LEMMA PublishTyped == ASSUME TypeOK, PollPublish PROVE TypeOK'
<1>1. eventSeq \in Nat /\ dCurrent \in Nat /\ DOMAIN dFrames \subseteq 0..eventSeq
  BY DEF TypeOK, TypeOKLog, TypeOKDispatcher
<1>2. Through \in Nat
  <2>1. DOMAIN dFrames # {} => Greatest(DOMAIN dFrames) \in DOMAIN dFrames
    BY <1>1, GreatestTyped
  <2> QED
    BY <1>1, <2>1 DEF Through
<1> PICK room \in [Conns -> 0..MaxQueued] : Publish(room)
  BY DEF PollPublish
<1>3. \A k \in Conns : Taken(k, room[k]) \subseteq 1..eventSeq
  BY DEF Taken, FirstSeqs, Offered, TypeOK, TypeOKDispatcher
<1>4. live' \in [Conns -> SUBSET (1..eventSeq)]
  BY <1>3 DEF Publish, TypeOK, TypeOKHub
<1>5. cancelled' \in [Conns -> BOOLEAN] /\ latest' \in [Conns -> Nat] /\ watermark' \in Nat
  BY <1>2 DEF Publish, TypeOK, TypeOKHub, Overflows, Larger
<1>6. TypeOKHub'
  BY <1>4, <1>5 DEF PollPublish, TypeOK, TypeOKHub, logVars
<1>7. TypeOKDispatcher'
  BY <1>1, <1>2 DEF PollPublish, PollDone, TypeOK, TypeOKDispatcher, logVars
<1> QED
  BY <1>6, <1>7 DEF PollPublish, TypeOK, TypeOKLog, TypeOKSession, TypeOKNet,
     TypeOKClient, logVars, sessionVars, netVars, clientVars

(* What Send does to the types, for any set of sequence numbers.           *)
LEMMA SendTyped ==
    ASSUME TypeOK, NEW k \in Conns, NEW S, S \subseteq 1..eventSeq, Send(k, S)
    PROVE  /\ wire' \in [Conns -> SUBSET (1..eventSeq)]
           /\ pending' \in [Conns -> SUBSET (1..eventSeq)]
  BY DEF Send, TypeOK, TypeOKNet, TypeOKSession

LEMMA ReplayBatchTyped ==
    ASSUME TypeOK, NEW k \in Conns, ReplayBatch(k) PROVE TypeOK'
<1>1. PICK batch \in SUBSET ReplayRows(owner[k], delivered[k], backlogHigh[k]), d \in Nat :
        Send(k, batch) /\ delivered' = [delivered EXCEPT ![k] = d]
  BY ReplayBatchIs
<1>2. batch \subseteq 1..eventSeq
  BY DEF ReplayRows, TypeOK, TypeOKLog
<1>3. TypeOKSession' /\ TypeOKNet'
  BY <1>1, <1>2, SendTyped DEF ReplayBatch, TypeOK, TypeOKSession, TypeOKNet, logVars
<1> QED
  BY <1>3 DEF ReplayBatch, TypeOK, TypeOKLog, TypeOKHub, TypeOKDispatcher,
     TypeOKClient, logVars, hubVars, dispatcherVars, clientVars

LEMMA LiveFrameTyped ==
    ASSUME TypeOK, NEW k \in Conns, LiveFrame(k) PROVE TypeOK'
<1> DEFINE n == Least(live[k])
<1>1. live[k] \subseteq 1..eventSeq /\ live[k] # {} /\ eventSeq \in Nat
  BY DEF LiveFrame, TypeOK, TypeOKHub, TypeOKLog
<1>2. live[k] \subseteq Nat
  BY <1>1
<1>3. n \in live[k]
  BY <1>1, <1>2, LeastExists
<1>4. n \in Nat /\ {n} \subseteq 1..eventSeq
  BY <1>1, <1>2, <1>3
<1> HIDE DEF n
<1>5. live' = [live EXCEPT ![k] = live[k] \ {n}]
      /\ IF n <= delivered[k] THEN UNCHANGED <<wire, pending, delivered>>
         ELSE Send(k, {n}) /\ delivered' = [delivered EXCEPT ![k] = n]
  BY DEF LiveFrame, n
<1>6. TypeOKHub'
  BY <1>5 DEF LiveFrame, TypeOK, TypeOKHub, logVars
<1>7. TypeOKSession' /\ TypeOKNet'
  <2>1. CASE n <= delivered[k]
    BY <1>5, <2>1 DEF LiveFrame, TypeOK, TypeOKSession, TypeOKNet, logVars
  <2>2. CASE ~(n <= delivered[k])
    BY <1>4, <1>5, <2>2, SendTyped DEF LiveFrame, TypeOK, TypeOKSession, TypeOKNet, logVars
  <2> QED
    BY <2>1, <2>2
<1> QED
  BY <1>6, <1>7 DEF LiveFrame, TypeOK, TypeOKLog, TypeOKDispatcher, TypeOKClient,
     logVars, dispatcherVars, clientVars

LEMMA AckFrameTyped ==
    ASSUME TypeOK, NEW k \in Conns, AckFrame(k) PROVE TypeOK'
<1>1. acks[k] \in Seq(Nat) /\ acks[k] # <<>>
  BY DEF AckFrame, TypeOK, TypeOKNet
<1>2. Head(acks[k]) \in Nat /\ Tail(acks[k]) \in Seq(Nat)
  BY <1>1
<1>3. TypeOKNet'
  BY <1>2 DEF AckFrame, TypeOK, TypeOKNet, logVars
<1>4. pending' \in [Conns -> SUBSET (1..eventSeq)]
  BY DEF AckFrame, TypeOK, TypeOKSession
<1>5. TypeOKSession'
  BY <1>2, <1>4 DEF AckFrame, TypeOK, TypeOKSession, logVars
<1> QED
  BY <1>3, <1>5 DEF AckFrame, TypeOK, TypeOKLog, TypeOKHub, TypeOKDispatcher,
     TypeOKClient, logVars, hubVars, dispatcherVars, clientVars

LEMMA ReceiveEventTyped ==
    ASSUME TypeOK, NEW s \in Sessions, ReceiveEvent(s) PROVE TypeOK'
<1> DEFINE k == conn[s]
           n == Least(wire[k])
<1>1. k \in Conns /\ wire[k] # {} /\ wire[k] \subseteq 1..eventSeq /\ eventSeq \in Nat
  BY DEF ReceiveEvent, TypeOK, TypeOKClient, TypeOKNet, TypeOKLog
<1>2. wire[k] \subseteq Nat
  BY <1>1
<1>3. n \in Nat
  BY <1>1, <1>2, LeastExists
<1>4. ackTimer' \in [Sessions -> Nat] /\ clientAck' \in [Sessions -> Nat]
      /\ acks' \in [Conns -> Seq(Nat)]
  <2>1. ScheduleAck(s, n)
    BY DEF ReceiveEvent
  <2> HIDE DEF n
  <2> QED
    BY <1>3, <2>1, AckTyped DEF ScheduleAck, TypeOK, TypeOKClient, TypeOKNet
<1>5. wire' \in [Conns -> SUBSET (1..eventSeq)]
  BY <1>1 DEF ReceiveEvent, TypeOK, TypeOKNet
<1>6. /\ storeSeq' \in [Sessions -> Nat] /\ checkpoint' \in [Sessions -> Nat]
      /\ covered' \in [Sessions -> SUBSET Nat]
  BY <1>3 DEF ReceiveEvent, TypeOK, TypeOKClient
<1> QED
  BY <1>4, <1>5, <1>6 DEF ReceiveEvent, TypeOK, TypeOKLog, TypeOKHub, TypeOKDispatcher,
     TypeOKSession, TypeOKNet, TypeOKClient, logVars, hubVars, dispatcherVars, sessionVars

LEMMA AckTimerTyped ==
    ASSUME TypeOK, NEW s \in Sessions, AckTimer(s) PROVE TypeOK'
<1>1. ackTimer[s] \in Nat
  BY DEF TypeOK, TypeOKClient
<1>2. ackTimer' \in [Sessions -> Nat] /\ clientAck' \in [Sessions -> Nat]
      /\ acks' \in [Conns -> Seq(Nat)]
  BY <1>1, AckTyped DEF AckTimer
<1> QED
  BY <1>2 DEF AckTimer, TypeOK, TypeOKLog, TypeOKHub, TypeOKDispatcher, TypeOKSession,
     TypeOKNet, TypeOKClient, logVars, hubVars, dispatcherVars, sessionVars

LEMMA ReceiveResyncTyped ==
    ASSUME TypeOK, NEW s \in Sessions, ReceiveResync(s) PROVE TypeOK'
<1> DEFINE k == conn[s]
           n == resyncTo[k]
<1>1. k \in Conns /\ n \in 1..eventSeq /\ eventSeq \in Nat
  BY DEF ReceiveResync, TypeOK, TypeOKClient, TypeOKSession, TypeOKLog
<1>2. storeSeq' \in [Sessions -> Nat] /\ resyncs' \in [Sessions -> SUBSET (1..eventSeq)]
  BY <1>1 DEF ReceiveResync, TypeOK, TypeOKClient
<1>3. resyncTo' \in [Conns -> 0..eventSeq]
  BY <1>1 DEF ReceiveResync, TypeOK, TypeOKSession
<1> QED
  BY <1>2, <1>3 DEF ReceiveResync, TypeOK, TypeOKLog, TypeOKHub, TypeOKDispatcher,
     TypeOKSession, TypeOKNet, TypeOKClient, logVars, hubVars, dispatcherVars, netVars

LEMMA ResyncDoneTyped ==
    ASSUME TypeOK, NEW s \in Sessions, NEW n \in resyncs[s], ResyncDone(s, n)
    PROVE  TypeOK'
<1>1. n \in Nat
  BY DEF TypeOK, TypeOKClient, TypeOKLog
<1>2. checkpoint' \in [Sessions -> Nat] /\ covered' \in [Sessions -> SUBSET Nat]
      /\ resyncs' \in [Sessions -> SUBSET (1..eventSeq)]
  BY <1>1 DEF ResyncDone, SaveWatermark, TypeOK, TypeOKClient
<1>3. LetGo(s) /\ UNCHANGED eventSeq
  BY DEF ResyncDone, SaveWatermark, logVars
<1> QED
  BY <1>2, <1>3, LetGoTyped DEF ResyncDone, SaveWatermark, TypeOK, TypeOKLog, TypeOKHub,
     TypeOKDispatcher, TypeOKSession, TypeOKNet, TypeOKClient, logVars, hubVars, dispatcherVars

LEMMA ResyncUnloadedTyped ==
    ASSUME TypeOK, NEW s \in Sessions, NEW n \in resyncs[s], ResyncUnloaded(s, n)
    PROVE  TypeOK'
<1>1. n \in Nat /\ faults' \in 0..MaxFaults
  BY FaultTyped DEF ResyncUnloaded, TypeOK, TypeOKClient, TypeOKLog
<1>2. checkpoint' \in [Sessions -> Nat] /\ resyncs' \in [Sessions -> SUBSET (1..eventSeq)]
  BY <1>1 DEF ResyncUnloaded, SaveWatermark, TypeOK, TypeOKClient
<1>3. abandoned' \in [Sessions -> Nat] /\ unloaded' \in [Sessions -> Nat]
  BY <1>1 DEF ResyncUnloaded, Larger, TypeOK, TypeOKClient
<1>4. LetGo(s) /\ UNCHANGED eventSeq
  BY DEF ResyncUnloaded, SaveWatermark, logVars
<1> QED
  BY <1>1, <1>2, <1>3, <1>4, LetGoTyped DEF ResyncUnloaded, SaveWatermark, TypeOK, TypeOKLog,
     TypeOKHub, TypeOKDispatcher, TypeOKSession, TypeOKNet, TypeOKClient, logVars, hubVars,
     dispatcherVars

LEMMA SeeCloseTyped ==
    ASSUME TypeOK, NEW s \in Sessions, SeeClose(s) \/ LoseSocket(s) PROVE TypeOK'
<1>1. LetGo(s) /\ UNCHANGED eventSeq /\ faults' \in 0..MaxFaults
  BY FaultTyped DEF SeeClose, LoseSocket, logVars, TypeOK
<1> QED
  BY <1>1, LetGoTyped DEF SeeClose, LoseSocket, TypeOK, TypeOKLog, TypeOKHub, TypeOKDispatcher,
     TypeOKSession, TypeOKNet, TypeOKClient, logVars, hubVars, dispatcherVars

LEMMA ReloadTyped ==
    ASSUME TypeOK, NEW s \in Sessions, Reload(s) PROVE TypeOK'
<1>1. LetGo(s) /\ UNCHANGED eventSeq /\ faults' \in 0..MaxFaults
  BY FaultTyped DEF Reload, logVars
<1>2. resyncs[s] \subseteq 0..eventSeq /\ eventSeq \in Nat
  BY DEF TypeOK, TypeOKClient, TypeOKLog
<1>3. resyncs[s] # {} => Greatest(resyncs[s]) \in Nat
  BY <1>2, GreatestTyped
<1>4. abandoned' \in [Sessions -> Nat]
  BY <1>3 DEF Reload, Larger, TypeOK, TypeOKClient
<1>5. storeSeq' \in [Sessions -> Nat] /\ resyncs' \in [Sessions -> SUBSET (1..eventSeq)]
      /\ ackTimer' \in [Sessions -> Nat] /\ clientAck' \in [Sessions -> Nat]
  BY DEF Reload, TypeOK, TypeOKClient
<1> QED
  BY <1>1, <1>4, <1>5, LetGoTyped DEF Reload, TypeOK, TypeOKLog, TypeOKHub,
     TypeOKDispatcher, TypeOKSession, TypeOKNet, TypeOKClient, logVars, hubVars, dispatcherVars

(* Every step keeps the types.                                             *)
LEMMA NextTyped ==
    ASSUME TypeOK, Next
    PROVE  TypeOK'
<1>1. CASE LogCommit
  <2>1. TypeOKLog' /\ eventSeq <= eventSeq'
    BY <1>1, CommitAppends, Append1Typed, Append2Typed DEF LogCommit, TypeOK
  <2> QED
    BY <1>1, <2>1, LogTyped DEF LogCommit
<1>2. CASE LogPrune
  <2>1. TypeOKLog' /\ eventSeq <= eventSeq'
    <3>1. PICK S \in SUBSET Prunable : Prune(S)
      BY <1>2 DEF LogPrune
    <3>2. retained' \subseteq retained
      BY <3>1 DEF Prune
    <3>3. UNCHANGED <<eventSeq, events, members, entitled>>
      BY <3>1 DEF Prune
    <3>4. TypeOKLog
      BY DEF TypeOK
    <3> QED
      BY <3>2, <3>3, <3>4 DEF TypeOKLog
  <2> QED
    BY <1>2, <2>1, LogTyped DEF LogPrune
<1>3. ASSUME PollStart PROVE TypeOK'
  BY <1>3 DEF PollStart, TypeOK, TypeOKLog, TypeOKHub, TypeOKDispatcher,
           TypeOKSession, TypeOKNet, TypeOKClient,
           Phases, logVars, hubVars, dispatcherVars, sessionVars, netVars,
           clientVars
<1>4. ASSUME PollCurrent PROVE TypeOK'
  BY <1>4 DEF PollCurrent, PollDone, TypeOK, TypeOKLog, TypeOKHub, TypeOKDispatcher,
           TypeOKSession, TypeOKNet, TypeOKClient,
           Phases, logVars, hubVars, dispatcherVars, sessionVars, netVars,
           clientVars
<1>5. ASSUME PollRead PROVE TypeOK'
  <2> DEFINE D == FirstSeqs(LiveRows(dFrom, dCurrent), LiveLimit)
  <2>1. dFrames' = [n \in D |-> Readers(events[n], members)]
    BY <1>5 DEF PollRead
  <2>2. D \subseteq retained
    BY DEF FirstSeqs, LiveRows
  <2>3. \A n \in D : Readers(events[n], members) \subseteq Sessions
    BY DEF Readers
  <2> HIDE DEF D
  <2>4. TypeOKDispatcher'
    BY <1>5, <2>1, <2>2, <2>3 DEF PollRead, TypeOK, TypeOKDispatcher, TypeOKLog, logVars
  <2> QED
    BY <1>5, <2>4 DEF PollRead, TypeOK, TypeOKLog, TypeOKHub, TypeOKSession, TypeOKNet,
       TypeOKClient, logVars, hubVars, sessionVars, netVars, clientVars
<1>6. ASSUME PollFail PROVE TypeOK'
  <2>1. faults' \in 0..MaxFaults
    BY <1>6, FaultTyped DEF PollFail
  <2> QED
    BY <1>6, <2>1 DEF PollFail, PollDone, TypeOK, TypeOKLog, TypeOKHub, TypeOKDispatcher,
       TypeOKSession, TypeOKNet, TypeOKClient, logVars, hubVars, sessionVars, netVars,
       clientVars
<1>7. ASSUME PollPublish PROVE TypeOK'
  BY <1>7, PublishTyped
<1>8. ASSUME NEW k \in Conns, ReadCurrent(k) PROVE TypeOK'
  BY <1>8 DEF ReadCurrent, TypeOK, TypeOKLog, TypeOKHub, TypeOKDispatcher,
           TypeOKSession, TypeOKNet, TypeOKClient,
           Phases, logVars, hubVars, dispatcherVars, sessionVars, netVars,
           clientVars
<1>9. ASSUME NEW k \in Conns, Register(k) PROVE TypeOK'
  BY <1>9 DEF Register, TypeOK, TypeOKLog, TypeOKHub, TypeOKDispatcher,
           TypeOKSession, TypeOKNet, TypeOKClient,
           Phases, logVars, hubVars, dispatcherVars, sessionVars, netVars,
           clientVars
<1>10. ASSUME NEW k \in Conns, 
              RegisterRefused(k) \/ InvalidAck(k) \/ AckTimeout(k) \/ SlowConsumer(k)
              \/ PeerGone(k) \/ ServerClose(k) \/ BoundsResync(k)
       PROVE  TypeOK'
  <2>1. End(k)
    BY <1>10 DEF RegisterRefused, InvalidAck, AckTimeout, SlowConsumer, PeerGone,
       ServerClose, BoundsResync
  <2>2. resyncTo' \in [Conns -> 0..eventSeq]
    BY <1>10 DEF RegisterRefused, InvalidAck, AckTimeout, SlowConsumer, PeerGone,
       ServerClose, BoundsResync, TypeOK, TypeOKSession, TypeOKLog
  <2>3. faults' \in 0..MaxFaults
    BY <1>10, FaultTyped DEF RegisterRefused, InvalidAck, AckTimeout, SlowConsumer,
       PeerGone, ServerClose, BoundsResync, TypeOK
  <2> QED
    BY <2>1, <2>2, <2>3, EndTyped
<1>11. ASSUME NEW k \in Conns, BoundsAccept(k) PROVE TypeOK'
  BY <1>11 DEF BoundsAccept, BacklogTarget, TypeOK, TypeOKLog, TypeOKHub, TypeOKDispatcher,
           TypeOKSession, TypeOKNet, TypeOKClient,
           Phases, logVars, hubVars, dispatcherVars, sessionVars, netVars,
           clientVars
<1>12. ASSUME NEW k \in Conns, ReplayBatch(k) PROVE TypeOK'
  BY <1>12, ReplayBatchTyped
<1>13. ASSUME NEW k \in Conns, LiveFrame(k) PROVE TypeOK'
  BY <1>13, LiveFrameTyped
<1>14. ASSUME NEW k \in Conns, AckFrame(k) PROVE TypeOK'
  BY <1>14, AckFrameTyped
<1>15. ASSUME NEW s \in Sessions, NEW k \in Conns, Connect(s, k) PROVE TypeOK'
  BY <1>15 DEF Connect, TypeOK, TypeOKLog, TypeOKHub, TypeOKDispatcher,
           TypeOKSession, TypeOKNet, TypeOKClient,
           Phases, logVars, hubVars, dispatcherVars, sessionVars, netVars,
           clientVars
<1>16. ASSUME NEW s \in Sessions, ReceiveEvent(s) PROVE TypeOK'
  BY <1>16, ReceiveEventTyped
<1>17. ASSUME NEW s \in Sessions, AckTimer(s) PROVE TypeOK'
  BY <1>17, AckTimerTyped
<1>18. ASSUME NEW s \in Sessions, ReceiveResync(s) PROVE TypeOK'
  BY <1>18, ReceiveResyncTyped
<1>19. ASSUME NEW s \in Sessions, NEW n \in resyncs[s], ResyncDone(s, n) PROVE TypeOK'
  BY <1>19, ResyncDoneTyped
<1>20. ASSUME NEW s \in Sessions, NEW n \in resyncs[s], ResyncUnloaded(s, n) PROVE TypeOK'
  BY <1>20, ResyncUnloadedTyped
<1>21. ASSUME NEW s \in Sessions, NEW n \in resyncs[s], ResyncFailed(s, n) PROVE TypeOK'
  <2>1. faults' \in 0..MaxFaults
    BY <1>21, FaultTyped DEF ResyncFailed
  <2>2. n \in Nat
    BY DEF TypeOK, TypeOKClient, TypeOKLog
  <2>3. TypeOKClient'
    BY <1>21, <2>2 DEF ResyncFailed, Larger, TypeOK, TypeOKClient, logVars
  <2> QED
    BY <1>21, <2>1, <2>3 DEF ResyncFailed, TypeOK, TypeOKLog, TypeOKHub, TypeOKDispatcher,
       TypeOKSession, TypeOKNet, logVars, hubVars, dispatcherVars, sessionVars, netVars
<1>22. ASSUME NEW s \in Sessions, SeeClose(s) \/ LoseSocket(s) PROVE TypeOK'
  BY <1>22, SeeCloseTyped
<1>23. ASSUME NEW s \in Sessions, Reload(s) PROVE TypeOK'
  BY <1>23, ReloadTyped
<1> QED
  BY <1>1, <1>2, <1>3, <1>4, <1>5, <1>6, <1>7, <1>8, <1>9, <1>10, <1>11, <1>12, <1>13,
     <1>14, <1>15, <1>16, <1>17, <1>18, <1>19, <1>20, <1>21, <1>22, <1>23
     DEF Next, Dispatch, Serve, Client

(* Every reachable state is well typed: every sequence number in a queue, a *)
(* window, on the wire or in a resync under way is one the log has         *)
(* assigned.                                                               *)
THEOREM TypeCorrect == Spec => []TypeOK
<1>1. ASSUME TypeOK, UNCHANGED vars PROVE TypeOK'
  BY <1>1 DEF TypeOK, TypeOKLog, TypeOKHub, TypeOKDispatcher, TypeOKSession, TypeOKNet,
     TypeOKClient, vars, logVars, hubVars, dispatcherVars, sessionVars, netVars, clientVars
<1> QED
  BY <1>1, InitTyped, NextTyped, PTL DEF Spec

=============================================================================

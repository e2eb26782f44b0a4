------------------------------ MODULE Realtime ------------------------------
(***************************************************************************)
(* Durable delivery, end to end: the event log, the hub, the dispatcher,   *)
(* the WebSocket sessions of one Core process and the client coordinators. *)
(*                                                                         *)
(* A connection is a socket with its server session.  The network is TCP:  *)
(* frames arrive in order and without gaps until the connection breaks,    *)
(* and then both directions lose whatever was under way.  A client that    *)
(* has lost its socket may be back before the server has noticed.          *)
(*                                                                         *)
(* The live queue, the unacknowledged window and the frames on the wire    *)
(* are sets of sequence numbers that are taken smallest first; what is     *)
(* enqueued is always larger than what is queued (EnqueueInOrder), so this *)
(* is the order of the Go channel and of the socket.                       *)
(***************************************************************************)
EXTENDS EventLog, Sequences

CONSTANTS
    Conns,           \* sockets that can exist at a time
    NoConn,          \* the client holds no socket
    MaxConnections,  \* WS_MAX_CONNECTIONS_PER_ACTOR
    MaxQueued,       \* WS_MAX_QUEUED_EVENTS
    MaxUnacked,      \* WS_MAX_UNACKED_EVENTS
    LiveLimit,       \* rows per Live query
    AckBatch,        \* WS_ACK_BATCH_SIZE
    MaxFaults        \* bound on faults: lost sockets, restarts, failed reads

ASSUME ConnAssumption == NoConn \notin Conns
ASSUME LimitAssumption ==
    /\ MaxConnections \in Nat \ {0} /\ MaxQueued \in Nat \ {0}
    /\ MaxUnacked \in 1..MaxQueued  /\ LiveLimit \in Nat \ {0}
    /\ AckBatch \in Nat \ {0}       /\ MaxFaults \in Nat

VARIABLES
    \* Hub, and per connection its Subscription
    subs,        \* registered subscriptions
    watermark,   \* orgState.watermark; no orgState when subs is empty
    latest,      \* initialWatermark, then Subscription.latest
    live,        \* Subscription.live, the bounded channel
    cancelled,   \* the subscription's context is cancelled
    \* Dispatcher.poll
    dpc, dFrom, dCurrent,
    dFrames,     \* batch under way: sequence number -> sessions it may reach
    \* WebSocket server session
    cpc,         \* where the connection is in ServeHTTP
    owner,       \* the login session that authenticated
    backlogHigh, \* the watermark the backlog is replayed to
    delivered,   \* last_seq of the auth frame, then deliveredThrough
    lastAck, pending,
    wire,        \* event frames on their way to the client
    acks,        \* ack frames on their way to the server
    resyncTo,    \* current_seq of a resync_required frame on its way, else 0
    \* Client coordinator
    conn,        \* its socket
    checkpoint,  \* persisted checkpoint
    storeSeq,    \* checkpoint of the in-memory store
    resyncs,     \* resync callbacks under way
    ackTimer,    \* the sequence number the armed timer will acknowledge, or 0
    clientAck,   \* RealtimeCoordinator.lastAck
    covered,     \* history: events applied, or contained in a loaded snapshot
    abandoned,   \* history: the furthest watermark of a resync that failed
    unloaded,    \* history: the furthest one saved without its snapshot
    faults

hubVars == <<subs, watermark, latest, live, cancelled>>
dispatcherVars == <<dpc, dFrom, dCurrent, dFrames>>
sessionVars == <<cpc, owner,  backlogHigh, delivered,
                 lastAck, pending, resyncTo>>
netVars == <<wire, acks>>
clientVars == <<conn, checkpoint, storeSeq, resyncs, ackTimer, clientAck,
                covered, abandoned, unloaded>>
vars == <<logVars, hubVars, dispatcherVars, sessionVars, netVars, clientVars,
          faults>>

Phases == {"free", "current", "register", "bounds", "open", "closed"}

Larger(m, n) == IF m > n THEN m ELSE n
Smaller(m, n) == IF m < n THEN m ELSE n
Greatest(S) == CHOOSE n \in S : \A o \in S : o <= n

TypeOKHub ==
    /\ subs \subseteq Conns /\ watermark \in Nat
    /\ latest \in [Conns -> Nat] /\ cancelled \in [Conns -> BOOLEAN]
    /\ live \in [Conns -> SUBSET (1..eventSeq)]

TypeOKDispatcher ==
    /\ dpc \in {"idle", "current", "read", "publish"}
    /\ dFrom \in Nat /\ dCurrent \in Nat
    /\ DOMAIN dFrames \subseteq 1..eventSeq
    /\ \A n \in DOMAIN dFrames : dFrames[n] \subseteq Sessions

TypeOKSession ==
    /\ cpc \in [Conns -> Phases] /\ owner \in [Conns -> Sessions \cup {NoSession}]
    /\ backlogHigh \in [Conns -> Nat] /\ delivered \in [Conns -> Nat]
    /\ lastAck \in [Conns -> Nat] /\ pending \in [Conns -> SUBSET (1..eventSeq)]
    /\ resyncTo \in [Conns -> 0..eventSeq]

TypeOKNet ==
    /\ wire \in [Conns -> SUBSET (1..eventSeq)]
    /\ acks \in [Conns -> Seq(Nat)]

TypeOKClient ==
    /\ conn \in [Sessions -> Conns \cup {NoConn}]
    /\ checkpoint \in [Sessions -> Nat] /\ storeSeq \in [Sessions -> Nat]
    /\ resyncs \in [Sessions -> SUBSET (1..eventSeq)]
    /\ ackTimer \in [Sessions -> Nat] /\ clientAck \in [Sessions -> Nat]
    /\ covered \in [Sessions -> SUBSET Nat]
    /\ abandoned \in [Sessions -> Nat] /\ unloaded \in [Sessions -> Nat]

TypeOK ==
    /\ TypeOKLog /\ TypeOKHub /\ TypeOKDispatcher /\ TypeOKSession /\ TypeOKNet
    /\ TypeOKClient /\ faults \in 0..MaxFaults

Init ==
    /\ InitLog
    /\ subs = {} /\ watermark = 0
    /\ latest = [k \in Conns |-> 0] /\ live = [k \in Conns |-> {}]
    /\ cancelled = [k \in Conns |-> FALSE]
    /\ dpc = "idle" /\ dFrom = 0 /\ dCurrent = 0 /\ dFrames = <<>>
    /\ cpc = [k \in Conns |-> "free"] /\ owner = [k \in Conns |-> NoSession]
    /\ backlogHigh = [k \in Conns |-> 0] /\ delivered = [k \in Conns |-> 0]
    /\ lastAck = [k \in Conns |-> 0] /\ pending = [k \in Conns |-> {}]
    /\ wire = [k \in Conns |-> {}] /\ acks = [k \in Conns |-> <<>>]
    /\ resyncTo = [k \in Conns |-> 0]
    /\ conn = [s \in Sessions |-> NoConn]
    /\ checkpoint = [s \in Sessions |-> 0] /\ storeSeq = [s \in Sessions |-> 0]
    /\ resyncs = [s \in Sessions |-> {}]
    /\ ackTimer = [s \in Sessions |-> 0] /\ clientAck = [s \in Sessions |-> 0]
    /\ covered = [s \in Sessions |-> {}]
    /\ abandoned = [s \in Sessions |-> 0] /\ unloaded = [s \in Sessions |-> 0]
    /\ faults = 0

Fault == faults < MaxFaults /\ faults' = faults + 1

-----------------------------------------------------------------------------
(* The log: commands commit, the retention worker prunes.                  *)

LogCommit ==
    /\ Commit
    /\ UNCHANGED <<hubVars, dispatcherVars, sessionVars, netVars, clientVars, faults>>

LogPrune ==
    /\ \E S \in SUBSET Prunable : Prune(S)
    /\ UNCHANGED <<hubVars, dispatcherVars, sessionVars, netVars, clientVars, faults>>

-----------------------------------------------------------------------------
(* Dispatcher.poll.  The fallback timer makes a poll possible at any time; *)
(* the wake-up signals only make it earlier.                               *)

PollDone == dpc' = "idle" /\ dFrom' = 0 /\ dCurrent' = 0

PollStart ==
    /\ dpc = "idle" /\ subs # {}
    /\ dFrom' = watermark /\ dpc' = "current"
    /\ UNCHANGED <<logVars, hubVars, dCurrent, dFrames, sessionVars, netVars,
                   clientVars, faults>>

PollCurrent ==
    /\ dpc = "current"
    /\ IF eventSeq <= dFrom THEN PollDone
       ELSE dpc' = "read" /\ dCurrent' = eventSeq /\ UNCHANGED dFrom
    /\ UNCHANGED <<logVars, hubVars, dFrames, sessionVars, netVars, clientVars, faults>>

PollReadExcludesActor ==
    /\ dpc = "read"
    /\ dFrames' = [n \in FirstSeqs(LiveRows(dFrom, dCurrent), LiveLimit) |->
                     {s \in Readers(events[n], members) : events[n].exclude = NoSession}]
    /\ dpc' = "publish"
    /\ UNCHANGED <<logVars, hubVars, dFrom, dCurrent, sessionVars, netVars,
                   clientVars, faults>>

PollRead ==
    /\ dpc = "read"
    /\ dFrames' = [n \in FirstSeqs(LiveRows(dFrom, dCurrent), LiveLimit)
                       |-> Readers(events[n], members)]
    /\ dpc' = "publish"
    /\ UNCHANGED <<logVars, hubVars, dFrom, dCurrent, sessionVars, netVars,
                   clientVars, faults>>

(* Reading the watermark or the batch fails: the poll is given up.         *)
PollFail ==
    /\ dpc \in {"current", "read"}
    /\ PollDone /\ Fault
    /\ UNCHANGED <<logVars, hubVars, dFrames, sessionVars, netVars, clientVars>>

(* Hub.PublishLive for one subscription: the frames it takes, and whether  *)
(* the queue overflows.  The loop stops at the first frame that does not   *)
(* fit, so what was queued before it stays a prefix.  `room` is what the   *)
(* byte limit leaves, which depends on payloads that are not modelled.     *)
OfferedToAll(k) == {n \in DOMAIN dFrames : n > latest[k]}
Offered(k) == {n \in DOMAIN dFrames : n > latest[k] /\ owner[k] \in dFrames[n]}
Taken(k, room) == FirstSeqs(Offered(k), Smaller(room, MaxQueued - Cardinality(live[k])))
OverflowIgnored(k, room) == FALSE
Overflows(k, room) == Taken(k, room) # Offered(k)
Through == IF DOMAIN dFrames = {} THEN dCurrent ELSE Greatest(DOMAIN dFrames)

(* PublishLive, or Advance when the batch is empty; both ignore a          *)
(* watermark that is not ahead, and an organization nobody listens to.     *)
Publish(room) ==
    IF subs # {} /\ Through > watermark
    THEN /\ watermark' = Through
         /\ live' = [k \in Conns |-> IF k \in subs /\ ~cancelled[k]
                                     THEN live[k] \cup Taken(k, room[k]) ELSE live[k]]
         /\ cancelled' = [k \in Conns |-> cancelled[k] \/
                             (k \in subs /\ Overflows(k, room[k]))]
         /\ latest' = [k \in Conns |->
                         IF k \in subs /\ (DOMAIN dFrames = {} \/ ~cancelled[k])
                         THEN Larger(latest[k], Through) ELSE latest[k]]
    ELSE UNCHANGED <<watermark, live, cancelled, latest>>

PollPublish ==
    /\ dpc = "publish"
    /\ \E room \in [Conns -> 0..MaxQueued] : Publish(room)
    /\ IF Through >= dCurrent THEN PollDone
       ELSE dpc' = "read" /\ dFrom' = Through /\ UNCHANGED dCurrent
    /\ dFrames' = <<>>
    /\ UNCHANGED <<logVars, subs, sessionVars, netVars, clientVars, faults>>

-----------------------------------------------------------------------------
(* Server.ServeHTTP                                                        *)

(* Subscription.Close and the end of the socket.  A client that still      *)
(* holds it reads what is on the wire before it sees the close.            *)
Detached(k) == conn[owner[k]] # k

End(k) ==
    /\ subs' = subs \ {k}
    /\ watermark' = IF subs \ {k} = {} THEN 0 ELSE watermark
    /\ live' = [live EXCEPT ![k] = {}]
    /\ latest' = [latest EXCEPT ![k] = 0]
    /\ cancelled' = [cancelled EXCEPT ![k] = FALSE]
    /\ cpc' = [cpc EXCEPT ![k] = IF Detached(k) THEN "free" ELSE "closed"]
    /\ wire' = [wire EXCEPT ![k] = IF Detached(k) THEN {} ELSE @]
    /\ owner' = [owner EXCEPT ![k] = IF Detached(k) THEN NoSession ELSE @]
    /\ acks' = [acks EXCEPT ![k] = <<>>]
    /\ pending' = [pending EXCEPT ![k] = {}]
    /\ backlogHigh' = [backlogHigh EXCEPT ![k] = 0]
    /\ delivered' = [delivered EXCEPT ![k] = 0]
    /\ lastAck' = [lastAck EXCEPT ![k] = 0]
    /\ UNCHANGED <<logVars, dispatcherVars, clientVars>>

ReadCurrent(k) ==
    /\ cpc[k] = "current"
    /\ latest' = [latest EXCEPT ![k] = eventSeq]
    /\ cpc' = [cpc EXCEPT ![k] = "register"]
    /\ UNCHANGED <<logVars, subs, watermark, live, cancelled, dispatcherVars, owner,
                   backlogHigh, delivered, lastAck, pending, resyncTo, netVars,
                   clientVars, faults>>

OfActor(a) == {k \in subs : ActorOf[owner[k]] = a}

Register(k) ==
    /\ cpc[k] = "register"
    /\ Cardinality(OfActor(ActorOf[owner[k]])) < MaxConnections
    /\ subs' = subs \cup {k}
    /\ watermark' = IF subs = {} THEN latest[k] ELSE watermark
    /\ cpc' = [cpc EXCEPT ![k] = "bounds"]
    /\ UNCHANGED <<logVars, latest, live, cancelled, dispatcherVars, owner, backlogHigh,
                   delivered, lastAck, pending, resyncTo, netVars,
                   clientVars, faults>>

RegisterRefused(k) ==
    /\ cpc[k] = "register"
    /\ Cardinality(OfActor(ActorOf[owner[k]])) >= MaxConnections
    /\ End(k) /\ UNCHANGED <<resyncTo, faults>>

(* last_seq < min_retained_seq: resync_required, then close 4009.          *)
BoundsResync(k) ==
    /\ cpc[k] = "bounds" /\ delivered[k] < MinRetained
    /\ resyncTo' = [resyncTo EXCEPT ![k] = IF Detached(k) THEN 0 ELSE eventSeq]
    /\ End(k) /\ UNCHANGED faults

(* The backlog reaches to Bounds.CurrentSeq, read after Register.          *)
BacklogTarget(k) == eventSeq

BoundsAccept(k) ==
    /\ cpc[k] = "bounds" /\ delivered[k] >= MinRetained
    /\ backlogHigh' = [backlogHigh EXCEPT ![k] = BacklogTarget(k)]
    /\ lastAck' = [lastAck EXCEPT ![k] = delivered[k]]
    /\ cpc' = [cpc EXCEPT ![k] = "open"]
    /\ UNCHANGED <<logVars, hubVars, dispatcherVars, owner, delivered,
                   pending, resyncTo, netVars, clientVars, faults>>

-----------------------------------------------------------------------------
(* session.writeLoop                                                       *)

InBacklog(k) == delivered[k] < backlogHigh[k]
HasWindow(k) == Cardinality(pending[k]) < MaxUnacked

Send(k, S) ==
    /\ wire' = [wire EXCEPT ![k] = IF Detached(k) THEN @ ELSE @ \cup S]
    /\ pending' = [pending EXCEPT ![k] = @ \cup S]

(* One Replay query; an empty or short batch ends the backlog.             *)
LastOrFull(batch, limit) == Cardinality(batch) <= limit
LastBatch(batch, limit) == Cardinality(batch) < limit

ReplayBatch(k) ==
    LET limit == Smaller(MaxUnacked - Cardinality(pending[k]), MaxQueued)
        batch == FirstSeqs(ReplayRows(owner[k], delivered[k], backlogHigh[k]), limit)
    IN
    /\ cpc[k] = "open" /\ InBacklog(k) /\ HasWindow(k)
    /\ Send(k, batch)
    /\ delivered' = [delivered EXCEPT ![k] =
           IF LastBatch(batch, limit) THEN backlogHigh[k] ELSE Greatest(batch)]
    /\ UNCHANGED <<logVars, hubVars, dispatcherVars, cpc, owner,
                   backlogHigh, lastAck, resyncTo, acks, clientVars, faults>>

(* The next frame of the live queue; one the backlog delivered is dropped. *)
LiveFrame(k) ==
    LET n == Least(live[k]) IN
    /\ cpc[k] = "open" /\ ~InBacklog(k) /\ HasWindow(k) /\ live[k] # {}
    /\ live' = [live EXCEPT ![k] = @ \ {n}]
    /\ IF n <= delivered[k] THEN UNCHANGED <<wire, pending, delivered>>
       ELSE Send(k, {n}) /\ delivered' = [delivered EXCEPT ![k] = n]
    /\ UNCHANGED <<logVars, subs, watermark, latest, cancelled, dispatcherVars, cpc,
                   owner,  backlogHigh, lastAck, resyncTo, acks,
                   clientVars, faults>>

ValidAck(k, a) == a >= lastAck[k] /\ a <= delivered[k]

AckFrame(k) ==
    LET a == Head(acks[k]) IN
    /\ cpc[k] = "open" /\ acks[k] # <<>> /\ ValidAck(k, a)
    /\ lastAck' = [lastAck EXCEPT ![k] = a]
    /\ pending' = [pending EXCEPT ![k] = {n \in @ : n > a}]
    /\ acks' = [acks EXCEPT ![k] = Tail(@)]
    /\ UNCHANGED <<logVars, hubVars, dispatcherVars, cpc, owner,
                   backlogHigh, delivered, resyncTo, wire, clientVars, faults>>

InvalidAck(k) ==
    /\ cpc[k] = "open" /\ acks[k] # <<>> /\ ~ValidAck(k, Head(acks[k]))
    /\ End(k) /\ UNCHANGED <<resyncTo, faults>>

(* ackWatch: frames are unacknowledged and AckTimeout has passed.          *)
AckTimeout(k) ==
    /\ cpc[k] = "open" /\ pending[k] # {}
    /\ End(k) /\ UNCHANGED <<resyncTo, faults>>

(* session.run sees that the hub cancelled the subscription: close 4008.   *)
SlowConsumer(k) ==
    /\ cpc[k] = "open" /\ cancelled[k]
    /\ End(k) /\ UNCHANGED <<resyncTo, faults>>

(* The peer is gone: a read, a write or the heartbeat fails.               *)
PeerGone(k) ==
    /\ cpc[k] \notin {"free", "closed"} /\ Detached(k)
    /\ End(k) /\ UNCHANGED <<resyncTo, faults>>

(* The server closes on its own: the token expires, the login session is   *)
(* revoked, Core shuts down, a database read fails.                        *)
ServerClose(k) ==
    /\ cpc[k] \notin {"free", "closed"} /\ ~Detached(k) /\ Fault
    /\ End(k) /\ UNCHANGED resyncTo

-----------------------------------------------------------------------------
(* RealtimeCoordinator                                                     *)

Connect(s, k) ==
    /\ conn[s] = NoConn /\ cpc[k] = "free"
    /\ conn' = [conn EXCEPT ![s] = k]
    /\ owner' = [owner EXCEPT ![k] = s]
    /\ delivered' = [delivered EXCEPT ![k] = checkpoint[s]]
    /\ cpc' = [cpc EXCEPT ![k] = "current"]
    /\ UNCHANGED <<logVars, hubVars, dispatcherVars, backlogHigh,
                   lastAck, pending, resyncTo, netVars, checkpoint, storeSeq, resyncs,
                   ackTimer, clientAck, covered, abandoned, unloaded, faults>>

(* send() of an ack frame: lost when the socket is not open.               *)
SendAck(s, n) ==
    acks' = IF conn[s] # NoConn /\ cpc[conn[s]] # "closed"
            THEN [acks EXCEPT ![conn[s]] = Append(@, n)] ELSE acks

Ack(s, n) ==
    /\ ackTimer' = [ackTimer EXCEPT ![s] = 0]
    /\ clientAck' = [clientAck EXCEPT ![s] = n]
    /\ SendAck(s, n)

(* Acknowledge a full batch at once; else arm the timer, which remembers   *)
(* this sequence number, unless it is armed already.                       *)
ScheduleAck(s, n) ==
    IF n - clientAck[s] >= AckBatch THEN Ack(s, n)
    ELSE /\ ackTimer' = [ackTimer EXCEPT ![s] = IF @ = 0 THEN n ELSE @]
         /\ UNCHANGED <<clientAck, acks>>

(* The event callback says "applied" of every status or avatar event, even *)
(* of one the store already has: its sequence number is saved regardless.  *)
ProfileEvent(e) == ~e.chat /\ e.audience = NoActor

ReceiveEvent(s) ==
    LET k == conn[s]
        n == Least(wire[k])
    IN
    /\ k # NoConn /\ wire[k] # {}
    /\ wire' = [wire EXCEPT ![k] = @ \ {n}]
    /\ IF n > storeSeq[s]
       THEN /\ storeSeq' = [storeSeq EXCEPT ![s] = n]
            /\ covered' = [covered EXCEPT ![s] = @ \cup {n}]
       ELSE UNCHANGED <<storeSeq, covered>>
    /\ checkpoint' = [checkpoint EXCEPT ![s] =
           IF n > storeSeq[s] \/ ProfileEvent(events[n]) THEN n ELSE @]
    /\ ScheduleAck(s, n)
    /\ UNCHANGED <<logVars, hubVars, dispatcherVars, sessionVars, conn, resyncs,
                   abandoned, unloaded, faults>>

AckTimer(s) ==
    /\ ackTimer[s] # 0
    /\ Ack(s, ackTimer[s])
    /\ UNCHANGED <<logVars, hubVars, dispatcherVars, sessionVars, wire, conn,
                   checkpoint, storeSeq, resyncs, covered, abandoned, unloaded, faults>>

(* resync_required: the store is emptied at the new watermark, then the    *)
(* snapshot loads while the socket closes and a new one may connect.       *)
ReceiveResync(s) ==
    LET k == conn[s] IN
    /\ k # NoConn /\ resyncTo[k] # 0 /\ wire[k] = {}
    /\ storeSeq' = [storeSeq EXCEPT ![s] = resyncTo[k]]
    /\ resyncs' = [resyncs EXCEPT ![s] = @ \cup {resyncTo[k]}]
    /\ resyncTo' = [resyncTo EXCEPT ![k] = 0]
    /\ UNCHANGED <<logVars, hubVars, dispatcherVars, cpc, owner,
                   backlogHigh, delivered, lastAck, pending, netVars, conn, checkpoint,
                   ackTimer, clientAck, covered, abandoned, unloaded, faults>>

(* The socket is gone for the client; a closed one is gone altogether.     *)
LetGo(s) ==
    LET k == conn[s] IN
    /\ conn' = [conn EXCEPT ![s] = NoConn]
    /\ IF k = NoConn THEN UNCHANGED <<cpc, owner, resyncTo, wire>>
       ELSE /\ owner' = [owner EXCEPT ![k] = IF cpc[k] = "closed" THEN NoSession ELSE @]
            /\ cpc' = [cpc EXCEPT ![k] = IF @ = "closed" THEN "free" ELSE @]
            /\ wire' = [wire EXCEPT ![k] = {}]
            /\ resyncTo' = [resyncTo EXCEPT ![k] = 0]

(* The resync callback returned: the watermark of its frame is saved and   *)
(* the current socket, whichever it is, closed.                            *)
SaveWatermark(s, n) ==
    /\ n \in resyncs[s]
    /\ resyncs' = [resyncs EXCEPT ![s] = @ \ {n}]
    /\ checkpoint' = [checkpoint EXCEPT ![s] = n]
    /\ LetGo(s)
    /\ UNCHANGED <<logVars, hubVars, dispatcherVars,
                   backlogHigh, delivered, lastAck, pending, acks, storeSeq, ackTimer,
                   clientAck>>

(* The snapshot is loaded.                                                 *)
ResyncDone(s, n) ==
    /\ SaveWatermark(s, n)
    /\ covered' = [covered EXCEPT ![s] = @ \cup 1..n]
    /\ UNCHANGED <<abandoned, unloaded, faults>>

(* The chats or the counters fail to load.  reload() catches the error and *)
(* shows it, the callback returns all the same, and the watermark is saved *)
(* over the store that resetDurable has emptied.                           *)
ResyncUnloaded(s, n) ==
    /\ SaveWatermark(s, n) /\ Fault
    /\ abandoned' = [abandoned EXCEPT ![s] = Larger(@, n)]
    /\ unloaded' = [unloaded EXCEPT ![s] = Larger(@, n)]
    /\ UNCHANGED covered

(* The messages of the open chat fail to load: the callback throws, and    *)
(* nothing is saved and no socket closed.                                  *)
ResyncFailed(s, n) ==
    /\ n \in resyncs[s] /\ Fault
    /\ resyncs' = [resyncs EXCEPT ![s] = @ \ {n}]
    /\ abandoned' = [abandoned EXCEPT ![s] = Larger(@, n)]
    /\ UNCHANGED <<logVars, hubVars, dispatcherVars, sessionVars, netVars, conn,
                   checkpoint, storeSeq, ackTimer, clientAck, covered, unloaded>>

(* The close frame arrives after everything the server had written.        *)
SeeClose(s) ==
    /\ conn[s] # NoConn /\ cpc[conn[s]] = "closed"
    /\ wire[conn[s]] = {} /\ resyncTo[conn[s]] = 0
    /\ LetGo(s)
    /\ UNCHANGED <<logVars, hubVars, dispatcherVars,
                   backlogHigh, delivered, lastAck, pending, acks, checkpoint, storeSeq,
                   resyncs, ackTimer, clientAck, covered, abandoned, unloaded, faults>>

(* The network breaks the socket; the server has not noticed yet.          *)
LoseSocket(s) ==
    /\ conn[s] # NoConn /\ Fault
    /\ LetGo(s)
    /\ UNCHANGED <<logVars, hubVars, dispatcherVars,
                   backlogHigh, delivered, lastAck, pending, acks, checkpoint, storeSeq,
                   resyncs, ackTimer, clientAck, covered, abandoned, unloaded>>

(* The page is reloaded: only the persisted checkpoint survives.           *)
Reload(s) ==
    /\ Fault /\ LetGo(s)
    /\ storeSeq' = [storeSeq EXCEPT ![s] = 0]
    /\ resyncs' = [resyncs EXCEPT ![s] = {}]
    /\ abandoned' = [abandoned EXCEPT ![s] = IF resyncs[s] = {} THEN @
                                             ELSE Larger(@, Greatest(resyncs[s]))]
    /\ ackTimer' = [ackTimer EXCEPT ![s] = 0]
    /\ clientAck' = [clientAck EXCEPT ![s] = 0]
    /\ UNCHANGED <<logVars, hubVars, dispatcherVars,
                   backlogHigh, delivered, lastAck, pending, acks, checkpoint, covered,
                   unloaded>>

-----------------------------------------------------------------------------
Dispatch == PollStart \/ PollCurrent \/ PollRead \/ PollFail \/ PollPublish

Serve(k) ==
    \/ ReadCurrent(k) \/ Register(k) \/ RegisterRefused(k)
    \/ BoundsResync(k) \/ BoundsAccept(k)
    \/ ReplayBatch(k) \/ LiveFrame(k) \/ AckFrame(k)
    \/ InvalidAck(k) \/ AckTimeout(k) \/ SlowConsumer(k)
    \/ PeerGone(k) \/ ServerClose(k)

Client(s) ==
    \/ \E k \in Conns : Connect(s, k)
    \/ ReceiveEvent(s) \/ AckTimer(s) \/ ReceiveResync(s)
    \/ \E n \in resyncs[s] :
          ResyncDone(s, n) \/ ResyncUnloaded(s, n) \/ ResyncFailed(s, n)
    \/ SeeClose(s) \/ LoseSocket(s) \/ Reload(s)

Next ==
    \/ LogCommit \/ LogPrune
    \/ Dispatch
    \/ \E k \in Conns : Serve(k)
    \/ \E s \in Sessions : Client(s)

Spec == Init /\ [][Next]_vars

(***************************************************************************)
(* Fairness: the dispatcher polls at least every EVENT_POLL_INTERVAL, the  *)
(* goroutines of a session and the tickers they select on keep running,    *)
(* the browser runs its callbacks and timers, and a coordinator that is    *)
(* not stopped reconnects.  Nothing is assumed of commits, pruning, faults. *)
(***************************************************************************)
Fairness ==
    /\ WF_vars(PollStart \/ PollCurrent \/ PollRead \/ PollPublish)
    /\ \A k \in Conns :
        /\ WF_vars(ReadCurrent(k) \/ Register(k) \/ RegisterRefused(k)
                   \/ BoundsResync(k) \/ BoundsAccept(k))
        /\ WF_vars(ReplayBatch(k)) /\ WF_vars(LiveFrame(k))
        /\ WF_vars(AckFrame(k) \/ InvalidAck(k)) /\ WF_vars(AckTimeout(k))
        /\ WF_vars(SlowConsumer(k)) /\ WF_vars(PeerGone(k))
    /\ \A s \in Sessions :
        /\ WF_vars(\E k \in Conns : Connect(s, k))
        /\ WF_vars(ReceiveEvent(s)) /\ WF_vars(AckTimer(s))
        /\ WF_vars(ReceiveResync(s)) /\ WF_vars(SeeClose(s))
        /\ WF_vars(\E n \in resyncs[s] : ResyncDone(s, n))

FairSpec == Spec /\ Fairness

-----------------------------------------------------------------------------
Due(s, n) == n \in retained /\ s \in entitled[n]

(* A resync has emptied the store past n; its snapshot is still loading,   *)
(* or it never loaded.                                                     *)
Excused(s, n) == (\E r \in resyncs[s] : n <= r) \/ n <= abandoned[s]

Accounted(s, n) == n \in covered[s] \/ Excused(s, n)

(* A client's checkpoint never passes an event that is in the log and that *)
(* it is entitled to, unless the event was applied, or a resync emptied    *)
(* the store past it and has yet to load its snapshot, or failed to.       *)
NoSilentSkip ==
    \A s \in Sessions, n \in retained :
        n <= checkpoint[s] /\ Due(s, n) => Accounted(s, n)

(* The same without the excuse, which is how the protocol document defines *)
(* a checkpoint: the contiguous sequence the client has applied and saved. *)
CheckpointContiguous ==
    \A s \in Sessions, n \in retained :
        n <= checkpoint[s] /\ Due(s, n) => n \in covered[s]

(* No frame reaches a session that the row excludes (an actor's own change *)
(* does not echo to the session that made it) or an actor it is not        *)
(* addressed to, whoever held the connection or the subscription before.   *)
OnlyAddressed ==
    \A k \in Conns : \A n \in wire[k] \cup live[k] :
        /\ events[n].exclude # owner[k]
        /\ events[n].audience \in {NoActor, ActorOf[owner[k]]}

(* What PublishLive queues comes after everything in the queue.            *)
EnqueueInOrder ==
    [][\A k \in Conns : \A n \in live'[k] \ live[k], o \in live[k] : o < n]_vars

-----------------------------------------------------------------------------
(***************************************************************************)
(* The inductive invariant behind NoSilentSkip.                            *)
(***************************************************************************)
Attached(k) == cpc[k] # "free" /\ conn[owner[k]] = k

(* Sockets, subscriptions and queues belong together.                      *)
Wiring ==
    /\ \A s \in Sessions : conn[s] \in Conns =>
           owner[conn[s]] = s /\ cpc[conn[s]] # "free"
    /\ \A k \in Conns :
        /\ cpc[k] # "free" => owner[k] \in Sessions
        /\ k \in subs <=> cpc[k] \in {"bounds", "open"}
        /\ ~Attached(k) => wire[k] = {}
        /\ cpc[k] \in {"current", "register", "bounds"} => wire[k] = {}
        /\ cpc[k] # "closed" => \A n \in wire[k] : n <= delivered[k]
        /\ k \notin subs => live[k] = {} /\ ~cancelled[k]

(* No watermark is ahead of the log.                                       *)
NotAhead ==
    /\ watermark <= eventSeq /\ dFrom <= eventSeq /\ dCurrent <= eventSeq
    /\ \A k \in Conns : /\ latest[k] <= eventSeq /\ backlogHigh[k] <= eventSeq
                        /\ delivered[k] <= eventSeq
    /\ \A s \in Sessions : checkpoint[s] <= eventSeq /\ storeSeq[s] <= eventSeq

(* Whoever is still entitled to an event passes the filter of the reads.   *)
EntitledReads == \A n \in 1..eventSeq : entitled[n] \subseteq Readers(events[n], members)

(* The in-memory store accounts for everything up to its own checkpoint.   *)
StoreAccounted ==
    \A s \in Sessions, n \in retained :
        n <= storeSeq[s] /\ Due(s, n) => Accounted(s, n)

(* Whatever the server counts as delivered is applied or on the wire, and  *)
(* the wire has no gap.                                                    *)
DeliveredArrives ==
    \A k \in Conns, n \in retained :
        /\ Attached(k) /\ cpc[k] # "closed" /\ n <= delivered[k] /\ Due(owner[k], n)
        => Accounted(owner[k], n) \/ n \in wire[k]

WireClosed ==
    \A k \in Conns : \A x \in wire[k], n \in retained :
        Attached(k) /\ n < x /\ Due(owner[k], n)
        => Accounted(owner[k], n) \/ n \in wire[k]

(* What the dispatcher has passed, a live subscription has seen or will    *)
(* replay.                                                                 *)
Behind(k, n) == n <= latest[k] \/ n <= backlogHigh[k]

HubBehind ==
    \A k \in Conns : cpc[k] = "open" /\ ~cancelled[k] =>
        /\ Behind(k, watermark)
        /\ dpc # "idle" => Behind(k, dFrom)

(* The live queue holds every event past the backlog, up to a cut when the *)
(* subscription overflowed.                                                *)
PastBacklog(k, n) == n > backlogHigh[k] /\ n > delivered[k] /\ Due(owner[k], n)

QueueComplete ==
    \A k \in Conns, n \in retained :
        cpc[k] = "open" /\ PastBacklog(k, n) =>
            /\ ~cancelled[k] /\ n <= latest[k] => n \in live[k]
            /\ \A x \in live[k] : n < x => n \in live[k]

(* The batch under way has every event between dFrom and its last one, and *)
(* names at least the sessions that are entitled.                          *)
BatchComplete ==
    /\ dpc # "publish" => dFrames = <<>>
    /\ dpc \in {"read", "publish"} => dFrom < dCurrent
    /\ \A n \in DOMAIN dFrames : dFrom < n /\ n <= dCurrent /\ entitled[n] \subseteq dFrames[n]
    /\ dpc = "publish" => \A n \in retained :
           dFrom < n /\ n <= Through => n \in DOMAIN dFrames

(* A batch names no session that one of its rows is not addressed to, and  *)
(* a queue holds nothing its subscription has not been advanced past.      *)
BatchAddressed ==
    \A n \in DOMAIN dFrames : \A s \in dFrames[n] :
        events[n].exclude # s /\ events[n].audience \in {NoActor, ActorOf[s]}

LiveSeen == \A k \in Conns : \A n \in live[k] : n <= latest[k]

DeliveryInv ==
    /\ TypeOK /\ Wiring /\ NotAhead /\ EntitledReads
    /\ NoSilentSkip /\ StoreAccounted /\ DeliveredArrives /\ WireClosed
    /\ HubBehind /\ QueueComplete /\ BatchComplete
    /\ OnlyAddressed /\ BatchAddressed /\ LiveSeen

-----------------------------------------------------------------------------
(* What a resync emptied out of the store of s and no snapshot restored.   *)
AwaitedBy(s) == UNION {1..r : r \in resyncs[s] \cup {abandoned[s]}}

Stream == INSTANCE EventStream WITH
    last <- eventSeq, rows <- retained, due <- entitled,
    to <- [n \in 1..eventSeq |-> Readers(events[n], Actors)],
    saved <- checkpoint, known <- covered,
    awaited <- [s \in Sessions |-> AwaitedBy(s)]

(* From the commit to the checkpoint, delivery implements EventStream: to  *)
(* a device dispatcher, hub, replay, live queue and sockets are a cursor   *)
(* over the log, which moves over an event only when nothing before it is  *)
(* missing, whatever is lost, replayed, overflows or is pruned meanwhile.  *)
StreamKept == Stream!Spec

-----------------------------------------------------------------------------
Owed(s, n) == n \in retained /\ s \in entitled[n] /\ n \notin covered[s]

(* Every event reaches, through a stream or a snapshot, every session that *)
(* stays entitled to it, whatever sockets and requests are lost on the     *)
(* way, but for one case: the events under a watermark that was saved      *)
(* although its snapshot did not load are neither replayed nor asked for   *)
(* again.  A resync whose callback threw is no excuse: it is repeated.     *)
EventuallyDelivered ==
    \A s \in Sessions, n \in 1..MaxSeq :
        Owed(s, n) ~> (~Owed(s, n) \/ n <= unloaded[s])

(* An applied event is acknowledged, in a batch or by the timer.           *)
AppliedIsAcked ==
    \A s \in Sessions, n \in 1..MaxSeq :
        checkpoint[s] = n ~> clientAck[s] >= n \/ checkpoint[s] # n

=============================================================================

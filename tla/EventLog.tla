------------------------------ MODULE EventLog ------------------------------
(***************************************************************************)
(* The durable event log of one organization: the rows of `events`, the    *)
(* counter organizations.event_seq, and the membership that the reads      *)
(* join against.  Every command takes the organization row lock before it  *)
(* allocates a sequence number and keeps it until its commit, so the part  *)
(* of a transaction that this module sees is one atomic step.              *)
(*                                                                         *)
(* One chat stands for all of them: two chats differ for a reader only in  *)
(* who their members are.  `members` are the actors the SQL joins let      *)
(* through (active actors with a row in chat_members, chat not archived).  *)
(***************************************************************************)
EXTENDS Integers, FiniteSets

CONSTANTS
    Actors,      \* actors of the organization
    Sessions,    \* login sessions, one device each
    ActorOf,     \* the actor a session belongs to
    NoActor,     \* audience_actor_id IS NULL
    NoSession,   \* exclude_session_id IS NULL
    MinCount,    \* EVENT_RETENTION_MIN_COUNT
    MaxSeq,      \* bound on event_seq
    Commands     \* bound: the commands that are issued

ASSUME SessionAssumption == ActorOf \in [Sessions -> Actors]
ASSUME NullAssumption == NoActor \notin Actors /\ NoSession \notin Sessions
ASSUME CountAssumption == MinCount \in Nat \ {0} /\ MaxSeq \in Nat

VARIABLES
    eventSeq,    \* organizations.event_seq
    events,      \* routing columns of every event ever appended
    retained,    \* the sequence numbers whose rows still exist
    members,     \* who may read the chat now
    entitled     \* history: the sessions entitled to an event since its commit

logVars == <<eventSeq, events, retained, members, entitled>>

Event == [chat : BOOLEAN, audience : Actors \cup {NoActor},
          exclude : Sessions \cup {NoSession}]

(***************************************************************************)
(* The WHERE clause of Replay: audience, excluded session, membership.     *)
(***************************************************************************)
VisibleTo(e, s, m) ==
    /\ e.audience \in {NoActor, ActorOf[s]}
    /\ e.exclude # s
    /\ e.chat => ActorOf[s] \in m

Readers(e, m) == {s \in Sessions : VisibleTo(e, s, m)}

(***************************************************************************)
(* The kinds of rows that the commands insert.                             *)
(***************************************************************************)
ChatEvent == [chat |-> TRUE, audience |-> NoActor, exclude |-> NoSession]
OrgEvent == [chat |-> FALSE, audience |-> NoActor, exclude |-> NoSession]
AddressedEvent(a) == [chat |-> FALSE, audience |-> a, exclude |-> NoSession]
FollowEvent(a) == [chat |-> TRUE, audience |-> a, exclude |-> NoSession]
ActorEvent(s) == [chat |-> TRUE, audience |-> ActorOf[s], exclude |-> s]

TypeOKLog ==
    /\ eventSeq \in Nat
    /\ events \in [1..eventSeq -> Event]
    /\ retained \subseteq 1..eventSeq
    /\ members \subseteq Actors
    /\ entitled \in [1..eventSeq -> SUBSET Sessions]

InitLog ==
    /\ eventSeq = 0
    /\ events = <<>>
    /\ retained = {}
    /\ members = Actors
    /\ entitled = <<>>

(***************************************************************************)
(* Append(new, m): a transaction that appends the rows `new` and leaves    *)
(* the chat with the members m.  Whoever leaves is no longer entitled to   *)
(* the chat's older events.                                                *)
(***************************************************************************)
StillEntitled(i, m) == {s \in entitled[i] : VisibleTo(events[i], s, m)}

Append1(e, m) ==
    LET n == eventSeq + 1 IN
    /\ n <= MaxSeq
    /\ eventSeq' = n
    /\ events' = [i \in 1..n |-> IF i = n THEN e ELSE events[i]]
    /\ retained' = retained \cup {n}
    /\ members' = m
    /\ entitled' = [i \in 1..n |-> IF i = n THEN Readers(e, m)
                                            ELSE StillEntitled(i, m)]

Append2(e, f, m) ==
    LET n == eventSeq + 2 IN
    /\ n <= MaxSeq
    /\ eventSeq' = n
    /\ events' = [i \in 1..n |-> IF i = n THEN f
                                 ELSE IF i = n - 1 THEN e ELSE events[i]]
    /\ retained' = retained \cup {n - 1, n}
    /\ members' = m
    /\ entitled' = [i \in 1..n |-> IF i = n THEN Readers(f, m)
                                   ELSE IF i = n - 1 THEN Readers(e, m)
                                   ELSE StillEntitled(i, m)]

(* A message, reaction or pin command of a member.                         *)
CommitMessage ==
    /\ "message" \in Commands /\ members # {}
    /\ Append1(ChatEvent, members)

(* Create with auto-follow: message.created, then thread.followed addressed *)
(* to the follower, in one transaction.                                    *)
CommitReply(a) ==
    /\ "reply" \in Commands /\ a \in members
    /\ Append2(ChatEvent, FollowEvent(a), members)

(* A read marker or draft of session s; its own session is excluded.       *)
CommitActorState(s) ==
    /\ "state" \in Commands /\ ActorOf[s] \in members
    /\ Append1(ActorEvent(s), members)

(* Profile and status changes are addressed to the whole organization.     *)
CommitStatus == "status" \in Commands /\ Append1(OrgEvent, members)

Join(a) ==
    /\ "join" \in Commands /\ a \notin members
    /\ Append1(ChatEvent, members \cup {a})

(* RemoveMember appends one event for the chat and one for the removed     *)
(* actor, who no longer sees the first.                                    *)
RemoveMember(a) ==
    /\ "remove" \in Commands /\ a \in members
    /\ Append2(ChatEvent, AddressedEvent(a), members \ {a})

Commit ==
    \/ CommitMessage
    \/ \E a \in Actors : CommitReply(a) \/ Join(a) \/ RemoveMember(a)
    \/ \E s \in Sessions : CommitActorState(s)
    \/ CommitStatus

(***************************************************************************)
(* One DELETE of the retention worker.  The age test (occurred_at is the   *)
(* start time of the transaction, so not monotone in seq) lets any subset  *)
(* of the rows below the count floor go.                                   *)
(***************************************************************************)
Prunable == {n \in retained : n <= eventSeq - MinCount}

Prune(S) ==
    /\ S # {} /\ S \subseteq Prunable
    /\ retained' = retained \ S
    /\ UNCHANGED <<eventSeq, events, members, entitled>>

(***************************************************************************)
(* The reads.  Each is one SQL statement, hence one snapshot.              *)
(***************************************************************************)
Least(S) == CHOOSE n \in S : \A o \in S : n <= o

MinRetained == IF retained = {} THEN eventSeq ELSE Least(retained) - 1

Below(S, n) == Cardinality({o \in S : o < n})

(* The first `limit` members of S in ascending order: ORDER BY seq LIMIT.  *)
FirstSeqs(S, limit) == {n \in S : Below(S, n) < limit}

ReplayRows(s, after, through) ==
    {n \in retained : n > after /\ n <= through
                      /\ VisibleTo(events[n], s, members)}

LiveRows(after, through) == {n \in retained : n > after /\ n <= through}

=============================================================================

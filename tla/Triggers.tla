------------------------------ MODULE Triggers ------------------------------
(***************************************************************************)
(* Agent triggers (agenttrigger/service.go): each replica goes round the   *)
(* enabled agents and turns the events of the log into runs, and due       *)
(* schedules too.  An agent has one cursor in the log, which one           *)
(* transaction at a time holds.  The runs post messages and react to those *)
(* of others, which are events again.                                      *)
(*                                                                         *)
(* One chat.  A slot is what a trigger is for (a command, a mention, a     *)
(* keyword, every message, an event); each agent has one trigger for it at *)
(* a time.  What matches is data: an event is for some agents, as long as  *)
(* its message is not edited or deleted.  Time is counted in occurrences   *)
(* of the schedule.                                                        *)
(***************************************************************************)
EXTENDS Integers, Sequences

CONSTANTS
    Bots,         \* agents of one shard
    Slots,
    HearsAgents,  \* the slots whose triggers include agents' messages
    DepthLimit,   \* max_chain_depth
    SkipsMissed,  \* agents whose missed_runs_policy is "skip"
    Dispatchers,  \* replicas
    Person,       \* the author of what no agent posted
    BatchSize,    \* LIMIT 100
    MaxChanges,   \* bound: changes by administrators and deaths of replicas
    MaxTurns      \* bound: these, events and occurrences of the schedule together

ASSUME TriggersAssumption ==
    /\ Person \notin Bots /\ HearsAgents \subseteq Slots /\ "schedule" \notin Slots
    /\ DepthLimit \in [Bots -> Nat] /\ BatchSize \in Nat \ {0}
    /\ MaxChanges \in Nat /\ MaxTurns \in Nat

AllSlots == Slots \cup {"schedule"}
Bodies == (SUBSET Bots) \ {{}}

VARIABLES
    feed,       \* the events
    joined, active, connected,  \* membership, enabled, an enabled connection
    stored,     \* agent_triggers, as <<bot, slot, number>>
    live,       \* slots whose trigger is neither deleted nor superseded
    armed,      \* those whose trigger is enabled
    made,       \* triggers made for a slot so far: a live one is the last
    nextAt,     \* of the schedule: next_run_at
    clock,
    cursor,     \* agent_checkpoints.last_event_seq
    round,      \* where a replica is in its round
    runs,       \* agent_runs
    owed,       \* history: <<bot, slot, seq>> that await a run
    changes

setupVars == <<joined, active, connected, stored, live, armed, made, nextAt>>
triggerVars == <<feed, setupVars, clock, cursor, round, runs, owed, changes>>

(* What a replica has read in its round: a cursor, triggers, the time.     *)
InRound(step, b, from, loaded, now) ==
    [step |-> step, bot |-> b, from |-> from, loaded |-> loaded, now |-> now]
AtRest == InRound("idle", Person, 0, {}, 0)

(* The depth of an event is the chain_depth of its message, -1 for null.   *)
(* History: the runs of agents, each the answer to the one before, that    *)
(* lead to it, and whether one of them has reacted only.                   *)
Event(author, kind, for, depth, links, reacted) ==
    [author |-> author, kind |-> kind, for |-> for, depth |-> depth, links |-> links,
     reacted |-> reacted]
Run(b, s, id, cause, depth, links, reacted) ==
    [bot |-> b, slot |-> s, trigger |-> id, cause |-> cause, depth |-> depth,
     links |-> links, reacted |-> reacted]

TriggersInit ==
    /\ feed = <<>>
    /\ joined = Bots /\ active = Bots /\ connected = Bots
    /\ live \in {[b \in Bots |-> AllSlots], [b \in Bots |-> {}]} /\ armed = live
    /\ made = [b \in Bots |-> [s \in AllSlots |-> IF s \in live[b] THEN 1 ELSE 0]]
    /\ stored = {t \in Bots \X AllSlots \X {1} : t[2] \in live[t[1]]}
    /\ nextAt = [b \in Bots |-> 1] /\ clock = 0
    /\ cursor = [b \in Bots |-> 0]
    /\ round = [d \in Dispatchers |-> AtRest]
    /\ runs = {} /\ owed = {} /\ changes = 0

Turn == Len(feed) + clock + changes < MaxTurns
Change == Turn /\ changes < MaxChanges /\ changes' = changes + 1
Toggled(S, e) == IF e \in S THEN S \ {e} ELSE S \cup {e}

-----------------------------------------------------------------------------
(* A person's message has no provenance.                                   *)
PersonPosts(for) ==
    /\ Turn
    /\ feed' = Append(feed, Event(Person, "message", for, -1, 0, FALSE))
    /\ UNCHANGED <<setupVars, clock, cursor, round, runs, changes>>

(* CreateForAgentRun: the message and the depth of its run are committed   *)
(* together.                                                               *)
CreateForAgentRun(r, for) ==
    /\ r.bot \in joined /\ Turn
    /\ feed' = Append(feed, Event(r.bot, "message", for, r.depth, r.links + 1, r.reacted))
    /\ UNCHANGED <<setupVars, clock, cursor, round, runs, changes>>

(* PutReaction, DeleteReaction: the subject of the event is the message,   *)
(* and the provenance that is joined to it is the message's.               *)
PutReaction(r, n, for) ==
    /\ r.bot \in joined /\ Turn /\ feed[n].kind = "message"
    /\ feed' = Append(feed, Event(r.bot, "reaction", for, feed[n].depth, r.links + 1, TRUE))
    /\ UNCHANGED <<setupVars, clock, cursor, round, runs, changes>>

PersonReacts(n, for) ==
    /\ Turn /\ feed[n].kind = "message"
    /\ feed' = Append(feed, Event(Person, "reaction", for, feed[n].depth, 0, FALSE))
    /\ UNCHANGED <<setupVars, clock, cursor, round, runs, changes>>

(* Update, by the author of a message; agents have no such tool.  The body *)
(* and the mentions of the message are those of its first event, too,      *)
(* which may be for others now.                                            *)
EditMessage(n, changed, for) ==
    /\ Turn /\ feed[n].kind = "message" /\ feed[n].author = Person
    /\ feed' = Append([feed EXCEPT ![n].for = changed],
                      Event(Person, "change", for, feed[n].depth, 0, FALSE))
    /\ UNCHANGED <<setupVars, clock, cursor, round, runs, changes>>

(* Delete, by the author or a moderator: the body is gone.                 *)
DeleteMessage(n, changed, for) ==
    /\ Turn /\ feed[n].kind = "message"
    /\ feed' = Append([feed EXCEPT ![n].for = changed, ![n].kind = "deleted"],
                      Event(Person, "change", for, feed[n].depth, 0, FALSE))
    /\ UNCHANGED <<setupVars, clock, cursor, round, runs, changes>>

-----------------------------------------------------------------------------
ToggleMember(b) ==
    /\ Change /\ joined' = Toggled(joined, b)
    /\ UNCHANGED <<feed, active, connected, stored, live, armed, made, nextAt, clock,
                   cursor, round, runs>>

PauseOrResume(b) ==
    /\ Change
    /\ b \in active \/ (b \in joined /\ b \in connected)
    /\ active' = Toggled(active, b)
    /\ UNCHANGED <<feed, joined, connected, stored, live, armed, made, nextAt, clock,
                   cursor, round, runs>>

ToggleConnection(b) ==
    /\ Change /\ connected' = Toggled(connected, b)
    /\ UNCHANGED <<feed, joined, active, stored, live, armed, made, nextAt, clock,
                   cursor, round, runs>>

(* nextSchedule(now), of a time that was read before the transaction: the  *)
(* occurrence it gives may have come meanwhile.                            *)
ScheduledFrom(b, s, now) ==
    IF s = "schedule"
    THEN nextAt' = [nextAt EXCEPT ![b] = now + 1]
    ELSE nextAt' = nextAt

Recent == {n \in {clock - 1, clock} : n >= 0}

CreateTrigger(b, s, now) ==
    /\ Change /\ s \notin live[b] /\ now \in Recent
    /\ s = "schedule" => b \in joined
    /\ stored' = stored \cup {<<b, s, made[b][s] + 1>>}
    /\ live' = [live EXCEPT ![b] = @ \cup {s}]
    /\ armed' = [armed EXCEPT ![b] = @ \cup {s}]
    /\ made' = [made EXCEPT ![b][s] = @ + 1]
    /\ ScheduledFrom(b, s, now)
    /\ UNCHANGED <<feed, joined, active, connected, clock, cursor, round, runs>>

(* What an update leaves alone it has read before its transaction, too:    *)
(* another update may have enabled or disabled the trigger meanwhile.      *)
UpdateTrigger(b, s, now, enabled) ==
    /\ Change /\ s \in live[b] /\ now \in Recent
    /\ s = "schedule" => b \in joined
    /\ armed' = [armed EXCEPT ![b] = IF enabled THEN @ \cup {s} ELSE @ \ {s}]
    /\ ScheduledFrom(b, s, now)
    /\ UNCHANGED <<feed, joined, active, connected, stored, live, made, clock, cursor,
                   round, runs>>

(* A trigger that runs refer to is not deleted.                            *)
RunsOf(b, s, id) == {r \in runs : r.bot = b /\ r.slot = s /\ r.trigger = id}

DeleteTrigger(b, s, id) ==
    /\ Change /\ <<b, s, id>> \in stored /\ RunsOf(b, s, id) = {}
    /\ stored' = stored \ {<<b, s, id>>}
    /\ IF s \in live[b] /\ id = made[b][s]
       THEN /\ live' = [live EXCEPT ![b] = @ \ {s}]
            /\ armed' = [armed EXCEPT ![b] = @ \ {s}]
       ELSE UNCHANGED <<live, armed>>
    /\ UNCHANGED <<feed, joined, active, connected, made, nextAt, clock, cursor, round, runs>>

(* All triggers are replaced by those of the recipe, the agent is paused.  *)
ResetRecipe(b) ==
    /\ Change /\ b \in joined
    /\ stored' = stored \cup {<<b, s, made[b][s] + 1>> : s \in AllSlots}
    /\ live' = [live EXCEPT ![b] = AllSlots] /\ armed' = [armed EXCEPT ![b] = AllSlots]
    /\ made' = [made EXCEPT ![b] = [s \in AllSlots |-> @[s] + 1]]
    /\ nextAt' = [nextAt EXCEPT ![b] = clock + 1]
    /\ active' = active \ {b}
    /\ UNCHANGED <<feed, joined, connected, clock, cursor, round, runs>>

Tick ==
    /\ Turn /\ clock' = clock + 1
    /\ UNCHANGED <<feed, setupVars, cursor, round, runs, changes>>

-----------------------------------------------------------------------------
(* DispatchEvents lists the enabled agents of the shard, and takes them one*)
(* after the other.                                                        *)
ListAgent(d, b) ==
    /\ round[d].step = "idle" /\ b \in active
    /\ round' = [round EXCEPT ![d] = InRound("listed", b, 0, {}, 0)]
    /\ UNCHANGED <<feed, setupVars, clock, cursor, runs, changes>>

NotLocked(b) == {}
Holder(b) == {d \in Dispatchers : round[d].step = "read" /\ round[d].bot = b}

(* dispatchAgent takes the cursor for update, then loads the triggers.     *)
TakeCursor(d) ==
    LET b == round[d].bot
        loaded == {<<s, made[b][s]>> : s \in armed[b] \cap Slots} IN
    /\ round[d].step = "listed" /\ Holder(b) = {}
    /\ round' = [round EXCEPT ![d] = InRound("read", b, cursor[b], loaded, 0)]
    /\ UNCHANGED <<feed, setupVars, clock, cursor, runs, changes>>

(* The next events after the cursor that the agent can see now.            *)
BatchEnd(d) ==
    IF round[d].bot \notin joined THEN round[d].from
    ELSE IF round[d].from + BatchSize <= Len(feed) THEN round[d].from + BatchSize ELSE Len(feed)
Batch(d) == round[d].from + 1 .. BatchEnd(d)

(* matches, with the message as it is now, and who wrote it.               *)
HearsOneDeeper(b, s, e) ==
    /\ b \in e.for /\ e.author # b
    /\ e.author = Person \/ s \in HearsAgents
    /\ e.depth <= DepthLimit[b]
Hears(b, s, e) ==
    /\ b \in e.for /\ e.author # b
    /\ e.author = Person \/ s \in HearsAgents
    /\ e.depth + 1 <= DepthLimit[b]

(* The runs for the loaded triggers, each of which is a slot and a number. *)
Answers(d, b) ==
    {Run(b, p[1][1], p[1][2], <<"event", p[2]>>, feed[p[2]].depth + 1, feed[p[2]].links,
         feed[p[2]].reacted) :
        p \in {q \in round[d].loaded \X Batch(d) : Hears(b, q[1][1], feed[q[2]])}}

(* A run that refers to a trigger deleted since fails the transaction.     *)
Deleted(r) == <<r.bot, r.slot, r.trigger>> \notin stored

(* Only an agent with a connection gets runs; its cursor moves on anyway.  *)
(* What is posted or edited between the query of the events and the commit *)
(* changes neither: it is as if it came after the commit.                  *)
NewRuns(d, b) == IF b \in connected THEN Answers(d, b) ELSE {}

Rest(d) == round' = [round EXCEPT ![d] = AtRest]

DispatchedToTheEnd(d) ==
    LET b == round[d].bot  new == NewRuns(d, b) IN
    /\ round[d].step = "read" /\ ~\E r \in new : Deleted(r)
    /\ runs' = runs \cup new
    /\ cursor' = [cursor EXCEPT ![b] = IF BatchEnd(d) = @ THEN @ ELSE Len(feed)]
    /\ Rest(d)
    /\ UNCHANGED <<feed, setupVars, clock, changes>>
DispatchAgent(d) ==
    LET b == round[d].bot  new == NewRuns(d, b) IN
    /\ round[d].step = "read" /\ ~\E r \in new : Deleted(r)
    /\ runs' = runs \cup new
    /\ cursor' = [cursor EXCEPT ![b] = BatchEnd(d)]
    /\ Rest(d)
    /\ UNCHANGED <<feed, setupVars, clock, changes>>

FailsWithoutRollback(d) ==
    /\ round[d].step = "read" /\ \E r \in NewRuns(d, round[d].bot) : Deleted(r)
    /\ UNCHANGED <<feed, setupVars, clock, cursor, round, runs, changes>>
DispatchFails(d) ==
    /\ round[d].step = "read" /\ \E r \in NewRuns(d, round[d].bot) : Deleted(r)
    /\ Rest(d)
    /\ UNCHANGED <<feed, setupVars, clock, cursor, runs, changes>>

(* DispatchSchedules reads the time, then what is due by then.             *)
ScheduleDue(b, now) == "schedule" \in armed[b] /\ nextAt[b] <= now

ListDue(d, b) ==
    /\ round[d].step = "idle" /\ ScheduleDue(b, clock)
    /\ LET due == {<<"schedule", made[b]["schedule"]>>} IN
       round' = [round EXCEPT ![d] = InRound("due", b, 0, due, clock)]
    /\ UNCHANGED <<feed, setupVars, clock, cursor, runs, changes>>

StillDue(d) ==
    LET b == round[d].bot IN
    ScheduleDue(b, round[d].now) /\ <<"schedule", made[b]["schedule"]>> \in round[d].loaded

(* "skip" runs only what is two minutes late at most.                      *)
ShouldRun(d, b, prompt) == b \notin SkipsMissed \/ (prompt /\ nextAt[b] = round[d].now)

DispatchSchedule(d, prompt) ==
    LET b == round[d].bot
        run == Run(b, "schedule", made[b]["schedule"], <<"time", nextAt[b]>>, 0, 0, FALSE)
        new == IF b \in active \cap joined \cap connected /\ ShouldRun(d, b, prompt)
               THEN {run} ELSE {} IN
    /\ round[d].step = "due" /\ StillDue(d)
    /\ runs' = runs \cup new
    /\ nextAt' = [nextAt EXCEPT ![b] = round[d].now + 1]
    /\ Rest(d)
    /\ UNCHANGED <<feed, joined, active, connected, stored, live, armed, made, clock,
                   cursor, changes>>

(* Another replica was first, or the trigger was changed.                  *)
NotDueAnyMore(d) ==
    /\ round[d].step = "due" /\ ~StillDue(d)
    /\ Rest(d)
    /\ UNCHANGED <<feed, setupVars, clock, cursor, runs, changes>>

(* A replica dies, and with it what it has not committed.                  *)
DispatcherDies(d) ==
    /\ Change /\ round[d].step # "idle"
    /\ Rest(d)
    /\ UNCHANGED <<feed, setupVars, clock, cursor, runs>>

-----------------------------------------------------------------------------
(* A trigger listens while it is enabled, its agent a member with a        *)
(* connection, and no replica has loaded the triggers without it.          *)
Listening(b, s) ==
    /\ b \in joined /\ b \in connected /\ s \in armed[b]
    /\ \A d \in Holder(b) : \E p \in round[d].loaded : p[1] = s

HasRun(b, s, n) == \E r \in runs : r.bot = b /\ r.slot = s /\ r.cause = <<"event", n>>

(* What is heard when it is posted is owed a run as long as it is heard    *)
(* still and the trigger listens.  An edit or a deletion ends it for good; *)
(* what an edit makes heard is owed nothing, as the cursor may have passed.*)
Heard == {p \in Bots \X Slots \X DOMAIN feed : Hears(p[1], p[2], feed[p[3]])}

Remember ==
    owed' = {p \in Heard' : /\ p \in owed \/ p[3] \notin DOMAIN feed
                            /\ Listening(p[1], p[2])' /\ ~HasRun(p[1], p[2], p[3])'}

Talk ==
    \E for \in Bodies :
        \/ PersonPosts(for)
        \/ \E n \in DOMAIN feed : PersonReacts(n, for)
        \/ \E r \in runs :
              /\ r.bot \notin for
              /\ CreateForAgentRun(r, for) \/ \E n \in DOMAIN feed : PutReaction(r, n, for)

(* An event trigger takes all changes of messages, or none.                *)
Revise ==
    \E n \in DOMAIN feed, changed \in SUBSET Bots, for \in {{}, Bots} :
        EditMessage(n, changed, for) \/ DeleteMessage(n, changed, for)

Administer ==
    \E b \in Bots :
        \/ ToggleMember(b) \/ PauseOrResume(b) \/ ToggleConnection(b) \/ ResetRecipe(b)
        \/ \E s \in AllSlots, now \in 0..clock :
              \/ CreateTrigger(b, s, now)
              \/ \E enabled \in BOOLEAN : UpdateTrigger(b, s, now, enabled)
        \/ \E s \in AllSlots, id \in 1..(MaxChanges + 1) : DeleteTrigger(b, s, id)

DispatchEvents(d) ==
    \/ \E b \in Bots : ListAgent(d, b)
    \/ TakeCursor(d) \/ DispatchAgent(d) \/ DispatchFails(d)

DispatchSchedules(d) ==
    \/ \E b \in Bots : ListDue(d, b)
    \/ \E prompt \in BOOLEAN : DispatchSchedule(d, prompt)
    \/ NotDueAnyMore(d)

TriggersStep ==
    \/ Talk \/ Revise \/ Administer \/ Tick
    \/ \E d \in Dispatchers : DispatchEvents(d) \/ DispatchSchedules(d) \/ DispatcherDies(d)

TriggersNext == TriggersStep /\ Remember

TriggersSpec == TriggersInit /\ [][TriggersNext]_triggerVars

(* A replica's rounds go on, and in its rounds every enabled agent has its *)
(* turn.                                                                   *)
TriggersFairness ==
    \A d \in Dispatchers :
        /\ WF_round(DispatchEvents(d) \/ DispatchSchedules(d))
        /\ \A b \in Bots : SF_round(ListAgent(d, b))

TriggersLiveSpec == TriggersSpec /\ TriggersFairness

-----------------------------------------------------------------------------
EventSet ==
    [author : Bots \cup {Person}, kind : {"message", "reaction", "change", "deleted"},
     for : SUBSET Bots, depth : Nat \cup {-1}, links : Nat, reacted : BOOLEAN]
RunSet ==
    [bot : Bots, slot : AllSlots, trigger : Nat, cause : {"event", "time"} \X Nat,
     depth : Nat, links : Nat, reacted : BOOLEAN]

TriggersTypeOK ==
    /\ feed \in Seq(EventSet)
    /\ joined \subseteq Bots /\ active \subseteq Bots /\ connected \subseteq Bots
    /\ live \in [Bots -> SUBSET AllSlots] /\ armed \in [Bots -> SUBSET AllSlots]
    /\ \A b \in Bots : armed[b] \subseteq live[b]
    /\ made \in [Bots -> [AllSlots -> Nat]] /\ stored \subseteq Bots \X AllSlots \X Nat
    /\ nextAt \in [Bots -> Nat] /\ clock \in Nat /\ cursor \in [Bots -> Nat]
    /\ round \in [Dispatchers ->
                    [step : {"idle", "listed", "read", "due"},
                     bot : Bots \cup {Person}, from : Nat, loaded : SUBSET (AllSlots \X Nat),
                     now : Nat]]
    /\ \A d \in Dispatchers : round[d].step # "idle" => round[d].bot \in Bots
    /\ runs \subseteq RunSet
    /\ owed \subseteq Bots \X Slots \X Nat /\ changes \in 0..MaxChanges

(* An event starts at most one run of an agent for a slot.                 *)
AnsweredOnce ==
    \A r, q \in runs :
        r.bot = q.bot /\ r.slot = q.slot /\ r.slot # "schedule" /\ r.cause = q.cause => r = q

(* A chain of messages that answer one another ends.                       *)
LoopBounded == \A r \in runs : r.links <= DepthLimit[r.bot] \/ r.reacted

(* Any chain ends.                                                         *)
ChainBounded == \A r \in runs : r.links <= DepthLimit[r.bot]

(* The cursor passes no event that a trigger heard when it was posted and  *)
(* hears still, and that has no run, while the trigger listens.            *)
NothingPassed == \A p \in owed : cursor[p[1]] < p[3]

(* All that is owed gets its run, unless the agent is disabled, the trigger*)
(* stops listening, or the message is edited or deleted.                   *)
AnyOwed(b) == \E p \in owed : p[1] = b

OwedIsRun == \A b \in Bots : AnyOwed(b) ~> (~AnyOwed(b) \/ b \notin active)
=============================================================================

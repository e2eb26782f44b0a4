---------------------------- MODULE ChatMembers ----------------------------
(***************************************************************************)
(* Membership and ownership of group chats and channels: the commands of   *)
(* chat.Service, the publication and deletion of agents, and the           *)
(* activation of accounts, each a transaction of the database.             *)
(*                                                                         *)
(* A chat command reads what it needs to refuse early, takes the lock on   *)
(* the organization, runs one guarded statement, records an audit row and  *)
(* an event, and commits.  The other two kinds do not take that lock.  At  *)
(* the end of each of them deferred constraint triggers assert that the    *)
(* chats it touched keep an active owner.                                  *)
(*                                                                         *)
(* The database: a transaction sees what is committed and its own writes   *)
(* (READ COMMITTED); the activation of accounts is SERIALIZABLE and sees   *)
(* what was committed when it began.  A request keeps the rows it wrote    *)
(* and the accounts its foreign keys refer to locked up to its end.        *)
(***************************************************************************)
EXTENDS FiniteSets

CONSTANTS
    Users, Agents, Chats,
    Moderators,   \* users with the permission chats.moderate
    OrgOwners,    \* owners of the organization
    Requests,
    Grants, Visibilities,   \* bounds: the roles and visibilities asked for
    Nobody, NoChat

ASSUME MembersAssumption ==
    /\ Moderators \subseteq Users /\ OrgOwners \subseteq Moderators
    /\ Users \cap Agents = {} /\ Nobody \notin Users \cup Agents
    /\ NoChat \notin Chats /\ Nobody \notin Requests
    /\ Grants \subseteq {"owner", "admin", "member"}
    /\ Visibilities \subseteq {"public", "private"}

VARIABLES
    chatState,   \* a row of chats: none, open, archived
    public,      \* chats whose visibility is public
    role,        \* chat_members: chat -> actor -> role, "none" without a row
    account,     \* actors.status and deleted_at
    orgLock,     \* holder of the row lock on the organization
    request,     \* what a request does and how far it has come
    since        \* request -> what others committed since its constraint check

membersVars == <<chatState, public, role, account, orgLock, request, since>>

Actors == Users \cup Agents
Roles == {"owner", "admin", "member"}
Managers == {"owner", "admin"}
MemberCommands == {"add", "change", "remove", "join"}
Commands == MemberCommands \cup {"create", "update", "archive"}
AgentOps == {"hire", "publish", "delete"}
Steps == {"idle", "target", "owners", "ready", "locked", "written", "recorded", "checked"}

(* `actor` is the target; `newRole` what it gets, "none" when it leaves;   *)
(* `actors`, `chats` the lists in the body of create, hire and publish;    *)
(* `state` the new visibility or account state.                            *)
Request == [step : Steps, op : Commands \cup AgentOps \cup {"none", "status"},
            user : Users \cup {Nobody}, chat : Chats \cup {NoChat},
            actor : Actors \cup {Nobody}, newRole : Roles \cup {"none"},
            held : Roles \cup {"none"}, actors : SUBSET Actors, chats : SUBSET Chats,
            state : {"none", "active", "deactivated", "public", "private"}]
Idle == [step |-> "idle", op |-> "none", user |-> Nobody, chat |-> NoChat,
         actor |-> Nobody, newRole |-> "none", held |-> "none", actors |-> {},
         chats |-> {}, state |-> "none"]

MembersTypeOK ==
    /\ chatState \in [Chats -> {"none", "open", "archived"}]
    /\ public \subseteq Chats
    /\ role \in [Chats -> [Actors -> Roles \cup {"none"}]]
    /\ account \in [Actors -> {"absent", "active", "deactivated", "deleted"}]
    /\ orgLock \in Requests \cup {Nobody}
    /\ request \in [Requests -> Request]
    /\ since \in [Requests -> SUBSET {"command", "free", "crossed"}]

MembersInit ==
    /\ chatState = [c \in Chats |-> "none"] /\ public = {}
    /\ role = [c \in Chats |-> [a \in Actors |-> "none"]]
    /\ account = [a \in Actors |-> IF a \in Users THEN "active" ELSE "absent"]
    /\ orgLock = Nobody /\ request = [p \in Requests |-> Idle]
    /\ since = [p \in Requests |-> {}]

-----------------------------------------------------------------------------
(* What the transaction of request r makes of the tables.                  *)
RolesAfter(r) ==
    CASE r.op \in MemberCommands ->
           [role EXCEPT ![r.chat][r.actor] = r.newRole]
      [] r.op = "create" ->
           [role EXCEPT ![r.chat] = [a \in Actors |->
               IF a = r.user THEN "owner" ELSE IF a \in r.actors THEN "member" ELSE "none"]]
      [] r.op \in {"hire", "publish"} ->
           [c \in Chats |-> [role[c] EXCEPT ![r.actor] =
               IF c \in r.chats THEN "member" ELSE "none"]]
      [] r.op = "delete" ->
           [c \in Chats |-> [role[c] EXCEPT ![r.actor] = IF c \in r.chats THEN "none" ELSE @]]
      [] OTHER -> role

ChatStateAfter(r) ==
    CASE r.op = "create" -> [chatState EXCEPT ![r.chat] = "open"]
      [] r.op = "archive" -> [chatState EXCEPT ![r.chat] = "archived"]
      [] OTHER -> chatState

PublicAfter(r) ==
    IF r.op \notin {"create", "update"} THEN public
    ELSE IF r.state = "public" THEN public \cup {r.chat} ELSE public \ {r.chat}

AccountAfter(r) ==
    CASE r.op = "status" -> [account EXCEPT ![r.actor] = r.state]
      [] r.op = "hire" -> [account EXCEPT ![r.actor] = "active"]
      [] r.op = "delete" -> [account EXCEPT ![r.actor] = "deleted"]
      [] OTHER -> account

ActiveOwners(roles, accounts, c) ==
    {a \in Actors : roles[c][a] = "owner" /\ accounts[a] = "active"}
HasOwner(states, roles, accounts, c) ==
    states[c] = "open" => ActiveOwners(roles, accounts, c) # {}

(* The chats whose rows, or whose members' rows, r writes, and those that  *)
(* a change of an account concerns.                                        *)
RowsTouched(r) ==
    CASE r.op \in Commands -> {r.chat}
      [] r.op \in {"hire", "publish"} -> {c \in Chats : c \in r.chats \/ role[c][r.actor] # "none"}
      [] r.op = "delete" -> r.chats
      [] OTHER -> {}
Touched(r) ==
    CASE r.op \in Commands -> {r.chat}
      [] r.op \in {"hire", "publish"} -> {c \in Chats : c \in r.chats \/ role[c][r.actor] # "none"}
      [] r.op = "delete" -> {c \in Chats : c \in r.chats \/ role[c][r.actor] = "owner"}
      [] r.op = "status" -> {c \in Chats : role[c][r.actor] = "owner"}
      [] OTHER -> {}
ConstraintsHold(r) ==
    \A c \in Touched(r) : HasOwner(ChatStateAfter(r), RolesAfter(r), AccountAfter(r), c)

-----------------------------------------------------------------------------
(* Locks other than the one on the organization.                           *)
Writing == {"written", "recorded", "checked"}
Rows(r) ==
    CASE r.op \in MemberCommands -> {<<r.chat, r.actor>>}
      [] r.op \in {"hire", "publish"} -> Touched(r) \X {r.actor}
      [] r.op = "delete" -> r.chats \X {r.actor}
      [] OTHER -> {}
RowsHeld(r) == IF r.step \in Writing THEN Rows(r) ELSE {}
MemberOf(a) == {c \in Chats : role[c][a] # "none"}

(* FOR UPDATE, an update, and the share that a foreign key takes.          *)
Exclusive(r) == IF r.op = "status" \/ r.op = "publish" THEN {r.actor} ELSE {}
Updated(r) == IF r.op = "delete" /\ r.step \in {"recorded", "checked"} THEN {r.actor} ELSE {}
Referenced(r) ==
    CASE r.op = "create" -> {r.user} \cup r.actors
      [] r.op \in {"add", "remove", "join"} -> {r.user, r.actor}
      [] r.op \in {"change", "update", "archive"} -> {r.user}
      [] OTHER -> {}
Shared(r) == IF r.step \in {"recorded", "checked"} THEN Referenced(r) ELSE {}

(* What the guarded statement has to lock, and what the records after it.  *)
RowsWanted(r) == IF r.op = "delete" THEN MemberOf(r.actor) \X {r.actor} ELSE Rows(r)
AccountsWanted(r) == IF r.op = "delete" THEN {r.actor} ELSE Referenced(r)

Others(p) == {request[q] : q \in Requests \ {p}}
RowsFree(p, rows) == \A r \in Others(p) : RowsHeld(r) \cap rows = {}
NotExclusive(p, accounts) == \A r \in Others(p) : Exclusive(r) \cap accounts = {}
Free(p, accounts) ==
    /\ NotExclusive(p, accounts)
    /\ \A r \in Others(p) : (Updated(r) \cup Shared(r)) \cap accounts = {}

-----------------------------------------------------------------------------
(* The beginning of a request.  One that is refused by what it reads       *)
(* changes nothing and is left out.                                        *)
Begin(p, r) ==
    /\ request' = [request EXCEPT ![p] = r]
    /\ UNCHANGED <<chatState, public, role, account, orgLock, since>>

Authenticated(u) == account[u] = "active"
CanManage(u, c) == u \in Moderators \/ role[c][u] \in Managers

Asked(step, op, u, c, a, new, actors, v) ==
    [step |-> step, op |-> op, user |-> u, chat |-> c, actor |-> a, newRole |-> new,
     held |-> IF step = "target" THEN role[c][u] ELSE "none",
     actors |-> actors, chats |-> {}, state |-> v]
Administered(step, op, a, chats, s) ==
    [step |-> step, op |-> op, user |-> Nobody, chat |-> NoChat, actor |-> a,
     newRole |-> "none", held |-> "none", actors |-> {}, chats |-> chats, state |-> s]

AskCreate(p) == request[p] = Idle /\
  \E u \in Users, c \in Chats, actors \in SUBSET Actors, v \in Visibilities :
    /\ Authenticated(u) /\ chatState[c] = "none" /\ u \notin actors
    /\ \A r \in Others(p) : ~(r.op = "create" /\ r.chat = c)
    /\ Begin(p, Asked("ready", "create", u, c, Nobody, "none", actors, v))

AskJoin(p) == request[p] = Idle /\ \E u \in Users, c \in Chats :
    /\ Authenticated(u) /\ chatState[c] # "none"
    /\ Begin(p, Asked("ready", "join", u, c, u, "member", {}, "none"))

AskUpdate(p) == request[p] = Idle /\ \E u \in Users, c \in Chats, v \in Visibilities :
    /\ Authenticated(u) /\ chatState[c] = "open" /\ role[c][u] \in Managers
    /\ Begin(p, Asked("ready", "update", u, c, Nobody, "none", {}, v))

AskArchive(p) == request[p] = Idle /\ \E u \in Users, c \in Chats :
    /\ Authenticated(u) /\ chatState[c] = "open" /\ CanManage(u, c)
    /\ Begin(p, Asked("ready", "archive", u, c, Nobody, "none", {}, "none"))

AskAdd(p) == request[p] = Idle /\ \E u \in Users, c \in Chats, a \in Actors, new \in Grants :
    /\ Authenticated(u) /\ chatState[c] = "open" /\ CanManage(u, c)
    /\ new = "owner" => role[c][u] = "owner"
    /\ Begin(p, Asked("ready", "add", u, c, a, new, {}, "none"))

AskChange(p) == request[p] = Idle /\ \E u \in Users, c \in Chats, a \in Actors, new \in Grants :
    /\ Authenticated(u) /\ chatState[c] = "open" /\ CanManage(u, c)
    /\ Begin(p, Asked("target", "change", u, c, a, new, {}, "none"))

AskRemove(p) == request[p] = Idle /\ \E u \in Users, c \in Chats, a \in Actors :
    /\ Authenticated(u) /\ chatState[c] = "open"
    /\ CanManage(u, c) \/ (a = u /\ role[c][u] # "none")
    /\ Begin(p, Asked("target", "remove", u, c, a, "none", {}, "none"))

(* The row of the agent is locked FOR UPDATE, by a publication that of the *)
(* actor too.  A new agent and its identifier are not visible to others.   *)
AgentFree(p, a) == \A r \in Others(p) : ~(r.op \in AgentOps /\ r.actor = a)
BeginAgent(p, op, a, chats) ==
    AgentFree(p, a) /\ Begin(p, Administered("locked", op, a, chats, "none"))

BeginHire(p) == request[p] = Idle /\ \E a \in Agents, chats \in SUBSET Chats :
    /\ account[a] = "absent"
    /\ \A c \in chats : chatState[c] = "open"
    /\ BeginAgent(p, "hire", a, chats)

BeginPublish(p) == request[p] = Idle /\ \E a \in Agents, chats \in SUBSET Chats \ {{}} :
    /\ account[a] \in {"active", "deactivated"} /\ Free(p, {a})
    /\ \A c \in chats : chatState[c] # "none"
    /\ BeginAgent(p, "publish", a, chats)

BeginDelete(p) == request[p] = Idle /\ \E a \in Agents :
    /\ account[a] \in {"active", "deactivated"}
    /\ BeginAgent(p, "delete", a, {})

(* The constraints are asserted of what was committed when it begins.      *)
BeginStatus(p) == request[p] = Idle /\ \E a \in Actors, s \in {"active", "deactivated"} :
    LET r == Administered("checked", "status", a, {}, s) IN
    /\ a \notin OrgOwners /\ account[a] \in {"active", "deactivated"} /\ s # account[a]
    /\ Free(p, {a}) /\ ConstraintsHold(r)
    /\ Begin(p, r)

-----------------------------------------------------------------------------
(* The steps of a request that has begun.                                  *)
Goto(p, step) ==
    /\ request' = [request EXCEPT ![p] =
         [request[p] EXCEPT !.step = step,
                            !.held = IF step = "ready" THEN "none" ELSE request[p].held]]
    /\ UNCHANGED <<chatState, public, role, account, orgLock, since>>
EndKeepsLock(p) == request' = [request EXCEPT ![p] = Idle] /\ UNCHANGED orgLock
End(p) ==
    /\ request' = [request EXCEPT ![p] = Idle]
    /\ orgLock' = IF orgLock = p THEN Nobody ELSE orgLock
Refuse(p) ==
    /\ End(p) /\ since' = [since EXCEPT ![p] = {}]
    /\ UNCHANGED <<chatState, public, role, account>>

TargetRefused(r) ==
    LET target == role[r.chat][r.actor] IN
    \/ target = "none"
    \/ r.op = "change" /\ "owner" \in {target, r.newRole} /\ r.held # "owner"
    \/ r.op = "remove" /\ target = "owner" /\ r.actor # r.user /\ r.held # "owner"

ReadTarget(p) == LET r == request[p] IN
    /\ r.step = "target"
    /\ IF TargetRefused(r) THEN Refuse(p)
       ELSE Goto(p, IF role[r.chat][r.actor] = "owner" /\ r.newRole # "owner"
                    THEN "owners" ELSE "ready")

OwnerCount(c) == Cardinality({a \in Actors : role[c][a] = "owner"})
CountOwners(p) ==
    /\ request[p].step = "owners"
    /\ IF OwnerCount(request[p].chat) = 1 \/ OwnerCount(request[p].chat) = 0
       THEN Refuse(p) ELSE Goto(p, "ready")

LockNotAwaited(p) ==
    /\ request[p].step = "ready"
    /\ orgLock' = p /\ request' = [request EXCEPT ![p].step = "locked"]
    /\ UNCHANGED <<chatState, public, role, account, since>>
LockOrganization(p) ==
    /\ request[p].step = "ready" /\ orgLock = Nobody
    /\ orgLock' = p /\ request' = [request EXCEPT ![p].step = "locked"]
    /\ UNCHANGED <<chatState, public, role, account, since>>

(* The guard that is part of the statement itself.                         *)
ManagesArchived(r) == role[r.chat][r.user] \in Managers
Manages(r) == chatState[r.chat] = "open" /\ role[r.chat][r.user] \in Managers
AboutOwner(r) == "owner" \in {role[r.chat][r.actor], r.newRole}
OwnersUnchecked(r) == TRUE
OwnersAct(r) == AboutOwner(r) => role[r.chat][r.user] = "owner"
Moderates(r) == r.user \in Moderators /\ ~AboutOwner(r)
Permitted(r) ==
    LET isMember == r.actor # Nobody /\ role[r.chat][r.actor] # "none"
    IN CASE r.op = "create" -> \A a \in r.actors : account[a] = "active"
         [] r.op = "join" -> chatState[r.chat] = "open" /\ r.chat \in public /\ ~isMember
         [] r.op = "update" -> Manages(r)
         [] r.op = "archive" ->
              chatState[r.chat] = "open" /\ (r.user \in Moderators \/ Manages(r))
         [] r.op = "add" ->
              /\ account[r.actor] = "active" /\ ~isMember
              /\ (Manages(r) /\ OwnersAct(r)) \/ Moderates(r)
         [] r.op = "change" -> isMember /\ ((Manages(r) /\ OwnersAct(r)) \/ Moderates(r))
         [] r.op = "remove" ->
              /\ isMember
              /\ \/ chatState[r.chat] = "open" /\ r.actor = r.user
                 \/ Manages(r) /\ OwnersAct(r)
                 \/ Moderates(r)
         [] OTHER -> TRUE

Write(p) == LET r == request[p] IN
    /\ r.step = "locked"
    /\ RowsFree(p, RowsWanted(r))
    /\ IF ~Permitted(r) THEN Refuse(p)
       ELSE /\ request' = [request EXCEPT ![p] = [r EXCEPT !.step = "written",
                    !.chats = IF r.op = "delete" THEN MemberOf(r.actor) ELSE @]]
            /\ UNCHANGED <<chatState, public, role, account, orgLock, since>>

(* The audit row, the event and, of a deletion, the tombstone.             *)
Record(p) == LET r == request[p] IN
    /\ r.step = "written"
    /\ NotExclusive(p, AccountsWanted(r))
    /\ Goto(p, "recorded")

(* Deferred constraints, at the commit.                                    *)
CheckConstraints(p) ==
    /\ request[p].step = "recorded"
    /\ IF ConstraintsHold(request[p]) THEN Goto(p, "checked") ELSE Refuse(p)

(* Two accounts that are each other's reason to be let go: the database    *)
(* aborts one of two SERIALIZABLE transactions that depend on each other.  *)
Crossed(r, other) ==
    /\ r.op = "status" /\ other.op = "status"
    /\ \E c \in Chats : /\ {r.actor, other.actor} \subseteq ActiveOwners(role, account, c)
                        /\ ActiveOwners(role, account, c) \subseteq {r.actor, other.actor}

Commit(p) == LET r == request[p] IN
    /\ r.step = "checked" /\ "crossed" \notin since[p]
    /\ chatState' = ChatStateAfter(r) /\ public' = PublicAfter(r)
    /\ role' = RolesAfter(r) /\ account' = AccountAfter(r)
    /\ since' = [q \in Requests |->
         IF q = p \/ request[q].step # "checked" THEN {}
         ELSE since[q] \cup {IF r.op \in Commands THEN "command" ELSE "free"}
                       \cup (IF Crossed(r, request[q]) THEN {"crossed"} ELSE {})]
    /\ End(p)

AbortSerializable(p) == "crossed" \in since[p] /\ Refuse(p)

(* A request that is cancelled, whose connection breaks or that fails.     *)
Cancel(p) == request[p] # Idle /\ Refuse(p)

(* A command that inserted the membership of an agent waits for the agent, *)
(* whose publication waits for the row: the database aborts one of them.   *)
Deadlocked(p, q) ==
    /\ request[p].op = "publish" /\ request[p].step = "locked"
    /\ request[q].step = "written" /\ request[p].actor \in Referenced(request[q])
    /\ Rows(request[p]) \cap RowsHeld(request[q]) # {}
InDeadlock(p) == \E q \in Requests : Deadlocked(p, q) \/ Deadlocked(q, p)
BreakDeadlock(p) == InDeadlock(p) /\ Refuse(p)

Advance(p) ==
    \/ ReadTarget(p) \/ CountOwners(p) \/ LockOrganization(p) \/ Write(p) \/ Record(p)
    \/ CheckConstraints(p) \/ Commit(p) \/ AbortSerializable(p) \/ BreakDeadlock(p)

MembersNext == \E p \in Requests :
    \/ AskCreate(p) \/ AskJoin(p) \/ AskUpdate(p) \/ AskArchive(p)
    \/ AskAdd(p) \/ AskChange(p) \/ AskRemove(p)
    \/ BeginHire(p) \/ BeginPublish(p) \/ BeginDelete(p) \/ BeginStatus(p)
    \/ Advance(p) \/ Cancel(p)

MembersSpec == MembersInit /\ [][MembersNext]_membersVars

-----------------------------------------------------------------------------
(* What decision 0005 says of the database's deferred constraints: a group *)
(* or channel that is not archived never loses its last active owner.      *)
OwnerKept == \A c \in Chats : HasOwner(chatState, role, account, c)

(* A chat loses its last active owner only to two transactions of which    *)
(* one committed between the other's assertion and its commit, and one of  *)
(* which did not take the lock on the organization: chat commands among    *)
(* themselves, and any single transaction, keep an owner.                  *)
OwnerLostByOverlap == [][
    \A c \in Chats :
        /\ HasOwner(chatState, role, account, c)
        /\ ~HasOwner(chatState', role', account', c)
        => \E p \in Requests :
             /\ request[p].step = "checked" /\ request'[p] = Idle
             /\ since[p] # {}
             /\ request[p].op \in Commands => "free" \in since[p]
    ]_membersVars

(* Nobody becomes or stops being an owner of a chat but by the act of an   *)
(* owner of that moment, by leaving, or as an agent that is published      *)
(* again or deleted: what the reads before the lock have seen may be stale.*)
OwnershipByOwners == [][
    \A c \in Chats, a \in Actors :
        chatState[c] # "none" /\ ((role[c][a] = "owner") # (role'[c][a] = "owner"))
        => \E p \in Requests : LET r == request[p] IN
             /\ r.step = "checked" /\ request'[p] = Idle
             /\ \/ r.op \in AgentOps /\ r.actor = a
                \/ r.op = "remove" /\ r.user = a
                \/ r.op \in Commands /\ role[c][r.user] = "owner"
    ]_membersVars

(* Commands that began before a chat was archived leave its members alone, *)
(* but for those of a moderator.                                           *)
ArchiveFreezes == [][
    \A c \in Chats :
        chatState[c] = "archived" /\ role'[c] # role[c]
        => \E p \in Requests : LET r == request[p] IN
             /\ r.step = "checked" /\ request'[p] = Idle
             /\ r.op \in AgentOps \/ (r.op \in Commands /\ r.user \in Moderators)
    ]_membersVars

(* Every commit is one change that the roles, the state and the visibility *)
(* of its moment permit, whatever the request had read before, and every   *)
(* other step changes no table: the guard in the statement, the locks on   *)
(* the organization, rows and accounts together make it so.                *)
Promised == INSTANCE Roster
RosterKept == Promised!Spec

-----------------------------------------------------------------------------
(* The inductive invariant: what the requests in progress keep while the   *)
(* others commit.                                                          *)
WellFormed(r) ==
    /\ r.op = "none" \/ r.step = "idle" => r = Idle
    /\ r.op \in Commands => r.user \in Users /\ r.chat \in Chats
    /\ r.op \in MemberCommands \cup {"status"} => r.actor \in Actors
    /\ r.op \in AgentOps => r.actor \in Agents /\ r.step \in Writing \cup {"locked"}
    /\ r.op = "status" => r.step = "checked" /\ r.state \in {"active", "deactivated"}
    /\ r.op = "join" => r.newRole = "member"
    /\ r.op = "remove" => r.newRole = "none"
    /\ r.op \in {"add", "change"} => r.newRole \in Roles

(* The holder of the organization's lock is the one command that writes.   *)
OrgLockHeld ==
    \A p \in Requests :
        request[p].op \in Commands /\ request[p].step \in Writing \cup {"locked"} => orgLock = p

(* Two requests do not create the same chat.                               *)
ChatsFresh ==
    \A p \in Requests : request[p].op = "create" =>
        /\ chatState[request[p].chat] = "none"
        /\ \A q \in Requests \ {p} :
              request[q].op = "create" => request[q].chat # request[p].chat

(* What the statement's guard has established stays true to the commit.    *)
Guarded(r) ==
    r.op \in MemberCommands \cup {"update", "archive"} /\ r.step \in Writing =>
        /\ chatState[r.chat] = "open" \/ (r.op \in MemberCommands /\ r.user \in Moderators)
        /\ r.op \in MemberCommands /\ AboutOwner(r)
           => role[r.chat][r.user] = "owner" \/ (r.op = "remove" /\ r.user = r.actor)
GuardKept == \A p \in Requests : Guarded(request[p])

(* An assertion that nobody's commit has come after still holds.           *)
AssertionKept ==
    \A p \in Requests : LET r == request[p] IN
        /\ r.step = "checked"
        /\ IF r.op \in Commands THEN "free" \notin since[p] ELSE since[p] = {}
        => ConstraintsHold(r)

RequestsInv ==
    /\ MembersTypeOK /\ \A p \in Requests : WellFormed(request[p])
    /\ OrgLockHeld /\ ChatsFresh /\ GuardKept /\ AssertionKept

(* Only a command past the lock holds it, an agent has one transaction of  *)
(* its own at a time, no row is written by two, and an account that is     *)
(* locked for update nobody else uses.                                     *)
LockHolder ==
    \A p \in Requests :
        orgLock = p => request[p].op \in Commands /\ request[p].step \in Writing \cup {"locked"}
OneAgentOp ==
    \A p, q \in Requests :
        request[p].op \in AgentOps /\ request[q].op \in AgentOps
            /\ request[p].actor = request[q].actor => p = q
RowsApart ==
    \A p, q \in Requests : p # q => RowsHeld(request[p]) \cap RowsHeld(request[q]) = {}
AccountsApart ==
    \A p, q \in Requests : p # q =>
        Exclusive(request[p])
            \cap (Exclusive(request[q]) \cup Updated(request[q]) \cup Shared(request[q])) = {}

(* The accounts are still those the requests have seen.                    *)
Present == {a \in Actors : account[a] # "absent"}
AccountSeen(r) ==
    /\ r.op = "hire" => account[r.actor] = "absent"
    /\ r.op \in {"publish", "delete", "status"} => account[r.actor] \in {"active", "deactivated"}
    /\ r.op = "status" => account[r.actor] # r.state /\ r.actor \notin OrgOwners
    /\ r.op = "join" => r.actor = r.user
    /\ r.op = "add" /\ r.step \in Writing => r.actor \in Present
    /\ r.op = "create" /\ r.step \in Writing => r.actors \subseteq Present
AccountsSeen ==
    /\ Users \subseteq Present
    /\ \A c \in Chats, a \in Actors : role[c][a] # "none" => a \in Present
    /\ \A p \in Requests : AccountSeen(request[p])

(* What a statement has seen of roles, state and visibility is so still.   *)
StillPermitted(r) ==
    LET isMember == role[r.chat][r.actor] # "none"
    IN CASE r.op = "join" -> chatState[r.chat] = "open" /\ r.chat \in public /\ ~isMember
         [] r.op = "update" -> Manages(r)
         [] r.op = "archive" ->
              chatState[r.chat] = "open" /\ (r.user \in Moderators \/ Manages(r))
         [] r.op = "add" -> ~isMember /\ ((Manages(r) /\ OwnersAct(r)) \/ Moderates(r))
         [] r.op = "change" -> isMember /\ ((Manages(r) /\ OwnersAct(r)) \/ Moderates(r))
         [] r.op = "remove" ->
              /\ isMember
              /\ \/ chatState[r.chat] = "open" /\ r.actor = r.user
                 \/ (Manages(r) /\ OwnersAct(r)) \/ Moderates(r)
         [] OTHER -> TRUE
PermitKept ==
    \A p \in Requests :
        request[p].op \in Commands /\ request[p].step \in Writing => StillPermitted(request[p])

LocksInv == LockHolder /\ OneAgentOp /\ RowsApart /\ AccountsApart /\ AccountsSeen
                       /\ PermitKept

MembersInv == RequestsInv /\ LocksInv

(* Whom a request waits for, and that it need not wait: the guards of what *)
(* is left to do of it.                                                    *)
Awaits(p, q) ==
    /\ p # q
    /\ \/ request[p].step = "ready" /\ orgLock = q
       \/ request[p].step = "locked" /\ RowsHeld(request[q]) \cap RowsWanted(request[p]) # {}
       \/ request[p].step = "written"
          /\ Exclusive(request[q]) \cap AccountsWanted(request[p]) # {}
CanGo(p) ==
    \/ request[p].step \in {"target", "owners", "recorded", "checked"}
    \/ request[p].step = "ready" /\ orgLock = Nobody
    \/ request[p].step = "locked" /\ RowsFree(p, RowsWanted(request[p]))
    \/ request[p].step = "written" /\ NotExclusive(p, AccountsWanted(request[p]))
    \/ InDeadlock(p)

(* Nobody waits in vain: whoever has to wait does so, over two others at   *)
(* most, for a request that can go on, if only because the database aborts *)
(* one of two that wait for each other.  Commands lock the organization,   *)
(* then rows, then accounts; a publication locks the account of its agent  *)
(* before the rows.                                                        *)
Movers == {p \in Requests : CanGo(p)}
WithWaiting(S) == S \cup {p \in Requests : \E q \in S : Awaits(p, q)}
WaitsEnd ==
    \A p \in Requests :
        request[p] # Idle => p \in WithWaiting(WithWaiting(WithWaiting(Movers)))
=============================================================================

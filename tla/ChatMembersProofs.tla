------------------------- MODULE ChatMembersProofs -------------------------
(***************************************************************************)
(* Proofs about ChatMembers, for any set of users, agents, chats and       *)
(* requests: MembersInv is inductive (first RequestsInv, then the locks),  *)
(* and from it follow the action properties, that every wait ends, and     *)
(* that the requests implement Roster.  A request goes on in one of seven  *)
(* ways (it begins, goes to its next step, takes the lock, writes, asserts *)
(* its constraints, commits or is refused), and each lemma below treats    *)
(* one of them.                                                            *)
(***************************************************************************)
EXTENDS ChatMembers, TLAPS

(* What a request can begin as: well formed, not yet writing a command,    *)
(* with a chat of its own if it creates one, and with its constraints      *)
(* asserted if it changes an account.                                      *)
CanBegin(p, r) ==
    /\ r \in Request /\ WellFormed(r)
    /\ r.op \in Commands => r.step \in {"ready", "target"}
    /\ r.step = "checked" => ConstraintsHold(r)
    /\ r.step \notin {"written", "recorded"}
    /\ r.op = "create" =>
         /\ chatState[r.chat] = "none"
         /\ \A q \in Requests \ {p} : request[q].op = "create" => request[q].chat # r.chat

(* The locks it begins with, and what it has seen of the account.          *)
BeginsFree(p, r) ==
    /\ r.op \in AgentOps =>
         \A q \in Requests \ {p} : ~(request[q].op \in AgentOps /\ request[q].actor = r.actor)
    /\ r.op \in {"publish", "status"} => Free(p, {r.actor})
    /\ r.op = "hire" => account[r.actor] = "absent"
    /\ r.op \in {"publish", "delete", "status"} => account[r.actor] \in {"active", "deactivated"}
    /\ r.op = "status" => account[r.actor] # r.state /\ r.actor \notin OrgOwners
    /\ r.op = "join" => r.actor = r.user
    /\ r.op \in AgentOps => r.step = "locked"

LEMMA AskedCanBegin ==
    ASSUME RequestsInv, NEW p \in Requests, NEW step \in {"target", "ready"},
           NEW op \in Commands, NEW u \in Users, NEW c \in Chats,
           NEW a \in Actors \cup {Nobody}, NEW new \in Roles \cup {"none"},
           NEW actors \in SUBSET Actors, NEW v \in {"none", "public", "private"},
           op \in MemberCommands => a \in Actors, op = "join" => new = "member" /\ a = u,
           op = "remove" => new = "none", op \in {"add", "change"} => new \in Roles,
           op = "create" =>
             /\ chatState[c] = "none"
             /\ \A q \in Requests \ {p} : request[q].op = "create" => request[q].chat # c
    PROVE  /\ CanBegin(p, Asked(step, op, u, c, a, new, actors, v))
           /\ BeginsFree(p, Asked(step, op, u, c, a, new, actors, v))
<1> DEFINE r == Asked(step, op, u, c, a, new, actors, v)
<1>1. role[c][u] \in Roles \cup {"none"}
  BY DEF RequestsInv, MembersTypeOK, Actors
<1>2. r \in Request
  BY <1>1 DEF Asked, Request, Steps
<1>3. /\ r.op = op /\ r.step = step /\ r.user = u /\ r.chat = c /\ r.actor = a
      /\ r.newRole = new
  BY DEF Asked
<1>4. op \notin AgentOps /\ op # "status" /\ op # "none"
  BY DEF Commands, MemberCommands, AgentOps
<1>5. WellFormed(r)
  BY <1>3, <1>4 DEF WellFormed
<1>6. BeginsFree(p, r)
  BY <1>3, <1>4 DEF BeginsFree, AgentOps
<1> QED BY <1>2, <1>3, <1>4, <1>5, <1>6 DEF CanBegin

LEMMA AdministeredCanBegin ==
    ASSUME RequestsInv, NEW p \in Requests, NEW step \in {"locked", "checked"},
           NEW op \in AgentOps \cup {"status"}, NEW a \in Actors, NEW chats \in SUBSET Chats,
           NEW s \in {"none", "active", "deactivated"},
           op \in AgentOps => a \in Agents /\ step = "locked",
           op = "status" => step = "checked" /\ s # "none",
           op = "status" => ConstraintsHold(Administered(step, op, a, chats, s)),
           op \in AgentOps => AgentFree(p, a), op \in {"publish", "status"} => Free(p, {a}),
           op = "hire" => account[a] = "absent",
           op # "hire" => account[a] \in {"active", "deactivated"} /\ account[a] # s,
           op = "status" => a \notin OrgOwners
    PROVE  /\ CanBegin(p, Administered(step, op, a, chats, s))
           /\ BeginsFree(p, Administered(step, op, a, chats, s))
<1> DEFINE r == Administered(step, op, a, chats, s)
<1>1. r \in Request
  BY DEF Administered, Request, Steps, Roles
<1>2. r.op = op /\ r.step = step /\ r.actor = a /\ r.state = s
  BY DEF Administered
<1>3. op \notin Commands /\ op # "none" /\ op # "create" /\ op # "join"
  BY DEF Commands, MemberCommands, AgentOps
<1>4. op \notin MemberCommands
  BY <1>3 DEF Commands
<1>5. WellFormed(r)
  BY <1>2, <1>3, <1>4 DEF WellFormed, AgentOps, Writing
<1>6. BeginsFree(p, r)
  <2>1. op \in AgentOps =>
          \A q \in Requests \ {p} : ~(request[q].op \in AgentOps /\ request[q].actor = a)
    BY DEF AgentFree, Others
  <2> QED BY <1>2, <1>3, <2>1 DEF BeginsFree, AgentOps
<1> QED BY <1>1, <1>2, <1>3, <1>5, <1>6 DEF CanBegin, AgentOps

LEMMA BeginForms ==
    ASSUME NEW p \in Requests, RequestsInv,
           \/ AskCreate(p) \/ AskJoin(p) \/ AskUpdate(p) \/ AskArchive(p)
           \/ AskAdd(p) \/ AskChange(p) \/ AskRemove(p)
           \/ BeginHire(p) \/ BeginPublish(p) \/ BeginDelete(p) \/ BeginStatus(p)
    PROVE  \E r : Begin(p, r) /\ CanBegin(p, r) /\ BeginsFree(p, r)
<1>0. /\ Users \subseteq Actors /\ Agents \subseteq Actors
      /\ Grants \subseteq Roles /\ "member" \in Roles
      /\ Visibilities \subseteq {"public", "private"}
  BY MembersAssumption DEF Actors, Roles
<1> USE DEF Commands, MemberCommands
<1>1. CASE AskCreate(p)
  <2>1. PICK u \in Users, c \in Chats, actors \in SUBSET Actors, v \in Visibilities :
          /\ chatState[c] = "none"
          /\ \A r \in Others(p) : ~(r.op = "create" /\ r.chat = c)
          /\ Begin(p, Asked("ready", "create", u, c, Nobody, "none", actors, v))
    BY <1>1 DEF AskCreate
  <2>2. \A q \in Requests \ {p} : request[q].op = "create" => request[q].chat # c
    BY <2>1 DEF Others
  <2> QED BY <2>1, <2>2, <1>0, AskedCanBegin
<1>2. CASE AskJoin(p)
  <2>1. PICK u \in Users, c \in Chats :
          Begin(p, Asked("ready", "join", u, c, u, "member", {}, "none"))
    BY <1>2, <1>0 DEF AskJoin
  <2> QED BY <2>1, <1>0, AskedCanBegin
<1>3. CASE AskUpdate(p)
  <2>1. PICK u \in Users, c \in Chats, v \in Visibilities :
          Begin(p, Asked("ready", "update", u, c, Nobody, "none", {}, v))
    BY <1>3, <1>0 DEF AskUpdate
  <2> QED BY <2>1, <1>0, AskedCanBegin
<1>4. CASE AskArchive(p)
  <2>1. PICK u \in Users, c \in Chats :
          Begin(p, Asked("ready", "archive", u, c, Nobody, "none", {}, "none"))
    BY <1>4, <1>0 DEF AskArchive
  <2> QED BY <2>1, <1>0, AskedCanBegin
<1>5. CASE AskAdd(p)
  <2>1. PICK u \in Users, c \in Chats, a \in Actors, new \in Grants :
          Begin(p, Asked("ready", "add", u, c, a, new, {}, "none"))
    BY <1>5, <1>0 DEF AskAdd
  <2> QED BY <2>1, <1>0, AskedCanBegin
<1>6. CASE AskChange(p)
  <2>1. PICK u \in Users, c \in Chats, a \in Actors, new \in Grants :
          Begin(p, Asked("target", "change", u, c, a, new, {}, "none"))
    BY <1>6, <1>0 DEF AskChange
  <2> QED BY <2>1, <1>0, AskedCanBegin
<1>7. CASE AskRemove(p)
  <2>1. PICK u \in Users, c \in Chats, a \in Actors :
          Begin(p, Asked("target", "remove", u, c, a, "none", {}, "none"))
    BY <1>7, <1>0 DEF AskRemove
  <2> QED BY <2>1, <1>0, AskedCanBegin
<1>8. CASE BeginHire(p)
  <2>1. PICK a \in Agents, chats \in SUBSET Chats :
          /\ Begin(p, Administered("locked", "hire", a, chats, "none"))
          /\ AgentFree(p, a) /\ account[a] = "absent"
    BY <1>8, <1>0 DEF BeginHire, BeginAgent
  <2> QED BY <2>1, <1>0, AdministeredCanBegin DEF AgentOps
<1>9. CASE BeginPublish(p)
  <2>1. PICK a \in Agents, chats \in SUBSET Chats :
          /\ Begin(p, Administered("locked", "publish", a, chats, "none"))
          /\ AgentFree(p, a) /\ Free(p, {a}) /\ account[a] \in {"active", "deactivated"}
    BY <1>9, <1>0 DEF BeginPublish, BeginAgent
  <2> QED BY <2>1, <1>0, AdministeredCanBegin DEF AgentOps
<1>10. CASE BeginDelete(p)
  <2>1. PICK a \in Agents :
          /\ Begin(p, Administered("locked", "delete", a, {}, "none"))
          /\ AgentFree(p, a) /\ account[a] \in {"active", "deactivated"}
    BY <1>10, <1>0 DEF BeginDelete, BeginAgent
  <2> QED BY <2>1, <1>0, AdministeredCanBegin DEF AgentOps
<1>11. CASE BeginStatus(p)
  <2>1. PICK a \in Actors, s \in {"active", "deactivated"} :
          /\ ConstraintsHold(Administered("checked", "status", a, {}, s))
          /\ account[a] \in {"active", "deactivated"} /\ s # account[a] /\ a \notin OrgOwners
          /\ Free(p, {a})
          /\ Begin(p, Administered("checked", "status", a, {}, s))
    BY <1>11 DEF BeginStatus
  <2> QED BY <2>1, AdministeredCanBegin DEF AgentOps
<1> QED BY <1>1, <1>2, <1>3, <1>4, <1>5, <1>6, <1>7, <1>8, <1>9, <1>10, <1>11

(* A step of request p that leaves the tables alone.                       *)
LEMMA LocalStep ==
    ASSUME NEW p \in Requests, NEW r, RequestsInv,
           UNCHANGED <<chatState, public, role, account>>,
           request' = [request EXCEPT ![p] = r], r \in Request, WellFormed(r),
           orgLock' \in Requests \cup {Nobody},
           \A q \in Requests \ {p} : orgLock = q => orgLock' = q,
           r.op \in Commands /\ r.step \in Writing \cup {"locked"} => orgLock' = p,
           since' \in [Requests -> SUBSET {"command", "free", "crossed"}],
           \A q \in Requests \ {p} : since'[q] = since[q],
           r.op = "create" =>
             /\ chatState[r.chat] = "none"
             /\ \A q \in Requests \ {p} : request[q].op = "create" => request[q].chat # r.chat,
           Guarded(r),
           /\ r.step = "checked"
           /\ IF r.op \in Commands THEN "free" \notin since'[p] ELSE since'[p] = {}
           => ConstraintsHold(r)
    PROVE  RequestsInv'
<1>1. MembersTypeOK'
  BY DEF RequestsInv, MembersTypeOK
<1>2. request'[p] = r /\ \A q \in Requests \ {p} : request'[q] = request[q]
  BY DEF RequestsInv, MembersTypeOK
<1>3. (\A q \in Requests : WellFormed(request[q]))'
  BY <1>2 DEF RequestsInv, WellFormed
<1>4. OrgLockHeld'
  BY <1>2 DEF RequestsInv, OrgLockHeld
<1>5. ChatsFresh'
  BY <1>2 DEF RequestsInv, ChatsFresh
<1>6. GuardKept'
  BY <1>2 DEF RequestsInv, GuardKept, Guarded, AboutOwner
<1>7. AssertionKept'
  <2> SUFFICES ASSUME NEW q \in Requests, request'[q].step = "checked",
                      IF request'[q].op \in Commands THEN "free" \notin since'[q]
                      ELSE since'[q] = {}
               PROVE  ConstraintsHold(request[q])'
    BY DEF AssertionKept
  <2>1. ConstraintsHold(request'[q])
    <3>1. CASE q = p
      BY <1>2, <3>1
    <3>2. CASE q # p
      BY <1>2, <3>2 DEF RequestsInv, AssertionKept
    <3> QED BY <3>1, <3>2
  <2>2. Touched(request[q])' = Touched(request'[q])
    BY DEF Touched
  <2>3. /\ ChatStateAfter(request[q])' = ChatStateAfter(request'[q])
        /\ RolesAfter(request[q])' = RolesAfter(request'[q])
        /\ AccountAfter(request[q])' = AccountAfter(request'[q])
    BY DEF ChatStateAfter, RolesAfter, AccountAfter
  <2> QED BY <2>1, <2>2, <2>3 DEF ConstraintsHold, HasOwner, ActiveOwners
<1> QED BY <1>1, <1>3, <1>4, <1>5, <1>6, <1>7 DEF RequestsInv

LEMMA BeginKeepsInv ==
    ASSUME NEW p \in Requests, NEW r, RequestsInv, Begin(p, r), CanBegin(p, r)
    PROVE  RequestsInv'
<1>1. Guarded(r)
  BY DEF CanBegin, Guarded, Commands, Writing
<1>2. /\ orgLock \in Requests \cup {Nobody}
      /\ since \in [Requests -> SUBSET {"command", "free", "crossed"}]
  BY DEF RequestsInv, MembersTypeOK
<1>3. r.op \in Commands => r.step \notin Writing \cup {"locked"}
  BY DEF CanBegin, Writing
<1> QED BY <1>1, <1>2, <1>3, LocalStep DEF Begin, CanBegin

LEMMA RefuseKeepsInv ==
    ASSUME NEW p \in Requests, RequestsInv, Refuse(p)
    PROVE  RequestsInv'
<1>1. Idle \in Request /\ WellFormed(Idle) /\ Guarded(Idle)
  BY DEF Idle, Request, WellFormed, Guarded, Steps, Commands, MemberCommands, AgentOps
<1>2. orgLock' \in Requests \cup {Nobody}
  BY DEF RequestsInv, MembersTypeOK, Refuse, End
<1>3. /\ since' \in [Requests -> SUBSET {"command", "free", "crossed"}]
      /\ \A q \in Requests \ {p} : since'[q] = since[q]
  BY DEF RequestsInv, MembersTypeOK, Refuse
<1>4. Idle.op \notin Commands /\ Idle.step # "checked"
  BY DEF Idle, Commands, MemberCommands
<1>5. Idle.op # "create"
  BY DEF Idle
<1> QED BY <1>1, <1>2, <1>3, <1>4, <1>5, LocalStep DEF Refuse, End

(* Reading, counting, recording and asserting.                             *)
LEMMA GotoKeepsInv ==
    ASSUME NEW p \in Requests, RequestsInv,
           \/ ReadTarget(p) \/ CountOwners(p) \/ Record(p) \/ CheckConstraints(p)
    PROVE  RequestsInv'
<1>1. CASE Refuse(p)
  BY <1>1, RefuseKeepsInv
<1>2. CASE ~Refuse(p)
  <2>1. PICK step \in Steps :
          /\ Goto(p, step) /\ step \notin {"idle", "target", "locked"}
          /\ step \in {"owners", "ready"} => request[p].step \in {"target", "owners"}
          /\ step \in Writing => request[p].step \in Writing
          /\ step = "checked" => ConstraintsHold(request[p])
          /\ request[p].step # "checked"
    BY <1>2 DEF ReadTarget, CountOwners, Record, CheckConstraints, Steps, Writing
  <2> DEFINE held == IF step = "ready" THEN "none" ELSE request[p].held
             r == [request[p] EXCEPT !.step = step, !.held = held]
  <2>2. request[p] \in Request /\ WellFormed(request[p])
    BY DEF RequestsInv, MembersTypeOK
  <2>3. /\ r \in Request /\ r.step = step /\ r.op = request[p].op
        /\ r.user = request[p].user /\ r.chat = request[p].chat /\ r.actor = request[p].actor
        /\ r.newRole = request[p].newRole /\ r.chats = request[p].chats
        /\ r.actors = request[p].actors /\ r.state = request[p].state
    BY <2>2 DEF Request
  <2>4. request' = [request EXCEPT ![p] = r]
    BY <2>1 DEF Goto
  <2>5. WellFormed(r)
    <3>1. step \in {"owners", "ready"} \/ step \in Writing
      BY <2>1 DEF Steps, Writing
    <3>2. request[p].op # "none" /\ request[p].op # "status"
      BY <2>1, <2>2, <3>1 DEF WellFormed, Idle, Writing
    <3>3. r.op \in AgentOps => step \in Writing
      BY <2>1, <2>2, <2>3, <3>1 DEF WellFormed, Writing
    <3> HIDE DEF r
    <3>4. r.step # "idle"
      BY <2>1, <2>3
    <3> QED BY <2>2, <2>3, <3>2, <3>3, <3>4 DEF WellFormed
  <2>6. Guarded(r)
    BY <2>1, <2>3 DEF Guarded, RequestsInv, GuardKept, AboutOwner, Writing
  <2>7. r.step = "checked" => ConstraintsHold(r)
    <3>1. /\ Touched(r) = Touched(request[p])
          /\ ChatStateAfter(r) = ChatStateAfter(request[p])
          /\ RolesAfter(r) = RolesAfter(request[p])
          /\ AccountAfter(r) = AccountAfter(request[p])
      BY <2>3 DEF Touched, ChatStateAfter, RolesAfter, AccountAfter
    <3> QED BY <2>1, <2>3, <3>1 DEF ConstraintsHold
  <2>8. r.op \in Commands /\ r.step \in Writing \cup {"locked"} => orgLock = p
    BY <2>1, <2>3 DEF RequestsInv, OrgLockHeld
  <2>9. r.op = "create" =>
          /\ chatState[r.chat] = "none"
          /\ \A q \in Requests \ {p} : request[q].op = "create" => request[q].chat # r.chat
    BY <2>3 DEF RequestsInv, ChatsFresh
  <2>10. /\ orgLock \in Requests \cup {Nobody}
         /\ since \in [Requests -> SUBSET {"command", "free", "crossed"}]
    BY DEF RequestsInv, MembersTypeOK
  <2> HIDE DEF r
  <2> QED BY <2>1, <2>3, <2>4, <2>5, <2>6, <2>7, <2>8, <2>9, <2>10, LocalStep DEF Goto
<1> QED BY <1>1, <1>2

LEMMA LockKeepsInv ==
    ASSUME NEW p \in Requests, RequestsInv, LockOrganization(p)
    PROVE  RequestsInv'
<1> DEFINE r == [request[p] EXCEPT !.step = "locked"]
<1>1. request[p] \in Request /\ WellFormed(request[p]) /\ request[p].step = "ready"
  BY DEF RequestsInv, MembersTypeOK, LockOrganization
<1>2. /\ r \in Request /\ r.step = "locked" /\ r.op = request[p].op
      /\ r.user = request[p].user /\ r.chat = request[p].chat /\ r.actor = request[p].actor
  BY <1>1 DEF Request, Steps
<1>3. request' = [request EXCEPT ![p] = r]
  BY DEF LockOrganization
<1>4. WellFormed(r)
  BY <1>1, <1>2 DEF WellFormed, Writing, Idle
<1>5. Guarded(r)
  BY <1>2 DEF Guarded, Writing
<1>6. r.op = "create" =>
        /\ chatState[r.chat] = "none"
        /\ \A q \in Requests \ {p} : request[q].op = "create" => request[q].chat # r.chat
  BY <1>2 DEF RequestsInv, ChatsFresh
<1>7. since \in [Requests -> SUBSET {"command", "free", "crossed"}]
  BY DEF RequestsInv, MembersTypeOK
<1>8. \A q \in Requests : orgLock # q
  BY MembersAssumption DEF LockOrganization
<1> HIDE DEF r
<1> QED BY <1>2, <1>3, <1>4, <1>5, <1>6, <1>7, <1>8, LocalStep DEF LockOrganization

LEMMA WriteKeepsInv ==
    ASSUME NEW p \in Requests, RequestsInv, Write(p)
    PROVE  RequestsInv'
<1>1. CASE Refuse(p)
  BY <1>1, RefuseKeepsInv
<1>2. CASE ~Refuse(p)
  <2> DEFINE old == request[p]
             chats == IF old.op = "delete" THEN MemberOf(old.actor) ELSE old.chats
             r == [old EXCEPT !.step = "written", !.chats = chats]
  <2>1. old \in Request /\ WellFormed(old) /\ old.step = "locked" /\ Permitted(old)
    BY <1>2 DEF RequestsInv, MembersTypeOK, Write
  <2>2. /\ request' = [request EXCEPT ![p] = r]
        /\ UNCHANGED <<chatState, public, role, account, orgLock, since>>
    BY <1>2 DEF Write
  <2>3. chats \subseteq Chats
    BY <2>1 DEF MemberOf, Request
  <2> HIDE DEF chats
  <2>4. /\ r \in Request /\ r.step = "written" /\ r.op = old.op /\ r.user = old.user
        /\ r.chat = old.chat /\ r.actor = old.actor /\ r.newRole = old.newRole
    BY <2>1, <2>3 DEF Request, Steps
  <2> HIDE DEF r
  <2>5. WellFormed(r)
    <3>1. old.op # "none"
      BY <2>1 DEF WellFormed, Idle
    <3>2. "written" \in Writing
      BY DEF Writing
    <3> QED BY <2>1, <2>4, <3>1, <3>2 DEF WellFormed
  <2>6. Guarded(r)
    <3> SUFFICES ASSUME r.op \in MemberCommands \cup {"update", "archive"}
                 PROVE  /\ \/ chatState[r.chat] = "open"
                           \/ r.op \in MemberCommands /\ r.user \in Moderators
                        /\ r.op \in MemberCommands /\ AboutOwner(r) =>
                             \/ role[r.chat][r.user] = "owner"
                             \/ r.op = "remove" /\ r.user = r.actor
      BY DEF Guarded
    <3>1. Permitted(r)
      BY <2>1, <2>4 DEF Permitted, Manages, AboutOwner, OwnersAct, Moderates,
                        MemberCommands
    <3>2. r.op \in MemberCommands => r.actor # Nobody
      BY <2>5, MembersAssumption DEF WellFormed, Actors
    <3>3. r.op = "join" => r.newRole = "member"
      BY <2>5 DEF WellFormed
    <3> QED BY <3>1, <3>2, <3>3 DEF Permitted, Manages, AboutOwner, OwnersAct, Moderates,
                               MemberCommands
  <2>7. r.op \in Commands => orgLock = p
    BY <2>1, <2>4 DEF RequestsInv, OrgLockHeld
  <2>8. r.op = "create" =>
          /\ chatState[r.chat] = "none"
          /\ \A q \in Requests \ {p} : request[q].op = "create" => request[q].chat # r.chat
    BY <2>4 DEF RequestsInv, ChatsFresh
  <2>9. /\ orgLock \in Requests \cup {Nobody}
        /\ since \in [Requests -> SUBSET {"command", "free", "crossed"}]
    BY DEF RequestsInv, MembersTypeOK
  <2> QED BY <2>2, <2>4, <2>5, <2>6, <2>7, <2>8, <2>9, LocalStep
<1> QED BY <1>1, <1>2

(* The tables after a commit.                                              *)
LEMMA AfterTypes ==
    ASSUME MembersTypeOK, NEW r \in Request, WellFormed(r)
    PROVE  /\ ChatStateAfter(r) \in [Chats -> {"none", "open", "archived"}]
           /\ PublicAfter(r) \subseteq Chats
           /\ RolesAfter(r) \in [Chats -> [Actors -> Roles \cup {"none"}]]
           /\ AccountAfter(r) \in [Actors -> {"absent", "active", "deactivated", "deleted"}]
<1> USE DEF MembersTypeOK, Request
<1>1. ChatStateAfter(r) \in [Chats -> {"none", "open", "archived"}]
  BY DEF ChatStateAfter
<1>2. PublicAfter(r) \subseteq Chats
  BY DEF PublicAfter, WellFormed, Commands
<1>3. RolesAfter(r) \in [Chats -> [Actors -> Roles \cup {"none"}]]
  <2>1. CASE r.op \in MemberCommands
    <3>1. RolesAfter(r) = [role EXCEPT ![r.chat] = [role[r.chat] EXCEPT ![r.actor] = r.newRole]]
      BY <2>1 DEF RolesAfter, MemberCommands
    <3>2. [role[r.chat] EXCEPT ![r.actor] = r.newRole] \in [Actors -> Roles \cup {"none"}]
      BY <2>1 DEF WellFormed, Commands
    <3> QED BY <3>1, <3>2
  <2>2. CASE r.op = "create"
    <3> DEFINE new == [a \in Actors |->
                 IF a = r.user THEN "owner" ELSE IF a \in r.actors THEN "member" ELSE "none"]
    <3>1. RolesAfter(r) = [role EXCEPT ![r.chat] = new]
      BY <2>2 DEF RolesAfter, MemberCommands
    <3>2. new \in [Actors -> Roles \cup {"none"}]
      BY DEF Roles
    <3> HIDE DEF new
    <3> QED BY <3>1, <3>2
  <2>3. CASE r.op \in {"hire", "publish"}
    <3> DEFINE new(c) == [role[c] EXCEPT ![r.actor] = IF c \in r.chats THEN "member" ELSE "none"]
    <3>1. RolesAfter(r) = [c \in Chats |-> new(c)]
      BY <2>3 DEF RolesAfter, MemberCommands
    <3>2. \A c \in Chats : new(c) \in [Actors -> Roles \cup {"none"}]
      BY DEF Roles
    <3> HIDE DEF new
    <3> QED BY <3>1, <3>2
  <2>4. CASE r.op = "delete"
    <3> DEFINE new(c) == [role[c] EXCEPT ![r.actor] = IF c \in r.chats THEN "none" ELSE @]
    <3>1. RolesAfter(r) = [c \in Chats |-> new(c)]
      BY <2>4 DEF RolesAfter, MemberCommands
    <3>2. \A c \in Chats : new(c) \in [Actors -> Roles \cup {"none"}]
      BY <2>4 DEF Roles, WellFormed, AgentOps, Actors
    <3> HIDE DEF new
    <3> QED BY <3>1, <3>2
  <2>5. CASE r.op \notin MemberCommands \cup {"create", "hire", "publish", "delete"}
    BY <2>5 DEF RolesAfter
  <2> QED BY <2>1, <2>2, <2>3, <2>4, <2>5
<1>4. AccountAfter(r) \in [Actors -> {"absent", "active", "deactivated", "deleted"}]
  <2>1. CASE r.op = "status"
    <3>1. r.state \in {"absent", "active", "deactivated", "deleted"}
      BY <2>1 DEF WellFormed
    <3> QED BY <2>1, <3>1 DEF AccountAfter
  <2>2. CASE r.op # "status"
    BY <2>2 DEF AccountAfter
  <2> QED BY <2>1, <2>2
<1> QED BY <1>1, <1>2, <1>3, <1>4

(* What a transaction that is not a command does to the roles: it makes an *)
(* agent a plain member or no member.                                      *)
LEMMA NoOwnersOutsideCommands ==
    ASSUME MembersTypeOK, NEW r \in Request, WellFormed(r), r.op \notin Commands,
           NEW c \in Chats, NEW a \in Actors
    PROVE  /\ ChatStateAfter(r) = chatState
           /\ RolesAfter(r)[c][a] = role[c][a]
              \/ (r.op \in AgentOps /\ a = r.actor /\ RolesAfter(r)[c][a] \in {"member", "none"})
<1> USE DEF MembersTypeOK, Commands
<1>1. ChatStateAfter(r) = chatState
  BY DEF ChatStateAfter
<1>2. r.op \in AgentOps \cup {"status", "none"}
  BY DEF Request
<1>3. CASE r.op \in {"hire", "publish"}
  <2>1. RolesAfter(r)[c] = [role[c] EXCEPT ![r.actor] = IF c \in r.chats THEN "member" ELSE "none"]
    BY <1>3 DEF RolesAfter
  <2> QED BY <1>1, <1>3, <2>1 DEF AgentOps
<1>4. CASE r.op = "delete"
  <2>1. RolesAfter(r)[c] = [role[c] EXCEPT ![r.actor] = IF c \in r.chats THEN "none" ELSE @]
    BY <1>4 DEF RolesAfter
  <2> QED BY <1>1, <1>4, <2>1 DEF AgentOps
<1>5. CASE r.op \in {"status", "none"}
  BY <1>1, <1>5 DEF RolesAfter
<1> QED BY <1>2, <1>3, <1>4, <1>5 DEF AgentOps

LEMMA CommitKeepsInv ==
    ASSUME NEW p \in Requests, RequestsInv, Commit(p)
    PROVE  RequestsInv'
<1> DEFINE r == request[p]
<1>1. /\ MembersTypeOK /\ r \in Request /\ WellFormed(r) /\ r.step = "checked"
      /\ chatState' = ChatStateAfter(r) /\ role' = RolesAfter(r)
  BY DEF RequestsInv, MembersTypeOK, Commit
<1>2. request'[p] = Idle /\ \A q \in Requests \ {p} : request'[q] = request[q]
  BY <1>1 DEF MembersTypeOK, Commit, End
<1>3. Idle \in Request /\ WellFormed(Idle) /\ Idle.op \notin Commands /\ Idle.step = "idle"
  BY DEF Idle, Request, WellFormed, Steps, Commands, MemberCommands, AgentOps
<1>4. MembersTypeOK'
  <2>1. request' \in [Requests -> Request] /\ orgLock' \in Requests \cup {Nobody}
    BY <1>1, <1>3 DEF MembersTypeOK, Commit, End
  <2>2. since' \in [Requests -> SUBSET {"command", "free", "crossed"}]
    BY <1>1 DEF MembersTypeOK, Commit
  <2> QED BY <1>1, <2>1, <2>2, AfterTypes DEF MembersTypeOK, Commit
<1>5. (\A q \in Requests : WellFormed(request[q]))'
  BY <1>2, <1>3 DEF RequestsInv, WellFormed
<1>6. OrgLockHeld'
  BY <1>2, <1>3, MembersAssumption DEF RequestsInv, OrgLockHeld, Commit, End
<1>7. r.op \in Commands => \A q \in Requests \ {p} :
        ~(request[q].op \in Commands /\ request[q].step \in Writing)
  BY <1>1 DEF RequestsInv, OrgLockHeld, Writing
<1>8. ChatsFresh'
  <2>1. ASSUME NEW c \in Chats, chatState[c] = "none", chatState'[c] # "none"
        PROVE  r.op = "create" /\ r.chat = c
    <3>1. r.op = "archive" => chatState[r.chat] = "open"
      BY <1>1 DEF RequestsInv, GuardKept, Guarded, MemberCommands, Writing
    <3> QED BY <1>1, <2>1, <3>1 DEF ChatStateAfter, MembersTypeOK
  <2>2. \A q \in Requests \ {p} : request[q].op = "create" => request[q].chat \in Chats
    BY DEF RequestsInv, WellFormed, Commands
  <2>3. Idle.op # "create"
    BY DEF Idle
  <2> QED BY <1>2, <2>1, <2>2, <2>3 DEF RequestsInv, ChatsFresh
<1>9. GuardKept'
  <2> SUFFICES ASSUME NEW q \in Requests \ {p}, request[q].op \in Commands,
                      request[q].step \in Writing
               PROVE  Guarded(request[q])'
    BY <1>2, <1>3 DEF GuardKept, Guarded, Commands
  <2>1. r.op \notin Commands
    BY <1>7
  <2>2. Guarded(request[q]) /\ WellFormed(request[q])
    BY DEF RequestsInv, GuardKept
  <2>3. chatState' = chatState
    BY <1>1, <2>1, <2>2, NoOwnersOutsideCommands DEF WellFormed, ChatStateAfter, Commands
  <2>4. request[q].user \in Users /\ request[q].chat \in Chats
    BY <2>2 DEF WellFormed
  <2>5. role'[request[q].chat][request[q].user] = role[request[q].chat][request[q].user]
    BY <1>1, <2>1, <2>4, NoOwnersOutsideCommands, MembersAssumption DEF WellFormed, Actors
  <2>6. request[q].op \in MemberCommands =>
          (role'[request[q].chat][request[q].actor] = "owner"
             => role[request[q].chat][request[q].actor] = "owner")
    BY <1>1, <2>1, <2>2, <2>4, NoOwnersOutsideCommands DEF WellFormed
  <2> QED BY <1>2, <2>2, <2>3, <2>5, <2>6 DEF Guarded, AboutOwner
<1>10. AssertionKept'
  <2> SUFFICES ASSUME NEW q \in Requests \ {p}, request[q].step = "checked",
                      IF request[q].op \in Commands THEN "free" \notin since'[q]
                      ELSE since'[q] = {}
               PROVE  FALSE
    BY <1>2, <1>3 DEF AssertionKept
  <2>1. (IF r.op \in Commands THEN "command" ELSE "free") \in since'[q]
    BY <1>2 DEF Commit
  <2> QED BY <1>7, <2>1 DEF Writing
<1> QED BY <1>4, <1>5, <1>6, <1>8, <1>9, <1>10 DEF RequestsInv

LEMMA InitRequestsInv == MembersInit => RequestsInv
<1> SUFFICES ASSUME MembersInit PROVE RequestsInv
  OBVIOUS
<1>1. Idle \in Request /\ WellFormed(Idle) /\ Guarded(Idle) /\ Idle.op \notin Commands
      /\ Idle.op # "create" /\ Idle.step # "checked"
  BY DEF Idle, Request, WellFormed, Guarded, Steps, Commands, MemberCommands, AgentOps
<1>2. MembersTypeOK
  BY <1>1 DEF MembersInit, MembersTypeOK
<1>3. \A p \in Requests : request[p] = Idle
  BY DEF MembersInit
<1> QED BY <1>1, <1>2, <1>3 DEF RequestsInv, OrgLockHeld, ChatsFresh, GuardKept, AssertionKept

LEMMA NextRequestsInv == RequestsInv /\ [MembersNext]_membersVars => RequestsInv'
<1> SUFFICES ASSUME RequestsInv, [MembersNext]_membersVars PROVE RequestsInv'
  OBVIOUS
<1>1. CASE UNCHANGED membersVars
  <2>1. /\ MembersTypeOK' /\ (\A q \in Requests : WellFormed(request[q]))'
        /\ OrgLockHeld' /\ ChatsFresh'
    BY <1>1 DEF membersVars, RequestsInv, MembersTypeOK, WellFormed, OrgLockHeld, ChatsFresh
  <2>2. GuardKept'
    BY <1>1 DEF membersVars, RequestsInv, GuardKept, Guarded, AboutOwner
  <2>3. AssertionKept'
    <3> SUFFICES ASSUME NEW q \in Requests, ConstraintsHold(request[q])
                 PROVE  ConstraintsHold(request[q])'
      BY <1>1 DEF membersVars, RequestsInv, AssertionKept
    <3>1. Touched(request[q])' = Touched(request[q])
      BY <1>1 DEF membersVars, Touched
    <3>2. /\ ChatStateAfter(request[q])' = ChatStateAfter(request[q])
          /\ RolesAfter(request[q])' = RolesAfter(request[q])
          /\ AccountAfter(request[q])' = AccountAfter(request[q])
      BY <1>1 DEF membersVars, ChatStateAfter, RolesAfter, AccountAfter
    <3> QED BY <3>1, <3>2 DEF ConstraintsHold, HasOwner, ActiveOwners
  <2> QED BY <2>1, <2>2, <2>3 DEF RequestsInv
<1>2. CASE MembersNext
  <2>1. PICK p \in Requests :
          \/ \/ AskCreate(p) \/ AskJoin(p) \/ AskUpdate(p) \/ AskArchive(p)
             \/ AskAdd(p) \/ AskChange(p) \/ AskRemove(p)
             \/ BeginHire(p) \/ BeginPublish(p) \/ BeginDelete(p) \/ BeginStatus(p)
          \/ Advance(p) \/ Cancel(p)
    BY <1>2 DEF MembersNext
  <2>2. CASE \/ AskCreate(p) \/ AskJoin(p) \/ AskUpdate(p) \/ AskArchive(p)
             \/ AskAdd(p) \/ AskChange(p) \/ AskRemove(p)
             \/ BeginHire(p) \/ BeginPublish(p) \/ BeginDelete(p) \/ BeginStatus(p)
    BY <2>2, BeginForms, BeginKeepsInv
  <2>3. CASE ReadTarget(p) \/ CountOwners(p) \/ Record(p) \/ CheckConstraints(p)
    BY <2>3, GotoKeepsInv
  <2>4. CASE LockOrganization(p)
    BY <2>4, LockKeepsInv
  <2>5. CASE Write(p)
    BY <2>5, WriteKeepsInv
  <2>6. CASE Commit(p)
    BY <2>6, CommitKeepsInv
  <2>7. CASE AbortSerializable(p) \/ BreakDeadlock(p) \/ Cancel(p)
    BY <2>7, RefuseKeepsInv DEF AbortSerializable, BreakDeadlock, Cancel
  <2> QED BY <2>1, <2>2, <2>3, <2>4, <2>5, <2>6, <2>7 DEF Advance
<1> QED BY <1>1, <1>2

-----------------------------------------------------------------------------
(* The locks.  Requests that ask for the same hold the same.               *)
LEMMA SameAsked ==
    ASSUME NEW r, NEW s, r.op = s.op, r.user = s.user, r.chat = s.chat, r.actor = s.actor,
           r.newRole = s.newRole, r.actors = s.actors
    PROVE  /\ Exclusive(r) = Exclusive(s) /\ Referenced(r) = Referenced(s)
           /\ AccountsWanted(r) = AccountsWanted(s) /\ StillPermitted(r) = StillPermitted(s)
           /\ r.chats = s.chats => Rows(r) = Rows(s) /\ RowsWanted(r) = RowsWanted(s)
<1>1. /\ Exclusive(r) = Exclusive(s) /\ Referenced(r) = Referenced(s)
      /\ AccountsWanted(r) = AccountsWanted(s)
  BY DEF Exclusive, Referenced, AccountsWanted
<1>2. StillPermitted(r) = StillPermitted(s)
  BY DEF StillPermitted, Manages, OwnersAct, AboutOwner, Moderates
<1>3. r.chats = s.chats => Rows(r) = Rows(s) /\ RowsWanted(r) = RowsWanted(s)
  BY DEF Rows, RowsWanted, Touched
<1> QED BY <1>1, <1>2, <1>3

(* A step of request p that leaves the tables alone.                       *)
LEMMA LocalLocks ==
    ASSUME NEW p \in Requests, NEW r, MembersInv,
           UNCHANGED <<chatState, public, role, account>>,
           request' = [request EXCEPT ![p] = r],
           orgLock' = p => r.op \in Commands /\ r.step \in Writing \cup {"locked"},
           \A q \in Requests \ {p} : orgLock' = q => orgLock = q,
           \A q \in Requests \ {p} :
               r.op \in AgentOps /\ request[q].op \in AgentOps => request[q].actor # r.actor,
           \A q \in Requests \ {p} : RowsHeld(r) \cap RowsHeld(request[q]) = {},
           \A q \in Requests \ {p} :
               /\ Exclusive(r) \cap (Exclusive(request[q]) \cup Updated(request[q])
                                                     \cup Shared(request[q])) = {}
               /\ Exclusive(request[q]) \cap (Updated(r) \cup Shared(r)) = {},
           AccountSeen(r),
           r.op \in Commands /\ r.step \in Writing => StillPermitted(r)
    PROVE  LocksInv'
<1>1. request'[p] = r /\ \A q \in Requests \ {p} : request'[q] = request[q]
  BY DEF MembersInv, RequestsInv, MembersTypeOK
<1>2. LockHolder'
  BY <1>1 DEF MembersInv, LocksInv, LockHolder
<1>3. OneAgentOp'
  BY <1>1 DEF MembersInv, LocksInv, OneAgentOp
<1>4. \A q \in Requests :
        /\ RowsHeld(request[q])' = RowsHeld(request'[q])
        /\ Exclusive(request[q])' = Exclusive(request'[q])
        /\ Updated(request[q])' = Updated(request'[q])
        /\ Shared(request[q])' = Shared(request'[q])
        /\ AccountSeen(request[q])' = AccountSeen(request'[q])
        /\ StillPermitted(request[q])' = StillPermitted(request'[q])
  <2> SUFFICES ASSUME NEW q \in Requests
               PROVE  /\ RowsHeld(request[q])' = RowsHeld(request'[q])
                      /\ Exclusive(request[q])' = Exclusive(request'[q])
                      /\ Updated(request[q])' = Updated(request'[q])
                      /\ Shared(request[q])' = Shared(request'[q])
                      /\ AccountSeen(request[q])' = AccountSeen(request'[q])
                      /\ StillPermitted(request[q])' = StillPermitted(request'[q])
    OBVIOUS
  <2>1. RowsHeld(request[q])' = RowsHeld(request'[q])
    BY DEF RowsHeld, Rows, Touched
  <2>2. /\ Exclusive(request[q])' = Exclusive(request'[q])
        /\ Updated(request[q])' = Updated(request'[q])
        /\ Shared(request[q])' = Shared(request'[q])
    BY DEF Exclusive, Updated, Shared, Referenced
  <2>3. AccountSeen(request[q])' = AccountSeen(request'[q])
    BY DEF AccountSeen, Present
  <2>4. StillPermitted(request[q])' = StillPermitted(request'[q])
    BY DEF StillPermitted, Manages, OwnersAct, AboutOwner, Moderates
  <2> QED BY <2>1, <2>2, <2>3, <2>4
<1>5. RowsApart'
  BY <1>1, <1>4 DEF MembersInv, LocksInv, RowsApart
<1>6. AccountsApart'
  BY <1>1, <1>4 DEF MembersInv, LocksInv, AccountsApart
<1>7. AccountsSeen'
  BY <1>1, <1>4 DEF MembersInv, LocksInv, AccountsSeen, Present
<1>8. PermitKept'
  BY <1>1, <1>4 DEF MembersInv, LocksInv, PermitKept
<1> QED BY <1>2, <1>3, <1>5, <1>6, <1>7, <1>8 DEF LocksInv

LEMMA BeginsIdle ==
    ASSUME NEW p \in Requests,
           \/ AskCreate(p) \/ AskJoin(p) \/ AskUpdate(p) \/ AskArchive(p)
           \/ AskAdd(p) \/ AskChange(p) \/ AskRemove(p)
           \/ BeginHire(p) \/ BeginPublish(p) \/ BeginDelete(p) \/ BeginStatus(p)
    PROVE  request[p] = Idle
BY DEF AskCreate, AskJoin, AskUpdate, AskArchive, AskAdd, AskChange, AskRemove,
       BeginHire, BeginPublish, BeginDelete, BeginStatus

LEMMA BeginKeepsLocks ==
    ASSUME NEW p \in Requests, NEW r, MembersInv, request[p] = Idle,
           Begin(p, r), CanBegin(p, r), BeginsFree(p, r)
    PROVE  LocksInv'
<1>1. orgLock' # p
  BY DEF Begin, MembersInv, LocksInv, LockHolder, Idle, Commands, MemberCommands
<1>2. RowsHeld(r) = {} /\ Updated(r) = {} /\ Shared(r) = {}
  BY DEF CanBegin, BeginsFree, RowsHeld, Rows, Writing, Updated, Shared, Referenced,
         Commands, MemberCommands, AgentOps
<1>3. Exclusive(r) # {} => r.op \in {"publish", "status"} /\ Exclusive(r) = {r.actor}
  BY DEF Exclusive
<1>4. \A q \in Requests \ {p} :
        /\ Exclusive(r) \cap (Exclusive(request[q]) \cup Updated(request[q])
                                              \cup Shared(request[q])) = {}
        /\ Exclusive(request[q]) \cap (Updated(r) \cup Shared(r)) = {}
  BY <1>2, <1>3 DEF BeginsFree, Free, NotExclusive, Others
<1>5. r.op \in Commands => r.step \notin Writing
  BY DEF CanBegin, Writing
<1>6. AccountSeen(r)
  BY <1>5 DEF BeginsFree, AccountSeen, Commands, MemberCommands
<1> QED BY <1>1, <1>2, <1>4, <1>5, <1>6, LocalLocks DEF Begin, BeginsFree

LEMMA RefuseKeepsLocks ==
    ASSUME NEW p \in Requests, MembersInv, Refuse(p)
    PROVE  LocksInv'
<1>1. /\ RowsHeld(Idle) = {} /\ Updated(Idle) = {} /\ Shared(Idle) = {}
      /\ Exclusive(Idle) = {} /\ AccountSeen(Idle)
      /\ Idle.op \notin Commands \cup AgentOps
  BY DEF Idle, RowsHeld, Updated, Shared, Exclusive, AccountSeen, Writing, Commands,
         MemberCommands, AgentOps
<1>2. orgLock' # p /\ \A q \in Requests \ {p} : orgLock' = q => orgLock = q
  BY MembersAssumption DEF Refuse, End
<1> QED BY <1>1, <1>2, LocalLocks DEF Refuse, End

(* What a request comes to hold when it goes on to another step.           *)
LEMMA HeldAfter ==
    ASSUME MembersInv, NEW p \in Requests, NEW r, r.op = request[p].op,
           r.actor = request[p].actor,
           RowsHeld(r) \subseteq RowsHeld(request[p])
             \/ (RowsFree(p, RowsWanted(request[p]))
                 /\ RowsHeld(r) \subseteq RowsWanted(request[p])),
           Exclusive(r) = Exclusive(request[p]),
           Updated(r) \cup Shared(r) \subseteq Updated(request[p]) \cup Shared(request[p])
             \/ (NotExclusive(p, AccountsWanted(request[p]))
                 /\ Updated(r) \cup Shared(r) \subseteq AccountsWanted(request[p]))
    PROVE  \A q \in Requests \ {p} :
             /\ r.op \in AgentOps /\ request[q].op \in AgentOps => request[q].actor # r.actor
             /\ RowsHeld(r) \cap RowsHeld(request[q]) = {}
             /\ Exclusive(r) \cap (Exclusive(request[q]) \cup Updated(request[q])
                                                   \cup Shared(request[q])) = {}
             /\ Exclusive(request[q]) \cap (Updated(r) \cup Shared(r)) = {}
<1> SUFFICES ASSUME NEW q \in Requests \ {p}
             PROVE  /\ r.op \in AgentOps /\ request[q].op \in AgentOps => request[q].actor # r.actor
                    /\ RowsHeld(r) \cap RowsHeld(request[q]) = {}
                    /\ Exclusive(r) \cap (Exclusive(request[q]) \cup Updated(request[q])
                                                          \cup Shared(request[q])) = {}
                    /\ Exclusive(request[q]) \cap (Updated(r) \cup Shared(r)) = {}
  OBVIOUS
<1>1. r.op \in AgentOps /\ request[q].op \in AgentOps => request[q].actor # r.actor
  BY DEF MembersInv, LocksInv, OneAgentOp
<1>2. RowsHeld(request[p]) \cap RowsHeld(request[q]) = {}
  BY DEF MembersInv, LocksInv, RowsApart
<1>3. RowsHeld(r) \cap RowsHeld(request[q]) = {}
  BY <1>2 DEF RowsFree, Others
<1>4. /\ Exclusive(request[p]) \cap (Exclusive(request[q]) \cup Updated(request[q])
                                                    \cup Shared(request[q])) = {}
      /\ Exclusive(request[q]) \cap (Updated(request[p]) \cup Shared(request[p])) = {}
  BY DEF MembersInv, LocksInv, AccountsApart
<1>5. Exclusive(request[q]) \cap (Updated(r) \cup Shared(r)) = {}
  BY <1>4 DEF NotExclusive, Others
<1> QED BY <1>1, <1>3, <1>4, <1>5

LEMMA GotoKeepsLocks ==
    ASSUME NEW p \in Requests, MembersInv,
           \/ ReadTarget(p) \/ CountOwners(p) \/ Record(p) \/ CheckConstraints(p)
    PROVE  LocksInv'
<1>1. CASE Refuse(p)
  BY <1>1, RefuseKeepsLocks
<1>2. CASE ~Refuse(p)
  <2>1. PICK step \in Steps :
          /\ Goto(p, step) /\ step \notin {"idle", "target", "locked"}
          /\ step \in Writing <=> request[p].step \in Writing
          /\ step \notin Writing => request[p].step \in {"target", "owners"}
          /\ step = "recorded" => NotExclusive(p, AccountsWanted(request[p]))
          /\ step = "checked" => request[p].step = "recorded"
          /\ step # "written"
    BY <1>2 DEF ReadTarget, CountOwners, Record, CheckConstraints, Steps, Writing
  <2> DEFINE held == IF step = "ready" THEN "none" ELSE request[p].held
             r == [request[p] EXCEPT !.step = step, !.held = held]
  <2>2. request[p] \in Request
    BY DEF MembersInv, RequestsInv, MembersTypeOK
  <2>3. /\ r.step = step /\ r.op = request[p].op
        /\ r.user = request[p].user /\ r.chat = request[p].chat /\ r.actor = request[p].actor
        /\ r.newRole = request[p].newRole /\ r.chats = request[p].chats
        /\ r.actors = request[p].actors /\ r.state = request[p].state
    BY <2>2 DEF Request
  <2>4. request' = [request EXCEPT ![p] = r]
    BY <2>1 DEF Goto
  <2> HIDE DEF r
  <2>5. /\ Rows(r) = Rows(request[p]) /\ Exclusive(r) = Exclusive(request[p])
        /\ Referenced(r) = Referenced(request[p])
        /\ StillPermitted(r) = StillPermitted(request[p])
    BY <2>3, SameAsked
  <2>6. RowsHeld(r) \subseteq RowsHeld(request[p])
    BY <2>1, <2>3, <2>5 DEF RowsHeld
  <2>7. \/ Updated(r) \cup Shared(r) \subseteq Updated(request[p]) \cup Shared(request[p])
        \/ /\ NotExclusive(p, AccountsWanted(request[p]))
           /\ Updated(r) \cup Shared(r) \subseteq AccountsWanted(request[p])
    <3>1. CASE step = "recorded"
      BY <2>1, <2>3, <2>5, <3>1 DEF Updated, Shared, AccountsWanted, Referenced
    <3>2. CASE step = "checked"
      BY <2>1, <2>3, <2>5, <3>2 DEF Updated, Shared
    <3>3. CASE step \notin {"recorded", "checked"}
      BY <2>3, <3>3 DEF Updated, Shared
    <3> QED BY <3>1, <3>2, <3>3
  <2>8. orgLock' = p => r.op \in Commands /\ r.step \in Writing \cup {"locked"}
    BY <2>1, <2>3 DEF Goto, MembersInv, LocksInv, LockHolder, Writing
  <2>9. AccountSeen(r)
    <3>1. AccountSeen(request[p])
      BY DEF MembersInv, LocksInv, AccountsSeen
    <3> QED BY <2>1, <2>3, <3>1 DEF AccountSeen
  <2>10. r.op \in Commands /\ r.step \in Writing => StillPermitted(r)
    BY <2>1, <2>3, <2>5 DEF MembersInv, LocksInv, PermitKept
  <2>11. \A q \in Requests \ {p} :
       /\ r.op \in AgentOps /\ request[q].op \in AgentOps => request[q].actor # r.actor
       /\ RowsHeld(r) \cap RowsHeld(request[q]) = {}
       /\ Exclusive(r) \cap (Exclusive(request[q]) \cup Updated(request[q])
                                             \cup Shared(request[q])) = {}
       /\ Exclusive(request[q]) \cap (Updated(r) \cup Shared(r)) = {}
    BY <2>3, <2>5, <2>6, <2>7, HeldAfter
  <2>12. UNCHANGED <<chatState, public, role, account, orgLock>>
    BY <2>1 DEF Goto
  <2> QED BY <2>4, <2>8, <2>9, <2>10, <2>11, <2>12, LocalLocks
<1> QED BY <1>1, <1>2

LEMMA LockKeepsLocks ==
    ASSUME NEW p \in Requests, MembersInv, LockOrganization(p)
    PROVE  LocksInv'
<1> DEFINE r == [request[p] EXCEPT !.step = "locked"]
<1>1. request[p] \in Request /\ WellFormed(request[p]) /\ request[p].step = "ready"
  BY DEF MembersInv, RequestsInv, MembersTypeOK, LockOrganization
<1>2. /\ r.step = "locked" /\ r.op = request[p].op
      /\ r.user = request[p].user /\ r.chat = request[p].chat /\ r.actor = request[p].actor
      /\ r.newRole = request[p].newRole /\ r.chats = request[p].chats
      /\ r.actors = request[p].actors /\ r.state = request[p].state
  BY <1>1 DEF Request
<1>3. request' = [request EXCEPT ![p] = r]
  BY DEF LockOrganization
<1>4. r.op \in Commands
  BY <1>1, <1>2 DEF WellFormed, Writing, Idle, Request
<1> HIDE DEF r
<1>5. RowsHeld(r) = {} /\ Updated(r) = {} /\ Shared(r) = {}
  BY <1>2 DEF RowsHeld, Updated, Shared, Writing
<1>6. Exclusive(r) = Exclusive(request[p])
  BY <1>2, SameAsked
<1>7. AccountSeen(r)
  <2>1. AccountSeen(request[p])
    BY DEF MembersInv, LocksInv, AccountsSeen
  <2> QED BY <1>2, <2>1 DEF AccountSeen, Writing
<1>8. \A q \in Requests \ {p} : orgLock' # q
  BY DEF LockOrganization
<1>9. r.step \notin Writing
  BY <1>2 DEF Writing
<1>10. \A q \in Requests \ {p} :
     /\ r.op \in AgentOps /\ request[q].op \in AgentOps => request[q].actor # r.actor
     /\ RowsHeld(r) \cap RowsHeld(request[q]) = {}
     /\ Exclusive(r) \cap (Exclusive(request[q]) \cup Updated(request[q])
                                           \cup Shared(request[q])) = {}
     /\ Exclusive(request[q]) \cap (Updated(r) \cup Shared(r)) = {}
  BY <1>2, <1>5, <1>6, HeldAfter
<1>11. UNCHANGED <<chatState, public, role, account>>
  BY DEF LockOrganization
<1>12. r.op \in Commands /\ r.step \in Writing \cup {"locked"}
  BY <1>2, <1>4
<1>13. \A q \in Requests \ {p} : orgLock' = q => orgLock = q
  BY <1>8
<1>14. r.op \in Commands /\ r.step \in Writing => StillPermitted(r)
  BY <1>9
<1> QED BY <1>3, <1>7, <1>10, <1>11, <1>12, <1>13, <1>14, LocalLocks

LEMMA WriteKeepsLocks ==
    ASSUME NEW p \in Requests, MembersInv, Write(p)
    PROVE  LocksInv'
<1>1. CASE Refuse(p)
  BY <1>1, RefuseKeepsLocks
<1>2. CASE ~Refuse(p)
  <2> DEFINE old == request[p]
             chats == IF old.op = "delete" THEN MemberOf(old.actor) ELSE old.chats
             r == [old EXCEPT !.step = "written", !.chats = chats]
  <2>1. /\ old \in Request /\ WellFormed(old) /\ old.step = "locked" /\ Permitted(old)
        /\ RowsFree(p, RowsWanted(old))
    BY <1>2 DEF MembersInv, RequestsInv, MembersTypeOK, Write
  <2>2. /\ request' = [request EXCEPT ![p] = r]
        /\ UNCHANGED <<chatState, public, role, account, orgLock, since>>
    BY <1>2 DEF Write
  <2>3. /\ r.step = "written" /\ r.op = old.op /\ r.user = old.user
        /\ r.chat = old.chat /\ r.actor = old.actor /\ r.newRole = old.newRole
        /\ r.actors = old.actors /\ r.state = old.state /\ r.chats = chats
    BY <2>1 DEF Request
  <2> HIDE DEF r
  <2>4. RowsHeld(r) \subseteq RowsWanted(old)
    <3>1. CASE old.op = "delete"
      BY <2>3, <3>1 DEF RowsHeld, Rows, RowsWanted, MemberCommands
    <3>2. CASE old.op # "delete"
      BY <2>3, <3>2, SameAsked DEF RowsHeld, RowsWanted
    <3> QED BY <3>1, <3>2
  <2>5. /\ Exclusive(r) = Exclusive(old) /\ StillPermitted(r) = StillPermitted(old)
        /\ Updated(r) = {} /\ Shared(r) = {}
    BY <2>3, SameAsked DEF Updated, Shared
  <2>6. r.op \in Commands => StillPermitted(old)
    <3>1. old.op \in MemberCommands => old.actor # Nobody
      BY <2>1, MembersAssumption DEF WellFormed, Actors
    <3> QED BY <2>1, <2>3, <3>1 DEF Permitted, StillPermitted, Commands, MemberCommands
  <2>7. AccountSeen(r)
    <3>1. AccountSeen(old)
      BY DEF MembersInv, LocksInv, AccountsSeen
    <3>2. old.op = "add" => old.actor \in Present
      BY <2>1 DEF Permitted, Present, WellFormed, MemberCommands
    <3>3. old.op = "create" => old.actors \subseteq Present
      BY <2>1 DEF Permitted, Present, Request
    <3> QED BY <2>3, <3>1, <3>2, <3>3 DEF AccountSeen
  <2>8. orgLock = p => r.op \in Commands /\ r.step \in Writing
    BY <2>3 DEF MembersInv, LocksInv, LockHolder, Writing
  <2>9. \A q \in Requests \ {p} :
       /\ r.op \in AgentOps /\ request[q].op \in AgentOps => request[q].actor # r.actor
       /\ RowsHeld(r) \cap RowsHeld(request[q]) = {}
       /\ Exclusive(r) \cap (Exclusive(request[q]) \cup Updated(request[q])
                                             \cup Shared(request[q])) = {}
       /\ Exclusive(request[q]) \cap (Updated(r) \cup Shared(r)) = {}
    BY <2>1, <2>3, <2>4, <2>5, HeldAfter
  <2> QED BY <2>2, <2>3, <2>5, <2>6, <2>7, <2>8, <2>9, LocalLocks
<1> QED BY <1>1, <1>2

(* A commit, and the rows that other requests hold or are about to write.  *)
LEMMA CommitAfter ==
    ASSUME NEW p \in Requests, MembersInv, Commit(p)
    PROVE  /\ MembersTypeOK /\ request[p] \in Request /\ WellFormed(request[p])
           /\ request[p].step = "checked"
           /\ chatState' = ChatStateAfter(request[p]) /\ public' = PublicAfter(request[p])
           /\ role' = RolesAfter(request[p]) /\ account' = AccountAfter(request[p])
           /\ request'[p] = Idle /\ \A q \in Requests \ {p} : request'[q] = request[q]
           /\ AccountSeen(request[p]) /\ RowsHeld(request[p]) = Rows(request[p])
           /\ Shared(request[p]) = Referenced(request[p])
           /\ request[p].op \in Commands => StillPermitted(request[p])
BY DEF MembersInv, RequestsInv, MembersTypeOK, Commit, End, LocksInv, AccountsSeen,
       PermitKept, Writing, RowsHeld, Shared

(* The agent of a publication or a hiring joins no chat meanwhile: who     *)
(* adds it shares its account, and a new one is not there to be added.     *)
LEMMA NoNewMember ==
    ASSUME NEW p \in Requests, NEW q \in Requests \ {p}, MembersInv, Commit(p),
           request[q].op \in {"hire", "publish"}, NEW c \in Chats,
           role[c][request[q].actor] = "none"
    PROVE  role'[c][request[q].actor] = "none"
<1> DEFINE r == request[p]
           a == request[q].actor
<1>1. a \in Agents /\ a \in Actors /\ a \notin Users
  BY MembersAssumption DEF MembersInv, RequestsInv, WellFormed, AgentOps, Actors
<1>2. /\ MembersTypeOK /\ r \in Request /\ WellFormed(r) /\ role' = RolesAfter(r)
      /\ AccountSeen(r) /\ Shared(r) = Referenced(r) /\ r.step = "checked"
      /\ r.op \in Commands => StillPermitted(r)
  BY CommitAfter
<1>3. a \notin Present \/ Exclusive(request[q]) = {a}
  BY DEF MembersInv, LocksInv, AccountsSeen, AccountSeen, Exclusive, Present
<1>4. Exclusive(request[q]) \cap Shared(r) = {}
  BY DEF MembersInv, LocksInv, AccountsApart
<1>5. CASE r.op \in MemberCommands
  <2>1. role' = [role EXCEPT ![r.chat] = [role[r.chat] EXCEPT ![r.actor] = r.newRole]]
    BY <1>2, <1>5 DEF RolesAfter, MemberCommands
  <2>2. r.op = "add" => r.actor # a
    BY <1>2, <1>3, <1>4 DEF AccountSeen, Writing, Referenced
  <2>3. r.op = "join" => r.actor # a
    BY <1>1, <1>2, <1>5 DEF AccountSeen, WellFormed, Commands
  <2>4. r.op \in {"change", "remove"} => role[r.chat][r.actor] # "none"
    BY <1>2 DEF StillPermitted, Commands, MemberCommands
  <2>5. r.actor # a \/ r.chat # c
    BY <1>5, <2>2, <2>3, <2>4 DEF MemberCommands
  <2> QED BY <1>1, <1>2, <2>1, <2>5 DEF MembersTypeOK
<1>6. CASE r.op = "create"
  <2>1. a \notin r.actors
    BY <1>2, <1>3, <1>4, <1>6 DEF AccountSeen, Writing, Referenced
  <2>2. a # r.user
    BY <1>1, <1>2, <1>6 DEF WellFormed, Commands
  <2> QED BY <1>1, <1>2, <1>6, <2>1, <2>2 DEF RolesAfter, MemberCommands, MembersTypeOK
<1>7. CASE r.op \in AgentOps
  <2>1. r.actor # a
    BY <1>7 DEF MembersInv, LocksInv, OneAgentOp, AgentOps
  <2> QED BY <1>1, <1>2, <1>7, <2>1 DEF RolesAfter, MemberCommands, MembersTypeOK, AgentOps
<1>8. CASE r.op \in {"update", "archive", "status", "none"}
  BY <1>2, <1>8 DEF RolesAfter, MemberCommands
<1> QED BY <1>2, <1>5, <1>6, <1>7, <1>8 DEF Request, Commands

(* What a command has established of its user, its target and the chat is  *)
(* untouched by what others commit until it commits itself.                *)
LEMMA OthersKeepSeen ==
    ASSUME NEW p \in Requests, NEW q \in Requests \ {p}, MembersInv, Commit(p),
           request[q].op \in Commands, request[q].step \in Writing
    PROVE  /\ chatState' = chatState /\ public' = public
           /\ role'[request[q].chat][request[q].user] = role[request[q].chat][request[q].user]
           /\ request[q].op \in MemberCommands =>
                role'[request[q].chat][request[q].actor] = role[request[q].chat][request[q].actor]
<1> DEFINE r == request[p]
           s == request[q]
<1>1. /\ MembersTypeOK /\ r \in Request /\ WellFormed(r) /\ role' = RolesAfter(r)
      /\ chatState' = ChatStateAfter(r) /\ public' = PublicAfter(r)
      /\ r.step = "checked" /\ RowsHeld(r) = Rows(r)
  BY CommitAfter
<1>2. r.op \notin Commands
  BY <1>1 DEF MembersInv, RequestsInv, OrgLockHeld, Writing
<1>3. s.chat \in Chats /\ s.user \in Users /\ s.user \in Actors
      /\ (s.op \in MemberCommands => s.actor \in Actors)
  BY DEF MembersInv, RequestsInv, WellFormed, Actors
<1>4. public' = public
  BY <1>1, <1>2 DEF PublicAfter, Commands
<1>5. r.op \in AgentOps => r.actor \in Agents /\ r.actor # s.user
  BY <1>1, <1>3, MembersAssumption DEF WellFormed
<1>6. ASSUME s.op \in MemberCommands, role'[s.chat][s.actor] # role[s.chat][s.actor]
      PROVE  FALSE
  <2>1. r.op \in AgentOps /\ s.actor = r.actor
    BY <1>1, <1>2, <1>3, <1>6, NoOwnersOutsideCommands
  <2>2. <<s.chat, s.actor>> \in RowsHeld(s)
    BY <1>6 DEF RowsHeld, Rows, MemberCommands
  <2>3. r.op \in {"hire", "publish"} => s.chat \in Touched(r)
    <3>1. SUFFICES ASSUME r.op \in {"hire", "publish"}, s.chat \notin r.chats,
                          role[s.chat][r.actor] = "none"
                   PROVE  FALSE
      BY <1>3 DEF Touched, Commands, MemberCommands
    <3> QED BY <1>1, <1>3, <1>6, <2>1, <3>1 DEF RolesAfter, MemberCommands, MembersTypeOK
  <2>4. r.op = "delete" => s.chat \in r.chats
    BY <1>1, <1>3, <1>6, <2>1 DEF RolesAfter, MemberCommands, MembersTypeOK
  <2>5. <<s.chat, s.actor>> \in Rows(r)
    BY <2>1, <2>3, <2>4 DEF Rows, AgentOps, MemberCommands
  <2> QED BY <1>1, <2>2, <2>5 DEF MembersInv, LocksInv, RowsApart
<1> QED BY <1>1, <1>2, <1>3, <1>4, <1>5, <1>6, NoOwnersOutsideCommands

(* An account is only changed by who has it to itself.                     *)
LEMMA CommitKeepsAccounts ==
    ASSUME NEW p \in Requests, MembersInv, Commit(p)
    PROVE  /\ Present \subseteq Present'
           /\ \A q \in Requests \ {p} : AccountSeen(request[q])'
<1> DEFINE r == request[p]
<1>1. /\ MembersTypeOK /\ r \in Request /\ WellFormed(r) /\ account' = AccountAfter(r)
      /\ AccountSeen(r) /\ r.step = "checked"
      /\ \A q \in Requests \ {p} : request'[q] = request[q]
  BY CommitAfter
<1>2. \A a \in Actors : account'[a] # account[a] =>
        r.op \in {"hire", "delete", "status"} /\ a = r.actor
  BY <1>1 DEF AccountAfter, MembersTypeOK
<1>3. r.op = "hire" => account'[r.actor] = "active"
  BY <1>1 DEF AccountAfter, MembersTypeOK, WellFormed, AgentOps, Actors
<1>4. r.op = "delete" => account'[r.actor] = "deleted"
  BY <1>1 DEF AccountAfter, MembersTypeOK, WellFormed, AgentOps, Actors
<1>5. r.op = "status" => account'[r.actor] = r.state /\ r.state \in {"active", "deactivated"}
  BY <1>1 DEF AccountAfter, MembersTypeOK, WellFormed
<1>6. Present \subseteq Present'
  BY <1>2, <1>3, <1>4, <1>5 DEF Present
<1>7. ASSUME NEW q \in Requests \ {p}
      PROVE  AccountSeen(request[q])'
  <2> DEFINE s == request[q]
  <2>1. AccountSeen(s) /\ WellFormed(s) /\ s \in Request
    BY <1>1 DEF MembersInv, RequestsInv, LocksInv, AccountsSeen, MembersTypeOK
  <2>2. s.op \in {"hire", "publish", "delete", "status"} => s.actor \in Actors
    BY <2>1 DEF WellFormed, AgentOps, Actors
  <2>3. s.op \in AgentOps /\ r.op \in AgentOps => s.actor # r.actor
    BY DEF MembersInv, LocksInv, OneAgentOp
  <2>4. s.op = "hire" => account'[s.actor] = "absent"
    BY <1>1, <1>2, <2>1, <2>2, <2>3 DEF AccountSeen, AgentOps
  <2>5. s.op = "status" => account'[s.actor] = account[s.actor]
    <3>1. SUFFICES ASSUME s.op = "status", r.op \in {"hire", "delete", "status"},
                          s.actor = r.actor
                   PROVE  FALSE
      BY <1>2, <2>2
    <3>2. r.op # "hire"
      BY <1>1, <2>1, <3>1 DEF AccountSeen
    <3>3. Exclusive(s) = {s.actor} /\ s.actor \in Exclusive(r) \cup Updated(r)
      BY <1>1, <3>1, <3>2 DEF Exclusive, Updated
    <3> QED BY <3>3 DEF MembersInv, LocksInv, AccountsApart
  <2>6. s.op \in {"publish", "delete"} => account'[s.actor] \in {"active", "deactivated"}
    BY <1>1, <1>2, <1>5, <2>1, <2>2, <2>3 DEF AccountSeen, AgentOps
  <2> QED BY <1>1, <1>6, <2>1, <2>4, <2>5, <2>6 DEF AccountSeen
<1> QED BY <1>6, <1>7

LEMMA CommitKeepsLocks ==
    ASSUME NEW p \in Requests, MembersInv, Commit(p)
    PROVE  LocksInv'
<1> DEFINE r == request[p]
<1>1. /\ MembersTypeOK /\ r \in Request /\ WellFormed(r) /\ r.step = "checked"
      /\ role' = RolesAfter(r) /\ account' = AccountAfter(r)
      /\ AccountSeen(r) /\ (r.op \in Commands => StillPermitted(r))
      /\ request'[p] = Idle /\ \A q \in Requests \ {p} : request'[q] = request[q]
  BY CommitAfter
<1>2. /\ RowsHeld(Idle) = {} /\ Updated(Idle) = {} /\ Shared(Idle) = {} /\ Exclusive(Idle) = {}
      /\ Idle.op \notin Commands \cup AgentOps
  BY DEF Idle, RowsHeld, Updated, Shared, Exclusive, Writing, Commands, MemberCommands, AgentOps
<1>3. LockHolder'
  BY <1>1, MembersAssumption DEF MembersInv, LocksInv, LockHolder, Commit, End
<1>4. OneAgentOp'
  BY <1>1, <1>2 DEF MembersInv, LocksInv, OneAgentOp
<1>5. RowsApart'
  <2>1. ASSUME NEW q \in Requests \ {p}
        PROVE  RowsHeld(request[q])' \subseteq RowsHeld(request[q])
    <3> DEFINE s == request[q]
    <3>1. s' = s
      BY <1>1
    <3>2. CASE s.op \in {"hire", "publish"}
      <4>1. Touched(s)' = {c \in Chats : c \in s.chats \/ role'[c][s.actor] # "none"}
        BY <3>1, <3>2 DEF Touched, Commands, MemberCommands
      <4>2. Touched(s) = {c \in Chats : c \in s.chats \/ role[c][s.actor] # "none"}
        BY <3>2 DEF Touched, Commands, MemberCommands
      <4>3. \A c \in Chats : role[c][s.actor] = "none" => role'[c][s.actor] = "none"
        BY <3>2, NoNewMember
      <4>4. Touched(s)' \subseteq Touched(s)
        BY <4>1, <4>2, <4>3
      <4>5. Rows(s) = Touched(s) \X {s.actor} /\ Rows(s)' = Touched(s)' \X {s.actor}
        BY <3>1, <3>2 DEF Rows, MemberCommands
      <4>6. Rows(s)' \subseteq Rows(s)
        BY <4>4, <4>5
      <4> QED BY <3>1, <4>6 DEF RowsHeld
    <3>3. CASE s.op \notin {"hire", "publish"}
      BY <3>1, <3>3 DEF RowsHeld, Rows
    <3> QED BY <3>2, <3>3
  <2>2. RowsHeld(request[p])' = {}
    BY <1>1 DEF Idle, RowsHeld, Writing
  <2> QED BY <2>1, <2>2 DEF MembersInv, LocksInv, RowsApart
<1>6. AccountsApart'
  <2>1. \A q \in Requests \ {p} :
          /\ Exclusive(request[q])' = Exclusive(request[q])
          /\ Updated(request[q])' = Updated(request[q])
          /\ Shared(request[q])' = Shared(request[q])
    BY <1>1 DEF Exclusive, Updated, Shared, Referenced
  <2>2. /\ Exclusive(request[p])' = {} /\ Updated(request[p])' = {}
        /\ Shared(request[p])' = {}
    BY <1>1 DEF Idle, Exclusive, Updated, Shared
  <2> QED BY <2>1, <2>2 DEF MembersInv, LocksInv, AccountsApart
<1>7. AccountsSeen'
  <2>1. Present \subseteq Present' /\ \A q \in Requests \ {p} : AccountSeen(request[q])'
    BY CommitKeepsAccounts
  <2>2. AccountSeen(request[p])'
    BY <1>1 DEF Idle, AccountSeen
  <2>3. Users \subseteq Present'
    BY <2>1 DEF MembersInv, LocksInv, AccountsSeen
  <2>4. ASSUME NEW c \in Chats, NEW a \in Actors, role'[c][a] # "none"
        PROVE  a \in Present'
    <3>1. SUFFICES ASSUME role[c][a] = "none"
                   PROVE  a \in Present'
      BY <2>1 DEF MembersInv, LocksInv, AccountsSeen
    <3>2. CASE r.op \in MemberCommands
      <4>1. role' = [role EXCEPT ![r.chat] = [role[r.chat] EXCEPT ![r.actor] = r.newRole]]
        BY <1>1, <3>2 DEF RolesAfter, MemberCommands
      <4>2. r.chat = c /\ r.actor = a
        BY <1>1, <2>4, <3>1, <4>1 DEF MembersTypeOK
      <4>3. r.op \in {"add", "join"}
        BY <1>1, <3>1, <3>2, <4>2 DEF StillPermitted, Commands, MemberCommands
      <4> QED BY <1>1, <2>1, <2>3, <4>2, <4>3 DEF AccountSeen, WellFormed, Writing, Commands,
                                                   MemberCommands
    <3>3. CASE r.op = "create"
      <4>1. a = r.user \/ a \in r.actors
        BY <1>1, <2>4, <3>1, <3>3 DEF RolesAfter, MemberCommands, MembersTypeOK
      <4> QED BY <1>1, <2>1, <2>3, <3>3, <4>1 DEF AccountSeen, WellFormed, Writing, Commands
    <3>4. CASE r.op \in {"hire", "publish"}
      <4>1. a = r.actor
        BY <1>1, <2>4, <3>1, <3>4 DEF RolesAfter, MemberCommands, MembersTypeOK
      <4> QED BY <1>1, <2>1, <3>4, <4>1 DEF AccountSeen, AccountAfter, MembersTypeOK, Present
    <3>5. CASE r.op \in {"delete", "update", "archive", "status", "none"}
      BY <1>1, <2>4, <3>1, <3>5 DEF RolesAfter, MemberCommands, MembersTypeOK
    <3> QED BY <1>1, <3>2, <3>3, <3>4, <3>5 DEF Request, Commands, AgentOps
  <2> QED BY <2>1, <2>2, <2>3, <2>4 DEF AccountsSeen
<1>8. PermitKept'
  <2> SUFFICES ASSUME NEW q \in Requests \ {p}, request[q].op \in Commands,
                      request[q].step \in Writing
               PROVE  StillPermitted(request[q])'
    BY <1>1, <1>2 DEF PermitKept
  <2>1. /\ chatState' = chatState /\ public' = public
        /\ role'[request[q].chat][request[q].user] = role[request[q].chat][request[q].user]
        /\ request[q].op \in MemberCommands =>
             role'[request[q].chat][request[q].actor] = role[request[q].chat][request[q].actor]
    BY OthersKeepSeen
  <2>2. StillPermitted(request[q]) /\ request'[q] = request[q]
    BY <1>1 DEF MembersInv, LocksInv, PermitKept
  <2> QED BY <2>1, <2>2 DEF StillPermitted, Manages, OwnersAct, AboutOwner, Moderates,
                            MemberCommands
<1> QED BY <1>3, <1>4, <1>5, <1>6, <1>7, <1>8 DEF LocksInv

LEMMA InitLocks == MembersInit => LocksInv
<1> SUFFICES ASSUME MembersInit PROVE LocksInv
  OBVIOUS
<1>1. \A p \in Requests : request[p] = Idle
  BY DEF MembersInit
<1>2. /\ RowsHeld(Idle) = {} /\ Updated(Idle) = {} /\ Shared(Idle) = {}
      /\ Exclusive(Idle) = {} /\ AccountSeen(Idle)
      /\ Idle.op \notin Commands \cup AgentOps
  BY DEF Idle, RowsHeld, Updated, Shared, Exclusive, AccountSeen, Writing, Commands,
         MemberCommands, AgentOps
<1>3. LockHolder
  BY MembersAssumption DEF MembersInit, LockHolder
<1>4. OneAgentOp /\ RowsApart /\ AccountsApart /\ PermitKept
  BY <1>1, <1>2 DEF OneAgentOp, RowsApart, AccountsApart, PermitKept
<1>5. AccountsSeen
  <2>1. Users \subseteq Present
    BY DEF MembersInit, Present, Actors
  <2>2. \A c \in Chats, a \in Actors : role[c][a] = "none"
    BY DEF MembersInit
  <2> QED BY <1>1, <1>2, <2>1, <2>2 DEF AccountsSeen
<1> QED BY <1>3, <1>4, <1>5 DEF LocksInv

LEMMA NextLocks == MembersInv /\ [MembersNext]_membersVars => LocksInv'
<1> SUFFICES ASSUME MembersInv, [MembersNext]_membersVars PROVE LocksInv'
  OBVIOUS
<1>1. CASE UNCHANGED membersVars
  <2>1. \A q \in Requests :
          /\ RowsHeld(request[q])' = RowsHeld(request[q])
          /\ Exclusive(request[q])' = Exclusive(request[q])
          /\ Updated(request[q])' = Updated(request[q])
          /\ Shared(request[q])' = Shared(request[q])
    <3> SUFFICES ASSUME NEW q \in Requests
                 PROVE  /\ RowsHeld(request[q])' = RowsHeld(request[q])
                        /\ Exclusive(request[q])' = Exclusive(request[q])
                        /\ Updated(request[q])' = Updated(request[q])
                        /\ Shared(request[q])' = Shared(request[q])
      OBVIOUS
    <3>1. RowsHeld(request[q])' = RowsHeld(request[q])
      BY <1>1 DEF membersVars, RowsHeld, Rows, Touched
    <3>2. /\ Exclusive(request[q])' = Exclusive(request[q])
          /\ Updated(request[q])' = Updated(request[q])
          /\ Shared(request[q])' = Shared(request[q])
      BY <1>1 DEF membersVars, Exclusive, Updated, Shared, Referenced
    <3> QED BY <3>1, <3>2
  <2>2. LockHolder' /\ OneAgentOp'
    BY <1>1 DEF membersVars, MembersInv, LocksInv, LockHolder, OneAgentOp
  <2>3. RowsApart' /\ AccountsApart'
    BY <1>1, <2>1 DEF membersVars, MembersInv, LocksInv, RowsApart, AccountsApart
  <2>4. AccountsSeen'
    BY <1>1 DEF membersVars, MembersInv, LocksInv, AccountsSeen, AccountSeen, Present
  <2>5. PermitKept'
    BY <1>1 DEF membersVars, MembersInv, LocksInv, PermitKept, StillPermitted, Manages,
                OwnersAct, AboutOwner, Moderates
  <2> QED BY <2>2, <2>3, <2>4, <2>5 DEF LocksInv
<1>2. CASE MembersNext
  <2>1. PICK p \in Requests :
          \/ \/ AskCreate(p) \/ AskJoin(p) \/ AskUpdate(p) \/ AskArchive(p)
             \/ AskAdd(p) \/ AskChange(p) \/ AskRemove(p)
             \/ BeginHire(p) \/ BeginPublish(p) \/ BeginDelete(p) \/ BeginStatus(p)
          \/ Advance(p) \/ Cancel(p)
    BY <1>2 DEF MembersNext
  <2>2. CASE \/ AskCreate(p) \/ AskJoin(p) \/ AskUpdate(p) \/ AskArchive(p)
             \/ AskAdd(p) \/ AskChange(p) \/ AskRemove(p)
             \/ BeginHire(p) \/ BeginPublish(p) \/ BeginDelete(p) \/ BeginStatus(p)
    <3>1. RequestsInv
      BY DEF MembersInv
    <3>2. PICK r : Begin(p, r) /\ CanBegin(p, r) /\ BeginsFree(p, r)
      BY <2>2, <3>1, BeginForms
    <3>3. request[p] = Idle
      BY <2>2, BeginsIdle
    <3> QED BY <3>2, <3>3, BeginKeepsLocks
  <2>3. CASE ReadTarget(p) \/ CountOwners(p) \/ Record(p) \/ CheckConstraints(p)
    BY <2>3, GotoKeepsLocks
  <2>4. CASE LockOrganization(p)
    BY <2>4, LockKeepsLocks
  <2>5. CASE Write(p)
    BY <2>5, WriteKeepsLocks
  <2>6. CASE Commit(p)
    BY <2>6, CommitKeepsLocks
  <2>7. CASE AbortSerializable(p) \/ BreakDeadlock(p) \/ Cancel(p)
    BY <2>7, RefuseKeepsLocks DEF AbortSerializable, BreakDeadlock, Cancel
  <2> QED BY <2>1, <2>2, <2>3, <2>4, <2>5, <2>6, <2>7 DEF Advance
<1> QED BY <1>1, <1>2

(* Whatever requests run at once, the records are well formed, the writing *)
(* command holds the organization's lock and only it does, no row and no   *)
(* account locked for update is shared, chats are created once, what a     *)
(* statement's guard saw of roles, chats and accounts stays true to the    *)
(* commit, and so does an assertion that no commit has come after.         *)
THEOREM MembersInvariant == MembersSpec => []MembersInv
<1>1. MembersInit => MembersInv
  BY InitRequestsInv, InitLocks DEF MembersInv
<1>2. MembersInv /\ [MembersNext]_membersVars => MembersInv'
  BY NextRequestsInv, NextLocks DEF MembersInv
<1> QED BY <1>1, <1>2, PTL DEF MembersSpec

LEMMA RequestsInvariant == MembersSpec => []RequestsInv
<1>1. MembersInv => RequestsInv
  BY DEF MembersInv
<1> QED BY <1>1, MembersInvariant, PTL

-----------------------------------------------------------------------------
(* Waiting.  A statement that has run waits for an account only, and who   *)
(* has that account to itself can go on, or waits for this very request.   *)
LEMMA WrittenWaitsOnce ==
    ASSUME MembersInv, NEW p \in Requests, request[p].step = "written"
    PROVE  p \in WithWaiting(Movers)
<1> DEFINE r == request[p]
<1>1. r \in Request /\ WellFormed(r) /\ r # Idle
  BY DEF MembersInv, RequestsInv, MembersTypeOK, Idle
<1>2. CASE CanGo(p)
  BY <1>2 DEF WithWaiting, Movers
<1>3. CASE ~CanGo(p)
  <2>1. PICK q \in Requests \ {p} : Exclusive(request[q]) \cap AccountsWanted(r) # {}
    BY <1>3 DEF CanGo, NotExclusive, Others
  <2> DEFINE s == request[q]
  <2>2. s \in Request /\ WellFormed(s)
    BY DEF MembersInv, RequestsInv, MembersTypeOK
  <2>3. s.op \in {"status", "publish"} /\ s.actor \in AccountsWanted(r)
    BY <2>1 DEF Exclusive
  <2>4. Awaits(p, q)
    BY <2>1 DEF Awaits
  <2>5. CanGo(q)
    <3>1. CASE s.op = "status"
      BY <2>2, <3>1 DEF WellFormed, CanGo
    <3>2. CASE s.op = "publish"
      <4> DEFINE a == s.actor
      <4>1. s.step \in Writing \cup {"locked"} /\ a \in Agents /\ AccountsWanted(s) = {}
        BY <2>2, <3>2 DEF WellFormed, AgentOps, AccountsWanted, Referenced
      <4>2. s.step \in Writing => CanGo(q)
        BY <4>1 DEF CanGo, Writing, NotExclusive
      <4>3. r.op \notin AgentOps
        <5>1. r.op \in {"hire", "publish"} => AccountsWanted(r) = {}
          BY DEF AccountsWanted, Referenced
        <5>2. r.op = "delete" => r.actor = a
          BY <2>3 DEF AccountsWanted
        <5> QED BY <2>3, <3>2, <5>1, <5>2 DEF MembersInv, LocksInv, OneAgentOp, AgentOps
      <4>4. r.op \in Commands
        BY <1>1, <4>3 DEF Request, WellFormed, Writing
      <4>5. a \in Referenced(r)
        BY <2>3, <4>3 DEF AccountsWanted, AgentOps
      <4>6. ASSUME s.step = "locked", NEW z \in Requests \ {q},
                   RowsHeld(request[z]) \cap Rows(s) # {}
            PROVE  InDeadlock(q)
        <5> DEFINE w == request[z]
        <5>1. w \in Request /\ WellFormed(w)
          BY DEF MembersInv, RequestsInv, MembersTypeOK
        <5>2. PICK c, b : <<c, b>> \in Rows(w) /\ <<c, b>> \in Rows(s) /\ w.step \in Writing
          BY <3>2, <4>6 DEF RowsHeld, Rows, AgentOps, MemberCommands
        <5>3. b = a
          BY <3>2, <5>2 DEF Rows, MemberCommands
        <5>4. w.op \in MemberCommands \cup AgentOps /\ w.actor = a
          BY <5>2, <5>3 DEF Rows, AgentOps, MemberCommands
        <5>5. w.op \in MemberCommands
          BY <3>2, <4>6, <5>4 DEF MembersInv, LocksInv, OneAgentOp, AgentOps
        <5>6. z = p
          BY <1>1, <4>4, <5>2, <5>5 DEF MembersInv, RequestsInv, OrgLockHeld, Commands, Writing
        <5>7. Deadlocked(q, p)
          BY <3>2, <4>5, <4>6, <5>6 DEF Deadlocked
        <5> QED BY <5>7 DEF InDeadlock
      <4>7. CASE s.step = "locked"
        <5>1. RowsWanted(s) = Rows(s)
          BY <3>2 DEF RowsWanted
        <5>2. RowsFree(q, RowsWanted(s)) \/ InDeadlock(q)
          BY <4>6, <4>7, <5>1 DEF RowsFree, Others
        <5> QED BY <4>7, <5>2 DEF CanGo
      <4> QED BY <4>1, <4>2, <4>7
    <3> QED BY <2>3, <3>1, <3>2
  <2> QED BY <2>4, <2>5 DEF WithWaiting, Movers
<1> QED BY <1>2, <1>3

(* Who holds a row has run its statement.                                  *)
LEMMA LockedWaitsTwice ==
    ASSUME MembersInv, NEW p \in Requests, request[p].step = "locked"
    PROVE  p \in WithWaiting(WithWaiting(Movers))
<1>1. CASE CanGo(p)
  BY <1>1 DEF WithWaiting, Movers
<1>2. CASE ~CanGo(p)
  <2>1. PICK q \in Requests \ {p} : RowsHeld(request[q]) \cap RowsWanted(request[p]) # {}
    BY <1>2 DEF CanGo, RowsFree, Others
  <2>2. request[q].step \in Writing
    BY <2>1 DEF RowsHeld
  <2>3. q \in WithWaiting(Movers)
    BY <2>2, WrittenWaitsOnce DEF Writing, WithWaiting, Movers, CanGo
  <2>4. Awaits(p, q)
    BY <2>1 DEF Awaits
  <2> QED BY <2>3, <2>4 DEF WithWaiting
<1> QED BY <1>1, <1>2

LEMMA EveryoneWaitsThrice == MembersInv => WaitsEnd
<1> SUFFICES ASSUME MembersInv, NEW p \in Requests, request[p] # Idle
             PROVE  p \in WithWaiting(WithWaiting(WithWaiting(Movers)))
  BY DEF WaitsEnd
<1>1. \A S : S \subseteq WithWaiting(S)
  BY DEF WithWaiting
<1>2. request[p].step \in Steps \ {"idle"}
  BY DEF MembersInv, RequestsInv, MembersTypeOK, WellFormed, Request
<1>3. CASE CanGo(p)
  BY <1>1, <1>3 DEF Movers
<1>4. CASE request[p].step = "written"
  BY <1>1, <1>4, WrittenWaitsOnce
<1>5. CASE request[p].step = "locked"
  BY <1>1, <1>5, LockedWaitsTwice
<1>6. CASE request[p].step = "ready" /\ orgLock # Nobody
  <2>1. /\ orgLock \in Requests /\ orgLock # p
        /\ request[orgLock].step \in Writing \cup {"locked"}
    BY <1>6 DEF MembersInv, RequestsInv, MembersTypeOK, LocksInv, LockHolder, Writing
  <2>2. request[orgLock].step \in {"recorded", "checked"} => CanGo(orgLock)
    BY DEF CanGo
  <2>3. orgLock \in WithWaiting(WithWaiting(Movers))
    BY <1>1, <2>1, <2>2, WrittenWaitsOnce, LockedWaitsTwice DEF Writing, Movers
  <2>4. Awaits(p, orgLock)
    BY <1>6, <2>1 DEF Awaits
  <2> QED BY <2>3, <2>4 DEF WithWaiting
<1> QED BY <1>2, <1>3, <1>4, <1>5, <1>6 DEF Steps, CanGo

(* No set of requests waits for each other for good: the organization's    *)
(* lock is taken before rows and rows before accounts, so a wait ends with *)
(* a request that can go on or with a publication and a command that the   *)
(* database tells apart by aborting one.                                   *)
THEOREM NobodyWaitsInVain == MembersSpec => []WaitsEnd
BY MembersInvariant, EveryoneWaitsThrice, PTL

-----------------------------------------------------------------------------
(* Only a commit changes the tables.                                       *)
LEMMA TablesChangeByCommit ==
    ASSUME RequestsInv, [MembersNext]_membersVars,
           ~UNCHANGED <<chatState, public, role, account>>
    PROVE  \E p \in Requests :
             /\ Commit(p) /\ request[p].step = "checked" /\ request'[p] = Idle
             /\ request[p] \in Request /\ WellFormed(request[p])
             /\ chatState' = ChatStateAfter(request[p]) /\ role' = RolesAfter(request[p])
             /\ account' = AccountAfter(request[p])
<1>1. PICK p \in Requests :
        \/ AskCreate(p) \/ AskJoin(p) \/ AskUpdate(p) \/ AskArchive(p)
        \/ AskAdd(p) \/ AskChange(p) \/ AskRemove(p)
        \/ BeginHire(p) \/ BeginPublish(p) \/ BeginDelete(p) \/ BeginStatus(p)
        \/ Advance(p) \/ Cancel(p)
  BY DEF membersVars, MembersNext
<1>2. ASSUME NEW r, Begin(p, r) PROVE FALSE
  BY <1>2 DEF Begin
<1>3. ~Refuse(p) /\ \A step : ~Goto(p, step)
  BY DEF Refuse, Goto
<1>4. ~(\/ AskCreate(p) \/ AskJoin(p) \/ AskUpdate(p) \/ AskArchive(p)
        \/ AskAdd(p) \/ AskChange(p) \/ AskRemove(p)
        \/ BeginHire(p) \/ BeginPublish(p) \/ BeginDelete(p) \/ BeginStatus(p))
  BY <1>2, BeginForms
<1>5. Commit(p)
  BY <1>1, <1>3, <1>4 DEF Advance, ReadTarget, CountOwners, LockOrganization, Write, Record,
         CheckConstraints, AbortSerializable, BreakDeadlock, Cancel
<1> QED BY <1>5 DEF Commit, End, RequestsInv, MembersTypeOK

(* A chat that is not among those whose constraints are asserted keeps     *)
(* every active owner.                                                     *)
LEMMA UntouchedKeepsOwner ==
    ASSUME MembersTypeOK, NEW r \in Request, WellFormed(r), NEW c \in Chats, c \notin Touched(r),
           HasOwner(chatState, role, account, c)
    PROVE  HasOwner(ChatStateAfter(r), RolesAfter(r), AccountAfter(r), c)
<1> USE DEF MembersTypeOK
<1>1. ChatStateAfter(r)[c] = chatState[c]
  BY DEF Touched, ChatStateAfter, Commands
<1>2. ASSUME NEW a \in Actors, role[c][a] = "owner", account[a] = "active"
      PROVE  RolesAfter(r)[c][a] = "owner" /\ AccountAfter(r)[a] = "active"
  <2>1. CASE r.op \in Commands
    <3>1. c # r.chat
      BY <2>1 DEF Touched, Commands, MemberCommands
    <3> QED BY <1>2, <2>1, <3>1 DEF RolesAfter, AccountAfter, Commands, MemberCommands
  <2>2. CASE r.op \in {"hire", "publish"}
    <3>1. a # r.actor
      BY <1>2, <2>2 DEF Touched, Commands, MemberCommands
    <3> QED BY <1>2, <2>2, <3>1 DEF RolesAfter, AccountAfter, MemberCommands
  <2>3. CASE r.op = "delete"
    <3>1. a # r.actor
      BY <1>2, <2>3 DEF Touched, Commands, MemberCommands
    <3> QED BY <1>2, <2>3, <3>1 DEF RolesAfter, AccountAfter, MemberCommands
  <2>4. CASE r.op = "status"
    <3>1. a # r.actor
      BY <1>2, <2>4 DEF Touched, Commands, MemberCommands
    <3> QED BY <1>2, <2>4, <3>1 DEF RolesAfter, AccountAfter, MemberCommands
  <2>5. CASE r.op = "none"
    BY <1>2, <2>5 DEF RolesAfter, AccountAfter, MemberCommands
  <2>6. r.op \in Commands \cup {"hire", "publish", "delete", "status", "none"}
    BY DEF Request, AgentOps
  <2> QED BY <2>1, <2>2, <2>3, <2>4, <2>5, <2>6
<1> QED BY <1>1, <1>2 DEF HasOwner, ActiveOwners

LEMMA OwnerLostStep ==
    ASSUME RequestsInv, [MembersNext]_membersVars, NEW c \in Chats,
           HasOwner(chatState, role, account, c), ~HasOwner(chatState', role', account', c)
    PROVE  \E p \in Requests :
             /\ request[p].step = "checked" /\ request'[p] = Idle
             /\ since[p] # {}
             /\ request[p].op \in Commands => "free" \in since[p]
<1>1. ~UNCHANGED <<chatState, role, account>>
  BY DEF HasOwner, ActiveOwners
<1>2. PICK p \in Requests :
        /\ request[p].step = "checked" /\ request'[p] = Idle
        /\ request[p] \in Request /\ WellFormed(request[p])
        /\ chatState' = ChatStateAfter(request[p]) /\ role' = RolesAfter(request[p])
        /\ account' = AccountAfter(request[p])
  BY <1>1, TablesChangeByCommit
<1>3. c \in Touched(request[p])
  BY <1>2, UntouchedKeepsOwner DEF RequestsInv
<1>4. ~ConstraintsHold(request[p])
  BY <1>2, <1>3 DEF ConstraintsHold
<1>5. ~(IF request[p].op \in Commands THEN "free" \notin since[p] ELSE since[p] = {})
  BY <1>2, <1>4 DEF RequestsInv, AssertionKept
<1> QED BY <1>2, <1>5

(* A chat loses its last active owner only when a transaction commits      *)
(* between the assertion and the commit of another, and one of the two is  *)
(* not a chat command: the lock makes the deferred constraints enough for  *)
(* the commands.                                                           *)
THEOREM OwnerLostOnlyByOverlap == MembersSpec => OwnerLostByOverlap
<1>1. RequestsInv /\ [MembersNext]_membersVars =>
        [\A c \in Chats :
            /\ HasOwner(chatState, role, account, c)
            /\ ~HasOwner(chatState', role', account', c)
            => \E p \in Requests :
                 /\ request[p].step = "checked" /\ request'[p] = Idle
                 /\ since[p] # {}
                 /\ request[p].op \in Commands => "free" \in since[p]]_membersVars
  BY OwnerLostStep
<1> QED BY <1>1, RequestsInvariant, PTL DEF MembersSpec, OwnerLostByOverlap

LEMMA OwnershipStep ==
    ASSUME RequestsInv, [MembersNext]_membersVars, NEW c \in Chats, NEW a \in Actors,
           chatState[c] # "none", (role[c][a] = "owner") # (role'[c][a] = "owner")
    PROVE  \E p \in Requests : LET r == request[p] IN
             /\ r.step = "checked" /\ request'[p] = Idle
             /\ \/ r.op \in AgentOps /\ r.actor = a
                \/ r.op = "remove" /\ r.user = a
                \/ r.op \in Commands /\ role[c][r.user] = "owner"
<1>1. PICK p \in Requests :
        /\ request[p].step = "checked" /\ request'[p] = Idle
        /\ request[p] \in Request /\ WellFormed(request[p]) /\ role' = RolesAfter(request[p])
  BY TablesChangeByCommit
<1> DEFINE r == request[p]
<1>2. MembersTypeOK /\ Guarded(r) /\ (r.op = "create" => chatState[r.chat] = "none")
  BY DEF RequestsInv, GuardKept, ChatsFresh
<1>3. CASE r.op \notin Commands
  BY <1>1, <1>2, <1>3, NoOwnersOutsideCommands
<1>4. CASE r.op \in MemberCommands
  <2>1. RolesAfter(r) = [role EXCEPT ![r.chat][r.actor] = r.newRole]
    BY <1>4 DEF RolesAfter, MemberCommands
  <2>2. r.chat = c /\ r.actor = a
    BY <1>1, <1>2, <2>1 DEF MembersTypeOK
  <2>3. role'[c][a] = r.newRole
    BY <1>1, <1>2, <2>1, <2>2 DEF MembersTypeOK
  <2>4. AboutOwner(r)
    BY <2>2, <2>3 DEF AboutOwner
  <2> QED BY <1>1, <1>2, <1>4, <2>2, <2>4 DEF Guarded, Commands, Writing
<1>5. CASE r.op = "create"
  <2>1. r.chat # c
    BY <1>2, <1>5
  <2> QED BY <1>1, <1>2, <1>5, <2>1 DEF RolesAfter, MemberCommands, MembersTypeOK
<1>6. CASE r.op \in {"update", "archive"}
  BY <1>1, <1>6 DEF RolesAfter, MemberCommands
<1> QED BY <1>3, <1>4, <1>5, <1>6 DEF Commands

(* Ownership changes hands only by the act of an owner of the moment of    *)
(* the commit, by leaving, or with the publication or deletion of an agent,*)
(* although a command is refused or admitted by what it read before.       *)
THEOREM OwnershipOnlyByOwners == MembersSpec => OwnershipByOwners
<1>1. RequestsInv /\ [MembersNext]_membersVars =>
        [\A c \in Chats, a \in Actors :
            chatState[c] # "none" /\ ((role[c][a] = "owner") # (role'[c][a] = "owner"))
            => \E p \in Requests : LET r == request[p] IN
                 /\ r.step = "checked" /\ request'[p] = Idle
                 /\ \/ r.op \in AgentOps /\ r.actor = a
                    \/ r.op = "remove" /\ r.user = a
                    \/ r.op \in Commands /\ role[c][r.user] = "owner"]_membersVars
  BY OwnershipStep
<1> QED BY <1>1, RequestsInvariant, PTL DEF MembersSpec, OwnershipByOwners

LEMMA ArchiveStep ==
    ASSUME RequestsInv, [MembersNext]_membersVars, NEW c \in Chats,
           chatState[c] = "archived", role'[c] # role[c]
    PROVE  \E p \in Requests : LET r == request[p] IN
             /\ r.step = "checked" /\ request'[p] = Idle
             /\ r.op \in AgentOps \/ (r.op \in Commands /\ r.user \in Moderators)
<1>1. PICK p \in Requests :
        /\ request[p].step = "checked" /\ request'[p] = Idle
        /\ request[p] \in Request /\ WellFormed(request[p]) /\ role' = RolesAfter(request[p])
  BY TablesChangeByCommit
<1> DEFINE r == request[p]
<1>2. MembersTypeOK /\ Guarded(r) /\ (r.op = "create" => chatState[r.chat] = "none")
  BY DEF RequestsInv, GuardKept, ChatsFresh
<1>3. CASE r.op \in MemberCommands
  <2>1. RolesAfter(r) = [role EXCEPT ![r.chat][r.actor] = r.newRole]
    BY <1>3 DEF RolesAfter, MemberCommands
  <2>2. r.chat = c
    BY <1>1, <1>2, <2>1 DEF MembersTypeOK
  <2> QED BY <1>1, <1>2, <1>3, <2>2 DEF Guarded, Commands, Writing
<1>4. CASE r.op = "create"
  <2>1. r.chat # c
    BY <1>2, <1>4
  <2> QED BY <1>1, <1>2, <1>4, <2>1 DEF RolesAfter, MemberCommands, MembersTypeOK
<1>5. CASE r.op \in {"update", "archive", "status", "none"}
  BY <1>1, <1>5 DEF RolesAfter, MemberCommands
<1>6. CASE r.op \in AgentOps
  BY <1>1, <1>6
<1>7. r.op \in MemberCommands \cup {"create", "update", "archive", "status", "none"} \cup AgentOps
  BY <1>1 DEF Request, Commands
<1> QED BY <1>3, <1>4, <1>5, <1>6, <1>7

(* The members of an archived chat change by nobody but a moderator whose  *)
(* command was under way, or with an agent.                                *)
THEOREM ArchiveIsFrozen == MembersSpec => ArchiveFreezes
<1>1. RequestsInv /\ [MembersNext]_membersVars =>
        [\A c \in Chats :
            chatState[c] = "archived" /\ role'[c] # role[c]
            => \E p \in Requests : LET r == request[p] IN
                 /\ r.step = "checked" /\ request'[p] = Idle
                 /\ r.op \in AgentOps \/ (r.op \in Commands /\ r.user \in Moderators)]_membersVars
  BY ArchiveStep
<1> QED BY <1>1, RequestsInvariant, PTL DEF MembersSpec, ArchiveFreezes
-----------------------------------------------------------------------------
(* The commit of each kind of request is one of the changes of Roster.     *)
LEMMA CommitIsChange ==
    ASSUME NEW p \in Requests, MembersInv, Commit(p)
    PROVE  [Promised!Next]_<<chatState, public, role, account>>
<1> DEFINE r == request[p]
           u == r.user
           c == r.chat
           a == r.actor
<1>1. /\ MembersTypeOK /\ r \in Request /\ WellFormed(r) /\ r.step = "checked"
      /\ chatState' = ChatStateAfter(r) /\ public' = PublicAfter(r)
      /\ role' = RolesAfter(r) /\ account' = AccountAfter(r)
      /\ AccountSeen(r) /\ (r.op \in Commands => StillPermitted(r))
  BY CommitAfter
<1>2. Promised!Actors = Actors /\ Promised!Roles = Roles
  BY DEF Promised!Actors, Actors, Promised!Roles, Roles
<1>3. ASSUME r.op \in MemberCommands
      PROVE  /\ u \in Users /\ c \in Chats /\ a \in Actors /\ StillPermitted(r)
             /\ Promised!Assign(c, a, r.newRole)
  <2>1. /\ chatState' = chatState /\ public' = public /\ account' = account
        /\ role' = [role EXCEPT ![c] = [role[c] EXCEPT ![a] = r.newRole]]
    BY <1>1, <1>3 DEF ChatStateAfter, PublicAfter, RolesAfter, AccountAfter, MemberCommands
  <2> QED BY <1>1, <1>3, <2>1 DEF WellFormed, Commands, Promised!Assign
<1>4. ASSUME (Manages(r) /\ OwnersAct(r)) \/ Moderates(r), r.op \in MemberCommands
      PROVE  Promised!MayAssign(u, c, role[c][a], r.newRole)
  BY <1>3, <1>4 DEF Manages, OwnersAct, AboutOwner, Moderates, Promised!MayAssign,
                    Promised!Manages, Promised!IsOwner, Managers
<1>5. CASE r.op = "join"
  <2>1. /\ chatState[c] = "open" /\ c \in public /\ role[c][a] = "none" /\ a = u
        /\ r.newRole = "member"
    BY <1>1, <1>3, <1>5 DEF StillPermitted, AccountSeen, WellFormed, MemberCommands
  <2>2. Promised!Join(u, c)
    BY <1>3, <1>5, <2>1 DEF Promised!Join, Promised!IsMember, MemberCommands
  <2> QED BY <1>3, <1>5, <2>2 DEF Promised!Next, MemberCommands
<1>6. CASE r.op = "add"
  <2>1. role[c][a] = "none" /\ ((Manages(r) /\ OwnersAct(r)) \/ Moderates(r))
    BY <1>3, <1>6 DEF StillPermitted, MemberCommands
  <2>2. Promised!Add(u, c, a, r.newRole)
    BY <1>3, <1>4, <1>6, <2>1 DEF Promised!Add, Promised!IsMember, MemberCommands
  <2>3. r.newRole \in Roles
    BY <1>1, <1>6 DEF WellFormed
  <2> QED BY <1>2, <1>3, <1>6, <2>2, <2>3 DEF Promised!Next, MemberCommands
<1>7. CASE r.op = "change"
  <2>1. role[c][a] # "none" /\ ((Manages(r) /\ OwnersAct(r)) \/ Moderates(r))
    BY <1>3, <1>7 DEF StillPermitted, MemberCommands
  <2>2. Promised!Change(u, c, a, r.newRole)
    BY <1>3, <1>4, <1>7, <2>1 DEF Promised!Change, Promised!IsMember, MemberCommands
  <2>3. r.newRole \in Roles
    BY <1>1, <1>7 DEF WellFormed
  <2> QED BY <1>2, <1>3, <1>7, <2>2, <2>3 DEF Promised!Next, MemberCommands
<1>8. CASE r.op = "remove"
  <2>1. /\ role[c][a] # "none" /\ r.newRole = "none"
        /\ \/ chatState[c] = "open" /\ a = u
           \/ (Manages(r) /\ OwnersAct(r)) \/ Moderates(r)
    BY <1>1, <1>3, <1>8 DEF StillPermitted, WellFormed, MemberCommands
  <2>2. Promised!Leave(u, c) \/ Promised!Remove(u, c, a)
    BY <1>3, <1>4, <1>8, <2>1 DEF Promised!Leave, Promised!Remove, Promised!IsMember,
                                  MemberCommands
  <2> QED BY <1>2, <1>3, <1>8, <2>2 DEF Promised!Next, MemberCommands
<1>9. CASE r.op = "create"
  <2>1. u \in Users /\ c \in Chats /\ chatState[c] = "none" /\ r.actors \subseteq Actors
    BY <1>1, <1>9 DEF WellFormed, Commands, MembersInv, RequestsInv, ChatsFresh, Request
  <2>2. /\ chatState' = [chatState EXCEPT ![c] = "open"] /\ account' = account
        /\ public' \in {public \cup {c}, public \ {c}}
    BY <1>1, <1>9 DEF ChatStateAfter, PublicAfter, AccountAfter
  <2>3. role' = [role EXCEPT ![c] = [b \in Actors |->
                   IF b = u THEN "owner" ELSE IF b \in r.actors \ {u} THEN "member" ELSE "none"]]
    <3>1. role' = [role EXCEPT ![c] = [b \in Actors |->
                     IF b = u THEN "owner" ELSE IF b \in r.actors THEN "member" ELSE "none"]]
      BY <1>1, <1>9 DEF RolesAfter, MemberCommands
    <3>2. [b \in Actors |->
             IF b = u THEN "owner" ELSE IF b \in r.actors THEN "member" ELSE "none"]
          = [b \in Actors |->
             IF b = u THEN "owner" ELSE IF b \in r.actors \ {u} THEN "member" ELSE "none"]
      OBVIOUS
    <3> QED BY <3>1, <3>2
  <2>4. r.actors \ {u} \in SUBSET (Actors \ {u})
    BY <2>1
  <2>5. Promised!Create(u, c)
    BY <1>2, <2>1, <2>2, <2>3, <2>4 DEF Promised!Create
  <2> QED BY <2>1, <2>5 DEF Promised!Next
<1>10. CASE r.op = "update"
  <2>1. u \in Users /\ c \in Chats /\ Manages(r)
    BY <1>1, <1>10 DEF WellFormed, Commands, StillPermitted
  <2>2. /\ chatState' = chatState /\ role' = role /\ account' = account
        /\ public' \in {public \cup {c}, public \ {c}}
    BY <1>1, <1>10 DEF ChatStateAfter, PublicAfter, AccountAfter, RolesAfter, MemberCommands
  <2>3. Promised!SetVisibility(u, c)
    BY <2>1, <2>2 DEF Promised!SetVisibility, Promised!Manages, Manages, Managers
  <2> QED BY <2>1, <2>3 DEF Promised!Next
<1>11. CASE r.op = "archive"
  <2>1. /\ u \in Users /\ c \in Chats
        /\ chatState[c] = "open" /\ (u \in Moderators \/ Manages(r))
    BY <1>1, <1>11 DEF WellFormed, Commands, StillPermitted
  <2>2. /\ chatState' = [chatState EXCEPT ![c] = "archived"] /\ role' = role
        /\ account' = account /\ public' = public
    BY <1>1, <1>11 DEF ChatStateAfter, PublicAfter, AccountAfter, RolesAfter, MemberCommands
  <2>3. Promised!Archive(u, c)
    BY <2>1, <2>2 DEF Promised!Archive, Promised!Manages, Manages, Managers
  <2> QED BY <2>1, <2>3 DEF Promised!Next
<1>12. CASE r.op \in AgentOps
  <2>1. a \in Agents /\ r.chats \in SUBSET Chats
    BY <1>1, <1>12 DEF WellFormed, Request
  <2>2. chatState' = chatState /\ public' = public
    BY <1>1, <1>12 DEF ChatStateAfter, PublicAfter, AgentOps
  <2>3. r.op \in {"hire", "publish"} => Promised!MemberOnlyOf(a, r.chats)
    BY <1>1 DEF RolesAfter, Promised!MemberOnlyOf, MemberCommands
  <2>4. r.op = "hire" => Promised!Hire(a)
    BY <1>1, <2>1, <2>2, <2>3 DEF AccountSeen, AccountAfter, Promised!Hire
  <2>5. r.op = "publish" => Promised!Publish(a)
    BY <1>1, <2>1, <2>2, <2>3 DEF AccountSeen, AccountAfter, Promised!Publish
  <2>6. r.op = "delete" => Promised!Delete(a)
    BY <1>1, <2>1, <2>2 DEF AccountSeen, AccountAfter, RolesAfter, MemberCommands,
                            Promised!Delete
  <2> QED BY <1>12, <2>1, <2>4, <2>5, <2>6 DEF Promised!Next, AgentOps
<1>13. CASE r.op = "status"
  <2>1. /\ a \in Actors /\ r.state \in {"active", "deactivated"} /\ a \notin OrgOwners
        /\ account[a] \in {"active", "deactivated"} /\ account[a] # r.state
    BY <1>1, <1>13 DEF WellFormed, AccountSeen
  <2>2. /\ chatState' = chatState /\ public' = public /\ role' = role
        /\ account' = [account EXCEPT ![a] = r.state]
    BY <1>1, <1>13 DEF ChatStateAfter, PublicAfter, RolesAfter, AccountAfter, MemberCommands
  <2>3. \/ account[a] = "active" /\ r.state = "deactivated"
        \/ account[a] = "deactivated" /\ r.state = "active"
    BY <2>1
  <2>4. Promised!Switch(a)
    <3>1. CASE account[a] = "active" /\ r.state = "deactivated"
      <4>1. account' = [account EXCEPT ![a] = "deactivated"]
        BY <2>2, <3>1
      <4> QED BY <2>1, <2>2, <3>1, <4>1 DEF Promised!Switch
    <3>2. CASE account[a] = "deactivated" /\ r.state = "active"
      <4>1. account' = [account EXCEPT ![a] = "active"]
        BY <2>2, <3>2
      <4> QED BY <2>1, <2>2, <3>2, <4>1 DEF Promised!Switch
    <3> QED BY <2>3, <3>1, <3>2
  <2> QED BY <1>2, <2>1, <2>4 DEF Promised!Next
<1>14. r.op # "none"
  BY <1>1 DEF WellFormed, Idle
<1> QED BY <1>1, <1>5, <1>6, <1>7, <1>8, <1>9, <1>10, <1>11, <1>12, <1>13, <1>14
        DEF Request, Commands, MemberCommands

LEMMA RosterInit == MembersInit => Promised!Init
BY DEF MembersInit, Promised!Init, Promised!Actors, Actors

LEMMA RosterStep ==
    ASSUME MembersInv, [MembersNext]_membersVars
    PROVE  [Promised!Next]_<<chatState, public, role, account>>
<1>1. CASE UNCHANGED <<chatState, public, role, account>>
  BY <1>1
<1>2. CASE ~UNCHANGED <<chatState, public, role, account>>
  <2>1. PICK p \in Requests : Commit(p)
    BY <1>2, TablesChangeByCommit DEF MembersInv
  <2> QED BY <2>1, CommitIsChange
<1> QED BY <1>1, <1>2

(* The chats keep what Roster promises: however requests overlap, every    *)
(* commit is one change that the roles, the state and the visibility of    *)
(* its own moment permit, though most of what permits it was read before.  *)
THEOREM RosterRefined == MembersSpec => RosterKept
<1>1. MembersInit => Promised!Init
  BY RosterInit
<1>2. MembersInv /\ [MembersNext]_membersVars
      => [Promised!Next]_<<chatState, public, role, account>>
  BY RosterStep
<1> QED BY <1>1, <1>2, MembersInvariant, PTL
        DEF MembersSpec, RosterKept, Promised!Spec, Promised!rosterVars

-----------------------------------------------------------------------------
(* What Roster alone implies.                                              *)
RosterTypeOK ==
    /\ chatState \in [Chats -> {"none", "open", "archived"}]
    /\ role \in [Chats -> [Actors -> Roles \cup {"none"}]]
    /\ account \in [Actors -> {"absent", "active", "deactivated", "deleted"}]

Finality(c) ==
    /\ chatState[c] # "none" => chatState'[c] # "none"
    /\ chatState[c] = "archived"
       => chatState'[c] = "archived" /\ Promised!Owners(c)' = Promised!Owners(c)
    /\ chatState[c] # "none" /\ Promised!Owners(c) = {} => Promised!Owners(c)' = {}
DeletionFinal == \A a \in Actors : account[a] = "deleted" => account'[a] = "deleted"

(* A change that leaves the owners of a chat among the users as they are.  *)
LEMMA OwnersAlone ==
    ASSUME NEW d \in Chats, \A u \in Users : role'[d][u] = role[d][u],
           \/ chatState'[d] = chatState[d]
           \/ chatState[d] = "open" /\ chatState'[d] = "archived"
    PROVE  Finality(d)
<1>1. Promised!Owners(d)' = Promised!Owners(d)
  BY DEF Promised!Owners
<1> QED BY <1>1 DEF Finality

LEMMA AssignIsFinal ==
    ASSUME RosterTypeOK, NEW u \in Users, NEW c \in Chats, NEW a \in Actors,
           NEW new \in Roles \cup {"none"}, Promised!Assign(c, a, new),
           \/ Promised!MayAssign(u, c, role[c][a], new)
           \/ chatState[c] = "open" /\ new # "owner"
    PROVE  RosterTypeOK' /\ DeletionFinal /\ \A d \in Chats : Finality(d)
<1>1. /\ role' = [role EXCEPT ![c] = [role[c] EXCEPT ![a] = new]]
      /\ chatState' = chatState /\ account' = account
  BY DEF Promised!Assign
<1>2. role'[c] = [role[c] EXCEPT ![a] = new] /\ \A d \in Chats \ {c} : role'[d] = role[d]
  BY <1>1 DEF RosterTypeOK
<1>3. RosterTypeOK'
  BY <1>1 DEF RosterTypeOK
<1>4. /\ Promised!Owners(c) = {w \in Users : role[c][w] = "owner"}
      /\ Promised!Owners(c)' = {w \in Users : role'[c][w] = "owner"}
  BY DEF Promised!Owners
<1>5. \A w \in Actors : role'[c][w] = IF w = a THEN new ELSE role[c][w]
  BY <1>2 DEF RosterTypeOK
<1>6. Users \subseteq Actors
  BY DEF Actors
<1>7. Finality(c)
  <2>1. chatState[c] = "archived" => "owner" \notin {role[c][a], new}
    BY DEF Promised!MayAssign, Promised!Manages
  <2>2. new = "owner" => u \in Promised!Owners(c)
    BY <1>4 DEF Promised!MayAssign, Promised!IsOwner
  <2>3. ASSUME chatState[c] = "archived"
        PROVE  Promised!Owners(c)' = Promised!Owners(c)
    <3>1. \A w \in Users : role'[c][w] = "owner" <=> role[c][w] = "owner"
      BY <1>5, <1>6, <2>1, <2>3
    <3> QED BY <1>4, <3>1
  <2>4. Promised!Owners(c) = {} => Promised!Owners(c)' = {}
    BY <1>4, <1>5, <1>6, <2>2
  <2> QED BY <1>1, <2>3, <2>4 DEF Finality
<1>8. \A d \in Chats \ {c} : Finality(d)
  BY <1>1, <1>2, OwnersAlone
<1> QED BY <1>1, <1>3, <1>7, <1>8 DEF DeletionFinal

LEMMA RosterIsFinal ==
    ASSUME RosterTypeOK, Promised!Next
    PROVE  RosterTypeOK' /\ DeletionFinal /\ \A d \in Chats : Finality(d)
<1>1. Promised!Actors = Actors /\ Promised!Roles = Roles /\ Users \subseteq Actors
      /\ Agents \subseteq Actors /\ Agents \cap Users = {} /\ "member" \in Roles
  BY MembersAssumption DEF Promised!Actors, Actors, Promised!Roles, Roles
<1>2. ASSUME NEW u \in Users, NEW c \in Chats, Promised!Create(u, c)
      PROVE  RosterTypeOK' /\ DeletionFinal /\ \A d \in Chats : Finality(d)
  <2>1. PICK members \in SUBSET (Actors \ {u}) :
          role' = [role EXCEPT ![c] = [a \in Actors |->
              IF a = u THEN "owner" ELSE IF a \in members THEN "member" ELSE "none"]]
    BY <1>1, <1>2 DEF Promised!Create
  <2>2. /\ chatState[c] = "none" /\ chatState' = [chatState EXCEPT ![c] = "open"]
        /\ account' = account
    BY <1>2 DEF Promised!Create
  <2>3. RosterTypeOK' /\ DeletionFinal
    BY <2>1, <2>2 DEF RosterTypeOK, Roles, DeletionFinal
  <2>4. \A d \in Chats \ {c} : chatState'[d] = chatState[d] /\ role'[d] = role[d]
    BY <2>1, <2>2 DEF RosterTypeOK
  <2>5. \A d \in Chats \ {c} : Finality(d)
    BY <2>4, OwnersAlone
  <2>6. Finality(c)
    BY <2>2 DEF Finality
  <2> QED BY <2>3, <2>5, <2>6
<1>3. ASSUME NEW u \in Users, NEW c \in Chats,
             Promised!SetVisibility(u, c) \/ Promised!Archive(u, c)
      PROVE  RosterTypeOK' /\ DeletionFinal /\ \A d \in Chats : Finality(d)
  <2>1. /\ role' = role /\ account' = account
        /\ \/ chatState' = chatState
           \/ chatState[c] = "open" /\ chatState' = [chatState EXCEPT ![c] = "archived"]
    BY <1>3 DEF Promised!SetVisibility, Promised!Archive
  <2>2. RosterTypeOK' /\ DeletionFinal
    BY <2>1 DEF RosterTypeOK, DeletionFinal
  <2>3. ASSUME NEW d \in Chats
        PROVE  \/ chatState'[d] = chatState[d]
               \/ chatState[d] = "open" /\ chatState'[d] = "archived"
    <3>1. CASE d = c
      BY <2>1, <3>1 DEF RosterTypeOK
    <3>2. CASE d # c
      BY <2>1, <3>2 DEF RosterTypeOK
    <3> QED BY <3>1, <3>2
  <2> QED BY <2>1, <2>2, <2>3, OwnersAlone
<1>4. ASSUME NEW u \in Users, NEW c \in Chats, Promised!Join(u, c) \/ Promised!Leave(u, c)
      PROVE  RosterTypeOK' /\ DeletionFinal /\ \A d \in Chats : Finality(d)
  <2>1. PICK new \in {"member", "none"} : Promised!Assign(c, u, new) /\ chatState[c] = "open"
    BY <1>4 DEF Promised!Join, Promised!Leave
  <2>2. new \in Roles \cup {"none"} /\ new # "owner"
    BY <1>1, <2>1
  <2> QED BY <1>1, <2>1, <2>2, AssignIsFinal
<1>5. ASSUME NEW u \in Users, NEW c \in Chats, NEW a \in Actors, NEW new \in Roles,
             Promised!Add(u, c, a, new) \/ Promised!Change(u, c, a, new)
      PROVE  RosterTypeOK' /\ DeletionFinal /\ \A d \in Chats : Finality(d)
  <2>1. Promised!MayAssign(u, c, role[c][a], new) /\ Promised!Assign(c, a, new)
    BY <1>5 DEF Promised!Add, Promised!Change, Promised!IsMember
  <2> QED BY <2>1, AssignIsFinal
<1>6. ASSUME NEW u \in Users, NEW c \in Chats, NEW a \in Actors, Promised!Remove(u, c, a)
      PROVE  RosterTypeOK' /\ DeletionFinal /\ \A d \in Chats : Finality(d)
  <2>1. Promised!MayAssign(u, c, role[c][a], "none") /\ Promised!Assign(c, a, "none")
    BY <1>6 DEF Promised!Remove
  <2> QED BY <2>1, AssignIsFinal
<1>7. ASSUME NEW b \in Agents, Promised!Hire(b) \/ Promised!Publish(b) \/ Promised!Delete(b)
      PROVE  RosterTypeOK' /\ DeletionFinal /\ \A d \in Chats : Finality(d)
  <2>1. chatState' = chatState
    BY <1>7 DEF Promised!Hire, Promised!Publish, Promised!Delete
  <2>2. \E chats \in SUBSET Chats :
          \/ role' = [c \in Chats |->
                         [role[c] EXCEPT ![b] = IF c \in chats THEN "member" ELSE "none"]]
          \/ role' = [c \in Chats |-> [role[c] EXCEPT ![b] = IF c \in chats THEN "none" ELSE @]]
    BY <1>7 DEF Promised!Hire, Promised!Publish, Promised!Delete, Promised!MemberOnlyOf
  <2>3. \E new \in [Chats -> Roles \cup {"none"}] :
          role' = [c \in Chats |-> [role[c] EXCEPT ![b] = new[c]]]
    <3>1. PICK chats \in SUBSET Chats :
          \/ role' = [c \in Chats |->
                         [role[c] EXCEPT ![b] = IF c \in chats THEN "member" ELSE "none"]]
          \/ role' = [c \in Chats |-> [role[c] EXCEPT ![b] = IF c \in chats THEN "none" ELSE @]]
      BY <2>2
    <3>2. CASE role' = [c \in Chats |->
                         [role[c] EXCEPT ![b] = IF c \in chats THEN "member" ELSE "none"]]
      <4> DEFINE new == [c \in Chats |-> IF c \in chats THEN "member" ELSE "none"]
      <4>1. new \in [Chats -> Roles \cup {"none"}]
        BY <1>1
      <4>2. role' = [c \in Chats |-> [role[c] EXCEPT ![b] = new[c]]]
        BY <3>2
      <4> QED BY <4>1, <4>2
    <3>3. CASE role' = [c \in Chats |-> [role[c] EXCEPT ![b] = IF c \in chats THEN "none" ELSE @]]
      <4> DEFINE new == [c \in Chats |-> IF c \in chats THEN "none" ELSE role[c][b]]
      <4>1. new \in [Chats -> Roles \cup {"none"}]
        BY <1>1 DEF RosterTypeOK
      <4>2. role' = [c \in Chats |-> [role[c] EXCEPT ![b] = new[c]]]
        BY <3>3
      <4> QED BY <4>1, <4>2
    <3> QED BY <3>1, <3>2, <3>3
  <2>4. /\ role' \in [Chats -> [Actors -> Roles \cup {"none"}]]
        /\ \A d \in Chats, u \in Users : role'[d][u] = role[d][u]
    BY <1>1, <2>3 DEF RosterTypeOK
  <2>5. account' \in [Actors -> {"absent", "active", "deactivated", "deleted"}] /\ DeletionFinal
    <3>1. CASE account' = account
      BY <3>1 DEF RosterTypeOK, DeletionFinal
    <3>2. CASE account[b] = "absent" /\ account' = [account EXCEPT ![b] = "active"]
      BY <1>1, <3>2 DEF RosterTypeOK, DeletionFinal
    <3>3. CASE account' = [account EXCEPT ![b] = "deleted"]
      BY <1>1, <3>3 DEF RosterTypeOK, DeletionFinal
    <3> QED BY <1>7, <3>1, <3>2, <3>3 DEF Promised!Hire, Promised!Publish, Promised!Delete
  <2>6. \A d \in Chats : Finality(d)
    BY <2>1, <2>4, OwnersAlone
  <2> QED BY <2>1, <2>4, <2>5, <2>6 DEF RosterTypeOK
<1>8. ASSUME NEW a \in Actors, Promised!Switch(a)
      PROVE  RosterTypeOK' /\ DeletionFinal /\ \A d \in Chats : Finality(d)
  <2>1. chatState' = chatState /\ role' = role
    BY <1>8 DEF Promised!Switch
  <2>2. account' \in [Actors -> {"absent", "active", "deactivated", "deleted"}] /\ DeletionFinal
    <3>1. CASE account[a] = "active" /\ account' = [account EXCEPT ![a] = "deactivated"]
      BY <3>1 DEF RosterTypeOK, DeletionFinal
    <3>2. CASE account[a] = "deactivated" /\ account' = [account EXCEPT ![a] = "active"]
      BY <3>2 DEF RosterTypeOK, DeletionFinal
    <3> QED BY <1>8, <3>1, <3>2 DEF Promised!Switch
  <2> QED BY <2>1, <2>2, OwnersAlone DEF RosterTypeOK
<1> QED BY <1>1, <1>2, <1>3, <1>4, <1>5, <1>6, <1>7, <1>8 DEF Promised!Next

(* Whatever is requested and in whatever order, archiving is final and     *)
(* freezes the owners among the users, a chat whose last owner is gone     *)
(* never has one again - no moderator can appoint one - and a deleted      *)
(* agent stays deleted: the promise of Roster alone implies it.            *)
THEOREM LastWordKept == MembersSpec => Promised!LastWord
<1>1. Promised!Init => RosterTypeOK
  BY DEF Promised!Init, RosterTypeOK, Promised!Actors, Actors
<1>2. RosterTypeOK /\ [Promised!Next]_<<chatState, public, role, account>>
      => RosterTypeOK' /\ [DeletionFinal /\ \A d \in Chats : Finality(d)]_<<chatState, public, role, account>>
  BY RosterIsFinal DEF RosterTypeOK
<1>3. [DeletionFinal /\ \A d \in Chats : Finality(d)]_<<chatState, public, role, account>>
      => [/\ \A c \in Chats :
               /\ chatState[c] # "none" => chatState'[c] # "none"
               /\ chatState[c] = "archived"
                  => chatState'[c] = "archived" /\ Promised!Owners(c)' = Promised!Owners(c)
               /\ chatState[c] # "none" /\ Promised!Owners(c) = {} => Promised!Owners(c)' = {}
          /\ \A a \in Promised!Actors : account[a] = "deleted" => account'[a] = "deleted"]_<<chatState, public, role, account>>
  BY DEF DeletionFinal, Finality, Promised!Actors, Actors
<1> QED BY <1>1, <1>2, <1>3, RosterRefined, PTL
        DEF RosterKept, Promised!Spec, Promised!rosterVars, Promised!LastWord

=============================================================================

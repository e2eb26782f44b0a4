-------------------------------- MODULE Roster --------------------------------
(***************************************************************************)
(* What the chats promise about their members, whatever overlaps: a        *)
(* command is one change of one chat, permitted by the roles, the state    *)
(* and the visibility of the moment it is made in, and an account changes  *)
(* from what it is.  Requests, early reads, locks and constraints are not  *)
(* part of it.  ChatMembers implements this.                               *)
(***************************************************************************)
CONSTANTS Users, Agents, Chats, Moderators, OrgOwners

VARIABLES chatState, public, role, account

rosterVars == <<chatState, public, role, account>>

Actors == Users \cup Agents
Roles == {"owner", "admin", "member"}

Init ==
    /\ chatState = [c \in Chats |-> "none"] /\ public = {}
    /\ role = [c \in Chats |-> [a \in Actors |-> "none"]]
    /\ account = [a \in Actors |-> IF a \in Users THEN "active" ELSE "absent"]

IsMember(a, c) == role[c][a] # "none"
IsOwner(a, c) == role[c][a] = "owner"
Manages(u, c) == chatState[c] = "open" /\ role[c][u] \in {"owner", "admin"}

(* Owners are made and unmade by owners; moderators need no membership,    *)
(* and no open chat, but have no say about owners.                         *)
MayAssign(u, c, old, new) ==
    \/ Manages(u, c) /\ ("owner" \in {old, new} => IsOwner(u, c))
    \/ u \in Moderators /\ "owner" \notin {old, new}

Assign(c, a, new) ==
    /\ role' = [role EXCEPT ![c] = [role[c] EXCEPT ![a] = new]]
    /\ UNCHANGED <<chatState, public, account>>

-----------------------------------------------------------------------------
Create(u, c) ==
    /\ chatState[c] = "none"
    /\ chatState' = [chatState EXCEPT ![c] = "open"]
    /\ \E members \in SUBSET (Actors \ {u}) :
          role' = [role EXCEPT ![c] = [a \in Actors |->
              IF a = u THEN "owner" ELSE IF a \in members THEN "member" ELSE "none"]]
    /\ public' \in {public \cup {c}, public \ {c}}
    /\ UNCHANGED account

SetVisibility(u, c) ==
    /\ Manages(u, c)
    /\ public' \in {public \cup {c}, public \ {c}}
    /\ UNCHANGED <<chatState, role, account>>

Archive(u, c) ==
    /\ chatState[c] = "open" /\ (u \in Moderators \/ Manages(u, c))
    /\ chatState' = [chatState EXCEPT ![c] = "archived"]
    /\ UNCHANGED <<public, role, account>>

Join(u, c) ==
    /\ chatState[c] = "open" /\ c \in public /\ ~IsMember(u, c)
    /\ Assign(c, u, "member")

Leave(u, c) ==
    /\ chatState[c] = "open" /\ IsMember(u, c)
    /\ Assign(c, u, "none")

Add(u, c, a, new) ==
    /\ ~IsMember(a, c) /\ MayAssign(u, c, "none", new)
    /\ Assign(c, a, new)

Change(u, c, a, new) ==
    /\ IsMember(a, c) /\ MayAssign(u, c, role[c][a], new)
    /\ Assign(c, a, new)

Remove(u, c, a) ==
    /\ IsMember(a, c) /\ MayAssign(u, c, role[c][a], "none")
    /\ Assign(c, a, "none")

-----------------------------------------------------------------------------
(* Agents are members by their recipe, and never more than members by it.  *)
MemberOnlyOf(b, chats) ==
    role' = [c \in Chats |->
                [role[c] EXCEPT ![b] = IF c \in chats THEN "member" ELSE "none"]]

Hire(b) ==
    /\ account[b] = "absent"
    /\ account' = [account EXCEPT ![b] = "active"]
    /\ \E chats \in SUBSET Chats : MemberOnlyOf(b, chats)
    /\ UNCHANGED <<chatState, public>>

Publish(b) ==
    /\ account[b] \in {"active", "deactivated"}
    /\ \E chats \in SUBSET Chats : MemberOnlyOf(b, chats)
    /\ UNCHANGED <<chatState, public, account>>

Delete(b) ==
    /\ account[b] \in {"active", "deactivated"}
    /\ account' = [account EXCEPT ![b] = "deleted"]
    /\ \E chats \in SUBSET Chats :
          role' = [c \in Chats |-> [role[c] EXCEPT ![b] = IF c \in chats THEN "none" ELSE @]]
    /\ UNCHANGED <<chatState, public>>

Switch(a) ==
    /\ a \notin OrgOwners
    /\ \/ account[a] = "active" /\ account' = [account EXCEPT ![a] = "deactivated"]
       \/ account[a] = "deactivated" /\ account' = [account EXCEPT ![a] = "active"]
    /\ UNCHANGED <<chatState, public, role>>

Next ==
    \/ \E u \in Users, c \in Chats :
         \/ Create(u, c) \/ SetVisibility(u, c) \/ Archive(u, c) \/ Join(u, c) \/ Leave(u, c)
         \/ \E a \in Actors, new \in Roles : Add(u, c, a, new) \/ Change(u, c, a, new)
         \/ \E a \in Actors : Remove(u, c, a)
    \/ \E b \in Agents : Hire(b) \/ Publish(b) \/ Delete(b)
    \/ \E a \in Actors : Switch(a)

Spec == Init /\ [][Next]_rosterVars

-----------------------------------------------------------------------------
(* What follows from the promise alone.  An archived chat stays archived   *)
(* and keeps its owners among the users; a chat without an owner among     *)
(* them never gets one, whatever moderators do; nobody comes back from     *)
(* being deleted.                                                          *)
Owners(c) == {u \in Users : role[c][u] = "owner"}
LastWord ==
    [][/\ \A c \in Chats :
            /\ chatState[c] # "none" => chatState'[c] # "none"
            /\ chatState[c] = "archived" => chatState'[c] = "archived" /\ Owners(c)' = Owners(c)
            /\ chatState[c] # "none" /\ Owners(c) = {} => Owners(c)' = {}
       /\ \A a \in Actors : account[a] = "deleted" => account'[a] = "deleted"]_rosterVars
===============================================================================

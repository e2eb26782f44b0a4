------------------------------ MODULE Session ------------------------------
(***************************************************************************)
(* One sign-in of a browser: the family of sessions on the server, the     *)
(* refresh cookie all tabs share, and in every tab the access token, the   *)
(* BrowserSessionCoordinator, one API request and the realtime socket.     *)
(*                                                                         *)
(* Sessions of the family are numbered in the order they are issued; an    *)
(* access token, and a refresh token, is the number of its session, 0 is   *)
(* none.  A refresh answers with a new session and revokes the old one; a  *)
(* revoked one that is presented again revokes the whole family.  Signing  *)
(* in again starts another family and is not modelled.                     *)
(***************************************************************************)
EXTENDS Naturals, Sequences, FiniteSets

CONSTANTS
    Pages,
    Locks,       \* TRUE iff the browser has navigator.locks
    MaxSession,  \* bound on the sessions issued
    MaxMishaps   \* bound on lost answers and ended sessions together

ASSUME SessionAssumption ==
    /\ Locks \in BOOLEAN /\ MaxSession \in Nat \ {0} /\ MaxMishaps \in Nat

VARIABLES
    issued,      \* sessions issued so far
    revoked,     \* revoked_at IS NOT NULL
    lapsed,      \* those not revoked whose access token is past its end
    reused,      \* history: a revoked refresh token was presented
    cookie,      \* refresh token in the cookie jar
    token,       \* accessToken of a tab
    shared,      \* latestTokens of a tab's coordinator
    advanced,    \* revision > observedRevision
    mail,        \* mail[s][t]: broadcasts of s that t has not received
    screen,      \* tabs that show the messenger
    waiting,     \* the queue of the lock "coma-refresh-token"
    step,        \* where refresh() of a tab is
    carries,     \* refresh token of its request, then the session it got
    request,     \* "sent", "again" (the retry), "held" by a refresh,
                 \* "let" is a logout that was authenticated
    sentWith,    \* access token it was sent with; any answer ends the retry
    socket,      \* access token of the socket, 0 when closed
    socketWants, \* what the socket waits for a refresh for
    mishaps

serverVars == <<issued, revoked, lapsed, reused>>
memoryVars == <<token, shared, advanced, mail, screen>>
lockVars == <<waiting, step, carries>>
requestVars == <<request, sentWith>>
socketVars == <<socket, socketWants>>
sessionVars == <<serverVars, cookie, memoryVars, lockVars, requestVars, socketVars,
                 mishaps>>

Sessions == 1..MaxSession
SessionOrNone == 0..MaxSession
Logout == 0  \* what a broadcast carries instead of a session

SessionTypeOK ==
    /\ issued \in Sessions /\ revoked \subseteq 1..issued
    /\ lapsed \subseteq (1..issued) \ revoked
    /\ cookie \in 0..issued /\ reused \in BOOLEAN
    /\ token \in [Pages -> 0..issued] /\ shared \in [Pages -> 0..issued]
    /\ advanced \in [Pages -> BOOLEAN]
    /\ mail \in [Pages -> [Pages -> Seq(0..issued)]]
    /\ screen \subseteq Pages
    /\ waiting \in Seq(Pages)
    /\ step \in [Pages -> {"idle", "wait", "check", "ask", "answered", "denied"}]
    /\ carries \in [Pages -> 0..issued]
    /\ request \in [Pages -> {"none", "sent", "again", "held", "let"}]
    /\ sentWith \in [Pages -> 0..issued]
    /\ socket \in [Pages -> 0..issued]
    /\ socketWants \in [Pages -> {"nothing", "reauthenticate", "connect"}]
    /\ mishaps \in 0..MaxMishaps

SessionInit ==
    /\ issued = 1 /\ revoked = {} /\ lapsed = {} /\ reused = FALSE /\ cookie = 1
    /\ token = [t \in Pages |-> 1] /\ shared = [t \in Pages |-> 1]
    /\ advanced = [t \in Pages |-> FALSE]
    /\ mail = [s \in Pages |-> [t \in Pages |-> <<>>]]
    /\ screen = Pages
    /\ waiting = <<>>
    /\ step = [t \in Pages |-> "idle"] /\ carries = [t \in Pages |-> 0]
    /\ request = [t \in Pages |-> "none"] /\ sentWith = [t \in Pages |-> 0]
    /\ socket = [t \in Pages |-> 1]
    /\ socketWants = [t \in Pages |-> "nothing"]
    /\ mishaps = 0

Live == (1..issued) \ revoked
Accepted(s) == s \in Live \ lapsed
Mishap == mishaps < MaxMishaps /\ mishaps' = mishaps + 1

-----------------------------------------------------------------------------
(* receive: the coordinator of t and its listener take a message in.       *)
Received(t, message) ==
    /\ token' = [token EXCEPT ![t] = message]
    /\ shared' = [shared EXCEPT ![t] = message]
    /\ advanced' = [advanced EXCEPT ![t] = @ \/ message # Logout]
    /\ screen' = IF message = Logout THEN screen \ {t} ELSE screen \cup {t}

Broadcast(t, message) ==
    /\ Received(t, message)
    /\ mail' = [mail EXCEPT ![t] = [u \in Pages |->
           IF u = t THEN <<>> ELSE Append(mail[t][u], message)]]

BroadcastArrives(s, t) ==
    /\ mail[s][t] # <<>>
    /\ Received(t, Head(mail[s][t]))
    /\ mail' = [mail EXCEPT ![s][t] = Tail(@)]
    /\ UNCHANGED <<serverVars, cookie, lockVars, requestVars, socketVars, mishaps>>

(* refresh(): one at a time in a tab; who asks meanwhile waits with it.    *)
RefreshAsked(t) ==
    IF step[t] # "idle"
    THEN UNCHANGED <<lockVars, advanced>>
    ELSE /\ step' = [step EXCEPT ![t] = IF Locks THEN "wait" ELSE "check"]
         /\ waiting' = IF Locks THEN Append(waiting, t) ELSE waiting
         /\ advanced' = [advanced EXCEPT ![t] = FALSE]
         /\ UNCHANGED carries

GrantedToAll(t) ==
    /\ step[t] = "wait"
    /\ step' = [step EXCEPT ![t] = "check"]
    /\ UNCHANGED <<serverVars, cookie, memoryVars, waiting, carries, requestVars,
                   socketVars, mishaps>>

LockGranted(t) ==
    /\ step[t] = "wait" /\ waiting # <<>> /\ Head(waiting) = t
    /\ step' = [step EXCEPT ![t] = "check"]
    /\ UNCHANGED <<serverVars, cookie, memoryVars, waiting, carries, requestVars,
                   socketVars, mishaps>>

OverButLocked(t) ==
    /\ step' = [step EXCEPT ![t] = "idle"]
    /\ carries' = [carries EXCEPT ![t] = 0]
    /\ socketWants' = [socketWants EXCEPT ![t] = "nothing"]
    /\ UNCHANGED waiting

RefreshOver(t) ==
    /\ step' = [step EXCEPT ![t] = "idle"]
    /\ waiting' = IF Locks THEN Tail(waiting) ELSE waiting
    /\ carries' = [carries EXCEPT ![t] = 0]
    /\ socketWants' = [socketWants EXCEPT ![t] = "nothing"]

(* Who waited for the token goes on with it.                               *)
GoOn(t, with) ==
    /\ IF request[t] = "held"
       THEN request' = [request EXCEPT ![t] = "again"]
       ELSE UNCHANGED request
    /\ UNCHANGED sentWith
    /\ socket' = IF socketWants[t] = "nothing" THEN socket
                 ELSE [socket EXCEPT ![t] = with]

(* setTimeout(0) under the lock: a token that came meanwhile is used.      *)
HasNewer(t) == advanced[t] /\ shared[t] # 0

UseShared(t) ==
    /\ step[t] = "check" /\ HasNewer(t)
    /\ token' = [token EXCEPT ![t] = shared[t]]
    /\ GoOn(t, shared[t])
    /\ RefreshOver(t)
    /\ UNCHANGED <<serverVars, cookie, shared, advanced, mail, screen, mishaps>>

AskServer(t) ==
    /\ step[t] = "check" /\ ~HasNewer(t)
    /\ step' = [step EXCEPT ![t] = "ask"]
    /\ carries' = [carries EXCEPT ![t] = cookie]
    /\ UNCHANGED <<serverVars, cookie, memoryVars, waiting, requestVars, socketVars,
                   mishaps>>

-----------------------------------------------------------------------------
RotateKeepingOld(t) ==
    /\ step[t] = "ask" /\ carries[t] \in Live
    /\ issued < MaxSession
    /\ issued' = issued + 1
    /\ carries' = [carries EXCEPT ![t] = issued + 1]
    /\ step' = [step EXCEPT ![t] = "answered"]
    /\ UNCHANGED <<revoked, lapsed, reused, cookie, memoryVars, waiting, requestVars,
                   socketVars, mishaps>>

(* RotateSession: one transaction over the locked row.                     *)
Rotate(t) ==
    /\ step[t] = "ask" /\ carries[t] \in Live
    /\ issued < MaxSession
    /\ issued' = issued + 1
    /\ revoked' = revoked \cup {carries[t]} /\ lapsed' = lapsed \ {carries[t]}
    /\ carries' = [carries EXCEPT ![t] = issued + 1]
    /\ step' = [step EXCEPT ![t] = "answered"]
    /\ UNCHANGED <<reused, cookie, memoryVars, waiting, requestVars,
                   socketVars, mishaps>>

RotateReused(t) ==
    /\ step[t] = "ask" /\ carries[t] \in revoked
    /\ revoked' = 1..issued /\ lapsed' = {}
    /\ reused' = TRUE
    /\ step' = [step EXCEPT ![t] = "denied"]
    /\ UNCHANGED <<issued, cookie, memoryVars, waiting, carries, requestVars,
                   socketVars, mishaps>>

NoCookie(t) ==
    /\ step[t] = "ask" /\ carries[t] = 0
    /\ step' = [step EXCEPT ![t] = "denied"]
    /\ UNCHANGED <<serverVars, cookie, memoryVars, waiting, carries, requestVars,
                   socketVars, mishaps>>

(* The answer sets the cookie; the tokens are published under the lock.    *)
Refreshed(t) ==
    /\ step[t] = "answered"
    /\ cookie' = carries[t]
    /\ Broadcast(t, carries[t])
    /\ GoOn(t, carries[t])
    /\ RefreshOver(t)
    /\ UNCHANGED <<serverVars, mishaps>>

(* A request that waited drops the token and fails; reauthenticate takes a *)
(* 401 for the end of the session; connect will try again.                 *)
RefreshFails(t, unauthorized) ==
    /\ IF request[t] = "held"
       THEN request' = [request EXCEPT ![t] = "none"]
       ELSE UNCHANGED request
    /\ UNCHANGED sentWith
    /\ IF unauthorized /\ socketWants[t] = "reauthenticate"
       THEN Broadcast(t, Logout)
       ELSE /\ token' = IF request[t] = "held" THEN [token EXCEPT ![t] = 0] ELSE token
            /\ UNCHANGED <<shared, advanced, mail, screen>>
    /\ RefreshOver(t)
    /\ UNCHANGED socket

Denied(t) ==
    /\ step[t] = "denied"
    /\ cookie' = 0
    /\ RefreshFails(t, TRUE)
    /\ UNCHANGED <<serverVars, mishaps>>

AnswerLost(t) ==
    /\ step[t] \in {"ask", "answered", "denied"}
    /\ Mishap
    /\ RefreshFails(t, FALSE)
    /\ UNCHANGED <<serverVars, cookie>>

-----------------------------------------------------------------------------
(* A request of the tab, or its logout, and the one retry.                 *)
SendRequest(t) ==
    /\ t \in screen /\ request[t] = "none"
    /\ request' = [request EXCEPT ![t] = "sent"]
    /\ sentWith' = [sentWith EXCEPT ![t] = token[t]]
    /\ UNCHANGED <<serverVars, cookie, memoryVars, lockVars, socketVars, mishaps>>

RequestEnds(t) ==
    /\ \/ request[t] = "again"
       \/ request[t] = "sent" /\ Accepted(sentWith[t])
    /\ request' = [request EXCEPT ![t] = "none"]
    /\ sentWith' = [sentWith EXCEPT ![t] = 0]
    /\ UNCHANGED <<serverVars, cookie, memoryVars, lockVars, socketVars, mishaps>>

Unauthorized(t) ==
    /\ request[t] = "sent" /\ ~Accepted(sentWith[t])
    /\ request' = [request EXCEPT ![t] = "held"]
    /\ sentWith' = [sentWith EXCEPT ![t] = 0]
    /\ RefreshAsked(t)
    /\ UNCHANGED <<serverVars, cookie, token, shared, mail, screen, socketVars, mishaps>>

(* The session of the bearer is looked up first and revoked by a later     *)
(* statement; a rotation may come between them.                            *)
LogoutLet(t) ==
    /\ t \in screen /\ request[t] = "none" /\ Accepted(token[t])
    /\ Mishap
    /\ request' = [request EXCEPT ![t] = "let"]
    /\ sentWith' = [sentWith EXCEPT ![t] = token[t]]
    /\ UNCHANGED <<serverVars, cookie, memoryVars, lockVars, socketVars>>

LoggedOut(t) ==
    /\ request[t] = "let"
    /\ revoked' = revoked \cup {sentWith[t]} /\ lapsed' = lapsed \ {sentWith[t]}
    /\ cookie' = 0
    /\ Broadcast(t, Logout)
    /\ request' = [request EXCEPT ![t] = "none"]
    /\ sentWith' = [sentWith EXCEPT ![t] = 0]
    /\ UNCHANGED <<issued, reused, lockVars, socketVars, mishaps>>

(* The server closes a socket whose access token has ended: the tab drops  *)
(* that token, unless it has another by now, and connects again.           *)
SocketClosed(t) ==
    /\ socket[t] \in lapsed \cup revoked
    /\ socket' = [socket EXCEPT ![t] = 0]
    /\ IF t \in screen /\ token[t] = socket[t]
       THEN /\ token' = [token EXCEPT ![t] = 0]
            /\ socketWants' = [socketWants EXCEPT ![t] = "reauthenticate"]
            /\ RefreshAsked(t)
       ELSE UNCHANGED <<token, socketWants, lockVars, advanced>>
    /\ UNCHANGED <<serverVars, cookie, shared, mail, requestVars, screen, mishaps>>

Connect(t) ==
    /\ t \in screen /\ socket[t] = 0 /\ socketWants[t] = "nothing"
    /\ IF token[t] = 0
       THEN /\ socketWants' = [socketWants EXCEPT ![t] = "connect"]
            /\ RefreshAsked(t)
            /\ UNCHANGED socket
       ELSE /\ socket' = [socket EXCEPT ![t] = token[t]]
            /\ UNCHANGED <<socketWants, lockVars, advanced>>
    /\ UNCHANGED <<serverVars, cookie, token, shared, mail, screen, requestVars, mishaps>>

(* An access token lives for minutes.  The user may end the session from   *)
(* another device.                                                         *)
AccessLapses ==
    /\ issued \in Live \ lapsed
    /\ lapsed' = lapsed \cup {issued}
    /\ UNCHANGED <<issued, revoked, reused, cookie, memoryVars, lockVars, requestVars,
                   socketVars, mishaps>>

EndedElsewhere ==
    /\ issued \in Live /\ Mishap
    /\ revoked' = revoked \cup {issued} /\ lapsed' = lapsed \ {issued}
    /\ UNCHANGED <<issued, reused, cookie, memoryVars, lockVars, requestVars, socketVars>>

-----------------------------------------------------------------------------
SessionNext ==
    \/ AccessLapses \/ EndedElsewhere
    \/ \E t \in Pages :
         \/ \E s \in Pages : BroadcastArrives(s, t)
         \/ LockGranted(t) \/ UseShared(t) \/ AskServer(t)
         \/ Rotate(t) \/ RotateReused(t) \/ NoCookie(t)
         \/ Refreshed(t) \/ Denied(t) \/ AnswerLost(t)
         \/ SendRequest(t) \/ RequestEnds(t) \/ Unauthorized(t)
         \/ LogoutLet(t) \/ LoggedOut(t)
         \/ SocketClosed(t) \/ Connect(t)

SessionSpec == SessionInit /\ [][SessionNext]_sessionVars

SessionFairness ==
    \A t \in Pages :
         /\ \A s \in Pages : WF_sessionVars(BroadcastArrives(s, t))
         /\ WF_sessionVars(LockGranted(t) \/ UseShared(t) \/ AskServer(t))
         /\ WF_sessionVars(Rotate(t) \/ RotateReused(t) \/ NoCookie(t))
         /\ WF_sessionVars(Refreshed(t) \/ Denied(t))
         /\ WF_sessionVars(RequestEnds(t) \/ Unauthorized(t) \/ LoggedOut(t))
         /\ WF_sessionVars(SocketClosed(t) \/ Connect(t))

SessionFairSpec == SessionSpec /\ SessionFairness

-----------------------------------------------------------------------------
(* However rotations, logouts and revocations overlap, at most one session *)
(* of the family is live.                                                  *)
OneLive == \A a, b \in Live : a = b

(* With the lock a tab never presents a refresh token that was rotated     *)
(* away, so that the family is never revoked for theft: unless an answer   *)
(* was lost on its way, or the session ended while the refresh ran.        *)
NoFalseReuse == (Locks /\ mishaps = 0) => ~reused

(* A refresh ends and the lock is handed on, whether the server rotates,   *)
(* denies or has seen the token before, and whatever of it is lost.  Only  *)
(* a rotation beyond the bound on sessions is waited for in vain.          *)
BeyondBound ==
    issued = MaxSession /\ \E t \in Pages : step[t] = "ask" /\ carries[t] \in Live

RefreshEnds == \A t \in Pages : (step[t] # "idle") ~> (step[t] = "idle" \/ BeyondBound)

=============================================================================

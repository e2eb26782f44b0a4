------------------------------- MODULE Outbox -------------------------------
(***************************************************************************)
(* The queue of messages a browser has not delivered yet.  Every tab runs  *)
(* an Outbox of its own over one IndexedDB store; the server recognizes a  *)
(* repeated message by its client_msg_id.  A message is its client_msg_id. *)
(*                                                                         *)
(* `view` is the delivery status a tab shows; a message that a tab does    *)
(* not show is "hidden".  Tabs load the page of a chat (api.messages) at   *)
(* any time, the answer arrives later.  The idempotency_conflict branch of *)
(* flush is not here: an entry is sent unchanged by the one actor, so its  *)
(* fingerprint never differs.                                              *)
(***************************************************************************)
EXTENDS Naturals, FiniteSets

CONSTANTS
    Tabs, Messages,
    NoMessage,
    MaxLosses  \* bound on failed calls, reloads and lost tokens together

ASSUME OutboxAssumption == NoMessage \notin Messages /\ MaxLosses \in Nat

VARIABLES
    queue,     \* the store "outbox": "absent", "new" (attempts = 0), "tried"
    copies,    \* rows of the messages table per client_msg_id
    strays,    \* messages whose abandoned request may still reach the server
    signedIn,  \* tabs whose api holds an access token
    flush,     \* where the flush of a tab is; "idle" is running = false
    listed,    \* what is left of the entries the flush listed
    item,      \* the entry under way
    view,      \* tab -> message -> status shown
    frames,    \* tab -> message.created frames on their way
    givers,    \* history: tabs that took an entry off the queue
    losses

outboxVars == <<queue, copies, strays, signedIn, flush, listed, item, view,
                frames, givers, losses>>
wireVars == <<copies, strays, frames>>

Entry == {"absent", "new", "tried"}
Status == {"hidden", "sending", "retrying", "failed", "sent"}
Flushing == {"idle", "list", "next", "call", "answered", "refused"}
NoEntries == [m \in Messages |-> "absent"]

OutboxTypeOK ==
    /\ queue \in [Messages -> Entry]
    /\ copies \in [Messages -> Nat]
    /\ strays \subseteq Messages
    /\ signedIn \subseteq Tabs
    /\ flush \in [Tabs -> Flushing]
    /\ listed \in [Tabs -> [Messages -> Entry]]
    /\ item \in [Tabs -> Messages \cup {NoMessage}]
    /\ view \in [Tabs -> [Messages -> Status]]
    /\ frames \in [Tabs -> SUBSET Messages]
    /\ givers \in [Messages -> SUBSET Tabs]
    /\ losses \in 0..MaxLosses

OutboxInit ==
    /\ queue = NoEntries
    /\ copies = [m \in Messages |-> 0]
    /\ strays = {}
    /\ signedIn = Tabs
    /\ flush = [t \in Tabs |-> "idle"]
    /\ listed = [t \in Tabs |-> NoEntries]
    /\ item = [t \in Tabs |-> NoMessage]
    /\ view = [t \in Tabs |-> [m \in Messages |-> "hidden"]]
    /\ frames = [t \in Tabs |-> {}]
    /\ givers = [m \in Messages |-> {}]
    /\ losses = 0

Posted == {m \in Messages : copies[m] > 0}

Lose == losses < MaxLosses /\ losses' = losses + 1

-----------------------------------------------------------------------------
(* flush() returns at once when one runs or when there is no token.        *)
FlushAsked(t) ==
    flush' = IF flush[t] = "idle" /\ t \in signedIn
             THEN [flush EXCEPT ![t] = "list"] ELSE flush

(* The user sends m: enqueue stores it, shows it and asks for a flush.     *)
Enqueue(t, m) ==
    /\ queue[m] = "absent" /\ m \notin Posted
    /\ queue' = [queue EXCEPT ![m] = "new"]
    /\ view' = [view EXCEPT ![t][m] = "sending"]
    /\ FlushAsked(t)
    /\ UNCHANGED <<wireVars, signedIn, listed, item, givers, losses>>

(* The browser is online again, or the user presses retry.                 *)
Retry(t) ==
    /\ flush[t] = "idle" /\ t \in signedIn
    /\ FlushAsked(t)
    /\ UNCHANGED <<queue, wireVars, signedIn, listed, item, view, givers, losses>>

ListNewEntries(t) ==
    /\ flush[t] = "list"
    /\ listed' = [listed EXCEPT ![t] =
           [m \in Messages |-> IF queue[m] = "new" THEN "new" ELSE "absent"]]
    /\ flush' = [flush EXCEPT ![t] = "next"]
    /\ UNCHANGED <<queue, wireVars, signedIn, item, view, givers, losses>>

ListEntries(t) ==
    /\ flush[t] = "list"
    /\ listed' = [listed EXCEPT ![t] = queue]
    /\ flush' = [flush EXCEPT ![t] = "next"]
    /\ UNCHANGED <<queue, wireVars, signedIn, item, view, givers, losses>>

(* The next entry is sent, whatever became of it in the store since.       *)
SendEntry(t, m) ==
    /\ flush[t] = "next" /\ listed[t][m] # "absent"
    /\ item' = [item EXCEPT ![t] = m]
    /\ flush' = [flush EXCEPT ![t] = "call"]
    /\ view' = IF listed[t][m] = "tried" /\ view[t][m] # "hidden"
               THEN [view EXCEPT ![t][m] = "retrying"] ELSE view
    /\ UNCHANGED <<queue, wireVars, signedIn, listed, givers, losses>>

FlushDone(t) ==
    /\ flush[t] = "next" /\ listed[t] = NoEntries
    /\ flush' = [flush EXCEPT ![t] = "idle"]
    /\ UNCHANGED <<queue, wireVars, signedIn, listed, item, view, givers, losses>>

(* The server's transaction: the row is inserted unless the actor has one  *)
(* with this client_msg_id; only an insert makes an event.                 *)
NeverRecognized(m) == m \notin Messages
Recognized(m) == copies[m] > 0

CreateMessage(m) ==
    IF Recognized(m)
    THEN UNCHANGED <<copies, frames>>
    ELSE /\ copies' = [copies EXCEPT ![m] = @ + 1]
         /\ frames' = [t \in Tabs |-> frames[t] \cup {m}]

Handled(t) ==
    /\ flush[t] = "call"
    /\ CreateMessage(item[t])
    /\ flush' = [flush EXCEPT ![t] = "answered"]
    /\ UNCHANGED <<queue, strays, signedIn, listed, item, view, givers, losses>>

HandledLate(m) ==
    /\ m \in strays
    /\ CreateMessage(m)
    /\ strays' = strays \ {m}
    /\ UNCHANGED <<queue, signedIn, flush, listed, item, view, givers, losses>>

(* The network fails, before the server has the request or after, or the   *)
(* server refuses it.                                                      *)
SendFails(t) ==
    /\ flush[t] \in {"call", "answered"}
    /\ Lose
    /\ flush' = [flush EXCEPT ![t] = "refused"]
    /\ strays' \in IF flush[t] = "call" THEN {strays, strays \cup {item[t]}} ELSE {strays}
    /\ UNCHANGED <<queue, copies, frames, signedIn, listed, item, view, givers>>

EntryDone(t) ==
    /\ listed' = [listed EXCEPT ![t][item[t]] = "absent"]
    /\ item' = [item EXCEPT ![t] = NoMessage]
    /\ flush' = [flush EXCEPT ![t] = "next"]

Delivered(t) ==
    /\ flush[t] = "answered"
    /\ queue' = [queue EXCEPT ![item[t]] = "absent"]
    /\ givers' = [givers EXCEPT ![item[t]] = @ \cup {t}]
    /\ view' = [view EXCEPT ![t][item[t]] = "sent"]
    /\ EntryDone(t)
    /\ UNCHANGED <<wireVars, signedIn, losses>>

FailedAndDropped(t) ==
    /\ flush[t] = "refused"
    /\ queue' = [queue EXCEPT ![item[t]] = "absent"]
    /\ view' = IF view[t][item[t]] = "hidden" THEN view
               ELSE [view EXCEPT ![t][item[t]] = "failed"]
    /\ EntryDone(t)
    /\ UNCHANGED <<wireVars, signedIn, givers, losses>>

(* The entry is put back as it was listed, one attempt more.               *)
Failed(t) ==
    /\ flush[t] = "refused"
    /\ queue' = [queue EXCEPT ![item[t]] = "tried"]
    /\ view' = IF view[t][item[t]] = "hidden" THEN view
               ELSE [view EXCEPT ![t][item[t]] = "failed"]
    /\ EntryDone(t)
    /\ UNCHANGED <<wireVars, signedIn, givers, losses>>

-----------------------------------------------------------------------------
(* The realtime frame of a created message reaches a tab.                  *)
FrameArrives(t, m) ==
    /\ m \in frames[t]
    /\ frames' = [frames EXCEPT ![t] = @ \ {m}]
    /\ view' = [view EXCEPT ![t][m] = "sent"]
    /\ UNCHANGED <<queue, copies, strays, signedIn, flush, listed, item, givers, losses>>

(* A page of the chat replaces what the tab shows; it may have been read   *)
(* before the latest messages were posted.                                 *)
PageShown(t) ==
    /\ \E read \in SUBSET Posted :
         view' = [view EXCEPT ![t] =
             [m \in Messages |-> IF m \in read THEN "sent" ELSE "hidden"]]
    /\ UNCHANGED <<queue, wireVars, signedIn, flush, listed, item, givers, losses>>

(* The tab is loaded anew: the page has a token and starts with a flush;   *)
(* its request, if any, is abandoned.                                      *)
ReloadTab(t) ==
    /\ Lose
    /\ strays' \in IF flush[t] = "call" THEN {strays, strays \cup {item[t]}} ELSE {strays}
    /\ signedIn' = signedIn \cup {t}
    /\ flush' = [flush EXCEPT ![t] = "list"]
    /\ listed' = [listed EXCEPT ![t] = NoEntries]
    /\ item' = [item EXCEPT ![t] = NoMessage]
    /\ view' = [view EXCEPT ![t] = [m \in Messages |-> "hidden"]]
    /\ UNCHANGED <<queue, copies, frames, givers>>

(* reauthenticate drops the token and asks for another.                    *)
TokenDropped(t) ==
    /\ t \in signedIn /\ Lose
    /\ signedIn' = signedIn \ {t}
    /\ UNCHANGED <<queue, wireVars, flush, listed, item, view, givers>>

TokenRefreshed(t) ==
    /\ t \notin signedIn
    /\ signedIn' = signedIn \cup {t}
    /\ UNCHANGED <<queue, wireVars, flush, listed, item, view, givers, losses>>

-----------------------------------------------------------------------------
OutboxNext ==
    \/ \E m \in Messages : HandledLate(m)
    \/ \E t \in Tabs :
         \/ \E m \in Messages : Enqueue(t, m)
         \/ \E m \in Messages : SendEntry(t, m)
         \/ \E m \in Messages : FrameArrives(t, m)
         \/ Retry(t) \/ ListEntries(t) \/ FlushDone(t)
         \/ Handled(t) \/ SendFails(t) \/ Delivered(t) \/ Failed(t)
         \/ PageShown(t)
         \/ ReloadTab(t) \/ TokenDropped(t) \/ TokenRefreshed(t)

OutboxSpec == OutboxInit /\ [][OutboxNext]_outboxVars

OutboxFairness ==
    \A t \in Tabs :
        /\ WF_outboxVars(ListEntries(t)) /\ WF_outboxVars(FlushDone(t))
        /\ WF_outboxVars(\E m \in Messages : SendEntry(t, m))
        /\ WF_outboxVars(Handled(t) \/ Delivered(t) \/ Failed(t))
        /\ WF_outboxVars(\E m \in Messages : FrameArrives(t, m))
        /\ WF_outboxVars(TokenRefreshed(t))

OutboxFairSpec == OutboxSpec /\ OutboxFairness

-----------------------------------------------------------------------------
(* What MessageDelivery calls the state of a message.                      *)
DeliveryOf(m) ==
    CASE copies[m] = 0 -> IF queue[m] = "absent" THEN "unsent" ELSE "accepted"
      [] copies[m] = 1 -> "posted"
      [] OTHER -> "posted twice"

Promise == INSTANCE MessageDelivery WITH delivery <- [m \in Messages |-> DeliveryOf(m)]

(* A message the user sent is accepted once and posted once, whatever is   *)
(* lost, retried, reloaded or sent by two tabs at a time (outbox.ts, the   *)
(* insert of message.Create): the outbox implements MessageDelivery.       *)
PostedOnce == Promise!Spec

(* A tab shows a message as under way or failed only while an entry stands *)
(* for it, so that a retry finds it: unless another tab took the entry     *)
(* off the queue, the status of a message is never left wrong.             *)
Pending(t, m) == view[t][m] \in {"sending", "retrying", "failed"}

StatusTrue ==
    \A t \in Tabs, m \in Messages :
        Pending(t, m) => queue[m] # "absent" \/ givers[m] \ {t} # {}

(* When a flush is started again and again, every entry is posted in the   *)
(* end: a flush never skips what it listed, nor blocks on it.              *)
PostedWhenFlushed ==
    []<>(\E t \in Tabs : flush[t] = "list") =>
        \A m \in Messages : (queue[m] # "absent") ~> (copies[m] > 0)

=============================================================================

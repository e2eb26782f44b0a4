------------------------------- MODULE MCParts -------------------------------
(***************************************************************************)
(* The parts that share no state with the event log, in one run: the first *)
(* state chooses a part, and only that part moves.  What is explored is    *)
(* the sum of their state spaces, the same as in a run of each.            *)
(***************************************************************************)
EXTENDS Outbox, Session, Autosave, Notifications, Confirmations, Files, Triggers, TLC

CONSTANTS x, y, z

VARIABLE part

allVars == <<part, outboxVars, sessionVars, autosaveVars,
            notificationVars, confirmationVars, fileVars, triggerVars>>

(* max_chain_depth of every agent.                                         *)
DepthOne == [b \in Bots |-> 1]

(* The server trims z to y.                                                *)
Trimmed == [i \in Inputs |-> IF i = z THEN y ELSE i]

(* The other parts start once, with all triggers there.                    *)
Alive == [b \in Bots |-> AllSlots]

PartsInit ==
    /\ part \in {"outbox", "session", "autosave", "notifications", "confirmations",
               "files", "triggers"}
    /\ OutboxInit /\ SessionInit /\ AutosaveInit /\ NotificationsInit
    /\ ConfirmationsInit /\ FilesInit
    /\ TriggersInit
    /\ part # "triggers" => live = Alive

OutboxPart ==
    /\ part = "outbox" /\ OutboxNext
    /\ UNCHANGED <<part, sessionVars, autosaveVars, notificationVars,
                   confirmationVars, fileVars, triggerVars>>

SessionPart ==
    /\ part = "session" /\ SessionNext
    /\ UNCHANGED <<part, outboxVars, autosaveVars, notificationVars,
                   confirmationVars, fileVars, triggerVars>>

AutosavePart ==
    /\ part = "autosave" /\ AutosaveNext
    /\ UNCHANGED <<part, outboxVars, sessionVars, notificationVars,
                   confirmationVars, fileVars, triggerVars>>

NotificationsPart ==
    /\ part = "notifications" /\ NotificationsNext
    /\ UNCHANGED <<part, outboxVars, sessionVars, autosaveVars,
                   confirmationVars, fileVars, triggerVars>>

ConfirmationsPart ==
    /\ part = "confirmations" /\ ConfirmationsNext
    /\ UNCHANGED <<part, outboxVars, sessionVars, autosaveVars,
                   notificationVars, fileVars, triggerVars>>

FilesPart ==
    /\ part = "files" /\ FilesNext
    /\ UNCHANGED <<part, outboxVars, sessionVars, autosaveVars,
                   notificationVars, confirmationVars, triggerVars>>

TriggersPart ==
    /\ part = "triggers" /\ TriggersNext
    /\ UNCHANGED <<part, outboxVars, sessionVars, autosaveVars,
                   notificationVars, confirmationVars, fileVars>>

PartsNext ==
    \/ OutboxPart \/ SessionPart \/ AutosavePart
    \/ NotificationsPart \/ ConfirmationsPart \/ FilesPart \/ TriggersPart

PartsSpec == PartsInit /\ [][PartsNext]_allVars

(* Tabs and pages, managers and senders are the same two model values, and *)
(* so are tool calls, events, files and agents; Tabs are replicas, too.     *)
PartsSymmetry == Permutations(Tabs) \cup Permutations(FileIds)
=============================================================================

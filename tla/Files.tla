------------------------------- MODULE Files -------------------------------
(***************************************************************************)
(* Uploads to the local store of one organization: the reservation of      *)
(* quota, the streamed content, completion, abort, expiry, attachment to a *)
(* message, and the worker that reconciles the three.  A file and its      *)
(* upload are one; every file has the size one.                            *)
(*                                                                         *)
(* A transaction is one step, but where a statement uses what another has  *)
(* read: the attachment and the cleanup hold the row of a file over two    *)
(* steps, and the recomputation of the ledger sums up in a snapshot.       *)
(* Completion and abort lock the upload and the file in opposite order: a  *)
(* deadlock rolls one of them back, which is that one not happening.       *)
(***************************************************************************)
EXTENDS Naturals, FiniteSets

CONSTANTS
    FileIds,
    Quota,
    MaxCrashes  \* bound on restarts of Core

ASSUME FilesAssumption ==
    Quota \in Nat /\ MaxCrashes \in Nat /\ IsFiniteSet(FileIds)

VARIABLES
    fileStatus, \* files.status, "none" before the upload is created
    upload,     \* file_uploads.status
    overdue,    \* expires_at <= now()
    blobs,      \* objects in the store
    used, reserved,  \* organization_storage_usage
    content,    \* the streaming request: "none", "writing", "written", "failed"
    attached,   \* files in message_files
    attaching,  \* rows locked by the transaction of a message
    cleaning,   \* rows cleanupUnattached has chosen, then locked
    cleanStep,  \* "idle", "chosen", "locked"
    doomed,     \* keys a committed abort or cleanup is about to delete
    sums,       \* what the recomputation has read, <<>> if none runs
    moved,      \* the ledger changed since
    drifted,    \* history: the last recomputation wrote stale sums, or an earlier one
    lost,       \* history: objects the store has lost
    crashes

ledgerVars == <<used, reserved, sums, moved, drifted>>
rowVars == <<fileStatus, upload, overdue>>
attachVars == <<attached, attaching>>
cleanVars == <<cleaning, cleanStep>>
mishapVars == <<lost, crashes>>
fileVars == <<rowVars, blobs, ledgerVars, content, attachVars, cleanVars, doomed,
              mishapVars>>

FilesTypeOK ==
    /\ fileStatus \in [FileIds -> {"none", "pending", "ready", "failed", "deleted"}]
    /\ upload \in [FileIds -> {"none", "active", "uploading", "completed", "aborted",
                              "failed"}]
    /\ overdue \subseteq FileIds /\ blobs \subseteq FileIds
    /\ used \in Nat /\ reserved \in Nat
    /\ content \in [FileIds -> {"none", "writing", "written", "failed"}]
    /\ attached \subseteq FileIds /\ attaching \subseteq FileIds
    /\ cleaning \subseteq FileIds /\ cleanStep \in {"idle", "chosen", "locked"}
    /\ doomed \subseteq FileIds
    /\ sums \in (Nat \X Nat) \cup {<<>>}
    /\ lost \subseteq FileIds
    /\ moved \in BOOLEAN /\ drifted \in {"never", "now", "once"}
    /\ crashes \in 0..MaxCrashes

FilesInit ==
    /\ fileStatus = [f \in FileIds |-> "none"] /\ upload = [f \in FileIds |-> "none"]
    /\ overdue = {} /\ blobs = {} /\ used = 0 /\ reserved = 0
    /\ content = [f \in FileIds |-> "none"]
    /\ attached = {} /\ attaching = {} /\ cleaning = {} /\ cleanStep = "idle"
    /\ doomed = {} /\ sums = <<>> /\ moved = FALSE /\ drifted = "never"
    /\ lost = {} /\ crashes = 0

Open == {f \in FileIds : upload[f] \in {"active", "uploading"}}
Ready == {f \in FileIds : fileStatus[f] = "ready"}
Locked == attaching \cup (IF cleanStep = "locked" THEN cleaning ELSE {})

Ledger(u, r) ==
    /\ used' = u /\ reserved' = r
    /\ moved' = (moved \/ sums # <<>>)
    /\ UNCHANGED <<sums, drifted>>

(* GREATEST(0, value - n)                                                  *)
Less(value, n) == IF value > n THEN value - n ELSE 0

-----------------------------------------------------------------------------
(* CreateUpload reserves the size, or there is no storage left.            *)
CreateUpload(f) ==
    /\ fileStatus[f] = "none" /\ used + reserved + 1 <= Quota
    /\ Ledger(used, reserved + 1)
    /\ fileStatus' = [fileStatus EXCEPT ![f] = "pending"]
    /\ upload' = [upload EXCEPT ![f] = "active"]
    /\ UNCHANGED <<overdue, blobs, content, attachVars, cleanVars, doomed, mishapVars>>

(* PutContent: one request takes the upload and streams into the store.    *)
ClaimUpload(f) ==
    /\ upload[f] = "active" /\ f \notin overdue
    /\ upload' = [upload EXCEPT ![f] = "uploading"]
    /\ content' = [content EXCEPT ![f] = "writing"]
    /\ UNCHANGED <<fileStatus, overdue, blobs, ledgerVars, attachVars, cleanVars, doomed,
                   mishapVars>>

ContentWritten(f) ==
    /\ content[f] = "writing"
    /\ blobs' = blobs \cup {f}
    /\ content' = [content EXCEPT ![f] = "written"]
    /\ UNCHANGED <<rowVars, ledgerVars, attachVars, cleanVars, doomed, mishapVars>>

(* The content does not fit its declaration, or the disk is full.          *)
ContentRefused(f) ==
    /\ content[f] = "writing"
    /\ content' = [content EXCEPT ![f] = "failed"]
    /\ UNCHANGED <<rowVars, blobs, ledgerVars, attachVars, cleanVars, doomed,
                   mishapVars>>

(* failUpload.  The constraint reserved_bytes >= 0 rolls it back.          *)
FailUpload(f) ==
    /\ content[f] = "failed" /\ f \notin Locked
    /\ content' = [content EXCEPT ![f] = "none"]
    /\ IF f \in Open /\ reserved > 0
       THEN /\ upload' = [upload EXCEPT ![f] = "failed"]
            /\ fileStatus' = [fileStatus EXCEPT ![f] = "failed"]
            /\ Ledger(used, reserved - 1)
       ELSE UNCHANGED <<upload, fileStatus, ledgerVars>>
    /\ UNCHANGED <<overdue, blobs, attachVars, cleanVars, doomed, mishapVars>>

(* completeClaim, the same; the blob stays when it fails.                  *)
SpaceReserved(f) == reserved > 0
Completable(f) == fileStatus[f] = "pending" /\ reserved > 0

CompleteClaim(f) ==
    /\ content[f] = "written"
    /\ content' = [content EXCEPT ![f] = "none"]
    /\ IF Completable(f)
       THEN /\ fileStatus' = [fileStatus EXCEPT ![f] = "ready"]
            /\ upload' = [upload EXCEPT ![f] = IF @ = "uploading" THEN "completed" ELSE @]
            /\ Ledger(used + 1, reserved - 1)
       ELSE UNCHANGED <<upload, fileStatus, ledgerVars>>
    /\ UNCHANGED <<overdue, blobs, attachVars, cleanVars, doomed, mishapVars>>

AbortUnreleased(f) ==
    /\ fileStatus[f] = "pending" /\ reserved > 0
    /\ upload' = [upload EXCEPT ![f] = "aborted"]
    /\ fileStatus' = [fileStatus EXCEPT ![f] = "failed"]
    /\ doomed' = doomed \cup {f}
    /\ UNCHANGED <<overdue, blobs, ledgerVars, content, attachVars, cleanVars, mishapVars>>

(* AbortUpload by the user; the object is deleted after the commit.        *)
AbortUpload(f) ==
    /\ f \in Open /\ reserved > 0
    /\ upload' = [upload EXCEPT ![f] = "aborted"]
    /\ fileStatus' = [fileStatus EXCEPT ![f] = "failed"]
    /\ Ledger(used, reserved - 1)
    /\ doomed' = doomed \cup {f}
    /\ UNCHANGED <<overdue, blobs, content, attachVars, cleanVars, mishapVars>>

(* Abort, expiry and cleanup delete the object when they have committed.   *)
DeleteBlob(f) ==
    /\ f \in doomed
    /\ doomed' = doomed \ {f}
    /\ blobs' = blobs \ {f}
    /\ UNCHANGED <<rowVars, ledgerVars, content, attachVars, cleanVars, mishapVars>>

(* The TTL of an upload is over, whatever is going on with it.             *)
Overdue(f) ==
    /\ fileStatus[f] # "none" /\ f \notin overdue
    /\ overdue' = overdue \cup {f}
    /\ UNCHANGED <<fileStatus, upload, blobs, ledgerVars, content, attachVars, cleanVars,
                   doomed, mishapVars>>

-----------------------------------------------------------------------------
(* A message takes a file: its row is locked if it is ready, the insert    *)
(* comes later, the transaction may fail.                                  *)
AttachLock(f) ==
    /\ fileStatus[f] = "ready" /\ f \notin Locked
    /\ attaching' = attaching \cup {f}
    /\ UNCHANGED <<rowVars, blobs, ledgerVars, content, attached, cleanVars, doomed,
                   mishapVars>>

AttachEnds(f) ==
    /\ f \in attaching
    /\ attaching' = attaching \ {f}
    /\ attached' \in {attached, attached \cup {f}}
    /\ UNCHANGED <<rowVars, blobs, ledgerVars, content, cleanVars, doomed, mishapVars>>

-----------------------------------------------------------------------------
CleanupExpiredActive(f) ==
    /\ upload[f] = "active" /\ f \in overdue /\ f \notin Locked
    /\ upload' = [upload EXCEPT ![f] = "aborted"]
    /\ fileStatus' = [fileStatus EXCEPT ![f] = IF @ = "pending" THEN "failed" ELSE @]
    /\ Ledger(used, Less(reserved, 1))
    /\ doomed' = doomed \cup {f}
    /\ UNCHANGED <<overdue, blobs, content, attachVars, cleanVars, mishapVars>>

(* Reconcile, step by step: cleanupExpired,                                *)
CleanupExpired(f) ==
    /\ f \in Open \cap overdue /\ f \notin Locked
    /\ upload' = [upload EXCEPT ![f] = "aborted"]
    /\ fileStatus' = [fileStatus EXCEPT ![f] = IF @ = "pending" THEN "failed" ELSE @]
    /\ Ledger(used, Less(reserved, 1))
    /\ doomed' = doomed \cup {f}
    /\ UNCHANGED <<overdue, blobs, content, attachVars, cleanVars, mishapVars>>

(* cleanupUnattached: the rows are chosen in the snapshot of the statement *)
(* and then locked, those locked by others are skipped,                    *)
CleanupChoose ==
    /\ cleanStep = "idle" /\ (Ready \cap overdue) \ attached # {}
    /\ cleaning' = (Ready \cap overdue) \ attached
    /\ cleanStep' = "chosen"
    /\ UNCHANGED <<rowVars, blobs, ledgerVars, content, attachVars, doomed, mishapVars>>

CleanupLock ==
    /\ cleanStep = "chosen"
    /\ cleaning' = (cleaning \cap Ready) \ attaching
    /\ cleanStep' = "locked"
    /\ UNCHANGED <<rowVars, blobs, ledgerVars, content, attachVars, doomed, mishapVars>>

(* and every one is looked at again before it is deleted.                  *)
AsChosen(f) == f \in cleaning
StillUnattached(f) == f \notin attached

CleanupDelete ==
    LET dead == {f \in cleaning : fileStatus[f] = "ready" /\ StillUnattached(f)} IN
    /\ cleanStep = "locked"
    /\ fileStatus' = [f \in FileIds |-> IF f \in dead THEN "deleted" ELSE fileStatus[f]]
    /\ Ledger(Less(used, Cardinality(dead)), reserved)
    /\ doomed' = doomed \cup dead
    /\ cleaning' = {} /\ cleanStep' = "idle"
    /\ UNCHANGED <<upload, overdue, blobs, content, attachVars, mishapVars>>

(* The store loses an object.                                              *)
BlobLost(f) ==
    /\ f \in blobs /\ crashes < MaxCrashes
    /\ crashes' = crashes + 1
    /\ blobs' = blobs \ {f} /\ lost' = lost \cup {f}
    /\ UNCHANGED <<rowVars, ledgerVars, content, attachVars, cleanVars, doomed>>

(* A ready file without an object is given up.                             *)
FailMissing(f) ==
    /\ fileStatus[f] = "ready" /\ f \notin blobs /\ f \notin Locked
    /\ fileStatus' = [fileStatus EXCEPT ![f] = "failed"]
    /\ Ledger(Less(used, 1), reserved)
    /\ UNCHANGED <<upload, overdue, blobs, content, attachVars, cleanVars, doomed,
                   mishapVars>>

(* The ledger is computed anew by one statement, which waits for the row   *)
(* of the ledger but sums up in the snapshot it started with.              *)
RecomputeReads ==
    /\ sums = <<>>
    /\ sums' = <<Cardinality(Ready), Cardinality(Open)>>
    /\ moved' = FALSE
    /\ UNCHANGED <<rowVars, blobs, used, reserved, drifted, content, attachVars,
                   cleanVars,
                   doomed, mishapVars>>

RecomputeWrites ==
    /\ sums # <<>>
    /\ used' = sums[1] /\ reserved' = sums[2]
    /\ drifted' = IF moved THEN "now" ELSE IF drifted = "never" THEN "never" ELSE "once"
    /\ sums' = <<>> /\ moved' = FALSE
    /\ UNCHANGED <<rowVars, blobs, content, attachVars, cleanVars, doomed, mishapVars>>

(* An object no file owns is deleted an hour after it was written.         *)
OrphanDeleted(f) ==
    /\ f \in blobs /\ fileStatus[f] = "deleted"
    /\ blobs' = blobs \ {f}
    /\ UNCHANGED <<rowVars, ledgerVars, content, attachVars, cleanVars, doomed,
                   mishapVars>>

(* Core restarts.                                                          *)
FilesCrash ==
    /\ crashes < MaxCrashes /\ crashes' = crashes + 1
    /\ content' = [f \in FileIds |-> "none"]
    /\ attaching' = {} /\ cleaning' = {} /\ cleanStep' = "idle" /\ doomed' = {}
    /\ sums' = <<>> /\ moved' = FALSE
    /\ UNCHANGED <<rowVars, blobs, used, reserved, drifted, attached, lost>>

-----------------------------------------------------------------------------
FilesNext ==
    \/ \E f \in FileIds :
         \/ CreateUpload(f) \/ ClaimUpload(f) \/ ContentWritten(f) \/ ContentRefused(f)
         \/ FailUpload(f) \/ CompleteClaim(f) \/ AbortUpload(f) \/ DeleteBlob(f)
         \/ Overdue(f) \/ AttachLock(f) \/ AttachEnds(f)
         \/ CleanupExpired(f) \/ BlobLost(f) \/ FailMissing(f)
         \/ OrphanDeleted(f)
    \/ CleanupChoose \/ CleanupLock \/ CleanupDelete
    \/ RecomputeReads \/ RecomputeWrites \/ FilesCrash

FilesSpec == FilesInit /\ [][FilesNext]_fileVars

(* Time passes, requests and transactions end, the worker goes round.      *)
FilesFairness ==
    /\ \A f \in FileIds :
         /\ WF_fileVars(Overdue(f)) /\ WF_fileVars(CleanupExpired(f))
         /\ WF_fileVars(DeleteBlob(f)) /\ WF_fileVars(OrphanDeleted(f))
         /\ WF_fileVars(ContentWritten(f) \/ ContentRefused(f))
         /\ WF_fileVars(CompleteClaim(f) \/ FailUpload(f))
         /\ WF_fileVars(AttachEnds(f))
    /\ WF_fileVars(CleanupChoose)
    /\ WF_fileVars(CleanupLock)
    /\ WF_fileVars(CleanupDelete)
    /\ WF_fileVars(RecomputeWrites)

FilesFairSpec == FilesSpec /\ FilesFairness

-----------------------------------------------------------------------------
(* A file a message has taken is never cleaned away, however the cleanup   *)
(* and the attachment overlap; only the store itself can lose it (the      *)
(* runbook: they lock the same row so they cannot race).                   *)
AttachedKept == attached \subseteq Ready \cup lost

(* Whatever was aborted, expired, retried or cleaned meanwhile, a ready    *)
(* file has its object (completeClaim, AbortUpload, cleanupExpired).       *)
ReadyHasBlob == Ready \subseteq blobs \cup lost

(* The ledger says what the rows say, unless the last recomputation        *)
(* overlapped a change of it; and it stays within the quota, unless one    *)
(* ever did.                                                               *)
LedgerTrue ==
    /\ drifted # "now" => used = Cardinality(Ready) /\ reserved = Cardinality(Open)
    /\ drifted = "never" => used + reserved <= Quota

(* No reservation is held for ever.                                        *)
ReservationEnds == \A f \in FileIds : (f \in Open) ~> (f \notin Open)

=============================================================================

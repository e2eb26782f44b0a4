----------------------------- MODULE FilesProofs -----------------------------
(***************************************************************************)
(* Files are correct for any number of files, any quota and any number of  *)
(* restarts: what a message has taken is kept, what is ready is stored,    *)
(* and the ledger of the organization is true.                             *)
(***************************************************************************)
EXTENDS Files, FiniteSetTheorems, TLAPS

(* A file is pending exactly as long as its upload is open, and a request  *)
(* streams only into an upload that was claimed.                           *)
RowsAgree ==
    \A f \in FileIds :
        /\ fileStatus[f] = "pending" <=> f \in Open
        /\ upload[f] \in {"none", "active"} => content[f] = "none"
        /\ fileStatus[f] = "none" <=> upload[f] = "none"

(* A row that a message has locked is ready, and no cleanup holds it.      *)
LocksHold ==
    /\ attaching \subseteq Ready
    /\ cleanStep = "locked" => cleaning \cap attaching = {}

(* What is about to be deleted from the store is given up for good, and    *)
(* what was written for a pending file is there.                           *)
BlobsKept ==
    /\ \A f \in doomed : fileStatus[f] \in {"failed", "deleted"}
    /\ \A f \in FileIds :
         content[f] = "written" /\ fileStatus[f] = "pending" => f \in blobs \cup lost

RowsInv == FilesTypeOK /\ RowsAgree /\ LocksHold /\ BlobsKept /\ AttachedKept /\ ReadyHasBlob

(* Sums that nothing has overtaken are those of the rows.                  *)
SumsTrue ==
    sums # <<>> /\ ~ moved => sums = <<Cardinality(Ready), Cardinality(Open)>>

FilesInv == RowsInv /\ SumsTrue /\ LedgerTrue

-----------------------------------------------------------------------------
(* Initially there are no files.                                           *)
LEMMA RowsInvInit == FilesInit => RowsInv
  <1> USE FilesAssumption DEF FilesInit
  <1>1. FilesInit => FilesTypeOK
    <2> SUFFICES ASSUME FilesInit PROVE FilesTypeOK  OBVIOUS
    <2>1. sums \in (Nat \X Nat) \cup {<<>>}  BY Zenon
    <2>2. /\ fileStatus \in [FileIds -> {"none", "pending", "ready", "failed", "deleted"}]
          /\ upload \in [FileIds -> {"none", "active", "uploading", "completed", "aborted",
                                    "failed"}]
          /\ content \in [FileIds -> {"none", "writing", "written", "failed"}]
      OBVIOUS
    <2>3. used \in Nat /\ reserved \in Nat /\ crashes \in 0..MaxCrashes  OBVIOUS
    <2>4. /\ overdue = {} /\ blobs = {} /\ attached = {} /\ attaching = {} /\ cleaning = {}
          /\ cleanStep = "idle" /\ doomed = {} /\ lost = {} /\ moved = FALSE
          /\ drifted = "never"
      OBVIOUS
    <2> HIDE DEF FilesInit
    <2> QED  BY <2>1, <2>2, <2>3, <2>4 DEF FilesTypeOK
  <1>2. FilesInit => RowsAgree /\ LocksHold  BY DEF RowsAgree, Open, LocksHold
  <1>3. FilesInit => BlobsKept /\ AttachedKept /\ ReadyHasBlob
    BY DEF BlobsKept, AttachedKept, ReadyHasBlob, Ready
  <1> QED  BY <1>1, <1>2, <1>3 DEF RowsInv

(* The counted sets are finite.                                            *)
LEMMA CountsFinite ==
    /\ IsFiniteSet(Ready) /\ Cardinality(Ready) \in Nat
    /\ IsFiniteSet(Open) /\ Cardinality(Open) \in Nat
  <1>1. Ready \in SUBSET FileIds /\ Open \in SUBSET FileIds  BY DEF Ready, Open
  <1> QED  BY <1>1, FilesAssumption, FS_Subset, FS_CardinalityType

(* Types.                                                                  *)
LEMMA FilesTypeStep ==
    ASSUME FilesTypeOK, FilesNext PROVE FilesTypeOK'
  <1> USE FilesAssumption DEF FilesTypeOK,
      rowVars, ledgerVars, attachVars, cleanVars, mishapVars
  <1>1. ASSUME NEW f \in FileIds, CreateUpload(f) PROVE FilesTypeOK'
    BY <1>1 DEF CreateUpload, Ledger
  <1>2. ASSUME NEW f \in FileIds, ClaimUpload(f) PROVE FilesTypeOK'
    BY <1>2 DEF ClaimUpload
  <1>3. ASSUME NEW f \in FileIds, ContentWritten(f) PROVE FilesTypeOK'
    BY <1>3 DEF ContentWritten
  <1>4. ASSUME NEW f \in FileIds, ContentRefused(f) PROVE FilesTypeOK'
    BY <1>4 DEF ContentRefused
  <1>5. ASSUME NEW f \in FileIds, FailUpload(f) PROVE FilesTypeOK'
    <2>1. CASE f \in Open /\ reserved > 0
      <3>1. /\ upload' = [upload EXCEPT ![f] = "failed"]
            /\ fileStatus' = [fileStatus EXCEPT ![f] = "failed"]
            /\ reserved' = reserved - 1 /\ used' = used
        BY <1>5, <2>1 DEF FailUpload, Ledger
      <3>2. reserved' \in Nat  BY <2>1, <3>1
      <3> QED  BY <1>5, <2>1, <3>1, <3>2 DEF FailUpload, Ledger
    <2>2. CASE ~ (f \in Open /\ reserved > 0)  BY <1>5, <2>2 DEF FailUpload
    <2> QED  BY <2>1, <2>2
  <1>6. ASSUME NEW f \in FileIds, CompleteClaim(f) PROVE FilesTypeOK'
    <2>1. CASE Completable(f)
      <3>1. reserved' = reserved - 1 /\ used' = used + 1 /\ reserved > 0
        BY <1>6, <2>1 DEF CompleteClaim, Completable, Ledger
      <3>2. reserved' \in Nat /\ used' \in Nat  BY <3>1
      <3> QED  BY <1>6, <2>1, <3>2 DEF CompleteClaim, Ledger
    <2>2. CASE ~ Completable(f)  BY <1>6, <2>2 DEF CompleteClaim
    <2> QED  BY <2>1, <2>2
  <1>7. ASSUME NEW f \in FileIds, AbortUpload(f) PROVE FilesTypeOK'
    BY <1>7 DEF AbortUpload, Ledger
  <1>8. ASSUME NEW f \in FileIds, DeleteBlob(f) PROVE FilesTypeOK'
    BY <1>8 DEF DeleteBlob
  <1>9. ASSUME NEW f \in FileIds, Overdue(f) PROVE FilesTypeOK'
    BY <1>9 DEF Overdue
  <1>10. ASSUME NEW f \in FileIds, AttachLock(f) PROVE FilesTypeOK'
    BY <1>10 DEF AttachLock, Locked
  <1>11. ASSUME NEW f \in FileIds, AttachEnds(f) PROVE FilesTypeOK'
    BY <1>11 DEF AttachEnds
  <1>12. ASSUME NEW f \in FileIds, CleanupExpired(f) PROVE FilesTypeOK'
    BY <1>12 DEF CleanupExpired, Ledger, Less
  <1>13. ASSUME NEW f \in FileIds, BlobLost(f) PROVE FilesTypeOK'
    BY <1>13 DEF BlobLost
  <1>14. ASSUME NEW f \in FileIds, FailMissing(f) PROVE FilesTypeOK'
    BY <1>14 DEF FailMissing, Ledger, Less, Locked
  <1>15. ASSUME NEW f \in FileIds, OrphanDeleted(f) PROVE FilesTypeOK'
    BY <1>15 DEF OrphanDeleted
  <1>16. ASSUME CleanupChoose PROVE FilesTypeOK'
    BY <1>16 DEF CleanupChoose
  <1>17. ASSUME CleanupLock PROVE FilesTypeOK'
    BY <1>17 DEF CleanupLock
  <1>18. ASSUME CleanupDelete PROVE FilesTypeOK'
    <2> DEFINE dead == {f \in cleaning : fileStatus[f] = "ready" /\ StillUnattached(f)}
    <2>1. dead \in SUBSET FileIds  OBVIOUS
    <2>2. Cardinality(dead) \in Nat  BY <2>1, FS_Subset, FS_CardinalityType
    <2>3. Less(used, Cardinality(dead)) \in Nat  BY <2>2 DEF Less
    <2> QED  BY <1>18, <2>1, <2>3 DEF CleanupDelete, Ledger
  <1>19. ASSUME RecomputeReads PROVE FilesTypeOK'
    <2>1. Cardinality(Ready) \in Nat /\ Cardinality(Open) \in Nat  BY CountsFinite
    <2> QED  BY <1>19, <2>1 DEF RecomputeReads
  <1>20. ASSUME RecomputeWrites PROVE FilesTypeOK'
    BY <1>20 DEF RecomputeWrites
  <1>21. ASSUME FilesCrash PROVE FilesTypeOK'
    <2>1. sums' \in (Nat \X Nat) \cup {<<>>}  BY <1>21, Zenon DEF FilesCrash
    <2>2. /\ crashes' \in 0..MaxCrashes
          /\ content' \in [FileIds -> {"none", "writing", "written", "failed"}]
          /\ attaching' = {} /\ cleaning' = {} /\ cleanStep' = "idle" /\ doomed' = {}
          /\ moved' = FALSE
          /\ UNCHANGED <<rowVars, blobs, used, reserved, drifted, attached, lost>>
      BY <1>21 DEF FilesCrash
    <2> QED  BY <2>1, <2>2
  <1> QED
    BY <1>1, <1>2, <1>3, <1>4, <1>5, <1>6, <1>7, <1>8, <1>9, <1>10, <1>11,
       <1>12, <1>13, <1>14, <1>15, <1>16, <1>17, <1>18, <1>19, <1>20, <1>21
    DEF FilesNext

(* The rows of a file and of its upload are written together.              *)
LEMMA RowsAgreeStep ==
    ASSUME FilesTypeOK, RowsAgree, FilesNext PROVE RowsAgree'
  <1> USE FilesAssumption DEF FilesTypeOK, RowsAgree, Open,
      rowVars, ledgerVars, attachVars, cleanVars, mishapVars
  <1>1. ASSUME NEW f \in FileIds, CreateUpload(f) PROVE RowsAgree'
    BY <1>1 DEF CreateUpload, Ledger
  <1>2. ASSUME NEW f \in FileIds, ClaimUpload(f) PROVE RowsAgree'
    BY <1>2 DEF ClaimUpload
  <1>3. ASSUME NEW f \in FileIds, ContentWritten(f) PROVE RowsAgree'
    BY <1>3 DEF ContentWritten
  <1>4. ASSUME NEW f \in FileIds, ContentRefused(f) PROVE RowsAgree'
    BY <1>4 DEF ContentRefused
  <1>5. ASSUME NEW f \in FileIds, FailUpload(f) PROVE RowsAgree'
    BY <1>5 DEF FailUpload, Ledger
  <1>6. ASSUME NEW f \in FileIds, CompleteClaim(f) PROVE RowsAgree'
    BY <1>6 DEF CompleteClaim, Completable, Ledger
  <1>7. ASSUME NEW f \in FileIds, AbortUpload(f) PROVE RowsAgree'
    BY <1>7 DEF AbortUpload, Ledger
  <1>8. ASSUME NEW f \in FileIds, DeleteBlob(f) PROVE RowsAgree'
    BY <1>8 DEF DeleteBlob
  <1>9. ASSUME NEW f \in FileIds, Overdue(f) PROVE RowsAgree'
    BY <1>9 DEF Overdue
  <1>10. ASSUME NEW f \in FileIds, AttachLock(f) PROVE RowsAgree'
    BY <1>10 DEF AttachLock, Locked
  <1>11. ASSUME NEW f \in FileIds, AttachEnds(f) PROVE RowsAgree'
    BY <1>11 DEF AttachEnds
  <1>12. ASSUME NEW f \in FileIds, CleanupExpired(f) PROVE RowsAgree'
    BY <1>12 DEF CleanupExpired, Ledger, Less
  <1>13. ASSUME NEW f \in FileIds, BlobLost(f) PROVE RowsAgree'
    BY <1>13 DEF BlobLost
  <1>14. ASSUME NEW f \in FileIds, FailMissing(f) PROVE RowsAgree'
    BY <1>14 DEF FailMissing, Ledger, Less, Locked
  <1>15. ASSUME NEW f \in FileIds, OrphanDeleted(f) PROVE RowsAgree'
    BY <1>15 DEF OrphanDeleted
  <1>16. ASSUME CleanupChoose PROVE RowsAgree'
    BY <1>16 DEF CleanupChoose
  <1>17. ASSUME CleanupLock PROVE RowsAgree'
    BY <1>17 DEF CleanupLock
  <1>18. ASSUME CleanupDelete PROVE RowsAgree'
    BY <1>18 DEF CleanupDelete, StillUnattached, Ledger, Less
  <1>19. ASSUME RecomputeReads PROVE RowsAgree'
    BY <1>19 DEF RecomputeReads
  <1>20. ASSUME RecomputeWrites PROVE RowsAgree'
    BY <1>20 DEF RecomputeWrites
  <1>21. ASSUME FilesCrash PROVE RowsAgree'
    BY <1>21 DEF FilesCrash
  <1> QED
    BY <1>1, <1>2, <1>3, <1>4, <1>5, <1>6, <1>7, <1>8, <1>9, <1>10, <1>11,
       <1>12, <1>13, <1>14, <1>15, <1>16, <1>17, <1>18, <1>19, <1>20, <1>21
    DEF FilesNext

(* Who ends a ready file waits for its row.                                *)
LEMMA LocksHoldStep ==
    ASSUME FilesTypeOK, RowsAgree, LocksHold, FilesNext PROVE LocksHold'
  <1> USE FilesAssumption DEF FilesTypeOK, RowsAgree, LocksHold, Open, Ready,
      rowVars, ledgerVars, attachVars, cleanVars, mishapVars
  <1>1. ASSUME NEW f \in FileIds, CreateUpload(f) PROVE LocksHold'
    BY <1>1 DEF CreateUpload, Ledger
  <1>2. ASSUME NEW f \in FileIds, ClaimUpload(f) PROVE LocksHold'
    BY <1>2 DEF ClaimUpload
  <1>3. ASSUME NEW f \in FileIds, ContentWritten(f) PROVE LocksHold'
    BY <1>3 DEF ContentWritten
  <1>4. ASSUME NEW f \in FileIds, ContentRefused(f) PROVE LocksHold'
    BY <1>4 DEF ContentRefused
  <1>5. ASSUME NEW f \in FileIds, FailUpload(f) PROVE LocksHold'
    BY <1>5 DEF FailUpload, Ledger
  <1>6. ASSUME NEW f \in FileIds, CompleteClaim(f) PROVE LocksHold'
    BY <1>6 DEF CompleteClaim, Completable, Ledger
  <1>7. ASSUME NEW f \in FileIds, AbortUpload(f) PROVE LocksHold'
    BY <1>7 DEF AbortUpload, Ledger
  <1>8. ASSUME NEW f \in FileIds, DeleteBlob(f) PROVE LocksHold'
    BY <1>8 DEF DeleteBlob
  <1>9. ASSUME NEW f \in FileIds, Overdue(f) PROVE LocksHold'
    BY <1>9 DEF Overdue
  <1>10. ASSUME NEW f \in FileIds, AttachLock(f) PROVE LocksHold'
    BY <1>10 DEF AttachLock, Locked
  <1>11. ASSUME NEW f \in FileIds, AttachEnds(f) PROVE LocksHold'
    BY <1>11 DEF AttachEnds
  <1>12. ASSUME NEW f \in FileIds, CleanupExpired(f) PROVE LocksHold'
    BY <1>12 DEF CleanupExpired, Ledger, Less
  <1>13. ASSUME NEW f \in FileIds, BlobLost(f) PROVE LocksHold'
    BY <1>13 DEF BlobLost
  <1>14. ASSUME NEW f \in FileIds, FailMissing(f) PROVE LocksHold'
    BY <1>14 DEF FailMissing, Ledger, Less, Locked
  <1>15. ASSUME NEW f \in FileIds, OrphanDeleted(f) PROVE LocksHold'
    BY <1>15 DEF OrphanDeleted
  <1>16. ASSUME CleanupChoose PROVE LocksHold'
    BY <1>16 DEF CleanupChoose
  <1>17. ASSUME CleanupLock PROVE LocksHold'
    BY <1>17 DEF CleanupLock
  <1>18. ASSUME CleanupDelete PROVE LocksHold'
    BY <1>18 DEF CleanupDelete, StillUnattached, Ledger, Less
  <1>19. ASSUME RecomputeReads PROVE LocksHold'
    BY <1>19 DEF RecomputeReads
  <1>20. ASSUME RecomputeWrites PROVE LocksHold'
    BY <1>20 DEF RecomputeWrites
  <1>21. ASSUME FilesCrash PROVE LocksHold'
    BY <1>21 DEF FilesCrash
  <1> QED
    BY <1>1, <1>2, <1>3, <1>4, <1>5, <1>6, <1>7, <1>8, <1>9, <1>10, <1>11,
       <1>12, <1>13, <1>14, <1>15, <1>16, <1>17, <1>18, <1>19, <1>20, <1>21
    DEF FilesNext

(* Only what was given up is deleted.                                      *)
LEMMA BlobsKeptStep ==
    ASSUME FilesTypeOK, RowsAgree, BlobsKept, FilesNext PROVE BlobsKept'
  <1> USE FilesAssumption DEF FilesTypeOK, RowsAgree, BlobsKept, Open,
      rowVars, ledgerVars, attachVars, cleanVars, mishapVars
  <1>1. ASSUME NEW f \in FileIds, CreateUpload(f) PROVE BlobsKept'
    BY <1>1 DEF CreateUpload, Ledger
  <1>2. ASSUME NEW f \in FileIds, ClaimUpload(f) PROVE BlobsKept'
    BY <1>2 DEF ClaimUpload
  <1>3. ASSUME NEW f \in FileIds, ContentWritten(f) PROVE BlobsKept'
    BY <1>3 DEF ContentWritten
  <1>4. ASSUME NEW f \in FileIds, ContentRefused(f) PROVE BlobsKept'
    BY <1>4 DEF ContentRefused
  <1>5. ASSUME NEW f \in FileIds, FailUpload(f) PROVE BlobsKept'
    BY <1>5 DEF FailUpload, Ledger
  <1>6. ASSUME NEW f \in FileIds, CompleteClaim(f) PROVE BlobsKept'
    BY <1>6 DEF CompleteClaim, Completable, Ledger
  <1>7. ASSUME NEW f \in FileIds, AbortUpload(f) PROVE BlobsKept'
    BY <1>7 DEF AbortUpload, Ledger
  <1>8. ASSUME NEW f \in FileIds, DeleteBlob(f) PROVE BlobsKept'
    BY <1>8 DEF DeleteBlob
  <1>9. ASSUME NEW f \in FileIds, Overdue(f) PROVE BlobsKept'
    BY <1>9 DEF Overdue
  <1>10. ASSUME NEW f \in FileIds, AttachLock(f) PROVE BlobsKept'
    BY <1>10 DEF AttachLock, Locked
  <1>11. ASSUME NEW f \in FileIds, AttachEnds(f) PROVE BlobsKept'
    BY <1>11 DEF AttachEnds
  <1>12. ASSUME NEW f \in FileIds, CleanupExpired(f) PROVE BlobsKept'
    BY <1>12 DEF CleanupExpired, Ledger, Less
  <1>13. ASSUME NEW f \in FileIds, BlobLost(f) PROVE BlobsKept'
    BY <1>13 DEF BlobLost
  <1>14. ASSUME NEW f \in FileIds, FailMissing(f) PROVE BlobsKept'
    BY <1>14 DEF FailMissing, Ledger, Less, Locked
  <1>15. ASSUME NEW f \in FileIds, OrphanDeleted(f) PROVE BlobsKept'
    BY <1>15 DEF OrphanDeleted
  <1>16. ASSUME CleanupChoose PROVE BlobsKept'
    BY <1>16 DEF CleanupChoose
  <1>17. ASSUME CleanupLock PROVE BlobsKept'
    BY <1>17 DEF CleanupLock
  <1>18. ASSUME CleanupDelete PROVE BlobsKept'
    BY <1>18 DEF CleanupDelete, StillUnattached, Ledger, Less
  <1>19. ASSUME RecomputeReads PROVE BlobsKept'
    BY <1>19 DEF RecomputeReads
  <1>20. ASSUME RecomputeWrites PROVE BlobsKept'
    BY <1>20 DEF RecomputeWrites
  <1>21. ASSUME FilesCrash PROVE BlobsKept'
    BY <1>21 DEF FilesCrash
  <1> QED
    BY <1>1, <1>2, <1>3, <1>4, <1>5, <1>6, <1>7, <1>8, <1>9, <1>10, <1>11,
       <1>12, <1>13, <1>14, <1>15, <1>16, <1>17, <1>18, <1>19, <1>20, <1>21
    DEF FilesNext

(* A cleanup does not take what is attached.                               *)
LEMMA AttachedStep ==
    ASSUME RowsInv, FilesNext PROVE AttachedKept'
  <1> USE FilesAssumption DEF RowsInv, FilesTypeOK, RowsAgree, LocksHold, AttachedKept,
      ReadyHasBlob, Open, Ready,
      rowVars, ledgerVars, attachVars, cleanVars, mishapVars
  <1>1. ASSUME NEW f \in FileIds, CreateUpload(f) PROVE AttachedKept'
    BY <1>1 DEF CreateUpload, Ledger
  <1>2. ASSUME NEW f \in FileIds, ClaimUpload(f) PROVE AttachedKept'
    BY <1>2 DEF ClaimUpload
  <1>3. ASSUME NEW f \in FileIds, ContentWritten(f) PROVE AttachedKept'
    BY <1>3 DEF ContentWritten
  <1>4. ASSUME NEW f \in FileIds, ContentRefused(f) PROVE AttachedKept'
    BY <1>4 DEF ContentRefused
  <1>5. ASSUME NEW f \in FileIds, FailUpload(f) PROVE AttachedKept'
    BY <1>5 DEF FailUpload, Ledger
  <1>6. ASSUME NEW f \in FileIds, CompleteClaim(f) PROVE AttachedKept'
    BY <1>6 DEF CompleteClaim, Completable, Ledger
  <1>7. ASSUME NEW f \in FileIds, AbortUpload(f) PROVE AttachedKept'
    BY <1>7 DEF AbortUpload, Ledger
  <1>8. ASSUME NEW f \in FileIds, DeleteBlob(f) PROVE AttachedKept'
    BY <1>8 DEF DeleteBlob
  <1>9. ASSUME NEW f \in FileIds, Overdue(f) PROVE AttachedKept'
    BY <1>9 DEF Overdue
  <1>10. ASSUME NEW f \in FileIds, AttachLock(f) PROVE AttachedKept'
    BY <1>10 DEF AttachLock, Locked
  <1>11. ASSUME NEW f \in FileIds, AttachEnds(f) PROVE AttachedKept'
    BY <1>11 DEF AttachEnds
  <1>12. ASSUME NEW f \in FileIds, CleanupExpired(f) PROVE AttachedKept'
    BY <1>12 DEF CleanupExpired, Ledger, Less
  <1>13. ASSUME NEW f \in FileIds, BlobLost(f) PROVE AttachedKept'
    BY <1>13 DEF BlobLost
  <1>14. ASSUME NEW f \in FileIds, FailMissing(f) PROVE AttachedKept'
    BY <1>14 DEF FailMissing, Ledger, Less, Locked
  <1>15. ASSUME NEW f \in FileIds, OrphanDeleted(f) PROVE AttachedKept'
    BY <1>15 DEF OrphanDeleted
  <1>16. ASSUME CleanupChoose PROVE AttachedKept'
    BY <1>16 DEF CleanupChoose
  <1>17. ASSUME CleanupLock PROVE AttachedKept'
    BY <1>17 DEF CleanupLock
  <1>18. ASSUME CleanupDelete PROVE AttachedKept'
    BY <1>18 DEF CleanupDelete, StillUnattached, Ledger, Less
  <1>19. ASSUME RecomputeReads PROVE AttachedKept'
    BY <1>19 DEF RecomputeReads
  <1>20. ASSUME RecomputeWrites PROVE AttachedKept'
    BY <1>20 DEF RecomputeWrites
  <1>21. ASSUME FilesCrash PROVE AttachedKept'
    BY <1>21 DEF FilesCrash
  <1> QED
    BY <1>1, <1>2, <1>3, <1>4, <1>5, <1>6, <1>7, <1>8, <1>9, <1>10, <1>11,
       <1>12, <1>13, <1>14, <1>15, <1>16, <1>17, <1>18, <1>19, <1>20, <1>21
    DEF FilesNext

(* A file gets ready when its object is there, which nothing deletes.      *)
LEMMA ReadyStep ==
    ASSUME RowsInv, FilesNext PROVE ReadyHasBlob'
  <1> USE FilesAssumption DEF RowsInv, FilesTypeOK, RowsAgree, BlobsKept,
      ReadyHasBlob, Open, Ready,
      rowVars, ledgerVars, attachVars, cleanVars, mishapVars
  <1>1. ASSUME NEW f \in FileIds, CreateUpload(f) PROVE ReadyHasBlob'
    BY <1>1 DEF CreateUpload, Ledger
  <1>2. ASSUME NEW f \in FileIds, ClaimUpload(f) PROVE ReadyHasBlob'
    BY <1>2 DEF ClaimUpload
  <1>3. ASSUME NEW f \in FileIds, ContentWritten(f) PROVE ReadyHasBlob'
    BY <1>3 DEF ContentWritten
  <1>4. ASSUME NEW f \in FileIds, ContentRefused(f) PROVE ReadyHasBlob'
    BY <1>4 DEF ContentRefused
  <1>5. ASSUME NEW f \in FileIds, FailUpload(f) PROVE ReadyHasBlob'
    BY <1>5 DEF FailUpload, Ledger
  <1>6. ASSUME NEW f \in FileIds, CompleteClaim(f) PROVE ReadyHasBlob'
    BY <1>6 DEF CompleteClaim, Completable, Ledger
  <1>7. ASSUME NEW f \in FileIds, AbortUpload(f) PROVE ReadyHasBlob'
    BY <1>7 DEF AbortUpload, Ledger
  <1>8. ASSUME NEW f \in FileIds, DeleteBlob(f) PROVE ReadyHasBlob'
    BY <1>8 DEF DeleteBlob
  <1>9. ASSUME NEW f \in FileIds, Overdue(f) PROVE ReadyHasBlob'
    BY <1>9 DEF Overdue
  <1>10. ASSUME NEW f \in FileIds, AttachLock(f) PROVE ReadyHasBlob'
    BY <1>10 DEF AttachLock, Locked
  <1>11. ASSUME NEW f \in FileIds, AttachEnds(f) PROVE ReadyHasBlob'
    BY <1>11 DEF AttachEnds
  <1>12. ASSUME NEW f \in FileIds, CleanupExpired(f) PROVE ReadyHasBlob'
    BY <1>12 DEF CleanupExpired, Ledger, Less
  <1>13. ASSUME NEW f \in FileIds, BlobLost(f) PROVE ReadyHasBlob'
    BY <1>13 DEF BlobLost
  <1>14. ASSUME NEW f \in FileIds, FailMissing(f) PROVE ReadyHasBlob'
    BY <1>14 DEF FailMissing, Ledger, Less, Locked
  <1>15. ASSUME NEW f \in FileIds, OrphanDeleted(f) PROVE ReadyHasBlob'
    BY <1>15 DEF OrphanDeleted
  <1>16. ASSUME CleanupChoose PROVE ReadyHasBlob'
    BY <1>16 DEF CleanupChoose
  <1>17. ASSUME CleanupLock PROVE ReadyHasBlob'
    BY <1>17 DEF CleanupLock
  <1>18. ASSUME CleanupDelete PROVE ReadyHasBlob'
    BY <1>18 DEF CleanupDelete, StillUnattached, Ledger, Less
  <1>19. ASSUME RecomputeReads PROVE ReadyHasBlob'
    BY <1>19 DEF RecomputeReads
  <1>20. ASSUME RecomputeWrites PROVE ReadyHasBlob'
    BY <1>20 DEF RecomputeWrites
  <1>21. ASSUME FilesCrash PROVE ReadyHasBlob'
    BY <1>21 DEF FilesCrash
  <1> QED
    BY <1>1, <1>2, <1>3, <1>4, <1>5, <1>6, <1>7, <1>8, <1>9, <1>10, <1>11,
       <1>12, <1>13, <1>14, <1>15, <1>16, <1>17, <1>18, <1>19, <1>20, <1>21
    DEF FilesNext

(* The rows, locks and blobs agree in every state.                         *)
LEMMA RowsInvStep == RowsInv /\ [FilesNext]_fileVars => RowsInv'
  <1> SUFFICES ASSUME RowsInv, [FilesNext]_fileVars PROVE RowsInv'  OBVIOUS
  <1>1. CASE FilesNext
    BY <1>1, FilesTypeStep, RowsAgreeStep, LocksHoldStep, BlobsKeptStep, AttachedStep, ReadyStep
    DEF RowsInv
  <1>2. CASE UNCHANGED fileVars
    BY <1>2
    DEF fileVars, rowVars, ledgerVars, attachVars, cleanVars, mishapVars, RowsInv,
        FilesTypeOK, RowsAgree, LocksHold, BlobsKept, AttachedKept, ReadyHasBlob, Open, Ready
  <1> QED  BY <1>1, <1>2

-----------------------------------------------------------------------------
(* A step that leaves the rows and the ledger alone.                       *)
LEMMA LedgerUntouched ==
    ASSUME SumsTrue, LedgerTrue, UNCHANGED <<fileStatus, upload, ledgerVars>>
    PROVE  SumsTrue' /\ LedgerTrue'
  BY DEF SumsTrue, LedgerTrue, Ready, Open, ledgerVars

(* A step that writes both.                                                *)
LEMMA LedgerWritten ==
    ASSUME SumsTrue, LedgerTrue, UNCHANGED <<sums, drifted>>,
           moved' = (moved \/ sums # <<>>),
           drifted # "now" => /\ used' = Cardinality(Ready')
                              /\ reserved' = Cardinality(Open'),
           drifted = "never" => used' + reserved' <= Quota
    PROVE  SumsTrue' /\ LedgerTrue'
  <1>1. ~ (sums' # <<>> /\ ~ moved')  OBVIOUS
  <1>2. SumsTrue'  BY <1>1 DEF SumsTrue
  <1>3. LedgerTrue'  BY DEF LedgerTrue
  <1> QED  BY <1>2, <1>3

(* How the counts change with one file.                                    *)
LEMMA CountsChange ==
    ASSUME NEW S, S = Ready \/ S = Open, NEW f
    PROVE  /\ f \notin S => Cardinality(S \cup {f}) = Cardinality(S) + 1
           /\ f \in S => Cardinality(S \ {f}) = Cardinality(S) - 1 /\ Cardinality(S) > 0
  <1>1. IsFiniteSet(S) /\ Cardinality(S) \in Nat  BY CountsFinite
  <1>2. f \in S => S # {}  OBVIOUS
  <1>3. f \in S => Cardinality(S) # 0  BY <1>1, <1>2, FS_EmptySet
  <1>4. Cardinality(S \cup {f}) = IF f \in S THEN Cardinality(S) ELSE Cardinality(S) + 1
    BY <1>1, FS_AddElement
  <1>5. Cardinality(S \ {f}) = IF f \in S THEN Cardinality(S) - 1 ELSE Cardinality(S)
    BY <1>1, FS_RemoveElement
  <1> QED  BY <1>1, <1>3, <1>4, <1>5

LEMMA LedgerStep ==
    ASSUME FilesInv, FilesNext PROVE SumsTrue' /\ LedgerTrue'
  <1> USE FilesAssumption, CountsFinite DEF FilesInv, RowsInv
  <1> DEFINE Goal == SumsTrue' /\ LedgerTrue'
  <1>1. ASSUME NEW f \in FileIds, CreateUpload(f) PROVE Goal
    <2>1. Ready' = Ready /\ Open' = Open \cup {f} /\ f \notin Open
      BY <1>1 DEF CreateUpload, FilesTypeOK, RowsAgree, Ready, Open
    <2>2. Cardinality(Open') = Cardinality(Open) + 1  BY <2>1, CountsChange
    <2>3. used' = used /\ reserved' = reserved + 1 /\ used + reserved + 1 <= Quota
      BY <1>1 DEF CreateUpload, Ledger
    <2>4. used' + reserved' <= Quota  BY <2>3 DEF FilesTypeOK
    <2>5. drifted # "now" => used' = Cardinality(Ready') /\ reserved' = Cardinality(Open')
      BY <2>1, <2>2, <2>3 DEF LedgerTrue
    <2> QED  BY <1>1, <2>4, <2>5, LedgerWritten DEF CreateUpload, Ledger
  <1>2. ASSUME NEW f \in FileIds, FailUpload(f) \/ AbortUpload(f),
               f \in Open, reserved > 0
        PROVE  Goal
    <2>1. Ready' = Ready /\ Open' = Open \ {f}
      BY <1>2 DEF FailUpload, AbortUpload, FilesTypeOK, RowsAgree, Ready, Open
    <2>2. Cardinality(Open') = Cardinality(Open) - 1  BY <1>2, <2>1, CountsChange
    <2>3. used' = used /\ reserved' = reserved - 1
      BY <1>2 DEF FailUpload, AbortUpload, Ledger
    <2>4. drifted = "never" => used' + reserved' <= Quota
      BY <2>3 DEF LedgerTrue, FilesTypeOK
    <2>5. drifted # "now" => used' = Cardinality(Ready') /\ reserved' = Cardinality(Open')
      BY <2>1, <2>2, <2>3 DEF LedgerTrue
    <2> QED  BY <1>2, <2>4, <2>5, LedgerWritten DEF FailUpload, AbortUpload, Ledger
  <1>3. ASSUME NEW f \in FileIds, CompleteClaim(f), Completable(f) PROVE Goal
    <2>1. f \in Open /\ f \notin Ready  BY <1>3 DEF Completable, RowsAgree, Ready
    <2>2. upload[f] = "uploading"
      BY <1>3, <2>1 DEF CompleteClaim, RowsAgree, Open
    <2>3. Ready' = Ready \cup {f} /\ Open' = Open \ {f}
      BY <1>3, <2>2 DEF CompleteClaim, FilesTypeOK, Ready, Open
    <2>4. /\ Cardinality(Open') = Cardinality(Open) - 1
          /\ Cardinality(Ready') = Cardinality(Ready) + 1
      BY <2>1, <2>3, CountsChange
    <2>5. used' = used + 1 /\ reserved' = reserved - 1
      BY <1>3 DEF CompleteClaim, Ledger
    <2>6. drifted = "never" => used' + reserved' <= Quota
      BY <2>5 DEF LedgerTrue, FilesTypeOK
    <2>7. drifted # "now" => used' = Cardinality(Ready') /\ reserved' = Cardinality(Open')
      BY <2>4, <2>5 DEF LedgerTrue
    <2> QED  BY <1>3, <2>6, <2>7, LedgerWritten DEF CompleteClaim, Ledger
  <1>4. ASSUME NEW f \in FileIds, CleanupExpired(f) PROVE Goal
    <2>1. f \in Open /\ Ready' = Ready /\ Open' = Open \ {f}
      BY <1>4 DEF CleanupExpired, FilesTypeOK, RowsAgree, Ready, Open
    <2>2. Cardinality(Open') = Cardinality(Open) - 1 /\ Cardinality(Open) > 0
      BY <2>1, CountsChange
    <2>3. used' = used /\ reserved' = Less(reserved, 1)  BY <1>4 DEF CleanupExpired, Ledger
    <2>4. drifted = "never" => used' + reserved' <= Quota
      BY <2>3 DEF LedgerTrue, FilesTypeOK, Less
    <2>5. drifted # "now" => used' = Cardinality(Ready') /\ reserved' = Cardinality(Open')
      BY <2>1, <2>2, <2>3 DEF LedgerTrue, Less
    <2> QED  BY <1>4, <2>4, <2>5, LedgerWritten DEF CleanupExpired, Ledger
  <1>5. ASSUME NEW f \in FileIds, FailMissing(f) PROVE Goal
    <2>1. f \in Ready /\ Ready' = Ready \ {f} /\ Open' = Open
      BY <1>5 DEF FailMissing, FilesTypeOK, Ready, Open
    <2>2. Cardinality(Ready') = Cardinality(Ready) - 1 /\ Cardinality(Ready) > 0
      BY <2>1, CountsChange
    <2>3. used' = Less(used, 1) /\ reserved' = reserved  BY <1>5 DEF FailMissing, Ledger
    <2>4. drifted = "never" => used' + reserved' <= Quota
      BY <2>3 DEF LedgerTrue, FilesTypeOK, Less
    <2>5. drifted # "now" => used' = Cardinality(Ready') /\ reserved' = Cardinality(Open')
      BY <2>1, <2>2, <2>3 DEF LedgerTrue, Less
    <2> QED  BY <1>5, <2>4, <2>5, LedgerWritten DEF FailMissing, Ledger
  <1>6. ASSUME CleanupDelete PROVE Goal
    <2> DEFINE dead == {f \in cleaning : fileStatus[f] = "ready" /\ StillUnattached(f)}
    <2>1. dead \in SUBSET Ready  BY DEF Ready, FilesTypeOK
    <2>2. IsFiniteSet(dead) /\ Cardinality(dead) \in Nat
          /\ Cardinality(dead) <= Cardinality(Ready)
      BY <2>1, FS_Subset, FS_CardinalityType
    <2>3. Ready' = Ready \ dead /\ Open' = Open
      BY <1>6 DEF CleanupDelete, FilesTypeOK, Ready, Open
    <2>4. IsFiniteSet(Ready \ dead) /\ Cardinality(Ready \ dead) \in Nat
      <3>1. Ready \ dead \in SUBSET Ready  OBVIOUS
      <3> QED  BY <3>1, FS_Subset, FS_CardinalityType
    <2>5. Cardinality(Ready) = Cardinality(Ready \ dead) + Cardinality(dead)
      <3>1. (Ready \ dead) \cup dead = Ready /\ (Ready \ dead) \cap dead = {}  BY <2>1
      <3>2. Cardinality((Ready \ dead) \cup dead)
               = Cardinality(Ready \ dead) + Cardinality(dead)
                 - Cardinality((Ready \ dead) \cap dead)
        BY <2>2, <2>4, FS_Union
      <3>3. Cardinality(Ready)
               = Cardinality(Ready \ dead) + Cardinality(dead) - Cardinality({})
        BY <3>1, <3>2, Zenon
      <3>4. Cardinality({}) = 0  BY FS_EmptySet
      <3> HIDE DEF dead
      <3> QED  BY <2>2, <2>4, <3>3, <3>4
    <2>6. used' = Less(used, Cardinality(dead)) /\ reserved' = reserved
      BY <1>6 DEF CleanupDelete, Ledger
    <2>7. drifted = "never" => used' + reserved' <= Quota
      BY <2>2, <2>6 DEF LedgerTrue, FilesTypeOK, Less
    <2>8. drifted # "now" => used' = Cardinality(Ready') /\ reserved' = Cardinality(Open')
      <3> HIDE DEF dead
      <3> QED  BY <2>2, <2>3, <2>4, <2>5, <2>6 DEF LedgerTrue, Less
    <2> QED  BY <1>6, <2>7, <2>8, LedgerWritten DEF CleanupDelete, Ledger
  <1>7. ASSUME RecomputeReads PROVE Goal
    <2>1. Ready' = Ready /\ Open' = Open
      BY <1>7 DEF RecomputeReads, rowVars, Ready, Open
    <2>2. SumsTrue'  BY <1>7, <2>1 DEF RecomputeReads, SumsTrue
    <2>3. LedgerTrue'  BY <1>7, <2>1 DEF RecomputeReads, LedgerTrue
    <2> QED  BY <2>2, <2>3
  <1>8. ASSUME RecomputeWrites PROVE Goal
    <2>1. Ready' = Ready /\ Open' = Open
      BY <1>8 DEF RecomputeWrites, rowVars, Ready, Open
    <2>2. SumsTrue'  BY <1>8 DEF RecomputeWrites, SumsTrue
    <2>3. CASE moved  BY <1>8, <2>2, <2>3 DEF RecomputeWrites, LedgerTrue
    <2>4. CASE ~ moved
      <3>1. used' = Cardinality(Ready) /\ reserved' = Cardinality(Open)
        BY <1>8, <2>4 DEF RecomputeWrites, SumsTrue
      <3>2. drifted' = "never" => drifted = "never"  BY <1>8, <2>4 DEF RecomputeWrites
      <3>3. drifted' = "never" => used' + reserved' <= Quota
        BY <3>1, <3>2 DEF LedgerTrue
      <3>4. LedgerTrue'  BY <2>1, <3>1, <3>3 DEF LedgerTrue
      <3> QED  BY <2>2, <3>4
    <2> QED  BY <2>3, <2>4 DEF FilesTypeOK
  <1>9. ASSUME FilesCrash PROVE Goal
    <2>1. Ready' = Ready /\ Open' = Open  BY <1>9 DEF FilesCrash, rowVars, Ready, Open
    <2>2. SumsTrue'  BY <1>9 DEF FilesCrash, SumsTrue
    <2>3. LedgerTrue'  BY <1>9, <2>1 DEF FilesCrash, LedgerTrue
    <2> QED  BY <2>2, <2>3
  <1>10. ASSUME UNCHANGED <<fileStatus, upload, ledgerVars>> PROVE Goal
    BY <1>10, LedgerUntouched
  <1>11. ASSUME NEW f \in FileIds,
                \/ ClaimUpload(f) \/ ContentWritten(f) \/ ContentRefused(f) \/ DeleteBlob(f)
                \/ Overdue(f) \/ AttachLock(f) \/ AttachEnds(f) \/ BlobLost(f)
                \/ OrphanDeleted(f)
         PROVE  Goal
    <2>1. CASE ClaimUpload(f)
      <3>1. Ready' = Ready /\ Open' = Open
        BY <2>1 DEF ClaimUpload, FilesTypeOK, Ready, Open
      <3> QED  BY <2>1, <3>1 DEF ClaimUpload, SumsTrue, LedgerTrue, ledgerVars
    <2>2. CASE ~ ClaimUpload(f)
      <3>1. UNCHANGED <<fileStatus, upload, ledgerVars>>
        BY <1>11, <2>2
        DEF ContentWritten, ContentRefused, DeleteBlob, Overdue, AttachLock, AttachEnds,
            BlobLost, OrphanDeleted, rowVars
      <3> QED  BY <3>1, <1>10
    <2> QED  BY <2>1, <2>2
  <1>12. ASSUME CleanupChoose \/ CleanupLock PROVE UNCHANGED <<fileStatus, upload, ledgerVars>>
    BY <1>12 DEF CleanupChoose, CleanupLock, rowVars
  <1>13. ASSUME NEW f \in FileIds, FailUpload(f), ~ (f \in Open /\ reserved > 0)
         PROVE  UNCHANGED <<fileStatus, upload, ledgerVars>>
    BY <1>13 DEF FailUpload
  <1>14. ASSUME NEW f \in FileIds, CompleteClaim(f), ~ Completable(f)
         PROVE  UNCHANGED <<fileStatus, upload, ledgerVars>>
    BY <1>14 DEF CompleteClaim
  <1>15. ASSUME NEW f \in FileIds, AbortUpload(f) PROVE f \in Open /\ reserved > 0
    BY <1>15 DEF AbortUpload
  <1> QED
    BY <1>1, <1>2, <1>3, <1>4, <1>5, <1>6, <1>7, <1>8, <1>9, <1>10, <1>11, <1>12, <1>13,
       <1>14, <1>15 DEF FilesNext

-----------------------------------------------------------------------------
(* The invariant of the files, with what it rests on (files/service.go,    *)
(* files/worker.go: conditions on the status in every statement, row locks *)
(* of the attachment and the cleanup).                                     *)
THEOREM FilesCorrect == FilesSpec => []FilesInv
  <1>1. FilesInit => FilesInv
    <2> SUFFICES ASSUME FilesInit PROVE SumsTrue /\ LedgerTrue
      BY RowsInvInit DEF FilesInv
    <2>1. Ready = {} /\ Open = {}  BY DEF FilesInit, Ready, Open
    <2> QED  BY <2>1, FS_EmptySet, FilesAssumption DEF FilesInit, SumsTrue, LedgerTrue
  <1>2. FilesInv /\ [FilesNext]_fileVars => FilesInv'
    <2> SUFFICES ASSUME FilesInv, [FilesNext]_fileVars PROVE FilesInv'  OBVIOUS
    <2>1. RowsInv'  BY RowsInvStep DEF FilesInv
    <2>2. SumsTrue' /\ LedgerTrue'
      <3>1. CASE FilesNext  BY <3>1, LedgerStep
      <3>2. CASE UNCHANGED fileVars
        BY <3>2, LedgerUntouched DEF fileVars, rowVars, FilesInv
      <3> QED  BY <3>1, <3>2
    <2> QED  BY <2>1, <2>2 DEF FilesInv
  <1> QED  BY <1>1, <1>2, PTL DEF FilesSpec

(* The cleanup of unattached files and the attachment never race.          *)
THEOREM AttachedFilesKept == FilesSpec => []AttachedKept
  <1>1. FilesInv => AttachedKept  BY DEF FilesInv, RowsInv
  <1> QED  BY <1>1, FilesCorrect, PTL

(* A ready file has its object.                                            *)
THEOREM ReadyFilesStored == FilesSpec => []ReadyHasBlob
  <1>1. FilesInv => ReadyHasBlob  BY DEF FilesInv, RowsInv
  <1> QED  BY <1>1, FilesCorrect, PTL

(* The ledger is what the rows sum up to, and within the quota.            *)
THEOREM LedgerStaysTrue == FilesSpec => []LedgerTrue
  <1>1. FilesInv => LedgerTrue  BY DEF FilesInv
  <1> QED  BY <1>1, FilesCorrect, PTL
=============================================================================

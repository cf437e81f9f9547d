---------------------------- MODULE OtaRefinement ----------------------------
(***************************************************************************)
(* The device implements Upgrade, until a flash operation fails.  The      *)
(* switch to the new image happens at the first erase of the App region:   *)
(* from then on every boot ends up with the image staged in the Backup     *)
(* region.                                                                 *)
(***************************************************************************)
EXTENDS OtaInvariants

AbsInstalled == IF Verified(appR) THEN appR[1] ELSE backupR[1]
AbsStaged    == IF Staged THEN backupR[1] ELSE None
AbsPromised  == IF verdict \in Images THEN verdict ELSE None

Abstract == INSTANCE Upgrade WITH installed <- AbsInstalled,
                                  staged    <- AbsStaged,
                                  promised  <- AbsPromised,
                                  broken    <- faults > 0

(* Whatever the interleaving of flash operations, requests, resets and     *)
(* power losses, the device behaves like the abstract upgrade: images are  *)
(* replaced as a whole, and a promised one is never lost.                  *)
ImplementsUpgrade == Abstract!Spec

-----------------------------------------------------------------------------
(* What the refinement needs beyond Inv: a promised image that is already  *)
(* installed is not staged a second time, neither by a record that is      *)
(* about to be saved nor by the backup copy when the primary one is bad.   *)

Describes(m) == /\ m.backup_valid
                /\ Verified(backupR)
                /\ m.backup_crc32 = backupR[1]

BackupWritten == save = "priErase" => backup = meta

StateSaveUnpromised == pc = "stateSave" => verdict \notin Images

NotStagedAgain ==
  verdict \in Images =>
    /\ pc \in SavePC \cup {"appCheck", "jump"} => ~Describes(meta)
    /\ primary = Bad => ~Staged
    /\ pc \in {"appCheck", "jump", "idle"} => ~Staged

MapInv == /\ BackupWritten
          /\ StateSaveUnpromised
          /\ faults = 0 => NotStagedAgain
=============================================================================

--------------------------- MODULE OtaInvariants ---------------------------
(***************************************************************************)
(* The inductive strengthening behind the safety properties of OtaSystem.  *)
(* TLC checks it here; OtaSystem_proofs proves it.                         *)
(***************************************************************************)
EXTENDS OtaSystem

SavePC == DOMAIN BootAfterSave \cup {"dropFlag", "commitSave", "stateSave"}
CopyPC == {"erase", "program", "reverify"}

(* The pcs of a boot that has not yet established that the App region is   *)
(* whole.  At every other one it is, as long as no flash operation fails.  *)
UndecidedPC == {"init", "decide", "verify"} \cup CopyPC

(* Staged, and the primary metadata copy says so: a state no power loss    *)
(* and no repair can turn into an unstaged one.                            *)
StagedP == /\ primary # Bad
           /\ primary.backup_valid
           /\ Verified(backupR)
           /\ primary.backup_crc32 = backupR[1]

Copied(n) == \A k \in 1..NUnits : k <= n => appR[k] = backupR[k]

-----------------------------------------------------------------------------
(* What holds whatever the flash does. *)

SaveOnlyInSavePC == save # "none" => pc \in SavePC

OkMeansWritten == save = "ok" => primary = meta

(* Every record, in flash or in RAM, names no image or a signed one. *)
Vouched(m) == m.backup_crc32 \in Signed \cup {None}
RecordsVouched == /\ primary # Bad => Vouched(primary)
                  /\ backup # Bad => Vouched(backup)
                  /\ Vouched(meta)

CopyIsVouched == pc \in CopyPC => /\ Verified(backupR)
                                  /\ meta.backup_crc32 = backupR[1]

(* What commit_backup is writing describes the Backup region. *)
CommitRecord ==
  pc = "commitSave" => /\ Verified(backupR)
                       /\ meta.backup_valid
                       /\ meta.backup_crc32 = backupR[1]

AppHeadVouched == appR[1] \in Images => appR[1] \in Signed \cup {Factory}

SafetyInv == /\ SaveOnlyInSavePC
             /\ OkMeansWritten
             /\ RecordsVouched
             /\ CopyIsVouched
             /\ CommitRecord
             /\ AppHeadVouched

-----------------------------------------------------------------------------
(* What holds until the first flash fault. *)

WholeOrStaged == Verified(appR) \/ StagedP

WholeOnceDecided == pc \notin UndecidedPC => Verified(appR)

SavesSucceed == save # "failed"

BootKnowsPrimary ==
  /\ pc = "decide" => primary = meta
  /\ pc = "verify" => /\ primary # Bad
                      /\ primary.backup_valid
                      /\ primary.backup_crc32 = meta.backup_crc32

CopyProgress ==
  /\ pc \in CopyPC => StagedP
  /\ pc = "program" => pos <= CopyLength /\ Copied(pos - 1)
  /\ pc = "reverify" => Copied(CopyLength)

(* The image a host was told of stays in the Backup region until that host *)
(* starts over, and is staged or installed.                                *)
PromiseInv ==
  verdict \in Images =>
    /\ backupR[1] = verdict
    /\ StagedP \/ (Verified(appR) /\ appR[1] = verdict)

PromiseRuns ==
  (verdict \in Images /\ pc \notin UndecidedPC \cup {"acked"}) =>
    appR[1] = verdict

FaultFreeInv == /\ WholeOrStaged
                /\ WholeOnceDecided
                /\ SavesSucceed
                /\ BootKnowsPrimary
                /\ CopyProgress
                /\ PromiseInv
                /\ PromiseRuns

-----------------------------------------------------------------------------
(* No transfer is open and no erase under way while a promise stands. *)
PromiseClosesTransfer ==
  verdict \in Images =>
    /\ pc # "dlErase"
    /\ pc # "dropFlag"
    /\ pc # "commitSave"
    /\ pc = "acked" \/ (~g_active /\ ~g_erased /\ ~g_exit_pending)

Inv == /\ TypeOK
       /\ SafetyInv
       /\ PromiseClosesTransfer
       /\ SafeModeJustified
       /\ faults = 0 => FaultFreeInv
=============================================================================

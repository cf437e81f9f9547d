-------------------------- MODULE OtaSystem_proofs --------------------------
(***************************************************************************)
(* Proofs about OtaSystem for every set of images, every region size and   *)
(* every bound on flash faults; the second part proves that the device     *)
(* implements Upgrade.                                                     *)
(***************************************************************************)
EXTENDS OtaRefinement, TLAPS

USE OtaFlashAssumption, BadAssumption, BscAssumption, NackAssumption

(* A verified region starts with an image that fits it. *)
LEMMA VerifiedHead ==
  ASSUME NEW r \in Region, Verified(r)
  PROVE  r[1] \in Images /\ Size[r[1]] \in 1..NUnits
  BY DEF Verified, Region

LEMMA LoadedType == TypeOK => Loaded \in Metadata
  BY DEF TypeOK, Loaded, Defaults, Metadata, Page, Reasons

LEMMA RegionUpdate ==
  ASSUME NEW r \in Region, NEW k \in 1..NUnits,
         NEW x \in Images \cup {Erased, Torn}
  PROVE  [r EXCEPT ![k] = x] \in Region
  BY DEF Region

LEMMA MetadataUpdate ==
  ASSUME NEW m \in Metadata
  PROVE  /\ \A r \in Reasons : [m EXCEPT !.last_boot_reason = r] \in Metadata
         /\ Committed(m) \in Metadata
         /\ Dropped(m) \in Metadata
         /\ \A i \in Images : [m EXCEPT !.backup_valid = TRUE,
                                       !.backup_crc32 = i] \in Metadata
  BY DEF Metadata, Reasons, Committed, Dropped

LEMMA DefaultsType == Defaults \in Metadata
  BY DEF Defaults, Metadata, Reasons

LEMMA InitType == Init => TypeOK
<1> SUFFICES ASSUME Init PROVE TypeOK
  OBVIOUS
<1>1. appR \in Region /\ backupR \in Region
  BY DEF Init, Region
<1>2. primary \in Page /\ backup \in Page /\ meta \in Metadata
  BY DefaultsType DEF Init, Page
<1>3. 1 \in 1..NUnits /\ 0 \in 0..MaxFaults /\ 0 \in 0..NUnits /\ 0 \in 0..(BscMod - 1)
  OBVIOUS
<1>4. AppTypeOK
  BY <1>3 DEF Init, AppTypeOK, Sessions
<1> QED
  BY <1>1, <1>2, <1>3, <1>4 DEF Init, TypeOK, SaveSteps, BootPC, Reasons

-----------------------------------------------------------------------------
LEMMA SaveStepType ==
  ASSUME TypeOK, SaveStep
  PROVE  primary' \in Page /\ backup' \in Page /\ save' \in SaveSteps /\ faults' \in 0..MaxFaults
  BY DEF TypeOK, SaveStep, ErasePage, ProgramPage, Page, SaveSteps, Works, Fails

LEMMA BootType == TypeOK /\ CopyIsVouched /\ BootStep => TypeOK'
<1> SUFFICES ASSUME TypeOK, CopyIsVouched, BootStep PROVE TypeOK'
  OBVIOUS
<1>0. AppTypeOK'
  BY DEF TypeOK, AppTypeOK, BootStep, avars, gvars
<1>1. CASE MetadataInit
  BY <1>0, <1>1, LoadedType DEF TypeOK, MetadataInit, StartSave, flash, Page, SaveSteps, BootPC
<1>2. CASE BootSaveStep
  BY <1>0, <1>2, SaveStepType DEF TypeOK, BootSaveStep, SaveStep
<1>3. CASE BootSaveReturn
  BY <1>0, <1>3 DEF TypeOK, BootSaveReturn, BootAfterSave, flash, SaveSteps, BootPC
<1>4. CASE Decide
  BY <1>0, <1>4 DEF TypeOK, Decide, flash, BootPC, Metadata, Reasons
<1>5. CASE VerifyBackup
  BY <1>0, <1>5 DEF TypeOK, VerifyBackup, CopyFail, StartSave, flash, BootPC, SaveSteps, Metadata, Reasons
<1>6. CASE EraseApp
  <2>1. appR' \in Region
    BY <1>6, RegionUpdate DEF TypeOK, EraseApp
  <2>2. pos' \in 1..NUnits /\ pc' \in BootPC /\ faults' \in 0..MaxFaults
    BY <1>6 DEF TypeOK, EraseApp, CopyFail, Works, Fails, BootPC
  <2>3. meta' \in Metadata /\ save' \in SaveSteps
    BY <1>6, MetadataUpdate DEF TypeOK, EraseApp, CopyFail, StartSave, SaveSteps, Reasons
  <2> QED
    BY <1>0, <1>6, <2>1, <2>2, <2>3 DEF TypeOK, EraseApp
<1>7. CASE ProgramApp
  <2>1. appR' \in Region
    <3>1. backupR[pos] \in Images \cup {Erased, Torn}
      BY DEF TypeOK, Region
    <3> QED
      BY <1>7, <3>1, RegionUpdate DEF TypeOK, ProgramApp
  <2>2. pos' \in 1..NUnits /\ pc' \in BootPC /\ faults' \in 0..MaxFaults
    <3>1. CopyLength \in 1..NUnits
      BY <1>7, VerifiedHead DEF TypeOK, CopyIsVouched, CopyPC, ProgramApp, CopyLength
    <3> QED
      BY <1>7, <3>1 DEF TypeOK, ProgramApp, CopyFail, Works, Fails, BootPC
  <2>3. meta' \in Metadata /\ save' \in SaveSteps
    BY <1>7, MetadataUpdate DEF TypeOK, ProgramApp, CopyFail, StartSave, SaveSteps, Reasons
  <2> QED
    BY <1>0, <1>7, <2>1, <2>2, <2>3 DEF TypeOK, ProgramApp
<1>8. CASE Reverify
  BY <1>0, <1>8 DEF TypeOK, Reverify, CopyFail, Committed, StartSave, flash, BootPC, SaveSteps, Metadata, Reasons
<1>9. CASE AppCheck
  BY <1>0, <1>9 DEF TypeOK, AppCheck, StartSave, flash, BootPC, SaveSteps
<1>10. CASE Jump
  <2>1. meta' \in Metadata /\ disk_boot_reason' \in Reasons
    BY <1>10, DefaultsType DEF TypeOK, Jump, StartSave, Reasons
  <2>2. save' \in SaveSteps /\ pc' \in BootPC \cup AppPC
    BY <1>10 DEF TypeOK, Jump, StartSave, SaveSteps, BootPC, AppPC
  <2> QED
    BY <1>0, <1>10, <2>1, <2>2 DEF TypeOK, Jump, flash
<1> QED
  BY <1>1, <1>2, <1>3, <1>4, <1>5, <1>6, <1>7, <1>8, <1>9, <1>10 DEF BootStep, BootNext

-----------------------------------------------------------------------------
LEMMA PutUnit ==
  ASSUME TypeOK, NEW d \in Images \cup {Torn}, g_bytes_written < NUnits, ProgramUnit(d)
  PROVE  /\ backupR' \in Region
         /\ g_bytes_written' \in 0..NUnits
         /\ g_active' \in BOOLEAN
         /\ faults' \in 0..MaxFaults
<1> DEFINE k == g_bytes_written + 1
<1>1. k \in 1..NUnits /\ g_bytes_written \in 0..NUnits
  BY DEF TypeOK, AppTypeOK
<1>2. \A x \in Images \cup {Erased, Torn} : [backupR EXCEPT ![k] = x] \in Region
  BY <1>1, RegionUpdate DEF TypeOK
<1>3. PICK x \in Images \cup {Erased, Torn} : backupR' = [backupR EXCEPT ![k] = x] \/ backupR' = backupR
  BY DEF ProgramUnit
<1>4. backupR' \in Region
  BY <1>2, <1>3 DEF TypeOK
<1>5. g_bytes_written' \in {g_bytes_written, k}
  BY DEF ProgramUnit
<1>6. g_active' \in BOOLEAN
  BY Zenon DEF TypeOK, AppTypeOK, ProgramUnit
<1>7. Works \/ Fails
  BY DEF ProgramUnit
<1> QED
  BY <1>1, <1>4, <1>5, <1>6, <1>7 DEF TypeOK, AppTypeOK, Works, Fails

LEMMA RequestType == TypeOK /\ RequestStep => TypeOK'
<1> SUFFICES ASSUME TypeOK, RequestStep PROVE TypeOK'
  OBVIOUS
<1>0. 0 \in 0..NUnits /\ 0 \in 0..(BscMod - 1) /\ 1 \in 1..NUnits
  OBVIOUS
<1>1. CASE SessionReset
  BY <1>0, <1>1 DEF TypeOK, AppTypeOK, SessionReset, Abort, RequestStep, fvars, bvars, Sessions
<1>2. ASSUME NEW s \in {"programming", "extended"}, SessionSwitch(s) PROVE TypeOK'
  BY <1>2 DEF TypeOK, AppTypeOK, SessionSwitch, RequestStep, fvars, bvars, gvars, Sessions
<1>3. CASE Unlock
  BY <1>3 DEF TypeOK, AppTypeOK, Unlock, RequestStep, fvars, bvars, gvars
<1>4. CASE EraseMemory
  BY <1>0, <1>4 DEF TypeOK, AppTypeOK, EraseMemory, Abort, RequestStep, flash, bvars, AppPC
<1>5. ASSUME NEW n \in 1..NUnits, RequestDownload(n) PROVE TypeOK'
  BY <1>0, <1>5 DEF TypeOK, AppTypeOK, RequestDownload, RequestStep, fvars, bvars
<1>6. ASSUME NEW b \in 0..(BscMod - 1), NEW d \in Images \cup {Torn}, TransferData(b, d)
      PROVE  TypeOK'
  <2>1. NextSeq \in 0..(BscMod - 1)
    BY DEF TypeOK, AppTypeOK, NextSeq
  <2>2. CASE b = g_block_seq
    BY <1>6, <2>2 DEF TypeOK, AppTypeOK, TransferData, RequestStep, bvars, gvars
  <2>3. CASE b # g_block_seq /\ b = NextSeq /\ g_bytes_written < NUnits /\ ProgramUnit(d)
    BY <1>6, <2>1, <2>3, PutUnit DEF TypeOK, AppTypeOK, TransferData, RequestStep, bvars, gvars
  <2>4. CASE b # g_block_seq /\ g_active' = FALSE /\ UNCHANGED <<backupR, faults, g_bytes_written>>
    BY <1>6, <2>1, <2>4 DEF TypeOK, AppTypeOK, TransferData, RequestStep, bvars, gvars
  <2> QED
    BY <1>6, <2>2, <2>3, <2>4 DEF TransferData
<1>7. CASE TransferExit
  BY <1>7 DEF TypeOK, AppTypeOK, TransferExit, RequestStep, fvars, bvars
<1>8. CASE StateSave
  BY <1>0, <1>8, LoadedType DEF TypeOK, AppTypeOK, StateSave, StartSave, Abort, RequestStep, flash, bvars, AppPC, SaveSteps
<1> QED
  BY <1>1, <1>2, <1>3, <1>4, <1>5, <1>6, <1>7, <1>8 DEF RequestStep, AppRequest

LEMMA ProgressType == TypeOK /\ CommitRecord /\ ProgressStep => TypeOK'
<1> SUFFICES ASSUME TypeOK, CommitRecord, ProgressStep PROVE TypeOK'
  OBVIOUS
<1>0. 0 \in 0..NUnits /\ 0 \in 0..(BscMod - 1) /\ 1 \in 1..NUnits
  OBVIOUS
<1>1. CASE EraseUnit
  <2>1. backupR' \in Region
    BY <1>1, RegionUpdate DEF TypeOK, EraseUnit
  <2>2. pos' \in 1..NUnits /\ pc' \in AppPC /\ faults' \in 0..MaxFaults
    BY <1>1 DEF TypeOK, EraseUnit, EraseDone, Works, Fails, AppPC
  <2>3. meta' \in Metadata /\ save' \in SaveSteps
    BY <1>1, LoadedType, MetadataUpdate DEF TypeOK, EraseUnit, StartSave, SaveSteps
  <2>4. AppTypeOK'
    BY <1>0, <1>1 DEF TypeOK, AppTypeOK, EraseUnit, EraseDone
  <2> QED
    BY <1>1, <2>1, <2>2, <2>3, <2>4 DEF TypeOK, EraseUnit, ProgressStep, bvars
<1>2. CASE DropFlagReturn
  BY <1>0, <1>2 DEF TypeOK, AppTypeOK, DropFlagReturn, EraseDone, ProgressStep, flash, bvars, SaveSteps, AppPC
<1>3. CASE ExitPoll
  <2>1. meta' \in Metadata /\ save' \in SaveSteps
    <3>1. ExitAccepted => backupR[1] \in Images
      BY DEF ExitAccepted, VerifiedSigned
    <3>2. ExitAccepted => Pending(Loaded) \in Metadata
      BY <3>1, LoadedType, MetadataUpdate DEF Pending
    <3> QED
      BY <1>3, <3>2 DEF TypeOK, ExitPoll, StartSave, SaveSteps
  <2>2. faults' \in 0..MaxFaults /\ pc' \in BootPC \cup AppPC
    BY <1>3 DEF TypeOK, ExitPoll, Works, Fails, AppPC
  <2> QED
    BY <1>3, <2>1, <2>2 DEF TypeOK, AppTypeOK, ExitPoll, ProgressStep, flash, bvars
<1>4. CASE CommitReturn
  <2>1. verdict' \in Images \cup {None, Nack}
    BY <1>4 DEF TypeOK, AppTypeOK, CommitReturn, CommitRecord, Verified
  <2> QED
    BY <1>4, <2>1 DEF TypeOK, AppTypeOK, CommitReturn, AfterAck, ProgressStep, flash, bvars, SaveSteps, AppPC
<1>5. CASE StateSaveReturn
  BY <1>5 DEF TypeOK, AppTypeOK, StateSaveReturn, ProgressStep, flash, bvars, avars, gvars, SaveSteps, AppPC
<1>6. CASE AppSaveStep
  BY <1>6, SaveStepType DEF TypeOK, AppTypeOK, AppSaveStep, SaveStep, ProgressStep, bvars, avars, gvars
<1> QED
  BY <1>1, <1>2, <1>3, <1>4, <1>5, <1>6 DEF ProgressStep, AppProgress

LEMMA ResetType == TypeOK /\ (SelfReset \/ PowerLoss) => TypeOK'
<1> SUFFICES ASSUME TypeOK, SelfReset \/ PowerLoss PROVE TypeOK'
  OBVIOUS
<1>0. 0 \in 0..NUnits /\ 0 \in 0..(BscMod - 1) /\ 1 \in 1..NUnits
  OBVIOUS
<1>1. appR' \in Region /\ backupR' \in Region
  <2>1. \A r \in Region, k \in 1..NUnits : MayTear(r, k) \subseteq Region
    BY RegionUpdate DEF MayTear
  <2>2. g_bytes_written < NUnits => g_bytes_written + 1 \in 1..NUnits
    BY DEF TypeOK, AppTypeOK
  <2> QED
    BY <2>1, <2>2 DEF TypeOK, SelfReset, PowerLoss
<1>2. Reboot("POWER_ON") \/ Reboot("SW")
  BY DEF SelfReset, PowerLoss
<1> QED
  BY <1>0, <1>1, <1>2, DefaultsType DEF TypeOK, AppTypeOK, Reboot, Abort, SaveSteps, BootPC, Reasons, Sessions

LEMMA StutterType == TypeOK /\ UNCHANGED vars => TypeOK'
  BY DEF TypeOK, AppTypeOK, vars, fvars, bvars, avars, gvars

-----------------------------------------------------------------------------
(* The part of the invariant that flash faults cannot break. *)

LEMMA LoadedVouched == RecordsVouched => Vouched(Loaded)
  BY DEF RecordsVouched, Vouched, Loaded, Defaults

LEMMA VouchedUpdate ==
  ASSUME NEW m \in Metadata, Vouched(m)
  PROVE  /\ \A r \in Reasons : Vouched([m EXCEPT !.last_boot_reason = r])
         /\ Vouched(Committed(m))
         /\ Vouched(Dropped(m))
  BY DEF Vouched, Metadata, Committed, Dropped

LEMMA SaveStepSafety ==
  ASSUME TypeOK, SafetyInv, SaveStep, pc \in SavePC
  PROVE  SafetyInv'
<1>1. SaveOnlyInSavePC' /\ OkMeansWritten'
  BY DEF TypeOK, SafetyInv, SaveOnlyInSavePC, OkMeansWritten, SaveStep, ErasePage, ProgramPage
<1>2. RecordsVouched'
  BY DEF TypeOK, SafetyInv, RecordsVouched, Vouched, SaveStep, ErasePage, ProgramPage
<1>3. CopyIsVouched' /\ CommitRecord' /\ AppHeadVouched'
  BY DEF SafetyInv, CopyIsVouched, CommitRecord, AppHeadVouched, Verified, SaveStep
<1> QED
  BY <1>1, <1>2, <1>3 DEF SafetyInv

LEMMA InitSafety == Init => SafetyInv
  BY DEF Init, SafetyInv, SaveOnlyInSavePC, OkMeansWritten, RecordsVouched, Vouched, Defaults,
         CopyIsVouched, CopyPC, CommitRecord, AppHeadVouched

LEMMA BootSafety == TypeOK /\ SafetyInv /\ BootStep => SafetyInv'
<1> SUFFICES ASSUME TypeOK, SafetyInv, BootStep PROVE SafetyInv'
  OBVIOUS
<1> USE DEF SafetyInv
<1>1. CASE MetadataInit
  BY <1>1, LoadedVouched DEF MetadataInit, StartSave, flash, SaveOnlyInSavePC, SavePC, BootAfterSave, OkMeansWritten,
     RecordsVouched, CopyIsVouched, CopyPC, CommitRecord, AppHeadVouched
<1>2. CASE BootSaveStep
  BY <1>2, SaveStepSafety DEF BootSaveStep, SavePC
<1>3. CASE BootSaveReturn
  BY <1>3 DEF BootSaveReturn, BootAfterSave, flash, SaveOnlyInSavePC, OkMeansWritten, RecordsVouched, Vouched,
     CopyIsVouched, CopyPC, CommitRecord, AppHeadVouched
<1>4. CASE Decide
  <2>1. Vouched(meta')
    BY <1>4, VouchedUpdate DEF TypeOK, Decide, RecordsVouched, Reasons
  <2> QED
    BY <1>4, <2>1 DEF Decide, flash, SaveOnlyInSavePC, SavePC, BootAfterSave, OkMeansWritten, RecordsVouched, Vouched,
       CopyIsVouched, CopyPC, CommitRecord, AppHeadVouched
<1>5. CASE VerifyBackup
  <2>1. Vouched(meta')
    BY <1>5, VouchedUpdate DEF TypeOK, VerifyBackup, CopyFail, StartSave, RecordsVouched, Reasons
  <2>2. CopyIsVouched'
    BY <1>5 DEF VerifyBackup, CopyFail, BackupAccepted, Verified, flash, CopyIsVouched, CopyPC
  <2> QED
    BY <1>5, <2>1, <2>2 DEF VerifyBackup, CopyFail, StartSave, flash, SaveOnlyInSavePC, SavePC, BootAfterSave,
       OkMeansWritten, RecordsVouched, Vouched, CommitRecord, AppHeadVouched
<1>6. CASE EraseApp
  <2>1. Vouched(meta')
    BY <1>6, VouchedUpdate DEF TypeOK, EraseApp, CopyFail, StartSave, RecordsVouched, Reasons
  <2>2. CopyIsVouched'
    BY <1>6 DEF EraseApp, CopyFail, Verified, CopyIsVouched, CopyPC
  <2>3. AppHeadVouched'
    BY <1>6 DEF TypeOK, Region, EraseApp, AppHeadVouched
  <2> QED
    BY <1>6, <2>1, <2>2, <2>3 DEF EraseApp, CopyFail, StartSave, SaveOnlyInSavePC, SavePC, BootAfterSave,
       OkMeansWritten, RecordsVouched, Vouched, CommitRecord
<1>7. CASE ProgramApp
  <2>1. Vouched(meta')
    BY <1>7, VouchedUpdate DEF TypeOK, ProgramApp, CopyFail, StartSave, RecordsVouched, Reasons
  <2>2. CopyIsVouched'
    BY <1>7 DEF ProgramApp, CopyFail, Verified, CopyIsVouched, CopyPC
  <2>3. AppHeadVouched'
    BY <1>7 DEF TypeOK, Region, ProgramApp, AppHeadVouched, CopyIsVouched, CopyPC, RecordsVouched, Vouched, Verified
  <2> QED
    BY <1>7, <2>1, <2>2, <2>3 DEF ProgramApp, CopyFail, StartSave, SaveOnlyInSavePC, SavePC, BootAfterSave,
       OkMeansWritten, RecordsVouched, Vouched, CommitRecord
<1>8. CASE Reverify
  <2>1. Vouched(meta')
    BY <1>8, VouchedUpdate DEF TypeOK, Reverify, CopyFail, StartSave, RecordsVouched, Reasons
  <2> QED
    BY <1>8, <2>1 DEF Reverify, CopyFail, StartSave, flash, SaveOnlyInSavePC, SavePC, BootAfterSave,
       OkMeansWritten, RecordsVouched, Vouched, CopyIsVouched, CopyPC, CommitRecord, AppHeadVouched
<1>9. CASE AppCheck
  BY <1>9 DEF AppCheck, StartSave, flash, SaveOnlyInSavePC, SavePC, BootAfterSave,
     OkMeansWritten, RecordsVouched, Vouched, CopyIsVouched, CopyPC, CommitRecord, AppHeadVouched
<1>10. CASE Jump
  BY <1>10 DEF Jump, StartSave, flash, Defaults, SaveOnlyInSavePC, SavePC, BootAfterSave,
     OkMeansWritten, RecordsVouched, Vouched, CopyIsVouched, CopyPC, CommitRecord, AppHeadVouched
<1> QED
  BY <1>1, <1>2, <1>3, <1>4, <1>5, <1>6, <1>7, <1>8, <1>9, <1>10 DEF BootStep, BootNext

(* No request touches a record, and none is served during a copy.          *)
LEMMA RequestSafety == TypeOK /\ SafetyInv /\ RequestStep => SafetyInv'
<1> SUFFICES ASSUME TypeOK, SafetyInv, RequestStep PROVE SafetyInv'
  OBVIOUS
<1> USE DEF SafetyInv
<1>1. CASE StateSave
  BY <1>1, LoadedVouched DEF StateSave, StartSave, flash, SaveOnlyInSavePC, SavePC, OkMeansWritten,
     RecordsVouched, CopyIsVouched, CopyPC, CommitRecord, AppHeadVouched
<1>2. CASE ~StateSave
  <2>1. UNCHANGED <<primary, backup, appR, meta, save>> /\ pc = "idle" /\ pc' \in {"idle", "dlErase"}
    BY <1>2 DEF RequestStep, AppRequest, SessionReset, SessionSwitch, Unlock, EraseMemory,
       RequestDownload, TransferData, TransferExit, fvars, flash
  <2> QED
    BY <2>1 DEF SaveOnlyInSavePC, SavePC, BootAfterSave, OkMeansWritten, RecordsVouched, Vouched,
       CopyIsVouched, CopyPC, CommitRecord, AppHeadVouched
<1> QED
  BY <1>1, <1>2

LEMMA ProgressSafety == TypeOK /\ SafetyInv /\ ProgressStep => SafetyInv'
<1> SUFFICES ASSUME TypeOK, SafetyInv, ProgressStep PROVE SafetyInv'
  OBVIOUS
<1> USE DEF SafetyInv
<1>1. CASE EraseUnit
  <2>1. Vouched(meta')
    BY <1>1, LoadedType, LoadedVouched, VouchedUpdate DEF EraseUnit, StartSave, RecordsVouched
  <2> QED
    BY <1>1, <2>1 DEF EraseUnit, EraseDone, StartSave, SaveOnlyInSavePC, SavePC, BootAfterSave, OkMeansWritten,
       RecordsVouched, Vouched, CopyIsVouched, CopyPC, CommitRecord, AppHeadVouched
<1>2. CASE DropFlagReturn
  BY <1>2 DEF DropFlagReturn, EraseDone, flash, SaveOnlyInSavePC, BootAfterSave, OkMeansWritten, RecordsVouched, Vouched,
     CopyIsVouched, CopyPC, CommitRecord, AppHeadVouched
<1>3. CASE ExitPoll
  <2>1. ExitAccepted => /\ Verified(backupR)
                        /\ Vouched(Pending(Loaded))
                        /\ Pending(Loaded).backup_valid
                        /\ Pending(Loaded).backup_crc32 = backupR[1]
    BY LoadedType DEF ExitAccepted, VerifiedSigned, Pending, Vouched, Metadata
  <2>2. Vouched(meta') /\ CommitRecord'
    BY <1>3, <2>1 DEF ExitPoll, StartSave, flash, RecordsVouched, CommitRecord, Verified
  <2> QED
    BY <1>3, <2>2 DEF ExitPoll, StartSave, flash, SaveOnlyInSavePC, SavePC, OkMeansWritten,
       RecordsVouched, Vouched, CopyIsVouched, CopyPC, AppHeadVouched
<1>4. CASE CommitReturn
  BY <1>4 DEF CommitReturn, AfterAck, flash, SaveOnlyInSavePC, OkMeansWritten, RecordsVouched, Vouched,
     CopyIsVouched, CopyPC, CommitRecord, AppHeadVouched
<1>5. CASE StateSaveReturn
  BY <1>5 DEF StateSaveReturn, flash, SaveOnlyInSavePC, OkMeansWritten, RecordsVouched, Vouched,
     CopyIsVouched, CopyPC, CommitRecord, AppHeadVouched
<1>6. CASE AppSaveStep
  BY <1>6, SaveStepSafety DEF AppSaveStep, SavePC
<1> QED
  BY <1>1, <1>2, <1>3, <1>4, <1>5, <1>6 DEF ProgressStep, AppProgress

LEMMA ResetSafety == TypeOK /\ SafetyInv /\ (SelfReset \/ PowerLoss) => SafetyInv'
<1> SUFFICES ASSUME TypeOK, SafetyInv, SelfReset \/ PowerLoss PROVE SafetyInv'
  OBVIOUS
<1> USE DEF SafetyInv
<1>1. Reboot("POWER_ON") \/ Reboot("SW")
  BY DEF SelfReset, PowerLoss
<1>2. AppHeadVouched'
  BY DEF SelfReset, PowerLoss, MayTear, AppHeadVouched, TypeOK, Region
<1> QED
  BY <1>1, <1>2 DEF Reboot, Defaults, SaveOnlyInSavePC, OkMeansWritten, RecordsVouched, Vouched,
     CopyIsVouched, CopyPC, CommitRecord

-----------------------------------------------------------------------------
TypeAndSafety == TypeOK /\ SafetyInv

LEMMA TypeAndSafetyInductive == TypeAndSafety /\ [Next]_vars => TypeAndSafety'
<1>1. TypeAndSafety /\ UNCHANGED vars => SafetyInv'
  BY DEF TypeAndSafety, vars, fvars, SafetyInv, SaveOnlyInSavePC, OkMeansWritten, RecordsVouched, Vouched,
     CopyIsVouched, CommitRecord, AppHeadVouched, Verified
<1>2. SafetyInv => CopyIsVouched /\ CommitRecord
  BY DEF SafetyInv
<1> QED
  BY <1>1, <1>2, BootType, RequestType, ProgressType, ResetType, StutterType,
     BootSafety, RequestSafety, ProgressSafety, ResetSafety DEF TypeAndSafety, Next

THEOREM TypeAndSafetyHold == Spec => []TypeAndSafety
<1>1. Init => TypeAndSafety
  BY InitType, InitSafety DEF TypeAndSafety
<1> QED
  BY <1>1, TypeAndSafetyInductive, PTL DEF Spec

(* Every state the device can be in is one of the types declared for it.   *)
THEOREM TypeCorrect == Spec => []TypeOK
<1>1. TypeAndSafety => TypeOK
  BY DEF TypeAndSafety
<1> QED
  BY <1>1, TypeAndSafetyHold, PTL

(* The bootloader never accepts an App region that neither production nor  *)
(* a verified signature put there, whatever the flash does: the record     *)
(* commit_backup writes is what carries the signature check across the     *)
(* reset.                                                                  *)
THEOREM OnlySigned == Spec => []OnlySignedRuns
<1>1. TypeAndSafety => OnlySignedRuns
  BY DEF TypeAndSafety, SafetyInv, AppHeadVouched, OnlySignedRuns, Verified
<1> QED
  BY <1>1, TypeAndSafetyHold, PTL

(* The App region changes only while a whole signed image is staged.       *)
THEOREM RewrittenFromStaged == Spec => AppRewrittenFromStaged
<1>1. TypeAndSafety /\ [Next]_vars
        => [appR' # appR => VerifiedSigned(backupR) /\ meta.backup_crc32 = backupR[1]]_vars
  <2> SUFFICES ASSUME TypeAndSafety, Next, appR' # appR
               PROVE  VerifiedSigned(backupR) /\ meta.backup_crc32 = backupR[1]
    OBVIOUS
  <2>1. pc \in {"erase", "program"}
    BY DEF Next, BootStep, BootNext, MetadataInit, BootSaveStep, SaveStep, BootSaveReturn, Decide, VerifyBackup,
       EraseApp, ProgramApp, Reverify, AppCheck, Jump, RequestStep, AppRequest, SessionReset, SessionSwitch,
       Unlock, EraseMemory, RequestDownload, TransferData, TransferExit, StateSave, ProgressStep, AppProgress,
       EraseUnit, DropFlagReturn, ExitPoll, CommitReturn, StateSaveReturn, AppSaveStep, SelfReset, PowerLoss,
       fvars, flash
  <2> QED
    BY <2>1 DEF TypeAndSafety, SafetyInv, RecordsVouched, Vouched, CopyIsVouched, CopyPC, Verified, VerifiedSigned
<1> QED
  BY <1>1, TypeAndSafetyHold, PTL DEF Spec, AppRewrittenFromStaged

-----------------------------------------------------------------------------
(* While a promise stands, no transfer is open.                            *)
LEMMA PromiseClosesTransferInductive ==
  TypeAndSafety /\ PromiseClosesTransfer /\ [Next]_vars => PromiseClosesTransfer'
<1> SUFFICES ASSUME TypeAndSafety, PromiseClosesTransfer, [Next]_vars
             PROVE  PromiseClosesTransfer'
  OBVIOUS
<1> USE NackAssumption DEF PromiseClosesTransfer
<1>1. CASE BootStep
  <2>1. pc \in BootPC /\ pc' \in BootPC \cup {"idle"}
    BY <1>1 DEF BootStep, BootNext, MetadataInit, BootSaveStep, SaveStep, BootSaveReturn, BootAfterSave, Decide,
       VerifyBackup, EraseApp, ProgramApp, Reverify, AppCheck, Jump, CopyFail, BootPC
  <2> QED
    BY <1>1, <2>1 DEF BootStep, avars, gvars, BootPC
<1>2. CASE RequestStep
  <2>1. CASE SessionReset \/ Unlock \/ \E t \in {"programming", "extended"} : SessionSwitch(t)
    BY <2>1 DEF SessionReset, SessionSwitch, Unlock, Abort, fvars, gvars
  <2>2. CASE EraseMemory \/ StateSave \/ \E n \in 1..NUnits : RequestDownload(n)
    BY <2>2 DEF EraseMemory, StateSave, RequestDownload
  <2>3. CASE TransferExit \/ \E b \in 0..(BscMod - 1), d \in Images \cup {Torn} : TransferData(b, d)
    BY <2>3 DEF TransferExit, TransferData
  <2> QED
    BY <1>2, <2>1, <2>2, <2>3 DEF RequestStep, AppRequest
<1>3. CASE ProgressStep
  <2>1. CASE EraseUnit \/ DropFlagReturn
    <3>1. verdict \notin Images
      BY <2>1 DEF EraseUnit, DropFlagReturn
    <3> QED
      BY <2>1, <3>1 DEF EraseUnit, DropFlagReturn
  <2>2. CASE ExitPoll
    BY <2>2 DEF ExitPoll
  <2>3. CASE CommitReturn
    BY <2>3 DEF CommitReturn, AfterAck
  <2>4. CASE StateSaveReturn \/ AppSaveStep
    BY <2>4 DEF StateSaveReturn, AppSaveStep, SaveStep, avars, gvars
  <2> QED
    BY <1>3, <2>1, <2>2, <2>3, <2>4 DEF ProgressStep, AppProgress
<1>4. CASE SelfReset \/ PowerLoss
  BY <1>4 DEF SelfReset, PowerLoss, Reboot, Abort
<1>5. CASE UNCHANGED vars
  BY <1>5 DEF vars, fvars, avars, gvars
<1> QED
  BY <1>1, <1>2, <1>3, <1>4, <1>5 DEF Next

-----------------------------------------------------------------------------
(* The part of the invariant that lasts until the first flash fault.       *)

(* What the next state is compared with, in every lemma below.             *)
FaultFree == /\ TypeAndSafety
             /\ PromiseClosesTransfer
             /\ FaultFreeInv
             /\ faults' = 0

LEMMA UnstagedIsWhole ==
  ASSUME FaultFreeInv, ~StagedP
  PROVE  Verified(appR) /\ (verdict \in Images => appR[1] = verdict)
  BY DEF FaultFreeInv, WholeOrStaged, PromiseInv

LEMMA InitFaultFree == Init => FaultFreeInv
<1> SUFFICES ASSUME Init PROVE FaultFreeInv
  OBVIOUS
<1>1. Verified(appR)
  <2>1. Factory \in Images /\ Size[Factory] \in 1..NUnits
    OBVIOUS
  <2>2. \A k \in 1..NUnits : k <= Size[Factory] => appR[k] = Factory
    BY DEF Init
  <2>3. appR[1] = Factory
    BY <2>1, <2>2
  <2> QED
    BY <2>1, <2>2, <2>3 DEF Verified
<1> QED
  BY <1>1, NackAssumption DEF Init, FaultFreeInv, WholeOrStaged, WholeOnceDecided, SavesSucceed, BootKnowsPrimary,
     CopyProgress, CopyPC, PromiseInv, PromiseRuns

(* Outside the undecided part of a boot, a step that leaves the App region *)
(* and the promised image alone keeps the invariant.                       *)
LEMMA SteadyFaultFree ==
  ASSUME FaultFreeInv, pc \notin UndecidedPC \cup {"acked"}, pc' \notin UndecidedPC,
         UNCHANGED <<appR, verdict>>, verdict \in Images => UNCHANGED backupR,
         save' # "failed"
  PROVE  FaultFreeInv'
  BY DEF FaultFreeInv, WholeOrStaged, WholeOnceDecided, SavesSucceed, BootKnowsPrimary, CopyProgress, CopyPC,
     PromiseInv, PromiseRuns, UndecidedPC, Verified

LEMMA SaveStepWorks == ASSUME TypeOK, FaultFreeInv, SaveStep, faults' = 0 PROVE save' # "failed"
  BY DEF TypeOK, FaultFreeInv, SavesSucceed, SaveStep, ErasePage, ProgramPage, Fails

LEMMA BootFaultFree == FaultFree /\ BootStep => FaultFreeInv'
<1> SUFFICES ASSUME FaultFree, BootStep PROVE FaultFreeInv'
  OBVIOUS
<1> USE DEF FaultFree, TypeAndSafety
<1>0. UNCHANGED verdict /\ save # "failed"
  BY DEF BootStep, avars, FaultFreeInv, SavesSucceed
<1>1. CASE MetadataInit
  <2>1. CASE primary # Bad
    BY <1>0, <1>1, <2>1 DEF MetadataInit, flash, FaultFreeInv, WholeOrStaged, WholeOnceDecided, UndecidedPC,
       SavesSucceed, BootKnowsPrimary, CopyProgress, CopyPC, PromiseInv, PromiseRuns, StagedP, Verified
  <2>2. CASE primary = Bad
    BY <1>0, <1>1, <2>2, UnstagedIsWhole DEF MetadataInit, StartSave, flash, FaultFreeInv, WholeOrStaged,
       WholeOnceDecided, UndecidedPC, SavesSucceed, BootKnowsPrimary, CopyProgress, CopyPC, PromiseInv,
       PromiseRuns, StagedP, Verified
  <2> QED
    BY <2>1, <2>2
<1>2. CASE BootSaveStep
  <2>1. pc = pc' /\ pc \in DOMAIN BootAfterSave /\ UNCHANGED <<appR, backupR>>
    BY <1>2 DEF BootSaveStep, SaveStep
  <2>2. pc \notin UndecidedPC \cup {"acked"}
    BY <2>1 DEF BootAfterSave, UndecidedPC, CopyPC
  <2> QED
    BY <1>0, <1>2, <2>1, <2>2, SaveStepWorks, SteadyFaultFree DEF BootSaveStep
<1>3. CASE BootSaveReturn
  <2>1. pc \notin UndecidedPC \cup {"acked"} /\ UNCHANGED <<appR, backupR>> /\ save' = "none"
    BY <1>3 DEF BootSaveReturn, BootAfterSave, UndecidedPC, CopyPC, flash
  <2>2. CASE pc = "repair"
    <3>1. primary' = meta' /\ pc' = "decide"
      BY <1>0, <1>3, <2>2 DEF BootSaveReturn, SaveOver, SafetyInv, OkMeansWritten, BootAfterSave, flash
    <3> QED
      BY <1>0, <2>1, <3>1 DEF FaultFreeInv, WholeOrStaged, WholeOnceDecided, UndecidedPC,
         SavesSucceed, BootKnowsPrimary, CopyProgress, CopyPC, PromiseInv, PromiseRuns, Verified
  <2>3. CASE pc # "repair"
    <3>1. pc' \notin UndecidedPC
      BY <1>3, <2>3 DEF BootSaveReturn, BootAfterSave, UndecidedPC, CopyPC
    <3> QED
      BY <1>0, <2>1, <3>1, SteadyFaultFree
  <2> QED
    BY <2>2, <2>3
<1>4. CASE Decide
  <2>1. primary = meta /\ primary # Bad /\ UNCHANGED <<primary, appR, backupR, save>>
    BY <1>4 DEF Decide, FaultFreeInv, BootKnowsPrimary, flash, TypeOK
  <2>2. CASE meta.backup_valid
    <3>1. pc' = "verify" /\ meta'.backup_crc32 = meta.backup_crc32
      BY <1>4, <2>2 DEF Decide, TypeOK, Metadata
    <3> QED
      BY <1>0, <2>1, <2>2, <3>1 DEF FaultFreeInv, WholeOrStaged, WholeOnceDecided, UndecidedPC,
         SavesSucceed, BootKnowsPrimary, CopyProgress, CopyPC, PromiseInv, PromiseRuns, StagedP, Verified
  <2>3. CASE ~meta.backup_valid
    <3>1. pc' = "appCheck" /\ ~StagedP
      BY <1>4, <2>1, <2>3 DEF Decide, StagedP
    <3> QED
      BY <1>0, <2>1, <3>1, UnstagedIsWhole DEF FaultFreeInv, WholeOrStaged, WholeOnceDecided,
         SavesSucceed, BootKnowsPrimary, CopyProgress, CopyPC, PromiseInv, PromiseRuns, Verified
  <2> QED
    BY <2>2, <2>3
<1>5. CASE VerifyBackup
  <2>1. UNCHANGED <<primary, appR, backupR>> /\ save' # "failed"
    BY <1>0, <1>5 DEF VerifyBackup, CopyFail, StartSave, flash
  <2>2. CASE BackupAccepted
    <3>1. pc' = "erase" /\ StagedP
      BY <1>5, <2>2 DEF VerifyBackup, BackupAccepted, FaultFreeInv, BootKnowsPrimary, StagedP
    <3> QED
      BY <1>0, <2>1, <3>1 DEF FaultFreeInv, WholeOrStaged, WholeOnceDecided, UndecidedPC,
         SavesSucceed, BootKnowsPrimary, CopyProgress, CopyPC, PromiseInv, PromiseRuns, StagedP, Verified
  <2>3. CASE ~BackupAccepted
    <3>1. pc' = "copyFail" /\ ~StagedP
      BY <1>5, <2>3 DEF VerifyBackup, CopyFail, BackupAccepted, FaultFreeInv, BootKnowsPrimary, StagedP
    <3> QED
      BY <1>0, <2>1, <3>1, UnstagedIsWhole DEF FaultFreeInv, WholeOrStaged, WholeOnceDecided,
         SavesSucceed, BootKnowsPrimary, CopyProgress, CopyPC, PromiseInv, PromiseRuns, Verified
  <2> QED
    BY <2>2, <2>3
<1>6. CASE EraseApp
  <2>1. StagedP /\ UNCHANGED <<primary, backupR>>
    BY <1>6 DEF EraseApp, FaultFreeInv, CopyProgress, CopyPC
  <2>2. StagedP'
    BY <2>1 DEF StagedP, Verified
  <2>3. pc' \in {"erase", "program"} /\ save' # "failed" /\ (pc' = "program" => pos' = 1)
    BY <1>0, <1>6 DEF EraseApp, Fails, TypeOK
  <2>4. pc' = "program" => pos' <= CopyLength' /\ Copied(pos - 1)'
    BY <2>1, <2>2, <2>3, VerifiedHead DEF TypeOK, StagedP, CopyLength, Copied
  <2> QED
    BY <1>0, <2>1, <2>2, <2>3, <2>4 DEF FaultFreeInv, WholeOrStaged, WholeOnceDecided, UndecidedPC,
       SavesSucceed, BootKnowsPrimary, CopyProgress, CopyPC, PromiseInv, PromiseRuns
<1>7. CASE ProgramApp
  <2>1. StagedP /\ UNCHANGED <<primary, backupR>> /\ pos <= CopyLength /\ Copied(pos - 1)
    BY <1>7 DEF ProgramApp, FaultFreeInv, CopyProgress, CopyPC
  <2>2. StagedP' /\ CopyLength' = CopyLength
    BY <2>1 DEF StagedP, Verified, CopyLength
  <2>3. appR' = [appR EXCEPT ![pos] = backupR[pos]] /\ save' # "failed"
    BY <1>0, <1>7 DEF ProgramApp, Fails, TypeOK
  <2>4. \A k \in 1..NUnits : k <= pos => appR'[k] = backupR'[k]
    BY <2>1, <2>3 DEF Copied, TypeOK, Region
  <2>5. \/ pc' = "program" /\ pos' = pos + 1 /\ pos < CopyLength
        \/ pc' = "reverify" /\ pos = CopyLength
    BY <1>7, <2>1, VerifiedHead DEF ProgramApp, Fails, TypeOK, CopyLength, StagedP
  <2>6. CopyLength \in 1..NUnits
    BY <2>1, VerifiedHead DEF CopyLength, StagedP, TypeOK
  <2>7. /\ pc' = "program" => pos' <= CopyLength' /\ Copied(pos - 1)'
        /\ pc' = "reverify" => Copied(CopyLength)'
    BY <2>2, <2>4, <2>5, <2>6 DEF Copied, TypeOK
  <2> QED
    BY <1>0, <2>1, <2>2, <2>3, <2>5, <2>7 DEF FaultFreeInv, WholeOrStaged, WholeOnceDecided, UndecidedPC,
       SavesSucceed, BootKnowsPrimary, CopyProgress, CopyPC, PromiseInv, PromiseRuns
<1>8. CASE Reverify
  <2>1. StagedP /\ Copied(CopyLength)
    BY <1>8 DEF Reverify, FaultFreeInv, CopyProgress, CopyPC
  <2>2. Verified(appR) /\ appR[1] = backupR[1]
    BY <2>1, VerifiedHead DEF StagedP, Copied, CopyLength, Verified, TypeOK
  <2>3. pc' = "commit" /\ save' = "bakErase" /\ UNCHANGED <<appR, backupR>>
    BY <1>8, <2>2 DEF Reverify, StartSave, flash
  <2> QED
    BY <1>0, <2>2, <2>3 DEF FaultFreeInv, WholeOrStaged, WholeOnceDecided,
       SavesSucceed, BootKnowsPrimary, CopyProgress, CopyPC, PromiseInv, PromiseRuns, Verified
<1>9. CASE AppCheck
  BY <1>0, <1>9, SteadyFaultFree DEF AppCheck, StartSave, flash, UndecidedPC, CopyPC
<1>10. CASE Jump
  BY <1>0, <1>10, SteadyFaultFree DEF Jump, StartSave, flash, UndecidedPC, CopyPC
<1> QED
  BY <1>1, <1>2, <1>3, <1>4, <1>5, <1>6, <1>7, <1>8, <1>9, <1>10 DEF BootStep, BootNext

LEMMA RequestFaultFree == FaultFree /\ RequestStep => FaultFreeInv'
<1> SUFFICES ASSUME FaultFree, RequestStep PROVE FaultFreeInv'
  OBVIOUS
<1> USE DEF FaultFree, TypeAndSafety
<1>1. pc = "idle" /\ pc' \in {"idle", "dlErase", "stateSave"} /\ UNCHANGED appR
  BY DEF RequestStep, AppRequest, SessionReset, SessionSwitch, Unlock, EraseMemory,
     RequestDownload, TransferData, TransferExit, StateSave, fvars, flash
<1>2. save' # "failed"
  BY DEF RequestStep, AppRequest, SessionReset, SessionSwitch, Unlock, EraseMemory, RequestDownload,
     TransferData, TransferExit, StateSave, StartSave, fvars, flash, FaultFreeInv, SavesSucceed
<1>3. Verified(appR)
  BY <1>1 DEF FaultFreeInv, WholeOnceDecided, UndecidedPC, CopyPC
<1>4. CASE verdict' \notin Images
  BY <1>1, <1>2, <1>3, <1>4 DEF FaultFreeInv, WholeOrStaged, WholeOnceDecided, SavesSucceed,
     BootKnowsPrimary, CopyProgress, CopyPC, PromiseInv, PromiseRuns, Verified
<1>5. CASE verdict' \in Images
  <2>1. UNCHANGED verdict
    BY <1>5, NackAssumption DEF RequestStep, AppRequest, SessionReset, SessionSwitch, Unlock, EraseMemory,
       RequestDownload, TransferData, TransferExit, StateSave
  <2>2. ~g_active
    BY <1>1, <1>5, <2>1 DEF PromiseClosesTransfer
  <2>3. UNCHANGED backupR
    BY <2>2 DEF RequestStep, AppRequest, SessionReset, SessionSwitch, Unlock, EraseMemory,
       RequestDownload, TransferData, TransferExit, StateSave, fvars, flash
  <2> QED
    BY <1>1, <1>2, <2>1, <2>3, SteadyFaultFree DEF UndecidedPC, CopyPC
<1> QED
  BY <1>4, <1>5

LEMMA ProgressFaultFree == FaultFree /\ ProgressStep => FaultFreeInv'
<1> SUFFICES ASSUME FaultFree, ProgressStep PROVE FaultFreeInv'
  OBVIOUS
<1> USE DEF FaultFree, TypeAndSafety
<1>0. save # "failed"
  BY DEF FaultFreeInv, SavesSucceed
<1>1. pc \in AppPC \ {"acked"} /\ pc' \in AppPC /\ UNCHANGED appR
  BY DEF ProgressStep, AppProgress, EraseUnit, EraseDone, DropFlagReturn, ExitPoll, CommitReturn, AfterAck,
     StateSaveReturn, AppSaveStep, SaveStep, AppPC, flash
<1>2. pc \notin UndecidedPC \cup {"acked"} /\ pc' \notin UndecidedPC
  BY <1>1 DEF AppPC, UndecidedPC, CopyPC
<1>3. CASE EraseUnit \/ DropFlagReturn
  <2>1. UNCHANGED verdict /\ verdict \notin Images
    BY <1>3 DEF EraseUnit, DropFlagReturn, PromiseClosesTransfer
  <2>2. save' # "failed"
    BY <1>0, <1>3 DEF EraseUnit, DropFlagReturn, StartSave
  <2> QED
    BY <1>1, <1>2, <2>1, <2>2, SteadyFaultFree
<1>4. CASE ExitPoll
  <2>1. save' # "failed" /\ UNCHANGED backupR
    BY <1>0, <1>4 DEF ExitPoll, StartSave, flash
  <2>2. CASE UNCHANGED verdict
    BY <1>1, <1>2, <2>1, <2>2, SteadyFaultFree
  <2>3. CASE verdict' = Nack
    BY <1>1, <1>2, <2>1, <2>3, NackAssumption DEF FaultFreeInv, WholeOrStaged, WholeOnceDecided, UndecidedPC,
       SavesSucceed, BootKnowsPrimary, CopyProgress, CopyPC, PromiseInv, PromiseRuns, Verified
  <2> QED
    BY <1>4, <2>2, <2>3 DEF ExitPoll
<1>5. CASE CommitReturn
  <2>1. /\ save = "ok" /\ pc = "commitSave" /\ pc' = "acked" /\ save' = "none"
        /\ verdict' = backupR[1] /\ UNCHANGED <<primary, backupR>>
    BY <1>0, <1>5 DEF CommitReturn, SaveOver, AfterAck, flash
  <2>2. StagedP /\ StagedP'
    BY <2>1 DEF SafetyInv, OkMeansWritten, CommitRecord, StagedP, Verified, TypeOK
  <2> QED
    BY <1>1, <1>2, <2>1, <2>2 DEF FaultFreeInv, WholeOrStaged, WholeOnceDecided, UndecidedPC,
       SavesSucceed, BootKnowsPrimary, CopyProgress, CopyPC, PromiseInv, PromiseRuns, Verified
<1>6. CASE StateSaveReturn
  BY <1>1, <1>2, <1>6, SteadyFaultFree DEF StateSaveReturn, flash, avars
<1>7. CASE AppSaveStep
  BY <1>1, <1>2, <1>7, SaveStepWorks, SteadyFaultFree DEF AppSaveStep, SaveStep, avars
<1> QED
  BY <1>3, <1>4, <1>5, <1>6, <1>7 DEF ProgressStep, AppProgress

(* A power loss tears a region only where the other one makes up for it.   *)
LEMMA ResetFaultFree == FaultFree /\ (SelfReset \/ PowerLoss) => FaultFreeInv'
<1> SUFFICES ASSUME FaultFree, SelfReset \/ PowerLoss PROVE FaultFreeInv'
  OBVIOUS
<1> USE DEF FaultFree, TypeAndSafety
<1>1. pc' = "init" /\ save' = "none" /\ UNCHANGED <<primary, verdict>>
  BY DEF SelfReset, PowerLoss, Reboot
<1>2. CASE pc \in CopyPC
  <2>1. StagedP /\ UNCHANGED backupR
    BY <1>2 DEF FaultFreeInv, CopyProgress, CopyPC, SelfReset, PowerLoss
  <2> QED
    BY <1>1, <2>1 DEF FaultFreeInv, WholeOrStaged, WholeOnceDecided, UndecidedPC,
       SavesSucceed, BootKnowsPrimary, CopyProgress, CopyPC, PromiseInv, PromiseRuns, StagedP, Verified
<1>3. CASE pc \notin CopyPC
  <2>1. UNCHANGED appR
    BY <1>3 DEF SelfReset, PowerLoss, CopyPC
  <2>2. CASE UNCHANGED backupR
    BY <1>1, <2>1, <2>2 DEF FaultFreeInv, WholeOrStaged, WholeOnceDecided, UndecidedPC,
       SavesSucceed, BootKnowsPrimary, CopyProgress, CopyPC, PromiseInv, PromiseRuns, StagedP, Verified
  <2>3. CASE pc = "dlErase" \/ (pc = "idle" /\ g_active)
    <3>1. Verified(appR) /\ verdict \notin Images
      BY <2>3 DEF FaultFreeInv, WholeOnceDecided, UndecidedPC, CopyPC, PromiseClosesTransfer
    <3> QED
      BY <1>1, <2>1, <3>1 DEF FaultFreeInv, WholeOrStaged, WholeOnceDecided, UndecidedPC,
         SavesSucceed, BootKnowsPrimary, CopyProgress, CopyPC, PromiseInv, PromiseRuns, Verified
  <2> QED
    BY <2>2, <2>3 DEF SelfReset, PowerLoss
<1> QED
  BY <1>2, <1>3

LEMMA StutterFaultFree == FaultFreeInv /\ UNCHANGED vars => FaultFreeInv'
  BY DEF vars, fvars, avars, FaultFreeInv, WholeOrStaged, WholeOnceDecided, SavesSucceed, BootKnowsPrimary,
     CopyProgress, CopyLength, Copied, PromiseInv, PromiseRuns, StagedP, Verified

LEMMA FaultsGrow == TypeOK /\ [Next]_vars => faults' \in Nat /\ faults' >= faults
<1> SUFFICES ASSUME TypeOK, [Next]_vars PROVE faults' \in Nat /\ faults' >= faults
  OBVIOUS
<1>1. faults' = faults \/ faults' = faults + 1
  BY DEF Next, BootStep, BootNext, MetadataInit, BootSaveStep, SaveStep, ErasePage, ProgramPage, BootSaveReturn,
     Decide, VerifyBackup, EraseApp, ProgramApp, Reverify, AppCheck, Jump, RequestStep, AppRequest, SessionReset,
     SessionSwitch, Unlock, EraseMemory, RequestDownload, TransferData, ProgramUnit, TransferExit, StateSave,
     ProgressStep, AppProgress, EraseUnit, DropFlagReturn, ExitPoll, CommitReturn, StateSaveReturn, AppSaveStep,
     SelfReset, PowerLoss, Reboot, Works, Fails, vars, fvars
<1> QED
  BY <1>1 DEF TypeOK

-----------------------------------------------------------------------------
LEMMA SafeModeInductive ==
  ASSUME TypeAndSafety, faults = 0 => FaultFreeInv, SafeModeJustified, [Next]_vars
  PROVE  SafeModeJustified'
<1> SUFFICES ASSUME pc' \in {"enterSafe", "safe"}, faults' = 0
             PROVE  Verified(appR') /\ appR'[1] \notin Jumpable
  BY FaultsGrow DEF TypeAndSafety, TypeOK, SafeModeJustified
<1>1. faults = 0 /\ FaultFreeInv
  BY FaultsGrow DEF TypeAndSafety, TypeOK
<1>2. pc \in {"appCheck", "jump", "enterSafe", "safe"} /\ UNCHANGED appR
  BY DEF Next, BootStep, BootNext, MetadataInit, BootSaveStep, SaveStep, BootSaveReturn, BootAfterSave, Decide,
     VerifyBackup, EraseApp, ProgramApp, Reverify, AppCheck, Jump, CopyFail, RequestStep, AppRequest, SessionReset,
     SessionSwitch, Unlock, EraseMemory, RequestDownload, TransferData, TransferExit, StateSave, ProgressStep,
     AppProgress, EraseUnit, EraseDone, DropFlagReturn, ExitPoll, CommitReturn, AfterAck, StateSaveReturn,
     AppSaveStep, SelfReset, PowerLoss, Reboot, vars, fvars, flash
<1>3. Verified(appR)
  BY <1>1, <1>2 DEF FaultFreeInv, WholeOnceDecided, UndecidedPC, CopyPC
<1>4. CASE pc \in {"enterSafe", "safe"}
  BY <1>1, <1>2, <1>3, <1>4 DEF SafeModeJustified
<1>5. CASE pc \in {"appCheck", "jump"}
  <2>1. appR[1] \notin Jumpable
    BY <1>3, <1>5 DEF Next, BootStep, BootNext, MetadataInit, BootSaveStep, BootSaveReturn, BootAfterSave, Decide,
       VerifyBackup, EraseApp, ProgramApp, Reverify, AppCheck, Jump, CopyFail, RequestStep, AppRequest, SessionReset,
       SessionSwitch, Unlock, EraseMemory, RequestDownload, TransferData, TransferExit, StateSave, ProgressStep,
       AppProgress, EraseUnit, DropFlagReturn, ExitPoll, CommitReturn, StateSaveReturn, AppSaveStep,
       SelfReset, PowerLoss, Reboot, vars, fvars
  <2> QED
    BY <1>2, <1>3, <2>1
<1> QED
  BY <1>2, <1>4, <1>5

LEMMA InvInductive == Inv /\ [Next]_vars => Inv'
<1> SUFFICES ASSUME Inv, [Next]_vars PROVE Inv'
  OBVIOUS
<1>1. TypeAndSafety /\ TypeAndSafety'
  BY TypeAndSafetyInductive DEF Inv, TypeAndSafety
<1>2. PromiseClosesTransfer /\ PromiseClosesTransfer'
  BY <1>1, PromiseClosesTransferInductive DEF Inv
<1>3. SafeModeJustified'
  BY <1>1, SafeModeInductive DEF Inv
<1>4. ASSUME faults' = 0 PROVE FaultFreeInv'
  <2>1. FaultFreeInv
    BY <1>1, <1>4, FaultsGrow DEF Inv, TypeAndSafety, TypeOK
  <2>2. FaultFree
    BY <1>1, <1>2, <1>4, <2>1 DEF FaultFree
  <2> QED
    BY <2>1, <2>2, BootFaultFree, RequestFaultFree, ProgressFaultFree, ResetFaultFree, StutterFaultFree DEF Next
<1> QED
  BY <1>1, <1>2, <1>3, <1>4 DEF Inv, TypeAndSafety

(* The inductive invariant holds in every reachable state. *)
THEOREM Invariance == Spec => []Inv
<1>1. Init => Inv
  <2>1. Init => PromiseClosesTransfer /\ SafeModeJustified
    BY NackAssumption DEF Init, PromiseClosesTransfer, SafeModeJustified
  <2> QED
    BY <2>1, InitType, InitSafety, InitFaultFree DEF Inv
<1> QED
  BY <1>1, InvInductive, PTL DEF Spec

(* A device whose flash works always has an App region the bootloader      *)
(* accepts or a staged image to rebuild it from, wherever the power fails  *)
(* in the 0x31/0x34/0x36/0x37 handlers, in a metadata save or in           *)
(* boot_copy_backup.                                                       *)
THEOREM AlwaysRecoverable == Spec => []Recoverable
<1>1. Inv => Recoverable
  BY DEF Inv, FaultFreeInv, WholeOrStaged, StagedP, Recoverable, Staged, Loaded
<1> QED
  BY <1>1, Invariance, PTL

(* boot_safe_mode_enter is reached only after a flash fault or for vectors *)
(* boot_jump_vectors_ok refuses.                                           *)
THEOREM SafeModeOnlyJustified == Spec => []SafeModeJustified
<1>1. Inv => SafeModeJustified
  BY DEF Inv
<1> QED
  BY <1>1, Invariance, PTL

(* The image 0x77 was sent for is staged or installed from then on.        *)
THEOREM AckIsDurable == Spec => []AckDurable
<1>1. Inv => AckDurable
  BY DEF Inv, FaultFreeInv, PromiseInv, StagedP, AckDurable, Staged, Loaded
<1> QED
  BY <1>1, Invariance, PTL

(* The application that runs after 0x77 is the image 0x77 was sent for.    *)
THEOREM AckedImageRuns == Spec => []AckedRuns
<1>1. Inv => AckedRuns
  BY DEF Inv, FaultFreeInv, WholeOnceDecided, PromiseRuns, UndecidedPC, CopyPC, AckedRuns
<1> QED
  BY <1>1, Invariance, PTL

-----------------------------------------------------------------------------
(* The device implements Upgrade. *)

(* A step as it looks in Upgrade, while no flash operation has failed. *)
Maps == Abstract!Step \/ UNCHANGED <<AbsInstalled, AbsStaged, AbsPromised>>

Working == /\ Inv
           /\ MapInv
           /\ faults = 0
           /\ faults' = 0

LEMMA WorkingFacts ==
  ASSUME Working
  PROVE  TypeOK /\ SafetyInv /\ FaultFreeInv /\ PromiseClosesTransfer /\ NotStagedAgain
  BY DEF Working, Inv, MapInv

(* A unit that becomes no part of an image completes no image. *)
LEMMA HeadKept ==
  ASSUME NEW r \in Region, NEW k \in 1..NUnits, NEW x, x \notin Images,
         Verified([r EXCEPT ![k] = x])
  PROVE  Verified(r) /\ [r EXCEPT ![k] = x][1] = r[1]
<1> DEFINE q == [r EXCEPT ![k] = x]
<1>1. q[1] \in Images /\ q[1] # x
  BY DEF Verified
<1>2. k # 1 /\ q[1] = r[1]
  BY <1>1 DEF Region
<1>3. \A j \in 1..Size[r[1]] : j \in 1..NUnits /\ q[j] = r[1]
  BY <1>1, <1>2 DEF Verified
<1>4. \A j \in 1..Size[r[1]] : r[j] = r[1]
  BY <1>1, <1>2, <1>3 DEF Region
<1> QED
  BY <1>2, <1>4 DEF Verified

LEMMA StagedHead ==
  /\ Staged => backupR[1] \in Images
  /\ Staged' => backupR'[1] \in Images
  BY DEF Staged, Verified

-----------------------------------------------------------------------------
(* Three ways for a step to be one of Upgrade's.                           *)

LEMMA FrameMaps == ASSUME UNCHANGED <<flash, verdict>> PROVE Maps
  BY DEF flash, Maps, AbsInstalled, AbsStaged, AbsPromised, Staged, Loaded, Verified

LEMMA InstallMaps ==
  ASSUME Staged, UNCHANGED <<primary, backup, backupR, verdict>>,
         AbsInstalled' \in {AbsInstalled, backupR[1]}
  PROVE  Maps
<1>1. Staged' /\ UNCHANGED <<AbsStaged, AbsPromised>>
  BY DEF Staged, Loaded, Verified, AbsStaged, AbsPromised
<1>2. AbsStaged = backupR[1] /\ AbsStaged # None
  BY StagedHead DEF AbsStaged
<1> QED
  BY <1>1, <1>2 DEF Maps, Abstract!Step, Abstract!Install

LEMMA StagingMaps ==
  ASSUME UNCHANGED <<AbsInstalled, verdict>>,
         Staged /\ Staged' => UNCHANGED backupR[1],
         Staged /\ ~Staged' /\ verdict \in Images => AbsInstalled = backupR[1],
         ~Staged /\ Staged' => verdict \notin Images
  PROVE  Maps
<1>1. UNCHANGED AbsPromised
  BY DEF AbsPromised
<1>2. CASE Staged /\ Staged'
  BY <1>1, <1>2 DEF Maps, AbsStaged
<1>3. CASE ~Staged /\ ~Staged'
  BY <1>1, <1>3 DEF Maps, AbsStaged
<1>4. CASE ~Staged /\ Staged'
  <2>1. AbsStaged = None /\ AbsPromised = None /\ AbsStaged' \in Images
    BY <1>4, StagedHead DEF AbsStaged, AbsPromised
  <2> QED
    BY <1>1, <2>1 DEF Maps, Abstract!Step, Abstract!Stage
<1>5. CASE Staged /\ ~Staged'
  <2>1. AbsStaged = backupR[1] /\ AbsStaged # None /\ AbsStaged' = None
    BY <1>5, StagedHead DEF AbsStaged
  <2>2. CASE verdict \in Images
    BY <1>1, <1>5, <2>1, <2>2 DEF Maps, Abstract!Step, Abstract!Clear
  <2>3. CASE verdict \notin Images
    BY <1>1, <2>1, <2>3 DEF Maps, Abstract!Step, Abstract!Lose, AbsPromised
  <2> QED
    BY <2>2, <2>3
<1> QED
  BY <1>2, <1>3, <1>4, <1>5

-----------------------------------------------------------------------------
LEMMA SaveStepLoads ==
  ASSUME Working, SaveStep
  PROVE  /\ Loaded' \in {Loaded, Defaults, meta}
         /\ primary # Bad /\ primary' = Bad => Loaded' = meta
<1>1. Works
  BY DEF Working, SaveStep, ErasePage, ProgramPage, Works, Fails, Inv, TypeOK
<1>2. meta # Bad
  BY DEF Working, Inv, TypeOK
<1>3. BackupWritten
  BY DEF Working, MapInv
<1> QED
  BY <1>1, <1>2, <1>3 DEF SaveStep, ErasePage, ProgramPage, Works, Fails, Working, Loaded, BackupWritten

LEMMA SaveStepStages ==
  ASSUME Working, SaveStep
  PROVE  Staged' => Staged \/ Describes(meta)
<1>1. Loaded' \in {Loaded, Defaults, meta} /\ UNCHANGED backupR
  BY SaveStepLoads DEF SaveStep
<1> QED
  BY <1>1 DEF Staged, Describes, Verified, Defaults

LEMMA SaveMaps ==
  ASSUME Working, SaveStep, pc \in SavePC, UNCHANGED verdict
  PROVE  Maps
<1>1. UNCHANGED <<appR, backupR>>
  BY DEF SaveStep
<1>2. pc \notin UndecidedPC \cup {"acked"}
  BY DEF SavePC, BootAfterSave, UndecidedPC, CopyPC
<1>3. Verified(appR) /\ (verdict \in Images => appR[1] = backupR[1])
  BY <1>2, WorkingFacts DEF FaultFreeInv, WholeOnceDecided, PromiseInv, PromiseRuns
<1>4. UNCHANGED AbsInstalled /\ AbsInstalled = appR[1]
  BY <1>1, <1>3 DEF AbsInstalled, Verified
<1>5. ~Staged /\ Staged' => verdict \notin Images
  BY SaveStepStages, WorkingFacts DEF NotStagedAgain
<1> QED
  BY <1>1, <1>3, <1>4, <1>5, StagingMaps

(* Tearing or erasing a unit of the App region while an image is staged.   *)
LEMMA TornAppMaps ==
  ASSUME TypeOK, Staged, UNCHANGED <<primary, backup, backupR, verdict>>,
         NEW x, x \notin Images,
         appR' \in {appR, [appR EXCEPT ![pos] = x]}
  PROVE  Maps
<1>1. Verified(appR') => Verified(appR) /\ appR'[1] = appR[1]
  <2>1. CASE appR' = appR
    BY <2>1
  <2>2. CASE appR' = [appR EXCEPT ![pos] = x]
    <3>1. appR \in Region /\ pos \in 1..NUnits
      BY DEF TypeOK
    <3>2. Verified([appR EXCEPT ![pos] = x]) =>
            Verified(appR) /\ [appR EXCEPT ![pos] = x][1] = appR[1]
      BY <3>1, HeadKept
    <3> QED
      BY <2>2, <3>2
  <2> QED
    BY <2>1, <2>2
<1>2. AbsInstalled' \in {AbsInstalled, backupR[1]}
  BY <1>1 DEF AbsInstalled, Verified
<1> QED
  BY <1>2, InstallMaps

LEMMA StagedPIsStaged == StagedP => Staged
  BY DEF StagedP, Staged, Loaded

LEMMA BootMaps == ASSUME Working, BootStep PROVE Maps
<1> USE WorkingFacts
<1>0. UNCHANGED verdict
  BY DEF BootStep, avars
<1>1. CASE BootSaveStep
  BY <1>0, <1>1, SaveMaps DEF BootSaveStep, SavePC
<1>2. CASE EraseApp
  <2>1. Staged
    BY <1>2, StagedPIsStaged DEF EraseApp, FaultFreeInv, CopyProgress, CopyPC
  <2>2. appR' = [appR EXCEPT ![pos] = Erased]
    BY <1>2 DEF EraseApp, Working, Fails
  <2> QED
    BY <1>0, <1>2, <2>1, <2>2, TornAppMaps DEF EraseApp
<1>3. CASE ProgramApp
  <2>1. Staged /\ Copied(pos - 1) /\ pos \in 1..NUnits
    BY <1>3, StagedPIsStaged DEF ProgramApp, FaultFreeInv, CopyProgress, CopyPC, TypeOK
  <2>2. appR' = [appR EXCEPT ![pos] = backupR[pos]] /\ UNCHANGED <<primary, backup, backupR>>
    BY <1>3 DEF ProgramApp, Working, Fails
  <2>3. appR'[1] = backupR[1]
    BY <2>1, <2>2 DEF Copied, TypeOK, Region
  <2>4. AbsInstalled' = backupR[1]
    BY <2>2, <2>3 DEF AbsInstalled
  <2> QED
    BY <1>0, <2>1, <2>2, <2>4, InstallMaps
<1>4. CASE ~(BootSaveStep \/ EraseApp \/ ProgramApp)
  <2>1. UNCHANGED flash
    BY <1>4 DEF BootStep, BootNext, MetadataInit, BootSaveReturn, Decide, VerifyBackup, Reverify, AppCheck, Jump
  <2> QED
    BY <1>0, <2>1, FrameMaps
<1> QED
  BY <1>1, <1>2, <1>3, <1>4

(* A block changes the first unit of no image that is there. *)
LEMMA ProgramHead ==
  ASSUME TypeOK, NEW d, g_bytes_written < NUnits, ProgramUnit(d),
         Verified(backupR), Verified(backupR')
  PROVE  backupR'[1] = backupR[1]
<1>1. g_bytes_written + 1 \in 1..NUnits
  BY DEF TypeOK, AppTypeOK
<1>2. backupR[1] # Erased /\ backupR'[1] # Torn
  BY DEF Verified
<1> QED
  BY <1>1, <1>2 DEF ProgramUnit, TypeOK, Region

(* With an open transfer nothing is promised, and the App region is whole. *)
LEMMA OpenTransferMaps ==
  ASSUME Working, pc \notin UndecidedPC, verdict \notin Images,
         UNCHANGED <<primary, backup, appR, verdict>>,
         Staged /\ Staged' => UNCHANGED backupR[1]
  PROVE  Maps
<1>1. Verified(appR)
  BY WorkingFacts DEF FaultFreeInv, WholeOnceDecided
<1>2. UNCHANGED AbsInstalled
  BY <1>1 DEF AbsInstalled, Verified
<1> QED
  BY <1>2, StagingMaps

LEMMA RequestMaps == ASSUME Working, RequestStep PROVE Maps
<1> USE WorkingFacts
<1>0. pc = "idle"
  BY DEF RequestStep, AppRequest, SessionReset, SessionSwitch, Unlock, EraseMemory,
     RequestDownload, TransferData, TransferExit, StateSave
<1>1. CASE SessionReset \/ Unlock \/ TransferExit
           \/ \E s \in {"programming", "extended"} : SessionSwitch(s)
  BY <1>1, FrameMaps DEF SessionReset, Unlock, TransferExit, SessionSwitch, fvars, flash
<1>2. CASE EraseMemory \/ StateSave \/ \E n \in 1..NUnits : RequestDownload(n)
  <2>1. UNCHANGED flash /\ verdict' = None
    BY <1>2 DEF EraseMemory, StateSave, RequestDownload, fvars, flash
  <2>2. UNCHANGED <<AbsInstalled, AbsStaged>> /\ AbsPromised' = None
    BY <2>1 DEF flash, AbsInstalled, AbsStaged, AbsPromised, Staged, Loaded, Verified
  <2>3. CASE verdict \in Images
    <3>1. AbsStaged = None
      BY <1>0, <2>3 DEF NotStagedAgain, AbsStaged
    <3> QED
      BY <2>2, <3>1 DEF Maps, Abstract!Step, Abstract!StartOver
  <2>4. CASE verdict \notin Images
    BY <2>2, <2>4 DEF Maps, AbsPromised
  <2> QED
    BY <2>3, <2>4
<1>3. ASSUME NEW b \in 0..(BscMod - 1), NEW d \in Images \cup {Torn}, TransferData(b, d)
      PROVE  Maps
  <2>1. verdict \notin Images /\ pc \notin UndecidedPC
    BY <1>0, <1>3 DEF TransferData, PromiseClosesTransfer, UndecidedPC, CopyPC
  <2>2. UNCHANGED <<primary, backup, appR, verdict>>
    BY <1>3 DEF TransferData
  <2>3. UNCHANGED backupR \/ (g_bytes_written < NUnits /\ ProgramUnit(d))
    BY <1>3 DEF TransferData
  <2>4. Staged /\ Staged' => UNCHANGED backupR[1]
    BY <2>3, ProgramHead DEF Staged, Verified
  <2> QED
    BY <2>1, <2>2, <2>4, OpenTransferMaps
<1> QED
  BY <1>1, <1>2, <1>3 DEF RequestStep, AppRequest

LEMMA ProgressMaps == ASSUME Working, ProgressStep PROVE Maps
<1> USE WorkingFacts
<1>1. CASE EraseUnit
  <2>1. verdict \notin Images /\ pc \notin UndecidedPC
    BY <1>1 DEF EraseUnit, PromiseClosesTransfer, UndecidedPC, CopyPC
  <2>2. backupR' = [backupR EXCEPT ![pos] = Erased]
    BY <1>1 DEF EraseUnit, Working, Fails
  <2>3. Staged' => UNCHANGED backupR[1]
    BY <2>2, HeadKept DEF Staged, TypeOK
  <2> QED
    BY <1>1, <2>1, <2>3, OpenTransferMaps DEF EraseUnit
<1>2. CASE DropFlagReturn \/ StateSaveReturn
  BY <1>2, FrameMaps DEF DropFlagReturn, StateSaveReturn, avars
<1>3. CASE ExitPoll
  <2>1. verdict \notin Images /\ verdict' \notin Images /\ UNCHANGED flash
    BY <1>3 DEF ExitPoll, PromiseClosesTransfer
  <2> QED
    BY <2>1 DEF flash, Maps, AbsInstalled, AbsStaged, AbsPromised, Staged, Loaded, Verified
<1>4. CASE CommitReturn
  <2>1. save = "ok" /\ pc = "commitSave" /\ verdict' = backupR[1] /\ UNCHANGED flash
    BY <1>4 DEF CommitReturn, SaveOver, FaultFreeInv, SavesSucceed
  <2>2. StagedP
    BY <2>1 DEF SafetyInv, OkMeansWritten, CommitRecord, StagedP, TypeOK
  <2>3. UNCHANGED <<AbsInstalled, AbsStaged>>
    BY <2>1 DEF flash, AbsInstalled, AbsStaged, Staged, Loaded, Verified
  <2>4. AbsStaged = backupR[1] /\ AbsStaged \in Images /\ AbsPromised' = AbsStaged
    BY <2>1, <2>2, StagedPIsStaged, StagedHead DEF AbsStaged, AbsPromised
  <2> QED
    BY <2>3, <2>4 DEF Maps, Abstract!Step, Abstract!Promise
<1>5. CASE AppSaveStep
  BY <1>5, SaveMaps DEF AppSaveStep, SavePC, avars
<1> QED
  BY <1>1, <1>2, <1>3, <1>4, <1>5 DEF ProgressStep, AppProgress

LEMMA ResetMaps == ASSUME Working, SelfReset \/ PowerLoss PROVE Maps
<1> USE WorkingFacts
<1>1. UNCHANGED <<primary, backup, verdict>>
  BY DEF SelfReset, PowerLoss, Reboot
<1>2. CASE UNCHANGED <<appR, backupR>>
  BY <1>1, <1>2, FrameMaps DEF flash
<1>3. CASE pc \in {"erase", "program"} /\ appR' \in MayTear(appR, pos) /\ UNCHANGED backupR
  <2>1. Staged
    BY <1>3, StagedPIsStaged DEF FaultFreeInv, CopyProgress, CopyPC
  <2> QED
    BY <1>1, <1>3, <2>1, TornAppMaps DEF MayTear
<1>4. ASSUME NEW k \in 1..NUnits, backupR' \in MayTear(backupR, k), UNCHANGED appR,
             pc = "dlErase" \/ (pc = "idle" /\ g_active)
      PROVE  Maps
  <2>1. verdict \notin Images /\ pc \notin UndecidedPC
    BY <1>4 DEF PromiseClosesTransfer, UndecidedPC, CopyPC
  <2>2. Staged' => UNCHANGED backupR[1]
    <3>1. backupR \in Region /\ Torn \notin Images
      BY DEF TypeOK
    <3>2. Verified([backupR EXCEPT ![k] = Torn]) =>
            [backupR EXCEPT ![k] = Torn][1] = backupR[1]
      BY <3>1, HeadKept
    <3>3. Staged' => Verified(backupR')
      BY DEF Staged
    <3>4. backupR' = backupR \/ backupR' = [backupR EXCEPT ![k] = Torn]
      BY <1>4 DEF MayTear
    <3> QED
      BY <3>2, <3>3, <3>4
  <2> QED
    BY <1>1, <1>4, <2>1, <2>2, OpenTransferMaps
<1>5. pos \in 1..NUnits /\ (g_bytes_written < NUnits => g_bytes_written + 1 \in 1..NUnits)
  BY DEF TypeOK, AppTypeOK
<1> QED
  BY <1>2, <1>3, <1>4, <1>5 DEF SelfReset, PowerLoss
-----------------------------------------------------------------------------
(* MapInv is inductive, relative to Inv.                                   *)

LEMMA RecordNotStaged ==
  ASSUME NEW m \in Metadata, primary = m, Staged
  PROVE  Describes(m)
  BY BadAssumption DEF Staged, Loaded, Describes

LEMMA NotStagedFrame ==
  ASSUME NotStagedAgain, UNCHANGED <<primary, backup, backupR, meta, verdict>>,
         pc' = pc \/ pc' \notin SavePC \cup {"appCheck", "jump", "idle"}
  PROVE  NotStagedAgain'
  BY DEF NotStagedAgain, Staged, Loaded, Verified, Describes, SavePC

LEMMA BootNotStaged ==
  ASSUME Working, Inv', BootStep
  PROVE  NotStagedAgain'
<1> SUFFICES ASSUME verdict' \in Images PROVE NotStagedAgain'
  BY DEF NotStagedAgain
<1> USE WorkingFacts
<1>0. UNCHANGED verdict /\ verdict \in Images
  BY DEF BootStep, avars
<1> DEFINE SameStaging == UNCHANGED <<primary, backup, backupR>>
<1>f. ASSUME SameStaging PROVE (Staged' <=> Staged) /\ \A m : Describes(m)' <=> Describes(m)
  BY <1>f DEF Staged, Loaded, Verified, Describes
<1>1. CASE MetadataInit
  <2>1. SameStaging
    BY <1>1 DEF MetadataInit, flash
  <2>2. CASE primary # Bad
    <3>1. pc' = "decide"
      BY <1>1, <2>2 DEF MetadataInit
    <3> QED
      BY <2>1, <2>2, <3>1 DEF NotStagedAgain, SavePC, BootAfterSave
  <2>3. CASE primary = Bad
    <3>1. pc' = "repair" /\ meta' = Loaded /\ ~Staged
      BY <1>0, <1>1, <2>3 DEF MetadataInit, StartSave, NotStagedAgain
    <3>2. ~Describes(meta)'
      BY <2>1, <3>1 DEF Describes, Staged, Verified
    <3> QED
      BY <1>f, <2>1, <3>1, <3>2 DEF NotStagedAgain
  <2> QED
    BY <2>2, <2>3
<1>2. CASE BootSaveStep
  <2>1. pc \in SavePC /\ pc' = pc /\ SaveStep /\ UNCHANGED <<meta, backupR>>
    BY <1>2 DEF BootSaveStep, SavePC, SaveStep
  <2>2. pc \notin {"appCheck", "jump", "idle"}
    BY <2>1 DEF SavePC, BootAfterSave
  <2>3. ~Describes(meta) /\ (Describes(meta)' <=> Describes(meta))
    BY <1>0, <2>1 DEF NotStagedAgain, Describes, Verified
  <2>4. primary' = Bad => ~Staged'
    <3>1. CASE primary = Bad
      BY <1>0, <2>1, <2>3, <3>1, SaveStepStages DEF NotStagedAgain
    <3>2. CASE primary # Bad
      BY <2>1, <2>3, <3>2, SaveStepLoads DEF Staged, Describes, Verified
    <3> QED
      BY <3>1, <3>2
  <2> QED
    BY <2>1, <2>2, <2>3, <2>4 DEF NotStagedAgain
<1>3. CASE BootSaveReturn
  <2>1. SameStaging /\ UNCHANGED meta /\ pc \in SavePC
    BY <1>3 DEF BootSaveReturn, flash, SavePC
  <2>2. primary = meta /\ meta \in Metadata
    BY <1>3 DEF BootSaveReturn, SaveOver, FaultFreeInv, SavesSucceed, SafetyInv, OkMeansWritten, TypeOK
  <2>3. ~Describes(meta)
    BY <1>0, <2>1 DEF NotStagedAgain
  <2>4. ~Staged
    BY <2>2, <2>3, RecordNotStaged
  <2>5. ~Describes(meta)'
    BY <2>1, <2>3 DEF Describes, Verified
  <2> QED
    BY <1>f, <2>1, <2>4, <2>5 DEF NotStagedAgain
<1>4. CASE Decide
  <2>1. SameStaging /\ primary = meta /\ meta \in Metadata
    BY <1>4 DEF Decide, flash, FaultFreeInv, BootKnowsPrimary, TypeOK
  <2>2. primary' # Bad
    BY <2>1, BadAssumption
  <2>3. CASE meta.backup_valid
    BY <1>4, <2>2, <2>3 DEF Decide, NotStagedAgain, SavePC, BootAfterSave
  <2>4. CASE ~meta.backup_valid
    <3>1. ~Staged
      BY <2>1, <2>4, RecordNotStaged DEF Describes
    <3>2. ~meta'.backup_valid
      BY <1>4, <2>1, <2>4 DEF Decide, Metadata
    <3> QED
      BY <1>f, <2>1, <3>1, <3>2 DEF NotStagedAgain, Describes
  <2> QED
    BY <2>3, <2>4
<1>5. CASE VerifyBackup
  <2>1. SameStaging /\ meta \in Metadata
    BY <1>5 DEF VerifyBackup, flash, TypeOK
  <2>2. primary # Bad
    BY <1>5 DEF VerifyBackup, FaultFreeInv, BootKnowsPrimary
  <2>3. CASE BackupAccepted
    BY <1>5, <2>1, <2>2, <2>3 DEF VerifyBackup, NotStagedAgain, SavePC, BootAfterSave
  <2>4. CASE ~BackupAccepted
    <3>1. pc' = "copyFail" /\ meta'.backup_crc32 = meta.backup_crc32
      BY <1>5, <2>1, <2>4 DEF VerifyBackup, CopyFail, StartSave, Metadata
    <3>2. ~Describes(meta)'
      BY <2>1, <2>4, <3>1 DEF BackupAccepted, Describes, Verified
    <3> QED
      BY <2>1, <2>2, <3>1, <3>2 DEF NotStagedAgain
  <2> QED
    BY <2>3, <2>4
<1>6. CASE EraseApp \/ ProgramApp
  <2>1. primary # Bad /\ UNCHANGED primary
    BY <1>6 DEF EraseApp, ProgramApp, FaultFreeInv, CopyProgress, CopyPC, StagedP
  <2>2. pc' \in CopyPC
    BY <1>6 DEF EraseApp, ProgramApp, Fails, Working, CopyPC, TypeOK
  <2> QED
    BY <2>1, <2>2 DEF NotStagedAgain, CopyPC, SavePC, BootAfterSave
<1>7. CASE Reverify
  <2>1. UNCHANGED flash /\ primary # Bad /\ meta \in Metadata
    BY <1>7 DEF Reverify, FaultFreeInv, CopyProgress, CopyPC, StagedP, TypeOK
  <2>2. Verified(appR')
    <3>1. pc' \in {"commit", "copyFail"}
      BY <1>7 DEF Reverify, CopyFail
    <3>2. WholeOnceDecided'
      BY DEF Inv, FaultFreeInv, Working
    <3> QED
      BY <3>1, <3>2 DEF WholeOnceDecided, UndecidedPC, CopyPC, Verified
  <2>3. pc' = "commit" /\ meta' = Committed(meta)
    BY <1>7, <2>1, <2>2 DEF Reverify, StartSave, flash
  <2>4. ~meta'.backup_valid
    BY <2>1, <2>3 DEF Committed, Metadata
  <2> QED
    BY <2>1, <2>3, <2>4 DEF NotStagedAgain, Describes, flash
<1>8. CASE AppCheck \/ Jump
  <2>1. SameStaging /\ ~Staged /\ ~Describes(meta)
    BY <1>0, <1>8 DEF AppCheck, Jump, flash, NotStagedAgain
  <2>2. meta' = meta \/ pc' = "idle"
    BY <1>8 DEF AppCheck, Jump, StartSave
  <2>3. pc' = "idle" \/ ~Describes(meta)'
    BY <2>1, <2>2 DEF Describes, Verified
  <2> QED
    BY <1>f, <2>1, <2>3 DEF NotStagedAgain, SavePC, BootAfterSave
<1> QED
  BY <1>1, <1>2, <1>3, <1>4, <1>5, <1>6, <1>7, <1>8 DEF BootStep, BootNext

LEMMA RequestNotStaged ==
  ASSUME Working, RequestStep
  PROVE  NotStagedAgain'
<1> SUFFICES ASSUME verdict' \in Images PROVE NotStagedAgain'
  BY DEF NotStagedAgain
<1> USE WorkingFacts
<1>1. CASE SessionReset \/ Unlock \/ TransferExit
           \/ \E s \in {"programming", "extended"} : SessionSwitch(s)
  BY <1>1, NotStagedFrame DEF SessionReset, Unlock, TransferExit, SessionSwitch, fvars
<1>2. CASE EraseMemory \/ StateSave \/ \E n \in 1..NUnits : RequestDownload(n)
  BY <1>2 DEF EraseMemory, StateSave, RequestDownload
<1>3. CASE \E b \in 0..(BscMod - 1), d \in Images \cup {Torn} : TransferData(b, d)
  BY <1>3 DEF TransferData, PromiseClosesTransfer
<1> QED
  BY <1>1, <1>2, <1>3 DEF RequestStep, AppRequest

LEMMA ProgressNotStaged ==
  ASSUME Working, ProgressStep
  PROVE  NotStagedAgain'
<1> SUFFICES ASSUME verdict' \in Images PROVE NotStagedAgain'
  BY DEF NotStagedAgain
<1> USE WorkingFacts
<1>0. StateSaveUnpromised
  BY DEF Working, MapInv
<1>1. CASE CommitReturn
  <2>1. primary = meta /\ UNCHANGED primary /\ meta \in Metadata
    BY <1>1 DEF CommitReturn, SaveOver, FaultFreeInv, SavesSucceed, SafetyInv, OkMeansWritten, flash, TypeOK
  <2>2. pc' = "acked"
    BY <1>1 DEF CommitReturn, SaveOver, FaultFreeInv, SavesSucceed, AfterAck
  <2> QED
    BY <2>1, <2>2, BadAssumption DEF NotStagedAgain, SavePC, BootAfterSave
<1>2. CASE EraseUnit \/ DropFlagReturn \/ StateSaveReturn \/ AppSaveStep
  BY <1>0, <1>2 DEF EraseUnit, DropFlagReturn, StateSaveReturn, AppSaveStep, avars,
     PromiseClosesTransfer, StateSaveUnpromised
<1>3. CASE ExitPoll
  BY <1>3 DEF ExitPoll, PromiseClosesTransfer
<1> QED
  BY <1>1, <1>2, <1>3 DEF ProgressStep, AppProgress

LEMMA ResetNotStaged ==
  ASSUME Working, SelfReset \/ PowerLoss
  PROVE  NotStagedAgain'
<1> SUFFICES ASSUME verdict' \in Images PROVE NotStagedAgain'
  BY DEF NotStagedAgain
<1> USE WorkingFacts
<1>1. UNCHANGED <<primary, backup, verdict>> /\ pc' = "init"
  BY DEF SelfReset, PowerLoss, Reboot
<1>2. UNCHANGED backupR
  BY <1>1 DEF SelfReset, PowerLoss, PromiseClosesTransfer
<1> QED
  BY <1>1, <1>2 DEF NotStagedAgain, Staged, Loaded, Verified, SavePC, BootAfterSave

(* How a step treats the save under way. *)
LEMMA SaveMoves ==
  ASSUME Inv, [Next]_vars
  PROVE  \/ SaveStep
         \/ UNCHANGED <<save, backup, meta>>
         \/ save' \in {"none", "bakErase"}
<1>0. pc \notin SavePC => save = "none"
  BY DEF Inv, SafetyInv, SaveOnlyInSavePC
<1>1. CASE BootStep
  BY <1>0, <1>1 DEF BootStep, BootNext, MetadataInit, BootSaveStep, BootSaveReturn, Decide,
     VerifyBackup, EraseApp, ProgramApp, Reverify, AppCheck, Jump, CopyFail, StartSave,
     SavePC, BootAfterSave
<1>2. CASE RequestStep
  BY <1>0, <1>2 DEF RequestStep, AppRequest, SessionReset, SessionSwitch, Unlock, EraseMemory,
     RequestDownload, TransferData, TransferExit, StateSave, StartSave, fvars, flash
<1>3. CASE ProgressStep
  BY <1>0, <1>3 DEF ProgressStep, AppProgress, EraseUnit, DropFlagReturn, ExitPoll, CommitReturn,
     StateSaveReturn, AppSaveStep, StartSave, flash
<1>4. CASE SelfReset \/ PowerLoss
  BY <1>4 DEF SelfReset, PowerLoss, Reboot
<1>5. CASE UNCHANGED vars
  BY <1>5 DEF vars, fvars
<1> QED
  BY <1>1, <1>2, <1>3, <1>4, <1>5 DEF Next

LEMMA RecordsKept ==
  ASSUME Inv, MapInv, [Next]_vars
  PROVE  BackupWritten' /\ StateSaveUnpromised'
<1>1. BackupWritten'
  <2>1. CASE SaveStep
    BY <2>1 DEF SaveStep, ErasePage, ProgramPage, BackupWritten
  <2>2. CASE UNCHANGED <<save, backup, meta>>
    BY <2>2 DEF MapInv, BackupWritten
  <2>3. CASE save' \in {"none", "bakErase"}
    BY <2>3 DEF BackupWritten
  <2> QED
    BY <2>1, <2>2, <2>3, SaveMoves
<1>2. StateSaveUnpromised'
  <2>1. CASE pc' = "stateSave" /\ pc # "stateSave"
    <3>1. CASE BootStep
      BY <2>1, <3>1 DEF BootStep, BootNext, MetadataInit, BootSaveStep, SaveStep, BootSaveReturn,
         BootAfterSave, Decide, VerifyBackup, EraseApp, ProgramApp, Reverify, AppCheck, Jump, CopyFail
    <3>2. CASE RequestStep
      BY <2>1, <3>2 DEF RequestStep, AppRequest, SessionReset, SessionSwitch, Unlock, EraseMemory,
         RequestDownload, TransferData, TransferExit, StateSave, fvars, StateSaveUnpromised
    <3>3. CASE ProgressStep
      BY <2>1, <3>3 DEF ProgressStep, AppProgress, EraseUnit, EraseDone, DropFlagReturn, ExitPoll,
         CommitReturn, AfterAck, StateSaveReturn, AppSaveStep, SaveStep
    <3>4. CASE SelfReset \/ PowerLoss
      BY <2>1, <3>4 DEF SelfReset, PowerLoss, Reboot
    <3>5. CASE UNCHANGED vars
      BY <2>1, <3>5 DEF vars, fvars
    <3> QED
      BY <3>1, <3>2, <3>3, <3>4, <3>5 DEF Next
  <2>2. CASE pc = "stateSave"
    <3>1. verdict \notin Images
      BY <2>2 DEF MapInv, StateSaveUnpromised
    <3>2. UNCHANGED verdict
      <4>1. ~RequestStep /\ ~SelfReset
        BY <2>2 DEF RequestStep, AppRequest, SessionReset, SessionSwitch, Unlock, EraseMemory,
           RequestDownload, TransferData, TransferExit, StateSave, SelfReset
      <4>2. CASE BootStep
        BY <4>2 DEF BootStep, avars
      <4>3. CASE ProgressStep
        BY <2>2, <4>3 DEF ProgressStep, AppProgress, EraseUnit, DropFlagReturn, ExitPoll,
           CommitReturn, StateSaveReturn, AppSaveStep, avars
      <4>4. CASE PowerLoss
        BY <4>4 DEF PowerLoss, Reboot
      <4> QED
        BY <4>1, <4>2, <4>3, <4>4 DEF Next, vars, avars
    <3> QED
      BY <3>1, <3>2 DEF StateSaveUnpromised
  <2> QED
    BY <2>1, <2>2 DEF StateSaveUnpromised
<1> QED
  BY <1>1, <1>2

LEMMA FaultsMonotone == ASSUME Inv, [Next]_vars, faults' = 0 PROVE faults = 0
<1>1. faults \in Nat
  BY DEF Inv, TypeOK
<1>2. faults' = faults \/ faults' = faults + 1
  <2>1. CASE BootStep
    BY <2>1 DEF BootStep, BootNext, MetadataInit, BootSaveStep, BootSaveReturn, Decide, VerifyBackup,
       EraseApp, ProgramApp, Reverify, AppCheck, Jump, SaveStep, ErasePage, ProgramPage, Works, Fails
  <2>2. CASE RequestStep
    BY <2>2 DEF RequestStep, AppRequest, SessionReset, SessionSwitch, Unlock, EraseMemory,
       RequestDownload, TransferData, ProgramUnit, TransferExit, StateSave, fvars, Works, Fails
  <2>3. CASE ProgressStep
    BY <2>3 DEF ProgressStep, AppProgress, EraseUnit, DropFlagReturn, ExitPoll, CommitReturn,
       StateSaveReturn, AppSaveStep, SaveStep, ErasePage, ProgramPage, Works, Fails
  <2>4. CASE SelfReset \/ PowerLoss
    BY <2>4 DEF SelfReset, PowerLoss, Reboot
  <2>5. CASE UNCHANGED vars
    BY <2>5 DEF vars, fvars
  <2> QED
    BY <2>1, <2>2, <2>3, <2>4, <2>5 DEF Next
<1> QED
  BY <1>1, <1>2

LEMMA MapInvInitial == Init => MapInv
  BY DEF Init, MapInv, BackupWritten, StateSaveUnpromised, NotStagedAgain

LEMMA MapInvInductive ==
  ASSUME Inv, Inv', MapInv, [Next]_vars
  PROVE  MapInv'
<1>1. ASSUME faults' = 0 PROVE NotStagedAgain'
  <2>1. Working
    BY <1>1, FaultsMonotone DEF Working
  <2>2. CASE UNCHANGED vars
    BY <2>1, <2>2, WorkingFacts, NotStagedFrame DEF vars, fvars, avars
  <2> QED
    BY <2>1, <2>2, BootNotStaged, RequestNotStaged, ProgressNotStaged, ResetNotStaged DEF Next
<1> QED
  BY <1>1, RecordsKept DEF MapInv

-----------------------------------------------------------------------------
LEMMA InitMaps == Init => Abstract!Init
<1> SUFFICES ASSUME Init PROVE Abstract!Init
  OBVIOUS
<1>1. Size[Factory] \in 1..NUnits /\ Factory \in CrcOk
  BY DEF OtaFlashAssumption
<1>2. Verified(appR) /\ appR[1] = Factory
  <2>1. \A k \in 1..Size[Factory] : k \in 1..NUnits /\ appR[k] = Factory
    BY <1>1 DEF Init
  <2>2. appR[1] = Factory
    BY <1>1, <2>1
  <2> QED
    BY <1>1, <2>1, <2>2 DEF Verified
<1>3. backupR[1] = Erased
  BY DEF Init
<1>4. ~Staged /\ verdict = None /\ faults = 0
  BY <1>3 DEF Init, Staged, Verified
<1> QED
  BY <1>2, <1>4 DEF Abstract!Init, AbsInstalled, AbsStaged, AbsPromised

LEMMA StepMaps ==
  ASSUME Inv, Inv', MapInv, [Next]_vars
  PROVE  [Abstract!Next]_(Abstract!uvars)
<1>0. faults' \in Nat
  BY DEF Inv, TypeOK
<1>1. CASE faults' > 0
  BY <1>1 DEF Abstract!Next, Abstract!Break
<1>2. CASE faults' = 0
  <2>1. Working /\ UNCHANGED (faults > 0)
    BY <1>2, FaultsMonotone DEF Working
  <2>2. Maps
    <3>1. CASE UNCHANGED vars
      BY <3>1, FrameMaps DEF vars, fvars, avars, flash
    <3>2. CASE BootStep
      BY <2>1, <3>2, BootMaps
    <3>3. CASE RequestStep
      BY <2>1, <3>3, RequestMaps
    <3>4. CASE ProgressStep
      BY <2>1, <3>4, ProgressMaps
    <3>5. CASE SelfReset \/ PowerLoss
      BY <2>1, <3>5, ResetMaps
    <3> QED
      BY <3>1, <3>2, <3>3, <3>4, <3>5 DEF Next
  <2> QED
    BY <2>1, <2>2 DEF Maps, Abstract!Next, Abstract!uvars
<1> QED
  BY <1>0, <1>1, <1>2

(* The device, with its flash, its metadata and its boots, implements the  *)
(* abstract upgrade: for every set of images and every region size, under  *)
(* power losses at any step, until a flash operation fails.                *)
THEOREM DeviceImplementsUpgrade == Spec => ImplementsUpgrade
<1>1. Init => MapInv /\ Abstract!Init
  BY MapInvInitial, InitMaps
<1>2. Inv /\ Inv' /\ MapInv /\ [Next]_vars => MapInv'
  BY MapInvInductive
<1>3. Inv /\ Inv' /\ MapInv /\ [Next]_vars => [Abstract!Next]_(Abstract!uvars)
  BY StepMaps
<1> QED
  BY <1>1, <1>2, <1>3, Invariance, PTL DEF Spec, ImplementsUpgrade, Abstract!Spec
=============================================================================

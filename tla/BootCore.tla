------------------------------ MODULE BootCore ------------------------------
(***************************************************************************)
(* The bootloader: metadata load and repair, Backup -> App copy, boot      *)
(* decision, jump or safe mode (main.c, boot_trial.c, boot_jump.c,         *)
(* boot_safe_mode.c).  Straight-line code, one step per flash operation,   *)
(* so that a power loss can hit between any two of them.                   *)
(***************************************************************************)
EXTENDS OtaFlash

VARIABLE disk_boot_reason   \* the reason main() found on flash

bvars == <<disk_boot_reason>>

(* Mutant: a failed copy is tried again at once. *)
BootAfterSaveRetry == [repair |-> "decide", copyFail |-> "verify",
                       commit |-> "appCheck", reason |-> "jump",
                       enterSafe |-> "safe"]

(* Where each metadata save of the bootloader returns to.  Every caller    *)
(* ignores its result.                                                     *)
BootAfterSave == [repair |-> "decide", copyFail |-> "appCheck",
                  commit |-> "appCheck", reason |-> "jump",
                  enterSafe |-> "safe"]

BootPC == {"init", "repair", "decide", "verify", "erase", "program",
           "reverify", "copyFail", "commit", "appCheck", "reason", "jump",
           "enterSafe", "safe"}

(* boot_metadata_init: a valid primary is only read; a valid backup or the *)
(* defaults are saved again first.                                         *)
MetadataInit ==
  /\ pc = "init"
  /\ IF primary # Bad
     THEN meta' = primary /\ pc' = "decide" /\ UNCHANGED save
     ELSE StartSave(Loaded) /\ pc' = "repair"
  /\ UNCHANGED <<flash, pos, rst, faults, disk_boot_reason>>

BootSaveReturn ==
  /\ pc \in DOMAIN BootAfterSave
  /\ SaveOver
  /\ save' = "none"
  /\ pc' = BootAfterSave[pc]
  /\ UNCHANGED <<flash, meta, pos, rst, faults, disk_boot_reason>>

(* main() step 2 and 3: detect_boot_reason, then the pending flag.         *)
Decide ==
  /\ pc = "decide"
  /\ disk_boot_reason' = meta.last_boot_reason
  /\ meta' = [meta EXCEPT !.last_boot_reason =
                IF meta.backup_valid THEN "OTA_ACT" ELSE rst]
  /\ pc' = IF meta.backup_valid THEN "verify" ELSE "appCheck"
  /\ UNCHANGED <<flash, save, pos, rst, faults>>

(* The exits of boot_copy_backup that return -1: the flag stays set.       *)
CopyFail ==
  /\ StartSave([meta EXCEPT !.last_boot_reason = "COPY_FAIL"])
  /\ pc' = "copyFail"
  /\ UNCHANGED pos

(* Mutant: the Backup region is not verified.                              *)
BackupAcceptedUnverified == meta.backup_crc32 = backupR[1]

BackupAccepted == Verified(backupR) /\ meta.backup_crc32 = backupR[1]

VerifyBackup ==
  /\ pc = "verify"
  /\ IF BackupAccepted
     THEN pc' = "erase" /\ pos' = 1 /\ UNCHANGED <<meta, save>>
     ELSE CopyFail
  /\ UNCHANGED <<flash, rst, faults, disk_boot_reason>>

EraseApp ==
  /\ pc = "erase"
  /\ \/ /\ Works
        /\ appR' = [appR EXCEPT ![pos] = Erased]
        /\ pos' = IF pos < NUnits THEN pos + 1 ELSE 1
        /\ pc' = IF pos < NUnits THEN "erase" ELSE "program"
        /\ UNCHANGED <<meta, save>>
     \/ /\ Fails
        /\ appR' \in {appR, [appR EXCEPT ![pos] = Torn]}
        /\ CopyFail
  /\ UNCHANGED <<primary, backup, backupR, rst, disk_boot_reason>>

(* Mutant: the last unit of the image is not copied. *)
CopyLengthShort == IF Size[backupR[1]] > 1 THEN Size[backupR[1]] - 1 ELSE 1

CopyLength == Size[backupR[1]]

ProgramApp ==
  /\ pc = "program"
  /\ \/ /\ Works
        /\ appR' = [appR EXCEPT ![pos] = backupR[pos]]
        /\ pos' = IF pos < CopyLength THEN pos + 1 ELSE 1
        /\ pc' = IF pos < CopyLength THEN "program" ELSE "reverify"
        /\ UNCHANGED <<meta, save>>
     \/ /\ Fails
        /\ appR' = [appR EXCEPT ![pos] = Torn]
        /\ CopyFail
  /\ UNCHANGED <<primary, backup, backupR, rst, disk_boot_reason>>

Committed(m) == [m EXCEPT !.backup_valid = FALSE,
                          !.last_boot_reason = "OTA_ACT"]

(* Re-verify in place; only then clear the flag and save.                  *)
Reverify ==
  /\ pc = "reverify"
  /\ IF Verified(appR)
     THEN StartSave(Committed(meta)) /\ pc' = "commit" /\ UNCHANGED pos
     ELSE CopyFail
  /\ UNCHANGED <<flash, rst, faults, disk_boot_reason>>

(* main() step 4: verify the App region; save only a changed reason.       *)
AppCheck ==
  /\ pc = "appCheck"
  /\ IF ~Verified(appR)
     THEN StartSave(meta) /\ pc' = "enterSafe"
     ELSE IF meta.last_boot_reason # disk_boot_reason
     THEN StartSave(meta) /\ pc' = "reason"
     ELSE pc' = "jump" /\ UNCHANGED <<meta, save>>
  /\ UNCHANGED <<flash, pos, rst, faults, disk_boot_reason>>

(* boot_jump_to_app: returns into safe mode only if the vectors are bad.   *)
(* RAM is the application's after the jump.                                *)
Jump ==
  /\ pc = "jump"
  /\ IF appR[1] \in Jumpable
     THEN /\ pc' = "idle"
          /\ meta' = Defaults
          /\ disk_boot_reason' = "POWER_ON"
          /\ UNCHANGED save
     ELSE StartSave(meta) /\ pc' = "enterSafe" /\ UNCHANGED disk_boot_reason
  /\ UNCHANGED <<flash, pos, rst, faults>>

BootSaveStep ==
  /\ pc \in DOMAIN BootAfterSave
  /\ SaveStep
  /\ UNCHANGED disk_boot_reason

BootNext ==
  \/ MetadataInit
  \/ BootSaveStep
  \/ BootSaveReturn
  \/ Decide
  \/ VerifyBackup
  \/ EraseApp
  \/ ProgramApp
  \/ Reverify
  \/ AppCheck
  \/ Jump
=============================================================================

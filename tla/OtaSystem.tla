------------------------------ MODULE OtaSystem ------------------------------
(***************************************************************************)
(* The device during firmware upgrades: bootloader and application share   *)
(* the CPU and the flash, the power may fail at any moment (board sleep    *)
(* cuts it too), and a bounded number of flash operations may fail.        *)
(***************************************************************************)
EXTENDS BootCore, AppDownload

vars == <<fvars, bvars, avars>>

TypeOK ==
  /\ primary \in Page
  /\ backup \in Page
  /\ appR \in Region
  /\ backupR \in Region
  /\ meta \in Metadata
  /\ save \in SaveSteps
  /\ pc \in BootPC \cup AppPC
  /\ pos \in 1..NUnits
  /\ rst \in {"POWER_ON", "SW"}
  /\ faults \in 0..MaxFaults
  /\ disk_boot_reason \in Reasons
  /\ AppTypeOK

(* As production leaves the device: a factory image, nothing staged, the   *)
(* metadata written by an earlier boot or still blank.                     *)
Init ==
  /\ primary \in {Defaults, Bad}
  /\ backup = primary
  /\ appR = [k \in 1..NUnits |-> IF k <= Size[Factory] THEN Factory ELSE Erased]
  /\ backupR = [k \in 1..NUnits |-> Erased]
  /\ meta = Defaults
  /\ save = "none"
  /\ pc = "init"
  /\ pos = 1
  /\ rst = "POWER_ON"
  /\ faults = 0
  /\ disk_boot_reason = "POWER_ON"
  /\ session = "default"
  /\ unlocked = FALSE
  /\ g_erased = FALSE
  /\ g_active = FALSE
  /\ g_exit_pending = FALSE
  /\ g_bytes_written = 0
  /\ g_expected_size = 0
  /\ g_block_seq = 0
  /\ verdict = None

(* Everything but the flash starts over in main() of the bootloader. *)
Reboot(cause) ==
  /\ pc' = "init"
  /\ rst' = cause
  /\ meta' = Defaults
  /\ save' = "none"
  /\ pos' = 1
  /\ disk_boot_reason' = "POWER_ON"
  /\ session' = "default"
  /\ unlocked' = FALSE
  /\ Abort
  /\ UNCHANGED <<primary, backup, faults, verdict>>

(* The unit being erased or programmed when the power fails may be Torn.   *)
(* A metadata page in that position is Bad already.                        *)
MayTear(r, k) == {r, [r EXCEPT ![k] = Torn]}

PowerLoss ==
  /\ Reboot("POWER_ON")
  /\ IF pc \in {"erase", "program"} THEN appR' \in MayTear(appR, pos)
     ELSE UNCHANGED appR
  /\ IF pc = "dlErase" THEN backupR' \in MayTear(backupR, pos)
     ELSE IF pc = "idle" /\ g_active /\ g_bytes_written < NUnits
     THEN backupR' \in MayTear(backupR, g_bytes_written + 1)
     ELSE UNCHANGED backupR

(* NVIC_SystemReset at the end of ota_dl_poll, once 0x77 is on the wire.   *)
SelfReset ==
  /\ pc = "acked"
  /\ Reboot("SW")
  /\ UNCHANGED <<appR, backupR>>

BootStep == BootNext /\ UNCHANGED avars
RequestStep == AppRequest /\ UNCHANGED bvars
ProgressStep == AppProgress /\ UNCHANGED bvars

Next ==
  \/ BootStep
  \/ RequestStep
  \/ ProgressStep
  \/ SelfReset
  \/ PowerLoss

Spec == Init /\ [][Next]_vars

(* The code between two resets is sequential and waits for nobody, so what *)
(* it does by itself it gets to do.  Requests and power losses are free.   *)
Fairness ==
  /\ WF_vars(BootStep)
  /\ WF_vars(ProgressStep)
  /\ WF_vars(SelfReset)

FairSpec == Spec /\ Fairness

-----------------------------------------------------------------------------
(* A complete image waits in the Backup region under a set pending flag    *)
(* that a boot would load and act on.                                      *)
Staged == /\ Loaded.backup_valid
          /\ Verified(backupR)
          /\ Loaded.backup_crc32 = backupR[1]

(* Whenever the power fails, the next boot finds an App region it accepts, *)
(* or a staged image to rebuild it from (boot_trial.c: power-loss          *)
(* idempotence).  A failed flash operation voids the promise.              *)
Recoverable == faults = 0 => Verified(appR) \/ Staged

(* Safe mode, which offers no download, is entered only after a flash      *)
(* fault or for an image whose vectors cannot be jumped to.                *)
SafeModeJustified ==
  pc \in {"enterSafe", "safe"} =>
    faults > 0 \/ (Verified(appR) /\ appR[1] \notin Jumpable)

(* The bootloader checks no signature, so it relies on the record: an image*)
(* it accepts in the App region is the factory's or one whose signature    *)
(* the application has verified, even when flash operations fail and their *)
(* errors are ignored.                                                     *)
OnlySignedRuns == Verified(appR) => appR[1] \in Signed \cup {Factory}

(* Once 0x77 is sent, the upgrade survives any power loss: it stays staged *)
(* until the App region holds it.                                          *)
AckDurable ==
  (faults = 0 /\ verdict \in Images) =>
    \/ Staged /\ backupR[1] = verdict
    \/ Verified(appR) /\ appR[1] = verdict

(* The application that runs after 0x77 was sent is the image that 0x77    *)
(* answered for; no boot falls back to the old one.                        *)
AckedRuns ==
  (faults = 0 /\ verdict \in Images /\ pc = "idle") =>
    Verified(appR) /\ appR[1] = verdict

(* The App region is modified only while the Backup region holds a whole,  *)
(* signed image, the very one the metadata record was written for.         *)
AppRewrittenFromStaged ==
  [][appR' # appR =>
       VerifiedSigned(backupR) /\ meta.backup_crc32 = backupR[1]]_vars

(* A boot that is not interrupted ends in the application or in safe mode, *)
(* whatever the flash does: no loop, no wait that nothing ends.            *)
PowerStays == <>[][~PowerLoss]_vars
BootEnds == PowerStays => (pc \in BootPC ~> pc \in {"idle", "safe"})

(* A host that got 0x77 eventually has its image running, however often    *)
(* the power fails in between, as long as it does not fail for ever, no    *)
(* flash operation fails and the image can be jumped to.                   *)
Activated(i) == pc = "idle" /\ Verified(appR) /\ appR[1] = i
AckedActivates ==
  PowerStays => \A i \in Jumpable : verdict = i ~> Activated(i) \/ faults > 0
=============================================================================

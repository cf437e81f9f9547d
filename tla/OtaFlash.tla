------------------------------ MODULE OtaFlash ------------------------------
(***************************************************************************)
(* The flash that bootloader and application share, and the one CPU that   *)
(* writes it.  Two image regions (App, executed; Backup, staging) and two  *)
(* copies of the upgrade metadata.  Both programs carry the same metadata  *)
(* code, boot_metadata.c and ota_trigger.c; it is modelled here once.      *)
(*                                                                         *)
(* Abstractions.                                                           *)
(*  - A region is NUnits flash units (erase sectors); a unit holds that    *)
(*    unit of one image, Erased, or Torn (anything else).                  *)
(*  - A metadata page is the record it holds, or Bad: blank, half erased,  *)
(*    half programmed, whatever meta_validate rejects.                     *)
(*  - Distinct images have distinct payload CRCs (no CRC-32 collision), so *)
(*    the recorded backup_crc32 is the image it belongs to.                *)
(*  - copy_fail_step, copy_retry_count and ota_state are reported to the   *)
(*    host and never read by a decision; they are left out.                *)
(***************************************************************************)
EXTENDS Naturals

CONSTANTS
  Images,      \* firmware images a host may send
  Size,        \* Size[i] is the number of units image i occupies
  CrcOk,       \* images boot_verify_image accepts: magic, length, CRC, reset vector
  Signed,      \* images whose ECDSA signature the application accepts
  Jumpable,    \* images whose vectors boot_jump_vectors_ok accepts
  Factory,     \* the image production put into the App region
  NUnits,      \* flash units per region
  MaxFaults,   \* bound on flash erase and program operations that fail
  None,        \* no image
  Erased, Torn, Bad

ASSUME OtaFlashAssumption ==
  /\ NUnits \in Nat \ {0}
  /\ Size \in [Images -> 1..NUnits]
  /\ MaxFaults \in Nat
  /\ CrcOk \subseteq Images
  /\ Signed \subseteq Images
  /\ Factory \in CrcOk \cap Jumpable
  /\ None \notin Images
  /\ Erased \notin Images
  /\ Torn \notin Images

Reasons == {"POWER_ON", "SW", "OTA_ACT", "COPY_FAIL"}

Metadata == [backup_valid     : BOOLEAN,
             backup_crc32     : Images \cup {None},
             last_boot_reason : Reasons]

(* A page never holds Bad and a record at once. *)
ASSUME BadAssumption == Bad \notin Metadata

VARIABLES
  primary,   \* metadata copy at 0x0801D000
  backup,    \* metadata copy at 0x0801D800
  appR,      \* App region
  backupR,   \* Backup region
  meta,      \* the metadata record in RAM (g_meta, or the handler's local)
  save,      \* progress of a metadata save
  pc,        \* where the CPU is
  pos,       \* unit an erase or copy loop is at
  rst,       \* reset cause the CRM flags hold
  faults     \* flash operations that have failed so far

flash  == <<primary, backup, appR, backupR>>
fvars  == <<primary, backup, appR, backupR, meta, save, pc, pos, rst, faults>>

Region == [1..NUnits -> Images \cup {Erased, Torn}]
Page   == Metadata \cup {Bad}

SaveSteps == {"none", "bakErase", "bakProgram", "priErase", "priProgram",
              "ok", "failed"}

-----------------------------------------------------------------------------
(* boot_verify_image: the header names an acceptable image and all its     *)
(* units are there.  No signature, no stack pointer is looked at.          *)
Verified(r) == /\ r[1] \in CrcOk
               /\ \A k \in 1..Size[r[1]] : r[k] = r[1]

(* verify_backup_image in the application: the same checks and ECDSA.      *)
VerifiedSigned(r) == Verified(r) /\ r[1] \in Signed

Defaults == [backup_valid |-> FALSE, backup_crc32 |-> None,
             last_boot_reason |-> "POWER_ON"]

Readable == primary # Bad \/ backup # Bad

(* Primary copy, else backup copy, else defaults. *)
Loaded == IF primary # Bad THEN primary
          ELSE IF backup # Bad THEN backup
          ELSE Defaults

-----------------------------------------------------------------------------
(* A flash operation succeeds, or is one of at most MaxFaults that fail.   *)
Works == faults' = faults
Fails == faults < MaxFaults /\ faults' = faults + 1

StartSave(m) == meta' = m /\ save' = "bakErase"
SaveOver == save \in {"ok", "failed"}

(* meta_write_to_flash on one page, as two steps: after the erase the page *)
(* is Bad until its last word is programmed.  `from' is the step the save  *)
(* is at, `to' the one that follows; a failure leaves -1 to the caller.    *)
ErasePage(page, from, to) ==
  /\ save = from
  /\ \/ Works /\ page' = Bad /\ save' = to
     \/ Fails /\ page' \in {page, Bad} /\ save' = "failed"

ProgramPage(page, from, to) ==
  /\ save = from
  /\ \/ Works /\ page' = meta /\ save' = to
     \/ Fails /\ page' = Bad /\ save' = "failed"

(* Mutant: the primary copy goes first. *)
SaveStepPrimaryFirst ==
  /\ \/ ErasePage(primary, "bakErase", "bakProgram") /\ UNCHANGED backup
     \/ ProgramPage(primary, "bakProgram", "priErase") /\ UNCHANGED backup
     \/ ErasePage(backup, "priErase", "priProgram") /\ UNCHANGED primary
     \/ ProgramPage(backup, "priProgram", "ok") /\ UNCHANGED primary
  /\ UNCHANGED <<appR, backupR, meta, pc, pos, rst>>

(* boot_metadata_save and ota_metadata_save: backup copy, then primary.    *)
SaveStep ==
  /\ \/ ErasePage(backup, "bakErase", "bakProgram") /\ UNCHANGED primary
     \/ ProgramPage(backup, "bakProgram", "priErase") /\ UNCHANGED primary
     \/ ErasePage(primary, "priErase", "priProgram") /\ UNCHANGED backup
     \/ ProgramPage(primary, "priProgram", "ok") /\ UNCHANGED backup
  /\ UNCHANGED <<appR, backupR, meta, pc, pos, rst>>
=============================================================================

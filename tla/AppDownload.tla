----------------------------- MODULE AppDownload -----------------------------
(***************************************************************************)
(* The application side of an MCU1 upgrade: diagnostic session, unlock,    *)
(* and the UDS services 0x31, 0x34, 0x36, 0x37 of ota_download.c, which    *)
(* stream an image into the Backup region and commit it.  Requests run in  *)
(* the main loop ("idle"); a handler that blocks on flash has its own pc   *)
(* values, at which nothing but a power loss can happen.                   *)
(*                                                                         *)
(* A 0x36 block carries one unit.  A request that is only refused (session *)
(* or security gate, bad length, wrong address) changes no state and is    *)
(* not an action.  g_trial_ready is left out: on this path it is set just  *)
(* before the reset that clears it.                                        *)
(***************************************************************************)
EXTENDS OtaFlash

CONSTANT BscMod   \* modulus of the block sequence counter (256 in the code)

(* The counter must tell apart the last block, the next one and a wrong    *)
(* one.                                                                    *)
ASSUME BscAssumption == BscMod \in Nat /\ BscMod > 2

VARIABLES
  session,           \* current_session
  unlocked,          \* security_unlocked
  g_erased, g_active, g_exit_pending,
  g_bytes_written,   \* in units; the write address is the region base plus this
  g_expected_size,   \* in units
  g_block_seq,
  verdict            \* what the host was last told of its upgrade: an image
                     \* once 0x77 was sent for it, Nack once 0x37 was refused

CONSTANT Nack

ASSUME NackAssumption == Nack \notin Images /\ Nack # None

gvars == <<g_erased, g_active, g_exit_pending, g_bytes_written,
           g_expected_size, g_block_seq>>
avars == <<session, unlocked, gvars, verdict>>

Sessions == {"default", "programming", "extended"}

AppPC == {"idle", "dlErase", "dropFlag", "commitSave", "acked", "stateSave"}

AppTypeOK ==
  /\ session \in Sessions
  /\ unlocked \in BOOLEAN
  /\ g_erased \in BOOLEAN
  /\ g_active \in BOOLEAN
  /\ g_exit_pending \in BOOLEAN
  /\ g_bytes_written \in 0..NUnits
  /\ g_expected_size \in 0..NUnits
  /\ g_block_seq \in 0..(BscMod - 1)
  /\ verdict \in Images \cup {None, Nack}

-----------------------------------------------------------------------------
(* ota_dl_abort, also the state after a reset.                             *)
Abort ==
  /\ g_erased' = FALSE
  /\ g_active' = FALSE
  /\ g_exit_pending' = FALSE
  /\ g_bytes_written' = 0
  /\ g_expected_size' = 0
  /\ g_block_seq' = 0

Gate == session = "programming" /\ unlocked

(* session_reset_to_default: 10 01, and the S3 timeout of can_protocol_poll. *)
SessionReset ==
  /\ pc = "idle"
  /\ session' = "default"
  /\ unlocked' = FALSE
  /\ Abort
  /\ UNCHANGED <<fvars, verdict>>

(* 10 02 and 10 03: a change between non-default sessions locks again, and *)
(* aborts no transfer.                                                     *)
SessionSwitch(s) ==
  /\ pc = "idle"
  /\ session' = s
  /\ unlocked' = (unlocked /\ (session = "default" \/ session = s))
  /\ UNCHANGED <<fvars, gvars, verdict>>

(* A correct 27 02, in any session.                                        *)
Unlock ==
  /\ pc = "idle"
  /\ ~unlocked
  /\ unlocked' = TRUE
  /\ UNCHANGED <<fvars, session, gvars, verdict>>

-----------------------------------------------------------------------------
(* 0x31 FF00: abort, erase the Backup region, then drop a pending flag.    *)
EraseMemory ==
  /\ pc = "idle"
  /\ Gate
  /\ Abort
  /\ pc' = "dlErase"
  /\ pos' = 1
  /\ verdict' = None
  /\ UNCHANGED <<flash, meta, save, rst, faults, session, unlocked>>

EraseDone ==
  /\ pc' = "idle"
  /\ g_erased' = TRUE
  /\ g_bytes_written' = 0
  /\ g_block_seq' = 0

Dropped(m) == [m EXCEPT !.backup_valid = FALSE]

EraseUnit ==
  /\ pc = "dlErase"
  /\ \/ /\ Works
        /\ backupR' = [backupR EXCEPT ![pos] = Erased]
        /\ IF pos < NUnits
           THEN /\ pos' = pos + 1
                /\ UNCHANGED <<meta, save, pc, g_erased, g_bytes_written,
                               g_block_seq>>
           ELSE IF Readable
           THEN /\ StartSave(Dropped(Loaded))
                /\ pc' = "dropFlag"
                /\ UNCHANGED <<pos, g_erased, g_bytes_written, g_block_seq>>
           ELSE EraseDone /\ UNCHANGED <<meta, save, pos>>
     \/ /\ Fails
        /\ backupR' \in {backupR, [backupR EXCEPT ![pos] = Torn]}
        /\ pc' = "idle"
        /\ UNCHANGED <<meta, save, pos, g_erased, g_bytes_written, g_block_seq>>
  /\ UNCHANGED <<primary, backup, appR, rst, session, unlocked, g_active,
                 g_exit_pending, g_expected_size, verdict>>

(* The result of the save is ignored. *)
DropFlagReturn ==
  /\ pc = "dropFlag"
  /\ SaveOver
  /\ save' = "none"
  /\ EraseDone
  /\ UNCHANGED <<flash, meta, pos, rst, faults, session, unlocked, g_active,
                 g_exit_pending, g_expected_size, verdict>>

(* 0x34 with size n.  Nothing asks for a fresh erase: after a refused 0x37 *)
(* or in mid-transfer the write pointer goes back to a programmed region.  *)
RequestDownload(n) ==
  /\ pc = "idle"
  /\ Gate
  /\ g_erased
  /\ g_expected_size' = n
  /\ g_bytes_written' = 0
  /\ g_block_seq' = 0
  /\ g_active' = TRUE
  /\ verdict' = None
  /\ UNCHANGED <<fvars, session, unlocked, g_erased, g_exit_pending>>

(* program_words on the unit at the write pointer.  A unit that is not     *)
(* erased makes the flash controller report an error or leaves a mixture   *)
(* of both contents, which is the old content if the new one equals it.    *)
ProgramUnit(d) ==
  LET k == g_bytes_written + 1
      Put(x) == backupR' = [backupR EXCEPT ![k] = x]
      Accept == g_bytes_written' = k /\ UNCHANGED g_active
      Refuse == g_active' = FALSE /\ UNCHANGED g_bytes_written
  IN  \/ Works /\ backupR[k] = Erased /\ Put(d) /\ Accept
      \/ Fails /\ backupR[k] = Erased /\ Put(Torn) /\ Refuse
      \/ Works /\ backupR[k] # Erased /\ Refuse
               /\ backupR' \in {backupR, [backupR EXCEPT ![k] = Torn]}
      \/ Works /\ backupR[k] # Erased /\ Accept
               /\ Put(IF d = backupR[k] THEN d ELSE Torn)

(* Mutant: the counter is not truncated to its width. *)
NextSeqWide == g_block_seq + 1

(* uint8 g_block_seq++: 0xFF is followed by 0x00. *)
NextSeq == (g_block_seq + 1) % BscMod

(* 0x36 with block sequence b and data d. *)
TransferData(b, d) ==
  /\ pc = "idle"
  /\ Gate
  /\ g_active
  /\ \/ /\ b = g_block_seq                  \* a repeat: answered, not written
        /\ UNCHANGED <<backupR, faults, gvars>>
     \/ /\ b # g_block_seq
        /\ g_block_seq' = NextSeq
        /\ \/ /\ b = NextSeq
              /\ g_bytes_written < NUnits
              /\ ProgramUnit(d)
           \/ /\ b # NextSeq \/ g_bytes_written = NUnits
              /\ g_active' = FALSE
              /\ UNCHANGED <<backupR, faults, g_bytes_written>>
        /\ UNCHANGED <<g_erased, g_exit_pending, g_expected_size>>
  /\ UNCHANGED <<primary, backup, appR, meta, save, pc, pos, rst, session,
                 unlocked, verdict>>

(* 0x37: the work is left to the next pass of the main loop. *)
TransferExit ==
  /\ pc = "idle"
  /\ Gate
  /\ ~g_exit_pending
  /\ g_active
  /\ g_active' = FALSE
  /\ g_exit_pending' = TRUE
  /\ UNCHANGED <<fvars, session, unlocked, g_erased, g_bytes_written,
                 g_expected_size, g_block_seq, verdict>>

-----------------------------------------------------------------------------
(* commit_backup's record. *)
Pending(m) == [m EXCEPT !.backup_valid = TRUE, !.backup_crc32 = backupR[1]]

(* Mutant: no signature check. *)
ExitAcceptedUnsigned == g_bytes_written = g_expected_size /\ Verified(backupR)

ExitAccepted == g_bytes_written = g_expected_size /\ VerifiedSigned(backupR)

(* ota_dl_poll up to the start of the metadata save.  Programming the last *)
(* partial word may fail.                                                  *)
ExitPoll ==
  /\ pc = "idle"
  /\ g_exit_pending
  /\ g_exit_pending' = FALSE
  /\ \/ /\ Works
        /\ ExitAccepted
        /\ StartSave(Pending(Loaded))
        /\ pc' = "commitSave"
        /\ UNCHANGED verdict
     \/ /\ (Works /\ ~ExitAccepted) \/ Fails
        /\ verdict' = Nack
        /\ UNCHANGED <<meta, save, pc>>
  /\ UNCHANGED <<flash, pos, rst, session, unlocked, g_erased, g_active,
                 g_bytes_written, g_expected_size, g_block_seq>>

(* Mutant: 0x77 without the reset. *)
AfterAckStay == "idle"

AfterAck == "acked"

(* commit_backup returned: 0x77, or NRC 0x72 and no reset. *)
CommitReturn ==
  /\ pc = "commitSave"
  /\ SaveOver
  /\ save' = "none"
  /\ IF save = "ok"
     THEN pc' = AfterAck /\ verdict' = backupR[1] /\ g_erased' = FALSE
     ELSE pc' = "idle" /\ verdict' = Nack /\ UNCHANGED g_erased
  /\ UNCHANGED <<flash, meta, pos, rst, faults, session, unlocked, g_active,
                 g_exit_pending, g_bytes_written, g_expected_size, g_block_seq>>

-----------------------------------------------------------------------------
(* The MCU2 path saves ota_state into a record it has just read, at 0x31   *)
(* and at 0x37; nothing else of the record changes.                        *)
StateSave ==
  /\ pc = "idle"
  /\ Gate
  /\ Readable
  /\ Abort
  /\ StartSave(Loaded)
  /\ pc' = "stateSave"
  /\ verdict' = None
  /\ UNCHANGED <<flash, pos, rst, faults, session, unlocked>>

StateSaveReturn ==
  /\ pc = "stateSave"
  /\ SaveOver
  /\ save' = "none"
  /\ pc' = "idle"
  /\ UNCHANGED <<flash, meta, pos, rst, faults, avars>>

AppSaveStep ==
  /\ pc \in {"dropFlag", "commitSave", "stateSave"}
  /\ SaveStep
  /\ UNCHANGED avars

(* What a host, a tester or the S3 timer may make the application do.      *)
AppRequest ==
  \/ SessionReset
  \/ \E s \in {"programming", "extended"} : SessionSwitch(s)
  \/ Unlock
  \/ EraseMemory
  \/ \E n \in 1..NUnits : RequestDownload(n)
  \/ \E b \in 0..(BscMod - 1), d \in Images \cup {Torn} : TransferData(b, d)
  \/ TransferExit
  \/ StateSave

(* What the application does by itself once asked. *)
AppProgress ==
  \/ EraseUnit
  \/ DropFlagReturn
  \/ ExitPoll
  \/ CommitReturn
  \/ StateSaveReturn
  \/ AppSaveStep

AppNext == AppRequest \/ AppProgress
=============================================================================

------------------------------ MODULE NvmStore ------------------------------
(***************************************************************************)
(* The configuration page of the charger (nvm_drv.c): one flash sector     *)
(* with a validity word and three settings.  A write of one setting reads  *)
(* the sector into RAM, overlays the setting, erases the sector and        *)
(* programs it again word by word, lowest address first; there is no       *)
(* second copy and no checksum.  The processor does nothing else meanwhile *)
(* - only the supply can fail.                                             *)
(***************************************************************************)
EXTENDS Naturals

CONSTANTS
  Levels,     \* power levels the page can hold (QI_POWER_5W, ...)
  Blank,      \* what an erased word reads as, where that is no setting
  CountMod,   \* the charge counter is taken modulo this (2^32 in the code)
  MaxFaults   \* flash operations that may fail

ASSUME StoreAssumption ==
  /\ Blank \notin Levels
  /\ CountMod \in Nat \ {0, 1}
  /\ MaxFaults \in Nat

VARIABLES
  page,     \* the sector
  job,      \* the write in progress
  faults    \* flash operations that failed

store == <<page, job, faults>>

(* The validity word is the first of the sector, then the settings at      *)
(* 0x100, 0x104 and 0x108.                                                 *)
Words == <<"magic", "level", "enable", "count">>

Page == [magic : BOOLEAN, level : Levels \union {Blank},
         enable : {"on", "off", "blank"}, count : 0 .. CountMod - 1]

(* Erased flash reads as all ones: no validity word, no setting, and the   *)
(* greatest number for the counter.                                        *)
Erased == [magic |-> FALSE, level |-> Blank, enable |-> "blank",
           count |-> CountMod - 1]

Job == [stage : {"none", "erase", "program", "done"}, word : 1 .. 4,
        image : Page]

NoJob == [stage |-> "none", word |-> 1, image |-> Erased]

StoreType ==
  /\ page \in Page
  /\ job \in Job
  /\ faults \in 0 .. MaxFaults

Idle == job.stage = "none"
Written == job.stage = "done"

(* nvm_drv_write up to the erase: the old sector with the new setting.     *)
Overlay(image) == job' = [stage |-> "erase", word |-> 1, image |-> image]

EraseSector ==
  /\ job.stage = "erase"
  /\ page' = Erased
  /\ job' = [job EXCEPT !.stage = "program"]
  /\ UNCHANGED faults

(* A mutant: the last word is forgotten. *)
AfterWordShort ==
  IF job.word = 3 THEN [job EXCEPT !.stage = "done"]
                  ELSE [job EXCEPT !.word = @ + 1]

AfterWord ==
  IF job.word = 4 THEN [job EXCEPT !.stage = "done"]
                  ELSE [job EXCEPT !.word = @ + 1]

ProgramWord ==
  /\ job.stage = "program"
  /\ page' = [page EXCEPT ![Words[job.word]] = job.image[Words[job.word]]]
  /\ job' = AfterWord
  /\ UNCHANGED faults

(* The first operation that fails ends the write.  A failed erase leaves   *)
(* the sector as it was or blank, a failed word stays blank.               *)
FlashFails ==
  /\ job.stage \in {"erase", "program"}
  /\ faults < MaxFaults
  /\ faults' = faults + 1
  /\ page' \in IF job.stage = "erase" THEN {page, Erased} ELSE {page}
  /\ job' = [job EXCEPT !.stage = "done"]

StoreStep == EraseSector \/ ProgramWord \/ FlashFails

=============================================================================

----------------------------- MODULE WakeFilter -----------------------------
(***************************************************************************)
(* How the application prepares the CAN transceiver (SIT1145) for Sleep:   *)
(* sit1145_sleep_config and sit1145_sleep_commit of mdk_app/Src/sit1145.c. *)
(*                                                                         *)
(* In Sleep the transceiver is the only part of the board that listens.    *)
(* If it sleeps with its wake-up source off, or with a wake-up filter that *)
(* matches nothing, no frame can reach the device again until somebody     *)
(* unplugs it ("sleep death").  Every register is written over an SPI bus  *)
(* whose writes are known to get lost after a hot plug, so the code writes *)
(* everything several times, reads it back, and falls back to the standard *)
(* wake-up (any frame) when the filter cannot be verified.                 *)
(*                                                                         *)
(* The registers are reduced to what they decide: whether the wake-up      *)
(* event is enabled, whether the filter (ID, masks, data, frame control)   *)
(* holds the UDS wake frame, whether the data rate is right, whether       *)
(* selective wake-up is on and whether it is locked in.  The registers the *)
(* code does not read back (MASK1/2, DATA_MASK2-7) only widen the filter.  *)
(***************************************************************************)
EXTENDS Naturals

CONSTANTS
  Rounds,    \* configure-lock-verify rounds before the fallback (3)
  Tries,     \* tries of one verified write of EVENT_EN (5)
  MaxLost    \* SPI transfers that may be lost in one attempt to sleep

ASSUME FilterConstants ==
  /\ Rounds \in Nat \ {0}
  /\ Tries \in Nat
  /\ MaxLost \in Nat
  /\ MaxLost <= Rounds

VARIABLES
  chip,   \* the registers of the transceiver
  cfg     \* the attempt to sleep: its step, its round, the transfers it lost

filterVars == <<chip, cfg>>

(***************************************************************************)
(* cwe    EVENT_EN.CWE: a wake-up event may wake the chip at all           *)
(* filter the verified filter registers hold the wake frame                *)
(* rate   DATA_RATE holds 250 kbit/s, at which the filter samples the bus  *)
(* cpnc   CAN_CONTROL.CPNC: selective wake-up chosen                       *)
(* pncok  CAN_CONTROL.PNCOK: the filter configuration is declared valid    *)
(* sleep  MODE_CONTROL is Sleep                                            *)
(***************************************************************************)
Chip == [cwe : BOOLEAN, filter : BOOLEAN, rate : BOOLEAN,
         cpnc : BOOLEAN, pncok : BOOLEAN, sleep : BOOLEAN]

Steps == {"off", "rate", "filter", "unlock", "rerate", "refilter", "lock",
          "verify", "enable", "standard", "gate", "commit", "offline",
          "recommit", "asleep", "refused"}

Cfg == [at : Steps, round : 1 .. Rounds, lost : 0 .. MaxLost]

-----------------------------------------------------------------------------

Goto(step) == cfg' = [cfg EXCEPT !.at = step]

(* k more transfers are lost on the way to the next step.                  *)
Losing(k, step) ==
  /\ cfg.lost + k <= MaxLost
  /\ cfg' = [cfg EXCEPT !.at = step, !.lost = @ + k]

(***************************************************************************)
(* What a write of DATA_RATE leaves in the chip.  A write to 0x20-0x2F     *)
(* clears PNCOK; while PNCOK was set the chip may also drop the value.     *)
(***************************************************************************)
AfterRate ==
  {[chip EXCEPT !.pncok = FALSE, !.rate = TRUE]}
    \cup (IF chip.pncok THEN {[chip EXCEPT !.pncok = FALSE]} ELSE {})

(* DATA_RATE is written (twice in an attempt: before and in every round). *)
WriteRate(from, to) ==
  /\ cfg.at = from
  /\ \/ chip' \in AfterRate /\ Goto(to)
     \/ UNCHANGED chip /\ Losing(1, to)

(***************************************************************************)
(* sit1145_wuf_config_uds: ID, masks, data masks, frame control.  Its only *)
(* read-back is ignored and it always answers 1.  When a write is lost the *)
(* registers it missed keep their old content, and only then may the lock  *)
(* survive.                                                                *)
(***************************************************************************)
WriteFilter(from, to) ==
  /\ cfg.at = from
  /\ \/ /\ chip' \in {[chip EXCEPT !.filter = TRUE, !.pncok = FALSE]}
                       \cup (IF chip.pncok
                             THEN {[chip EXCEPT !.pncok = FALSE]} ELSE {})
        /\ Goto(to)
     \/ /\ \E p \in {FALSE, chip.pncok}, f \in {chip.filter, TRUE} :
             chip' = [chip EXCEPT !.pncok = p, !.filter = f]
        /\ Losing(1, to)

(* Clear PNCOK before the filter is written again; an 0xFF read skips it.  *)
Unlock ==
  /\ cfg.at = "unlock"
  /\ \/ chip' = [chip EXCEPT !.pncok = FALSE] /\ Goto("rerate")
     \/ UNCHANGED chip /\ Losing(1, "rerate")

(***************************************************************************)
(* The loop shared by sit1145_wake_enable and sit1145_wuf_enable: EVENT_EN *)
(* is written until it reads back with CWE set, at most Tries times.       *)
(***************************************************************************)
EnableWake(c, k) == [c EXCEPT !.cwe = IF k < Tries THEN TRUE ELSE @]

(* sit1145_wuf_enable: CWE verified, then CPNC and PNCOK in one write.     *)
Lock ==
  /\ cfg.at = "lock"
  /\ \E k \in 0 .. Tries :
       LET c == EnableWake(chip, k) IN
         \/ chip' = [c EXCEPT !.cpnc = TRUE, !.pncok = TRUE]
              /\ Losing(k, "verify")
         \/ chip' = c /\ Losing(k + 1, "verify")

(* A slip: DATA_RATE is not among the registers read back.                 *)
ConfiguredNoRate ==
  chip.pncok /\ chip.filter /\ chip.cwe

Configured ==
  chip.pncok /\ chip.filter /\ chip.rate /\ chip.cwe

(***************************************************************************)
(* The read-only check that ends a round.  A read lost on the bus returns  *)
(* 0xFF and fails it.  After the last round the code gives selective       *)
(* wake-up up.                                                             *)
(***************************************************************************)
Verify ==
  /\ cfg.at = "verify"
  /\ UNCHANGED chip
  /\ \/ Configured /\ Goto("gate")
     \/ \E k \in {0, 1} :
          /\ ~Configured \/ k = 1
          /\ cfg.lost + k <= MaxLost
          /\ cfg' = [cfg EXCEPT !.lost = @ + k,
                                !.at = IF cfg.round < Rounds
                                       THEN "unlock" ELSE "enable",
                                !.round = IF @ < Rounds THEN @ + 1 ELSE @]

(* The fallback, standard wake-up by any frame: wake_enable ...            *)
Enable ==
  /\ cfg.at = "enable"
  /\ \E k \in 0 .. Tries : chip' = EnableWake(chip, k) /\ Losing(k, "standard")

(* ... and one write of CAN_CONTROL, CPNC = PNCOK = 0, which nobody reads. *)
Standard ==
  /\ cfg.at = "standard"
  /\ \/ chip' = [chip EXCEPT !.cpnc = FALSE, !.pncok = FALSE] /\ Goto("gate")
     \/ UNCHANGED chip /\ Losing(1, "gate")

(***************************************************************************)
(* The last gate of sit1145_sleep_config: without CWE, or when EVENT_EN    *)
(* does not answer, one more wake_enable; still nothing, no Sleep.         *)
(***************************************************************************)
Gate ==
  /\ cfg.at = "gate"
  /\ \/ chip.cwe /\ Goto("commit") /\ UNCHANGED chip
     \/ \E k \in 0 .. Tries, unread \in {0, 1}, again \in {0, 1} :
          /\ ~chip.cwe \/ unread = 1
          /\ chip' = EnableWake(chip, k)
          /\ Losing(k + unread + again,
                    IF chip'.cwe /\ again = 0 THEN "commit" ELSE "refused")

(***************************************************************************)
(* sit1145_sleep_commit: MODE_CONTROL := Sleep, then read back.  A lost    *)
(* read (0xFF) counts as Sleep, so a write and a read-back both lost are   *)
(* reported as sleep although the chip is awake.  Sleep not taken, CMC     *)
(* goes offline ...                                                        *)
(***************************************************************************)
CommitMode(retry) ==
  \/ \E k \in {0, 1} :
       chip' = [chip EXCEPT !.sleep = TRUE] /\ Losing(k, "asleep")
  \/ UNCHANGED chip /\ (Losing(1, retry) \/ Losing(2, "asleep"))

Commit == cfg.at = "commit" /\ CommitMode("offline")

(* ... CAN_CONTROL with CMC = 0 and PNCOK = 1, whatever CPNC is ...        *)
Offline ==
  /\ cfg.at = "offline"
  /\ \/ chip' = [chip EXCEPT !.pncok = TRUE] /\ Goto("recommit")
     \/ UNCHANGED chip /\ Losing(1, "recommit")

(* ... and the same write and read-back once more.                         *)
Recommit == cfg.at = "recommit" /\ CommitMode("refused")

FilterNext ==
  \/ WriteRate("rate", "filter")
  \/ WriteFilter("filter", "unlock")
  \/ Unlock
  \/ WriteRate("rerate", "refilter")
  \/ WriteFilter("refilter", "lock")
  \/ Lock
  \/ Verify
  \/ Enable
  \/ Standard
  \/ Gate
  \/ Commit
  \/ Offline
  \/ Recommit

(***************************************************************************)
(* An attempt begins.  Whatever the chip held before is possible: it may   *)
(* have been reset, its first initialisation may have failed, or it may    *)
(* still hold the configuration of the last sleep.                         *)
(***************************************************************************)
StartConfig ==
  /\ chip' \in [cwe : BOOLEAN, filter : BOOLEAN, rate : BOOLEAN,
                cpnc : {FALSE}, pncok : {FALSE}, sleep : {FALSE}]
       \cup [cwe : {TRUE}, filter : BOOLEAN, rate : BOOLEAN,
             cpnc : {TRUE}, pncok : BOOLEAN, sleep : {FALSE}]
  /\ cfg' = [at |-> "rate", round |-> 1, lost |-> 0]

(* The wake frame of the host wakes a chip in Sleep.                       *)
Hears ==
  /\ chip.cwe
  /\ chip.cpnc /\ chip.pncok => chip.filter /\ chip.rate

-----------------------------------------------------------------------------

(***************************************************************************)
(* Why: a register that is still wrong after n rounds of writing has cost  *)
(* at least n transfers, and leaving a wrong filter in force costs one     *)
(* more, the write of the fallback.  Debt(n) says the first half.          *)
(***************************************************************************)
Debt(n) == (chip.filter /\ chip.rate) \/ cfg.lost >= n

Fits == chip.cpnc => chip.filter /\ chip.rate

FilterInv ==
  /\ chip \in Chip
  /\ cfg \in Cfg
  /\ cfg.at \in {"rate", "filter"} => cfg.round = 1
  /\ cfg.at = "unlock" => Debt(cfg.round - 1)
  /\ cfg.at = "rerate" => Debt(cfg.round - 1) /\ (chip.pncok => Debt(cfg.round))
  /\ cfg.at = "refilter" =>
       /\ chip.rate \/ cfg.lost >= cfg.round
       /\ Debt(cfg.round - 1)
       /\ chip.pncok => Debt(cfg.round)
  /\ cfg.at \in {"lock", "verify"} => Debt(cfg.round)
  /\ cfg.at \in {"enable", "standard"} => Debt(Rounds)
  /\ cfg.at = "gate" => Fits
  /\ cfg.at \in {"commit", "offline", "recommit"} => chip.cwe /\ Fits
  /\ chip.sleep => cfg.at \in {"off", "asleep"} /\ chip.cwe /\ Fits
  /\ cfg.at = "asleep" => chip.sleep \/ cfg.lost >= 2

(***************************************************************************)
(* A chip in Sleep can be woken by the host's wake frame, although up to   *)
(* MaxLost register writes or reads of the attempt were lost (sit1145.c:   *)
(* "rather no sleep than sleep death").  And an attempt that reports sleep *)
(* has put the chip to Sleep, unless two transfers were lost in it: the    *)
(* write of the mode and its read-back.                                    *)
(***************************************************************************)
AsleepWakes ==
  /\ chip.sleep => Hears
  /\ cfg.at = "asleep" => chip.sleep \/ cfg.lost >= 2

=============================================================================

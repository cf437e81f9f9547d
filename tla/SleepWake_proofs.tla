-------------------------- MODULE SleepWake_proofs --------------------------
(***************************************************************************)
(* Proofs about WakeFilter and SleepWake, for any number of rounds, tries  *)
(* and lost SPI transfers within FilterConstants and any durations within  *)
(* TimeConstants: a device that sleeps hears the wake frame, is sent to    *)
(* sleep only when it owes nothing, and is woken only by a frame.          *)
(***************************************************************************)
EXTENDS SleepWake, TLAPS

(* What Goto and Losing do to a well-typed cfg.                            *)
LEMMA GotoStep ==
  ASSUME cfg \in Cfg, NEW step \in Steps, Goto(step)
  PROVE  /\ cfg' \in Cfg /\ cfg'.at = step
         /\ cfg'.round = cfg.round /\ cfg'.lost = cfg.lost
BY DEF Cfg, Goto

LEMMA LosingStep ==
  ASSUME cfg \in Cfg, NEW k \in Nat, NEW step \in Steps, Losing(k, step)
  PROVE  /\ cfg' \in Cfg /\ cfg'.at = step
         /\ cfg'.round = cfg.round /\ cfg'.lost = cfg.lost + k
<1>1. cfg.lost \in 0 .. MaxLost /\ cfg.lost + k \in 0 .. MaxLost
  BY FilterConstants DEF Cfg, Losing
<1>2. cfg' = [cfg EXCEPT !.at = step, !.lost = cfg.lost + k]
  BY DEF Losing
<1> QED
  BY <1>1, <1>2 DEF Cfg

(***************************************************************************)
(* The steps of an attempt to sleep keep the invariant of WakeFilter.      *)
(***************************************************************************)

(* Writing DATA_RATE, before the rounds and in each (sit1145.c:341, 381).  *)
LEMMA RateKeepsFilter ==
  ASSUME FilterInv,
         NEW from, NEW to,
         \/ from = "rate" /\ to = "filter"
         \/ from = "rerate" /\ to = "refilter",
         WriteRate(from, to)
  PROVE  FilterInv'
<1>1. chip \in Chip /\ cfg \in Cfg /\ cfg.at = from
  BY DEF FilterInv, WriteRate
<1>2. ~chip.sleep
  BY <1>1 DEF FilterInv
<1>3. CASE chip' \in AfterRate /\ Goto(to)
  <2>1. /\ chip' \in Chip /\ chip'.rate \in {TRUE, chip.rate}
        /\ chip'.filter = chip.filter /\ chip'.sleep = chip.sleep
        /\ chip'.pncok = FALSE /\ (chip.pncok \/ chip'.rate)
    BY <1>1, <1>3 DEF AfterRate, Chip
  <2>2. cfg' \in Cfg /\ cfg'.at = to /\ cfg'.round = cfg.round /\ cfg'.lost = cfg.lost
    BY <1>1, <1>3, GotoStep DEF Steps
  <2> QED
    BY <1>1, <1>2, <2>1, <2>2, FilterConstants DEF FilterInv, Debt, Fits, Cfg, Chip
<1>4. CASE UNCHANGED chip /\ Losing(1, to)
  <2>1. /\ cfg' \in Cfg /\ cfg'.at = to /\ cfg'.round = cfg.round
        /\ cfg'.lost = cfg.lost + 1
    BY <1>1, <1>4, LosingStep DEF Steps
  <2> QED
    BY <1>1, <1>2, <1>4, <2>1, FilterConstants DEF FilterInv, Debt, Fits, Cfg, Chip
<1> QED
  BY <1>3, <1>4 DEF WriteRate

(* Writing the filter registers (sit1145_wuf_config).                      *)
LEMMA FilterKeepsFilter ==
  ASSUME FilterInv,
         NEW from, NEW to,
         \/ from = "filter" /\ to = "unlock"
         \/ from = "refilter" /\ to = "lock",
         WriteFilter(from, to)
  PROVE  FilterInv'
<1>1. chip \in Chip /\ cfg \in Cfg /\ cfg.at = from
  BY DEF FilterInv, WriteFilter
<1>2. ~chip.sleep
  BY <1>1 DEF FilterInv
<1>d. /\ cfg.round \in 1 .. Rounds /\ cfg.lost \in 0 .. MaxLost
      /\ from = "filter" => cfg.round = 1
      /\ from = "refilter" =>
           /\ chip.rate \/ cfg.lost >= cfg.round
           /\ (chip.filter /\ chip.rate) \/ cfg.lost >= cfg.round - 1
           /\ chip.pncok => (chip.filter /\ chip.rate) \/ cfg.lost >= cfg.round
  BY <1>1 DEF FilterInv, Debt, Cfg
<1>3. CASE /\ chip' \in {[chip EXCEPT !.filter = TRUE, !.pncok = FALSE]}
                         \cup (IF chip.pncok
                               THEN {[chip EXCEPT !.pncok = FALSE]} ELSE {})
           /\ Goto(to)
  <2>1. /\ chip' \in Chip /\ chip'.rate = chip.rate
        /\ chip'.filter \in {TRUE, chip.filter} /\ chip'.sleep = chip.sleep
        /\ chip'.pncok = FALSE /\ (chip.pncok \/ chip'.filter)
    BY <1>1, <1>3 DEF Chip
  <2>2. cfg' \in Cfg /\ cfg'.at = to /\ cfg'.round = cfg.round /\ cfg'.lost = cfg.lost
    BY <1>1, <1>3, GotoStep DEF Steps
  <2>f. (chip.filter => chip'.filter) /\ (chip.rate => chip'.rate)
    BY <2>1
  <2>3. IF to = "unlock" THEN Debt(cfg.round - 1)' ELSE Debt(cfg.round)'
    BY <1>d, <2>f, <2>1, <2>2, FilterConstants DEF Debt
  <2> QED
    BY <1>1, <1>2, <2>1, <2>2, <2>3 DEF FilterInv
<1>4. CASE /\ \E p \in {FALSE, chip.pncok}, f \in {chip.filter, TRUE} :
                chip' = [chip EXCEPT !.pncok = p, !.filter = f]
           /\ Losing(1, to)
  <2>1. /\ chip' \in Chip /\ chip'.rate = chip.rate
        /\ chip'.filter \in {TRUE, chip.filter} /\ chip'.sleep = chip.sleep
        /\ chip'.pncok \in {FALSE, chip.pncok}
    BY <1>1, <1>4 DEF Chip
  <2>2. /\ cfg' \in Cfg /\ cfg'.at = to /\ cfg'.round = cfg.round
        /\ cfg'.lost = cfg.lost + 1
    BY <1>1, <1>4, LosingStep DEF Steps
  <2>f. (chip.filter => chip'.filter) /\ (chip.rate => chip'.rate)
    BY <2>1
  <2>3. IF to = "unlock" THEN Debt(cfg.round - 1)' ELSE Debt(cfg.round)'
    BY <1>d, <2>f, <2>1, <2>2, FilterConstants DEF Debt
  <2> QED
    BY <1>1, <1>2, <2>1, <2>2, <2>3 DEF FilterInv
<1> QED
  BY <1>3, <1>4 DEF WriteFilter

(* Clearing PNCOK before the registers are written again.                  *)
LEMMA UnlockKeepsFilter ==
  ASSUME FilterInv, Unlock
  PROVE  FilterInv'
<1>1. chip \in Chip /\ cfg \in Cfg /\ cfg.at = "unlock" /\ ~chip.sleep
  BY DEF FilterInv, Unlock
<1>2. /\ chip' \in Chip /\ chip'.rate = chip.rate /\ chip'.filter = chip.filter
      /\ chip'.sleep = chip.sleep /\ chip'.pncok \in {FALSE, chip.pncok}
  BY <1>1 DEF Unlock, Chip
<1>3. /\ cfg' \in Cfg /\ cfg'.at = "rerate" /\ cfg'.round = cfg.round
      /\ cfg'.lost \in {cfg.lost, cfg.lost + 1}
      /\ chip'.pncok => cfg'.lost = cfg.lost + 1
  BY <1>1, GotoStep, LosingStep DEF Unlock, Steps, Chip
<1> QED
  BY <1>1, <1>2, <1>3, FilterConstants DEF FilterInv, Debt, Fits, Cfg, Chip

(* EVENT_EN is written until it reads back, CAN_CONTROL locks the filter.  *)
LEMMA LockKeepsFilter ==
  ASSUME FilterInv, Lock
  PROVE  FilterInv'
<1>1. chip \in Chip /\ cfg \in Cfg /\ cfg.at = "lock" /\ ~chip.sleep
  BY DEF FilterInv, Lock
<1>2. PICK k \in 0 .. Tries :
        \/ /\ chip' = [EnableWake(chip, k) EXCEPT !.cpnc = TRUE, !.pncok = TRUE]
           /\ Losing(k, "verify")
        \/ chip' = EnableWake(chip, k) /\ Losing(k + 1, "verify")
  BY DEF Lock
<1>3. k \in Nat /\ k + 1 \in Nat
  BY FilterConstants
<1>4. /\ EnableWake(chip, k) \in Chip
      /\ EnableWake(chip, k).rate = chip.rate
      /\ EnableWake(chip, k).filter = chip.filter
      /\ EnableWake(chip, k).sleep = chip.sleep
  BY <1>1 DEF EnableWake, Chip
<1>5. /\ chip' \in Chip /\ chip'.rate = chip.rate /\ chip'.filter = chip.filter
      /\ chip'.sleep = chip.sleep
  BY <1>2, <1>4 DEF Chip
<1>6. /\ cfg' \in Cfg /\ cfg'.at = "verify" /\ cfg'.round = cfg.round
      /\ cfg'.lost >= cfg.lost
  <2>1. CASE Losing(k, "verify")
    BY <1>1, <1>3, <2>1, LosingStep, FilterConstants DEF Steps, Cfg
  <2>2. CASE Losing(k + 1, "verify")
    BY <1>1, <1>3, <2>2, LosingStep, FilterConstants DEF Steps, Cfg
  <2> QED BY <1>2, <2>1, <2>2
<1> QED
  BY <1>1, <1>5, <1>6, FilterConstants DEF FilterInv, Debt, Fits, Cfg, Chip

(* The read-back that ends a round (sit1145.c:397-421).                    *)
LEMMA VerifyKeepsFilter ==
  ASSUME FilterInv, Verify
  PROVE  FilterInv'
<1>1. chip \in Chip /\ cfg \in Cfg /\ cfg.at = "verify" /\ ~chip.sleep
  BY DEF FilterInv, Verify
<1>2. chip' = chip
  BY DEF Verify
<1>3. Debt(cfg.round)
  BY <1>1 DEF FilterInv
<1>4. CASE Configured /\ Goto("gate")
  <2>1. cfg' \in Cfg /\ cfg'.at = "gate"
    BY <1>1, <1>4, GotoStep DEF Steps
  <2> QED
    BY <1>1, <1>2, <1>4, <2>1 DEF FilterInv, Configured, Fits
<1>5. CASE \E k \in {0, 1} :
             /\ ~Configured \/ k = 1
             /\ cfg.lost + k <= MaxLost
             /\ cfg' = [cfg EXCEPT !.lost = @ + k,
                                   !.at = IF cfg.round < Rounds
                                          THEN "unlock" ELSE "enable",
                                   !.round = IF @ < Rounds THEN @ + 1 ELSE @]
  <2>1. PICK k \in {0, 1} :
          /\ cfg.lost + k <= MaxLost
          /\ cfg' = [cfg EXCEPT !.lost = cfg.lost + k,
                                !.at = IF cfg.round < Rounds
                                       THEN "unlock" ELSE "enable",
                                !.round = IF cfg.round < Rounds
                                          THEN cfg.round + 1 ELSE cfg.round]
    BY <1>5
  <2>2. cfg.lost + k \in 0 .. MaxLost /\ cfg.lost + k >= cfg.lost
    BY <1>1, <2>1, FilterConstants DEF Cfg
  <2>3. CASE cfg.round < Rounds
    <3>1. cfg.round + 1 \in 1 .. Rounds
      BY <1>1, <2>3, FilterConstants DEF Cfg
    <3>2. /\ cfg' \in Cfg /\ cfg'.at = "unlock" /\ cfg'.round = cfg.round + 1
          /\ cfg'.lost >= cfg.lost
      BY <1>1, <2>1, <2>2, <2>3, <3>1 DEF Cfg, Steps
    <3> QED
      BY <1>1, <1>2, <1>3, <3>2, FilterConstants DEF FilterInv, Debt, Cfg
  <2>4. CASE ~(cfg.round < Rounds)
    <3>1. cfg.round = Rounds
      BY <1>1, <2>4, FilterConstants DEF Cfg
    <3>2. cfg' \in Cfg /\ cfg'.at = "enable" /\ cfg'.lost >= cfg.lost
      BY <1>1, <2>1, <2>2, <2>4 DEF Cfg, Steps
    <3> QED
      BY <1>1, <1>2, <1>3, <3>1, <3>2, FilterConstants DEF FilterInv, Debt, Cfg
  <2> QED BY <2>3, <2>4
<1> QED
  BY <1>4, <1>5 DEF Verify

(* The fallback to standard wake-up: EVENT_EN and then CAN_CONTROL.        *)
LEMMA EnableKeepsFilter ==
  ASSUME FilterInv, Enable
  PROVE  FilterInv'
<1>1. chip \in Chip /\ cfg \in Cfg /\ cfg.at = "enable" /\ ~chip.sleep
  BY DEF FilterInv, Enable
<1>2. PICK k \in 0 .. Tries : chip' = EnableWake(chip, k) /\ Losing(k, "standard")
  BY DEF Enable
<1>3. /\ chip' \in Chip /\ chip'.rate = chip.rate /\ chip'.filter = chip.filter
      /\ chip'.sleep = chip.sleep
  BY <1>1, <1>2 DEF EnableWake, Chip
<1>4. cfg' \in Cfg /\ cfg'.at = "standard" /\ cfg'.lost >= cfg.lost
  BY <1>1, <1>2, LosingStep, FilterConstants DEF Steps, Cfg
<1> QED
  BY <1>1, <1>3, <1>4, FilterConstants DEF FilterInv, Debt, Cfg

(***************************************************************************)
(* Here the losses are counted: with Rounds of them behind it a wrong      *)
(* filter would need one more, and MaxLost <= Rounds forbids it.           *)
(***************************************************************************)
LEMMA StandardKeepsFilter ==
  ASSUME FilterInv, Standard
  PROVE  FilterInv'
<1>1. /\ chip \in Chip /\ cfg \in Cfg /\ cfg.at = "standard" /\ ~chip.sleep
      /\ Debt(Rounds)
  BY DEF FilterInv, Standard
<1>2. CASE /\ chip' = [chip EXCEPT !.cpnc = FALSE, !.pncok = FALSE]
           /\ Goto("gate")
  <2>1. chip' \in Chip /\ ~chip'.cpnc /\ chip'.sleep = chip.sleep
    BY <1>1, <1>2 DEF Chip
  <2>2. cfg' \in Cfg /\ cfg'.at = "gate"
    BY <1>1, <1>2, GotoStep DEF Steps
  <2> QED
    BY <1>1, <2>1, <2>2 DEF FilterInv, Fits
<1>3. CASE UNCHANGED chip /\ Losing(1, "gate")
  <2>1. cfg' \in Cfg /\ cfg'.at = "gate" /\ cfg'.lost = cfg.lost + 1
    BY <1>1, <1>3, LosingStep DEF Steps
  <2>2. chip.filter /\ chip.rate
    BY <1>1, <2>1, FilterConstants DEF Debt, Cfg
  <2> QED
    BY <1>1, <1>3, <2>1, <2>2 DEF FilterInv, Fits
<1> QED
  BY <1>2, <1>3 DEF Standard

(* The gate on CWE, and the two writes of MODE_CONTROL.                    *)
LEMMA GateKeepsFilter ==
  ASSUME FilterInv, Gate
  PROVE  FilterInv'
<1>1. chip \in Chip /\ cfg \in Cfg /\ cfg.at = "gate" /\ ~chip.sleep /\ Fits
  BY DEF FilterInv, Gate
<1>2. CASE chip.cwe /\ Goto("commit") /\ UNCHANGED chip
  <2>1. cfg' \in Cfg /\ cfg'.at = "commit"
    BY <1>1, <1>2, GotoStep DEF Steps
  <2> QED
    BY <1>1, <1>2, <2>1 DEF FilterInv, Fits
<1>3. CASE \E k \in 0 .. Tries, unread \in {0, 1}, again \in {0, 1} :
             /\ ~chip.cwe \/ unread = 1
             /\ chip' = EnableWake(chip, k)
             /\ Losing(k + unread + again,
                       IF chip'.cwe /\ again = 0 THEN "commit" ELSE "refused")
  <2>1. PICK k \in 0 .. Tries, unread \in {0, 1}, again \in {0, 1} :
          /\ chip' = EnableWake(chip, k)
          /\ Losing(k + unread + again,
                    IF chip'.cwe /\ again = 0 THEN "commit" ELSE "refused")
    BY <1>3
  <2>2. k + unread + again \in Nat
    BY FilterConstants
  <2>3. /\ chip' \in Chip /\ chip'.rate = chip.rate /\ chip'.filter = chip.filter
        /\ chip'.cpnc = chip.cpnc /\ chip'.sleep = chip.sleep
    BY <1>1, <2>1 DEF EnableWake, Chip
  <2>4. CASE chip'.cwe /\ again = 0
    <3>1. cfg' \in Cfg /\ cfg'.at = "commit"
      BY <1>1, <2>1, <2>2, <2>4, LosingStep DEF Steps
    <3> QED
      BY <1>1, <2>3, <2>4, <3>1 DEF FilterInv, Fits
  <2>5. CASE ~(chip'.cwe /\ again = 0)
    <3>1. cfg' \in Cfg /\ cfg'.at = "refused"
      BY <1>1, <2>1, <2>2, <2>5, LosingStep DEF Steps
    <3> QED
      BY <1>1, <2>3, <3>1 DEF FilterInv, Fits
  <2> QED BY <2>4, <2>5
<1> QED
  BY <1>2, <1>3 DEF Gate

LEMMA CommitKeepsFilter ==
  ASSUME FilterInv, Commit \/ Offline \/ Recommit
  PROVE  FilterInv'
<1>1. /\ chip \in Chip /\ cfg \in Cfg /\ ~chip.sleep /\ chip.cwe /\ Fits
  BY DEF FilterInv, Commit, Offline, Recommit
<1>a. cfg.lost \in Nat
  BY <1>1, FilterConstants DEF Cfg
<1>2. /\ chip' \in Chip /\ chip'.rate = chip.rate /\ chip'.filter = chip.filter
      /\ chip'.cpnc = chip.cpnc /\ chip'.cwe = chip.cwe
  BY <1>1 DEF Commit, Offline, Recommit, CommitMode, Chip
<1>3. ASSUME NEW step \in {"offline", "refused"}, CommitMode(step)
      PROVE  /\ cfg' \in Cfg /\ cfg'.at \in {"asleep", "offline", "refused"}
             /\ chip'.sleep => cfg'.at = "asleep"
             /\ cfg'.at = "asleep" => chip'.sleep \/ cfg'.lost >= 2
  <2>1. CASE \E k \in {0, 1} :
               chip' = [chip EXCEPT !.sleep = TRUE] /\ Losing(k, "asleep")
    <3>1. PICK k \in {0, 1} :
            chip' = [chip EXCEPT !.sleep = TRUE] /\ Losing(k, "asleep")
      BY <2>1
    <3> QED BY <1>1, <3>1, LosingStep DEF Steps, Chip
  <2>2. CASE UNCHANGED chip /\ Losing(1, step)
    BY <1>1, <1>3, <2>2, LosingStep DEF Steps
  <2>3. CASE UNCHANGED chip /\ Losing(2, "asleep")
    BY <1>1, <1>a, <2>3, LosingStep DEF Steps
  <2> QED BY <1>3, <2>1, <2>2, <2>3 DEF CommitMode
<1>4. CASE Offline
  <2>1. cfg' \in Cfg /\ cfg'.at = "recommit" /\ ~chip'.sleep
    BY <1>1, <1>4, GotoStep, LosingStep DEF Offline, Steps, Chip
  <2> QED BY <1>1, <1>2, <2>1 DEF FilterInv, Fits
<1>5. CASE Commit \/ Recommit
  BY <1>1, <1>2, <1>3, <1>5 DEF Commit, Recommit, FilterInv, Fits
<1> QED BY <1>4, <1>5

LEMMA FilterNextKeepsFilter ==
  ASSUME FilterInv, FilterNext
  PROVE  FilterInv'
<1>1. CASE WriteRate("rate", "filter") \/ WriteRate("rerate", "refilter")
  BY <1>1, RateKeepsFilter
<1>2. CASE WriteFilter("filter", "unlock") \/ WriteFilter("refilter", "lock")
  BY <1>2, FilterKeepsFilter
<1>3. CASE Unlock
  BY <1>3, UnlockKeepsFilter
<1>4. CASE Lock
  BY <1>4, LockKeepsFilter
<1>5. CASE Verify
  BY <1>5, VerifyKeepsFilter
<1>6. CASE Enable
  BY <1>6, EnableKeepsFilter
<1>7. CASE Standard
  BY <1>7, StandardKeepsFilter
<1>8. CASE Gate
  BY <1>8, GateKeepsFilter
<1>9. CASE Commit \/ Offline \/ Recommit
  BY <1>9, CommitKeepsFilter
<1> QED
  BY <1>1, <1>2, <1>3, <1>4, <1>5, <1>6, <1>7, <1>8, <1>9 DEF FilterNext

(***************************************************************************)
(* What the rest of the device does to the transceiver.                    *)
(***************************************************************************)

(* A new attempt starts without losses; the chip is awake.                 *)
LEMMA StartKeepsFilter ==
  ASSUME StartConfig
  PROVE  FilterInv'
<1>1. chip' \in Chip /\ ~chip'.sleep
  BY DEF StartConfig, Chip
<1>2. cfg' \in Cfg /\ cfg'.at = "rate" /\ cfg'.round = 1
  BY FilterConstants DEF StartConfig, Cfg, Steps
<1> QED
  BY <1>1, <1>2 DEF FilterInv

(* An attempt is over: the chip stays as it is.                            *)
LEMMA OverKeepsFilter ==
  ASSUME FilterInv, UNCHANGED chip,
         cfg' = [cfg EXCEPT !.at = "off", !.round = 1]
  PROVE  FilterInv'
<1>a. cfg \in Cfg /\ 1 \in 1 .. Rounds
  BY FilterConstants DEF FilterInv
<1>1. cfg' \in Cfg /\ cfg'.at = "off"
  BY <1>a DEF Cfg, Steps
<1> QED
  BY <1>1 DEF FilterInv, Fits

(* A wake-up: the chip leaves Sleep and keeps its configuration.           *)
LEMMA AwakeKeepsFilter ==
  ASSUME FilterInv, cfg.at = "off", UNCHANGED cfg,
         chip' = [chip EXCEPT !.sleep = FALSE]
  PROVE  FilterInv'
<1>1. /\ chip' \in Chip /\ ~chip'.sleep /\ chip'.rate = chip.rate
      /\ chip'.filter = chip.filter /\ chip'.cpnc = chip.cpnc
      /\ chip'.cwe = chip.cwe /\ chip'.pncok = chip.pncok
  BY DEF FilterInv, Chip
<1> QED
  BY <1>1 DEF FilterInv, Debt, Fits

(* The steps of the decision that may wake the device, and the others.     *)
Waking == ReadPin \/ PendingPin \/ PendingLatches \/ Waited \/ Judge

Looking == \/ Wipe \/ Rewipe \/ WipeAgain \/ ReadLatches \/ ClearLatches
           \/ Cleared

(* Outside an attempt to sleep there is none under way.                    *)
Attempt == pc # "config" => cfg.at = "off"

ConfigInv == FilterInv /\ Attempt

LEMMA StepKeepsConfig ==
  ASSUME ConfigInv, [Next]_vars
  PROVE  ConfigInv'
<1>a. FilterInv /\ Attempt
  BY DEF ConfigInv
<1>1. ASSUME UNCHANGED filterVars, pc' # "config" => pc # "config"
      PROVE  ConfigInv'
  BY <1>a, <1>1 DEF ConfigInv, Attempt, filterVars, FilterInv, Debt, Fits
<1>2. CASE GoSleep
  BY <1>2, StartKeepsFilter DEF GoSleep, ConfigInv, Attempt
<1>3. CASE Configure
  BY <1>a, <1>3, FilterNextKeepsFilter DEF Configure, ConfigInv, Attempt
<1>4. CASE SleepRefused \/ FallAsleep
  <2>1. UNCHANGED chip /\ cfg' = [cfg EXCEPT !.at = "off", !.round = 1]
    BY <1>4 DEF SleepRefused, FallAsleep
  <2>2. cfg'.at = "off"
    BY <1>a, <2>1 DEF FilterInv, Cfg
  <2> QED BY <1>a, <2>1, <2>2, OverKeepsFilter DEF ConfigInv, Attempt
<1>5. ASSUME pc # "config", UNCHANGED cfg, chip' = [chip EXCEPT !.sleep = FALSE]
      PROVE  ConfigInv'
  BY <1>a, <1>5, AwakeKeepsFilter DEF ConfigInv, Attempt
<1>6. CASE Waking
  <2>1. pc # "config" /\ UNCHANGED cfg
    BY <1>6 DEF Waking, ReadPin, PendingPin, PendingLatches, Waited, Judge
  <2>2. WakeUp \/ UNCHANGED chip
    BY <1>6 DEF Waking, ReadPin, PendingPin, PendingLatches, Waited, Judge, StaysAsleep, Blocked
  <2>3. CASE WakeUp
    BY <1>5, <2>1, <2>3 DEF WakeUp
  <2>4. CASE UNCHANGED chip
    BY <1>1, <2>1, <2>4 DEF filterVars
  <2> QED BY <2>2, <2>3, <2>4
<1>7. CASE PowerUp
  BY <1>5, <1>7 DEF PowerUp
<1>8. CASE \/ PollBoot \/ PollBegin \/ Looking \/ Announce \/ FlushPending \/ StayAwake
           \/ DriverPoll \/ LifecyclePoll
  BY <1>1, <1>8 DEF PollBoot, PollBegin, Looking, Wipe, Rewipe, WipeAgain, ReadLatches,
     ClearLatches, Cleared, Announce, FlushPending, StayAwake, DriverPoll, LifecyclePoll,
     filterVars
<1>9. CASE Tick \/ Use \/ Leave \/ Phantom \/ StalePin \/ Frame
  BY <1>1, <1>9 DEF Tick, Use, Leave, Phantom, StalePin, Frame, filterVars
<1>10. CASE UNCHANGED vars
  BY <1>1, <1>10 DEF vars, filterVars
<1> QED
  BY <1>2, <1>3, <1>4, <1>6, <1>7, <1>8, <1>9, <1>10 DEF Next, Loop, Waking, Looking

(***************************************************************************)
(* A chip in Sleep can be woken by the host's wake frame, whatever         *)
(* register writes and reads of the attempt were lost, and an attempt that *)
(* reports sleep without it has lost two (AsleepWakes).                    *)
(***************************************************************************)
THEOREM SleepersHear == Spec => []AsleepWakes
<1>1. Init => ConfigInv
  BY FilterConstants DEF Init, ConfigInv, Attempt, FilterInv, Chip, Cfg, Steps
<1>2. ConfigInv /\ [Next]_vars => ConfigInv'
  BY StepKeepsConfig
<1>3. ConfigInv => AsleepWakes
  BY DEF ConfigInv, FilterInv, AsleepWakes, Hears, Fits
<1> QED
  BY <1>1, <1>2, <1>3, PTL DEF Spec

-----------------------------------------------------------------------------
(* The device: its type, and the budget of its exchanges.                  *)

(* The smaller of two ages is an age within the saturation limit.          *)
LEMMA LeastType ==
  ASSUME NEW a \in Nat, NEW b \in Nat
  PROVE  Least(a, b) \in 0 .. b
BY DEF Least

(***************************************************************************)
(* Time passing keeps the type, ages no stamp by more than it passes, and  *)
(* never ends an assembly before isotp_poll sees it.                       *)
(***************************************************************************)
LEMMA AgedType ==
  ASSUME NEW d \in Dev, NEW n \in {0, 1}
  PROVE  /\ Aged(d, n) \in Dev
         /\ Aged(d, n).awake = d.awake
         /\ Aged(d, n).owed = d.owed
         /\ Aged(d, n).use = d.use
         /\ Aged(d, n).uds <= d.uds + n
         /\ Aged(d, n).now <= d.now + n
         /\ Aged(d, n).rx = IF d.rx > n THEN d.rx - n ELSE Least(d.rx, 1)
<1>1. /\ d.now \in 0 .. Long /\ d.uds \in 0 .. Long /\ d.tp \in 0 .. Long
      /\ d.edge \in 0 .. Delay /\ d.cast \in 0 .. Period /\ d.rx \in 0 .. RxLimit
      /\ Long \in Nat /\ Delay \in Nat /\ Period \in Nat /\ RxLimit \in Nat /\ RxLimit >= 1
  BY TimeConstants DEF Dev
<1>2. /\ Least(d.now + n, Long) \in 0 .. Long
      /\ Least(d.now + n, Long) <= d.now + n
      /\ Least(d.uds + n, Long) \in 0 .. Long
      /\ Least(d.uds + n, Long) <= d.uds + n
      /\ (IF d.session = "default" THEN 0 ELSE Least(d.tp + n, Long)) \in 0 .. Long
      /\ Least(d.edge + n, Delay) \in 0 .. Delay
      /\ Least(d.cast + n, Period) \in 0 .. Period
      /\ (IF d.rx > n THEN d.rx - n ELSE Least(d.rx, 1)) \in 0 .. RxLimit
  BY <1>1 DEF Least
<1> DEFINE A == Aged(d, n)
<1>3. A = [d EXCEPT !.now = Least(d.now + n, Long), !.uds = Least(d.uds + n, Long),
            !.tp = IF d.session = "default" THEN 0 ELSE Least(d.tp + n, Long),
            !.edge = Least(d.edge + n, Delay), !.cast = Least(d.cast + n, Period),
            !.rx = IF d.rx > n THEN d.rx - n ELSE Least(d.rx, 1)]
  BY DEF Aged
<1>4. A \in Dev
  BY <1>2, <1>3 DEF Dev
<1>5. /\ A.awake = d.awake /\ A.owed = d.owed /\ A.use = d.use
      /\ A.uds = Least(d.uds + n, Long) /\ A.now = Least(d.now + n, Long)
      /\ A.rx = IF d.rx > n THEN d.rx - n ELSE Least(d.rx, 1)
  BY <1>3 DEF Dev
<1> QED BY <1>2, <1>4, <1>5

(* session_reset_to_default drops the answer and keeps the idle timer.     *)
LEMMA ResetType ==
  ASSUME NEW d \in Dev
  PROVE  /\ SessionReset(d) \in Dev
         /\ SessionReset(d).awake = d.awake
         /\ SessionReset(d).owed = 0
         /\ SessionReset(d).rx = d.rx
         /\ SessionReset(d).uds = d.uds
         /\ SessionReset(d).now = d.now
<1>1. 0 \in 0 .. Sends /\ 0 \in 0 .. Long
  BY TimeConstants
<1> QED BY <1>1 DEF SessionReset, Dev

(***************************************************************************)
(* A served request restarts the idle timer; an answer already owed keeps  *)
(* its attempts, or is dropped with its session.                           *)
(***************************************************************************)
LEMMA ServedType ==
  ASSUME NEW d \in Dev, NEW r \in Requests
  PROVE  /\ Served(d, r) \in Dev
         /\ Served(d, r).awake = d.awake
         /\ Served(d, r).uds = 0
         /\ Served(d, r).now = d.now
         /\ d.owed > 0 => Served(d, r).owed \in {0, d.owed}
<1>1. 0 \in 0 .. Sends /\ 0 \in 0 .. Long /\ 0 \in 0 .. RxLimit /\ RxLimit \in 0 .. RxLimit
      /\ Sends \in 0 .. Sends /\ d.owed \in 0 .. Sends
  BY TimeConstants DEF Dev
<1> DEFINE e == [d EXCEPT !.uds = 0, !.tp = 0]
<1>2. e \in Dev /\ e.awake = d.awake /\ e.uds = 0 /\ e.now = d.now /\ e.owed = d.owed
  BY <1>1 DEF Dev
<1>3. CASE r = "plain"
  <2>1. Served(d, r) = [e EXCEPT !.rx = 0]
    BY <1>3 DEF Served
  <2> HIDE DEF e
  <2> QED BY <1>1, <1>2, <2>1 DEF Dev
<1>4. CASE r = "open"
  <2>1. Served(d, r) = [e EXCEPT !.session = "other", !.rx = 0]
    BY <1>4 DEF Served
  <2> HIDE DEF e
  <2> QED BY <1>1, <1>2, <2>1 DEF Dev
<1>5. CASE r = "close"
  <2>1. Served(d, r) = [SessionReset(e) EXCEPT !.rx = 0]
    BY <1>5 DEF Served
  <2> HIDE DEF e
  <2>2. SessionReset(e) \in Dev /\ SessionReset(e).awake = d.awake /\ SessionReset(e).owed = 0
        /\ SessionReset(e).uds = 0 /\ SessionReset(e).now = d.now
    BY <1>2, ResetType
  <2> QED BY <1>1, <2>1, <2>2 DEF Dev
<1>6. CASE r = "long answer"
  <2>1. Served(d, r) = [e EXCEPT !.rx = 0, !.owed = IF e.owed = 0 THEN Sends ELSE e.owed]
    BY <1>6 DEF Served
  <2> DEFINE o == IF e.owed = 0 THEN Sends ELSE e.owed
  <2>2. o \in 0 .. Sends /\ (d.owed > 0 => o = d.owed)
    <3> HIDE DEF e
    <3> QED BY <1>1, <1>2
  <2>3. Served(d, r) = [e EXCEPT !.rx = 0, !.owed = o]
    BY <2>1
  <2> HIDE DEF e, o
  <2> QED BY <1>1, <1>2, <2>2, <2>3 DEF Dev
<1>7. CASE r = "first frame"
  <2>1. Served(d, r) = [e EXCEPT !.rx = RxLimit]
    BY <1>7 DEF Served
  <2> HIDE DEF e
  <2> QED BY <1>1, <1>2, <2>1 DEF Dev
<1> QED BY <1>3, <1>4, <1>5, <1>6, <1>7 DEF Requests

(* lifecycle_post touches nothing but the queue.                           *)
LEMMA PostType ==
  ASSUME NEW d \in Dev, NEW s \in Frames
  PROVE  /\ Post(d, s) \in Dev
         /\ Post(d, s) = [d EXCEPT !.pending = Post(d, s).pending]
<1>1. d.pending \in Seq(Frames) /\ Len(d.pending) <= PendingMax
  BY DEF Dev
<1>2. CASE Post(d, s) = d
  BY <1>2 DEF Dev
<1>3. CASE Len(d.pending) < PendingMax /\ Post(d, s) = [d EXCEPT !.pending = Append(d.pending, s)]
  <2>1. Append(d.pending, s) \in Seq(Frames) /\ Len(Append(d.pending, s)) <= PendingMax
    BY <1>1, <1>3 DEF PendingMax
  <2> QED BY <1>3, <2>1 DEF Dev
<1> QED BY <1>2, <1>3 DEF Post

(* lifecycle_flush touches nothing but the queue.                          *)
LEMMA FlushedType ==
  ASSUME NEW d \in Dev
  PROVE  /\ Flushed(d) \in Dev
         /\ Flushed(d) = [d EXCEPT !.pending = Flushed(d).pending]
<1>1. CASE Flushed(d) = d
  BY <1>1 DEF Dev
<1>2. CASE Flushed(d) = [d EXCEPT !.pending = <<>>]
  <2>1. <<>> \in Seq(Frames) /\ Len(<<>>) <= PendingMax
    BY DEF PendingMax
  <2> QED BY <1>2, <2>1 DEF Dev
<1> QED BY <1>1, <1>2 DEF Flushed

(* Going on line restarts the idle timer.                                  *)
LEMMA OnLineType ==
  ASSUME NEW d \in Dev
  PROVE  OnLine(d) \in Dev /\ OnLine(d).uds = 0 /\ OnLine(d).now = d.now
<1>1. 0 \in 0 .. Long /\ 0 \in 0 .. Delay
  BY TimeConstants
<1> QED BY <1>1 DEF OnLine, Dev

(* Listening changes nothing or serves a request.                          *)
LEMMA MayServeType ==
  ASSUME NEW d \in Dev, NEW e \in MayServe(d)
  PROVE  /\ e \in Dev /\ e.awake = d.awake /\ e.now = d.now
         /\ e = d \/ e.uds = 0
<1>1. e = d \/ \E r \in Requests : e = Served(d, r)
  BY DEF MayServe
<1> QED BY <1>1, ServedType

(* After a wake-up the idle timer is at most as old as the harvest.        *)
LEMMA HarvestType ==
  ASSUME NEW d \in Dev, NEW e \in Harvests(d)
  PROVE  e \in Dev /\ e.uds <= 1 /\ e.now <= d.now + 1
<1>1. PICK n \in {0, 1} : e \in MayServe(Aged(OnLine(d), n))
  BY DEF Harvests
<1>2. OnLine(d) \in Dev /\ OnLine(d).uds = 0 /\ OnLine(d).now = d.now
  BY OnLineType
<1> DEFINE a == Aged(OnLine(d), n)
<1>3. a \in Dev /\ a.uds <= 0 + n /\ a.now <= d.now + n
  BY <1>2, AgedType
<1> HIDE DEF a
<1>4. e \in Dev /\ e.now = a.now /\ (e.uds = a.uds \/ e.uds = 0)
  BY <1>1, <1>3, MayServeType DEF a
<1>5. n \in Int /\ n <= 1
  OBVIOUS
<1>6. d.now \in Int /\ a.now \in Int /\ a.uds \in Int
  BY <1>3 DEF Dev
<1> QED BY <1>3, <1>4, <1>5, <1>6

(***************************************************************************)
(* The labels of a poll of a sleeping device, from the wipe to the         *)
(* decision.                                                               *)
(***************************************************************************)
Hushed ==
  {"wipe", "rewipe", "wipe again", "decide", "flag", "no flag", "no answer",
   "pin high", "clear flag", "clear pin", "cleared flag", "cleared pin",
   "waited flag", "waited pin", "judge flag", "judge pin"}

(***************************************************************************)
(* How old the idle timer can be while an exchange is under way: an answer *)
(* owed costs at most one time unit for each attempt used, a request in    *)
(* assembly lives at most RxLimit after the frame that refreshed the timer,*)
(* or after the wait in which it began.                                    *)
(***************************************************************************)
Spent(p, d) ==
  /\ d.owed > 0 => d.uds <= Sends - d.owed + 1
  /\ d.rx > 1 => d.uds <= Sends + RxLimit - d.rx + 1
  /\ p \in Hushed => d.now = 0
  /\ p \in {"announce", "flush"} => d.now <= 1
  /\ p = "idle" =>
       /\ d.owed > 0 => d.now <= Sends - d.owed + 1
       /\ d.rx > 0 =>
            d.now <= 2 /\ d.uds <= Sends + RxLimit - d.rx + 1

(* The inductive invariant behind NothingOwed.                             *)
DevInv == dev \in Dev /\ Spent(pc, dev)

(* The bounds of the device's numbers as inequalities.                     *)
Numeric(d) ==
  /\ d.owed \in Int /\ d.owed >= 0 /\ d.owed <= Sends
  /\ d.rx \in Int /\ d.rx >= 0 /\ d.rx <= RxLimit
  /\ d.uds \in Int /\ d.uds >= 0 /\ d.now \in Int /\ d.now >= 0
  /\ Sends \in Int /\ RxLimit \in Int /\ Sends >= 1 /\ RxLimit >= 1
  /\ Idle \in Int /\ Idle > Sends + RxLimit /\ Long \in Int /\ Long >= Idle

(***************************************************************************)
(* The bounds of a device's numbers, in the form the arithmetic below      *)
(* needs.                                                                  *)
(***************************************************************************)
LEMMA Numbers ==
  ASSUME NEW d \in Dev
  PROVE  Numeric(d)
<1>1. d.owed \in 0 .. Sends /\ d.rx \in 0 .. RxLimit /\ d.uds \in 0 .. Long
      /\ d.now \in 0 .. Long
  BY DEF Dev
<1>2. /\ Sends \in Nat \ {0} /\ RxLimit \in Nat \ {0} /\ Idle \in Nat \ {0}
      /\ Long \in Nat \ {0}
  BY TimeConstants
<1> QED BY <1>1, <1>2, TimeConstants DEF Numeric

(* A device just served or woken is within its budget.                     *)
LEMMA Fresh ==
  ASSUME NEW d \in Dev, NEW p, d.uds <= 1, p \notin Hushed, p # "idle",
         p \in {"announce", "flush"} => d.now <= 1
  PROVE  Spent(p, d)
<1>1. Numeric(d)
  BY Numbers
<1>2. d.owed > 0 => d.uds <= Sends - d.owed + 1
  BY <1>1 DEF Numeric
<1>3. d.rx > 1 => d.uds <= Sends + RxLimit - d.rx + 1
  BY <1>1 DEF Numeric
<1> QED BY <1>2, <1>3 DEF Spent

(* can_protocol_poll takes its now.                                        *)
LEMMA BeginKeeps ==
  ASSUME DevInv, PollBegin
  PROVE  DevInv' /\ dev'.awake = dev.awake
<1>1. dev \in Dev /\ Spent(pc, dev) /\ 0 \in 0 .. Long
  BY TimeConstants DEF DevInv
<1>2. dev' = [dev EXCEPT !.now = 0]
  BY DEF PollBegin
<1>3. /\ dev' \in Dev /\ dev'.now = 0 /\ dev'.uds = dev.uds /\ dev'.owed = dev.owed
      /\ dev'.rx = dev.rx /\ dev'.awake = dev.awake
  BY <1>1, <1>2 DEF Dev
<1>4. pc' # "idle"
  BY DEF PollBegin
<1>5. Spent(pc', dev')
  BY <1>1, <1>3, <1>4 DEF Spent
<1> QED BY <1>3, <1>5 DEF DevInv

(* The first poll after can_protocol_init.                                 *)
LEMMA BootKeeps ==
  ASSUME DevInv, PollBoot
  PROVE  DevInv'
<1>1. dev \in Dev /\ 0 \in 0 .. Long
  BY TimeConstants DEF DevInv
<1>2. PICK d \in Harvests(dev) \cup {OnLine(dev)} : dev' = [d EXCEPT !.now = 0]
  BY DEF PollBoot
<1>3. d \in Dev /\ d.uds <= 1
  BY <1>1, <1>2, HarvestType, OnLineType
<1>4. dev' \in Dev /\ dev'.now = 0 /\ dev'.uds = d.uds
  BY <1>1, <1>2, <1>3 DEF Dev
<1>5. pc' \notin Hushed /\ pc' # "idle"
  BY DEF PollBoot, Hushed
<1> QED BY <1>3, <1>4, <1>5, Fresh DEF DevInv

(* can_lp_enter_normal from the wake-up decision.                          *)
LEMMA WakeKeeps ==
  ASSUME DevInv, pc \in Hushed, WakeUp
  PROVE  DevInv'
<1>1. dev \in Dev /\ dev.now = 0
  BY DEF DevInv, Spent
<1>2. dev' \in Dev /\ dev'.uds <= 1 /\ dev'.now <= 1
  BY <1>1, HarvestType DEF WakeUp
<1>3. pc' \notin Hushed /\ pc' # "idle"
  BY DEF WakeUp, Hushed
<1> QED BY <1>2, <1>3, Fresh DEF DevInv

(* The announcement only fills the queue.                                  *)
LEMMA AnnounceKeeps ==
  ASSUME DevInv, Announce
  PROVE  DevInv' /\ dev'.awake = dev.awake
<1>1. dev \in Dev /\ 0 \in 0 .. Period /\ BOOTUP \in Frames /\ OPERATIONAL \in Frames
  BY TimeConstants DEF DevInv, Frames
<1>2. CASE dev' = dev
  BY <1>2 DEF DevInv, Spent, Announce, Hushed
<1>3. CASE dev' = Announced(dev)
  <2> DEFINE a == [dev EXCEPT !.announce = FALSE]
             b == Post(a, BOOTUP)
             c == [b EXCEPT !.state = OPERATIONAL]
             f == Post(c, OPERATIONAL)
  <2>1. a \in Dev /\ a.owed = dev.owed /\ a.rx = dev.rx /\ a.uds = dev.uds /\ a.now = dev.now
      /\ a.awake = dev.awake
    BY <1>1 DEF Dev
  <2> HIDE DEF a
  <2>2. b \in Dev /\ b = [a EXCEPT !.pending = b.pending]
    BY <1>1, <2>1, PostType
  <2> HIDE DEF b
  <2>3. b.owed = dev.owed /\ b.rx = dev.rx /\ b.uds = dev.uds /\ b.now = dev.now
      /\ b.awake = dev.awake
    BY <2>1, <2>2 DEF Dev
  <2>4. c \in Dev /\ c.owed = dev.owed /\ c.rx = dev.rx /\ c.uds = dev.uds /\ c.now = dev.now
      /\ c.awake = dev.awake
    BY <1>1, <2>2, <2>3 DEF Dev
  <2> HIDE DEF c
  <2>5. f \in Dev /\ f = [c EXCEPT !.pending = f.pending]
    BY <1>1, <2>4, PostType
  <2>6. dev' = [f EXCEPT !.cast = 0]
    BY <1>3 DEF Announced, a, b, c
  <2> HIDE DEF f
  <2>7. f.owed = dev.owed /\ f.rx = dev.rx /\ f.uds = dev.uds /\ f.now = dev.now
      /\ f.awake = dev.awake
    BY <2>4, <2>5 DEF Dev
  <2>8. /\ dev' \in Dev /\ dev'.owed = dev.owed /\ dev'.rx = dev.rx
        /\ dev'.uds = dev.uds /\ dev'.now = dev.now /\ dev'.awake = dev.awake
    BY <1>1, <2>5, <2>6, <2>7 DEF Dev
  <2> QED BY <2>8 DEF DevInv, Spent, Announce, Hushed
<1> QED BY <1>2, <1>3 DEF Announce

(***************************************************************************)
(* Serving inside isotp_wait_cts: a first frame refreshes nothing, a       *)
(* request restarts the idle timer.                                        *)
(***************************************************************************)
LEMMA InlineType ==
  ASSUME NEW d \in Dev, NEW e \in MayServeInline(d), d.owed > 0
  PROVE  /\ e \in Dev /\ e.now = d.now /\ e.awake = d.awake
         /\ e.owed \in {0, d.owed}
         /\ e.uds \in {0, d.uds}
         /\ e.uds = 0 \/ e.rx \in {d.rx, RxLimit}
<1>1. CASE e = d
  BY <1>1
<1>2. CASE e = [d EXCEPT !.rx = RxLimit]
  <2>1. RxLimit \in 0 .. RxLimit
    BY TimeConstants
  <2> QED BY <1>2, <2>1 DEF Dev
<1>3. CASE \E r \in Requests : e = Served(d, r)
  BY <1>3, ServedType
<1> QED BY <1>1, <1>2, <1>3 DEF MayServeInline

(* What the budget asks at the idle gate.                                  *)
LEMMA IdleSpent ==
  ASSUME NEW d \in Dev,
         d.owed > 0 => d.uds <= Sends - d.owed + 1 /\ d.now <= Sends - d.owed + 1,
         d.rx > 0 => d.uds <= Sends + RxLimit - d.rx + 1 /\ d.now <= 2
  PROVE  Spent("idle", d)
<1>1. d.rx > 1 => d.rx > 0
  BY Numbers DEF Numeric
<1> QED BY <1>1 DEF Spent, Hushed

(***************************************************************************)
(* The wait for the flow control of an owed answer: a failed attempt costs *)
(* at most one time unit and one of the attempts.                          *)
(***************************************************************************)
LEMMA FlushKeeps ==
  ASSUME DevInv, FlushPending
  PROVE  DevInv' /\ dev'.awake = dev.awake
<1> DEFINE x == IF dev.rx = 1 THEN 0 ELSE dev.rx
           d == [dev EXCEPT !.rx = x]
<1>1. dev \in Dev /\ dev.now <= 1 /\ pc' = "idle" /\ Spent(pc, dev)
  BY DEF DevInv, Spent, FlushPending
<1>2. x \in 0 .. RxLimit /\ x # 1 /\ (x > 1 => x = dev.rx)
  BY <1>1, Numbers DEF Numeric
<1> HIDE DEF x
<1>3. /\ d \in Dev /\ d.owed = dev.owed /\ d.rx = x /\ d.uds = dev.uds /\ d.now = dev.now
      /\ d.awake = dev.awake
  BY <1>1, <1>2 DEF Dev
<1>4. /\ d.owed > 0 => d.uds <= Sends - d.owed + 1
      /\ d.rx > 0 => d.rx > 1 /\ d.uds <= Sends + RxLimit - d.rx + 1
      /\ d.now <= 1
  BY <1>1, <1>2, <1>3, Numbers DEF Numeric, Spent
<1>5. IF d.owed = 0 THEN dev' = d
       ELSE \E n \in {0, 1} : \E e \in MayServeInline(Aged(d, n)) :
              \/ dev' = [e EXCEPT !.owed = 0]
              \/ n = 1 /\ dev' = [e EXCEPT !.owed = IF e.owed = 0 THEN 0 ELSE e.owed - 1]
  BY DEF FlushPending, x
<1> HIDE DEF d
<1>6. CASE d.owed = 0
  <2>1. d.rx > 0 => d.now <= 2
    BY <1>3, <1>4, Numbers DEF Numeric
  <2> QED BY <1>1, <1>3, <1>4, <1>5, <1>6, <2>1, IdleSpent DEF DevInv
<1>7. CASE d.owed # 0
  <2>1. PICK n \in {0, 1} : \E e \in MayServeInline(Aged(d, n)) :
              \/ dev' = [e EXCEPT !.owed = 0]
              \/ n = 1 /\ dev' = [e EXCEPT !.owed = IF e.owed = 0 THEN 0 ELSE e.owed - 1]
    BY <1>5, <1>7
  <2>2. PICK e \in MayServeInline(Aged(d, n)) :
              \/ dev' = [e EXCEPT !.owed = 0]
              \/ n = 1 /\ dev' = [e EXCEPT !.owed = IF e.owed = 0 THEN 0 ELSE e.owed - 1]
    BY <2>1
  <2> DEFINE a == Aged(d, n)
  <2>3. /\ a \in Dev /\ a.owed = d.owed /\ a.uds <= d.uds + n /\ a.now <= d.now + n
        /\ a.awake = d.awake
        /\ a.rx = IF d.rx > n THEN d.rx - n ELSE Least(d.rx, 1)
    BY <1>3, AgedType
  <2>4. d.owed > 0 /\ n \in Int /\ n >= 0 /\ n <= 1
    BY <1>3, <1>7, Numbers DEF Numeric
  <2>5. e \in MayServeInline(a) /\ a.owed > 0
    BY <2>2, <2>3, <2>4
  <2> HIDE DEF a
  <2>6. /\ e \in Dev /\ e.awake = d.awake /\ e.now = a.now
        /\ e.owed \in {0, d.owed} /\ e.uds \in {0, a.uds}
        /\ e.uds = 0 \/ e.rx \in {a.rx, RxLimit}
    BY <2>3, <2>5, InlineType
  <2>7. a.rx > 0 => a.uds <= Sends + RxLimit - a.rx + 1
    BY <1>3, <1>4, <2>3, <2>4, Numbers DEF Numeric, Least
  <2>8. e.rx > 0 => e.uds <= Sends + RxLimit - e.rx + 1
    BY <1>3, <1>4, <2>3, <2>4, <2>6, <2>7, Numbers DEF Numeric
  <2>9. e.now <= 1 + n /\ e.uds <= d.uds + n
    BY <1>3, <1>4, <2>3, <2>4, <2>6, Numbers DEF Numeric
  <2> DEFINE o == IF e.owed = 0 THEN 0 ELSE e.owed - 1
  <2>10. 0 \in 0 .. Sends /\ o \in 0 .. Sends /\ (o > 0 => o = d.owed - 1)
    BY <1>3, <2>6, Numbers DEF Numeric
  <2> HIDE DEF o
  <2>11. CASE dev' = [e EXCEPT !.owed = 0]
    <3>1. dev' \in Dev /\ dev'.owed = 0 /\ dev'.rx = e.rx /\ dev'.uds = e.uds /\ dev'.now = e.now
          /\ dev'.awake = e.awake
      BY <2>6, <2>10, <2>11 DEF Dev
    <3>2. e.now <= 2
      BY <2>4, <2>6, <2>9, Numbers DEF Numeric
    <3> QED BY <1>1, <1>3, <2>6, <2>8, <3>1, <3>2, IdleSpent DEF DevInv
  <2>12. CASE n = 1 /\ dev' = [e EXCEPT !.owed = o]
    <3>1. dev' \in Dev /\ dev'.owed = o /\ dev'.rx = e.rx /\ dev'.uds = e.uds /\ dev'.now = e.now
          /\ dev'.awake = e.awake
      BY <2>6, <2>10, <2>12 DEF Dev
    <3>2. o > 0 => e.uds <= Sends - o + 1 /\ e.now <= Sends - o + 1
      BY <1>3, <1>4, <2>4, <2>6, <2>9, <2>10, <2>12, Numbers DEF Numeric
    <3>3. e.now <= 2
      BY <2>4, <2>6, <2>9, Numbers DEF Numeric
    <3> QED BY <1>1, <1>3, <2>6, <2>8, <2>10, <3>1, <3>2, <3>3, IdleSpent DEF DevInv
  <2> QED BY <2>2, <2>11, <2>12 DEF o
<1> QED BY <1>6, <1>7

(* The labels outside a poll that is under way.                            *)
Calm == {"boot", "poll", "config", "no supply", "driver", "lifecycle"}

(* Outside the poll only the two budgets of the exchanges count.           *)
LEMMA CalmSpent ==
  ASSUME NEW d \in Dev, NEW p \in Calm,
         d.owed > 0 => d.uds <= Sends - d.owed + 1,
         d.rx > 1 => d.uds <= Sends + RxLimit - d.rx + 1
  PROVE  Spent(p, d)
BY DEF Spent, Hushed, Calm

(* The idle gate passed: the timer may be refreshed, the session may end.  *)
LEMMA StayKeeps ==
  ASSUME DevInv, StayAwake
  PROVE  DevInv' /\ dev'.awake = dev.awake
<1>1. dev \in Dev /\ Spent("idle", dev) /\ pc' \in Calm
  BY DEF DevInv, StayAwake, Calm
<1> DEFINE d == Refreshed(dev)
<1>2. /\ d \in Dev /\ d.awake = dev.awake /\ d.owed = dev.owed /\ d.rx = dev.rx
      /\ d.uds \in {dev.uds, dev.now}
  BY <1>1 DEF Refreshed, Dev
<1>3. dev' = SessionReset(d) \/ dev' = d
  BY DEF StayAwake
<1> HIDE DEF d
<1>4. /\ dev' \in Dev /\ dev'.awake = dev.awake /\ dev'.owed \in {0, dev.owed}
      /\ dev'.rx = dev.rx /\ dev'.uds \in {dev.uds, dev.now}
  BY <1>2, <1>3, ResetType
<1>5. dev'.owed > 0 => dev'.uds <= Sends - dev'.owed + 1
  BY <1>1, <1>4, Numbers DEF Numeric, Spent
<1>6. dev'.rx > 1 => dev'.uds <= Sends + RxLimit - dev'.rx + 1
  BY <1>1, <1>4, Numbers DEF Numeric, Spent
<1> QED BY <1>1, <1>4, <1>5, <1>6, CalmSpent DEF DevInv

(* can_lp_go_sleep.                                                        *)
LEMMA SleepKeeps ==
  ASSUME DevInv, GoSleep
  PROVE  DevInv' /\ dev'.awake = dev.awake
<1>1. dev \in Dev /\ Spent(pc, dev) /\ pc' \in Calm
  BY DEF DevInv, GoSleep, Calm
<1> DEFINE d == SessionReset(dev)
<1>2. d \in Dev /\ d.awake = dev.awake /\ d.owed = 0 /\ d.rx = dev.rx /\ d.uds = dev.uds
  BY <1>1, ResetType
<1>3. dev' = [d EXCEPT !.pending = <<>>]
  BY DEF GoSleep
<1> HIDE DEF d
<1>4. <<>> \in Seq(Frames) /\ Len(<<>>) <= PendingMax
  BY DEF PendingMax
<1>5. /\ dev' \in Dev /\ dev'.awake = dev.awake /\ dev'.owed = 0 /\ dev'.rx = dev.rx
      /\ dev'.uds = dev.uds
  BY <1>2, <1>3, <1>4 DEF Dev
<1>6. dev'.rx > 1 => dev'.uds <= Sends + RxLimit - dev'.rx + 1
  BY <1>1, <1>5 DEF Spent
<1> QED BY <1>1, <1>5, <1>6, CalmSpent DEF DevInv

(* A device that lost its supply has every variable at its initial value.  *)
LEMMA BootedType ==
  ASSUME NEW b \in BOOLEAN
  PROVE  Booted(b) \in Dev /\ Booted(b).owed = 0 /\ Booted(b).rx = 0 /\ ~Booted(b).awake
<1>1. /\ 0 \in 0 .. Sends /\ 0 \in 0 .. RxLimit /\ 0 \in 0 .. Long /\ 0 \in 0 .. Delay
      /\ 0 \in 0 .. Period /\ <<>> \in Seq(Frames) /\ Len(<<>>) <= PendingMax
      /\ BOOTUP \in Frames
  BY TimeConstants DEF PendingMax, Frames
<1> QED BY <1>1 DEF Booted, Dev

(* Asleep, with or without supply.                                         *)
LEMMA FallKeeps ==
  ASSUME DevInv, FallAsleep
  PROVE  DevInv' /\ ~dev'.awake
<1>1. dev \in Dev /\ Spent(pc, dev) /\ 0 \in 0 .. Delay
  BY TimeConstants DEF DevInv
<1>2. \/ pc' = "poll" /\ dev' = [dev EXCEPT !.awake = FALSE, !.edge = 0, !.ever = TRUE]
      \/ pc' = "no supply" /\ dev' = Booted(TRUE)
  BY Zenon DEF FallAsleep
<1>3. CASE pc' = "poll" /\ dev' = [dev EXCEPT !.awake = FALSE, !.edge = 0, !.ever = TRUE]
  <2>1. /\ dev' \in Dev /\ ~dev'.awake /\ dev'.owed = dev.owed /\ dev'.rx = dev.rx
        /\ dev'.uds = dev.uds
    BY <1>1, <1>3 DEF Dev
  <2>2. pc' \in Calm
    BY <1>3 DEF Calm
  <2> QED BY <1>1, <2>1, <2>2, CalmSpent DEF DevInv, Spent
<1>4. CASE pc' = "no supply" /\ dev' = Booted(TRUE)
  <2>1. dev' \in Dev /\ dev'.owed = 0 /\ dev'.rx = 0 /\ ~dev'.awake
    BY <1>4, BootedType
  <2>2. pc' \in Calm
    BY <1>4 DEF Calm
  <2> QED BY <2>1, <2>2, CalmSpent DEF DevInv
<1> QED BY <1>2, <1>3, <1>4

(* Exchanging the queue for a well-typed one changes nothing else.         *)
LEMMA QuietChange ==
  ASSUME NEW d \in Dev, NEW e, NEW f,
         f = [d EXCEPT !.pending = e.pending], e \in Dev
  PROVE  /\ f \in Dev /\ f.awake = d.awake /\ f.owed = d.owed /\ f.rx = d.rx
         /\ f.uds = d.uds /\ f.now = d.now /\ f.state = d.state
BY DEF Dev

(* Restarting the broadcast timer changes nothing else.                    *)
LEMMA CastReset ==
  ASSUME NEW d \in Dev
  PROVE  LET f == [d EXCEPT !.cast = 0] IN
           /\ f \in Dev /\ f.awake = d.awake /\ f.owed = d.owed /\ f.rx = d.rx
           /\ f.uds = d.uds /\ f.now = d.now /\ f.state = d.state
<1>1. 0 \in 0 .. Period
  BY TimeConstants
<1> QED BY <1>1 DEF Dev

(* can_driver_poll.                                                        *)
LEMMA DriverKeeps ==
  ASSUME DevInv, DriverPoll
  PROVE  DevInv' /\ dev'.awake = dev.awake
<1>1. dev \in Dev /\ Spent(pc, dev) /\ pc' \in Calm /\ dev.state \in Frames
  BY DEF DevInv, DriverPoll, Calm, Dev
<1>2. CASE dev' \in MayServe(dev)
  <2>1. dev' \in Dev /\ dev'.awake = dev.awake /\ (dev' = dev \/ dev'.uds = 0)
    BY <1>1, <1>2, MayServeType
  <2>2. CASE dev' = dev
    BY <1>1, <2>2, CalmSpent DEF DevInv, Spent
  <2>3. CASE dev'.uds = 0
    <3>1. /\ dev'.owed > 0 => dev'.uds <= Sends - dev'.owed + 1
          /\ dev'.rx > 1 => dev'.uds <= Sends + RxLimit - dev'.rx + 1
      BY <2>1, <2>3, Numbers DEF Numeric
    <3> QED BY <1>1, <2>1, <3>1, CalmSpent DEF DevInv
  <2> QED BY <2>1, <2>2, <2>3
<1>3. CASE dev' = [Post(dev, dev.state) EXCEPT !.cast = 0]
  <2> DEFINE d == Post(dev, dev.state)
  <2>1. d \in Dev /\ d = [dev EXCEPT !.pending = d.pending]
    BY <1>1, PostType
  <2>2. dev' = [d EXCEPT !.cast = 0]
    BY <1>3
  <2> HIDE DEF d
  <2>3. d.awake = dev.awake /\ d.owed = dev.owed /\ d.rx = dev.rx /\ d.uds = dev.uds
    BY <1>1, <2>1, QuietChange
  <2>4. /\ dev' \in Dev /\ dev'.awake = dev.awake /\ dev'.owed = dev.owed
        /\ dev'.rx = dev.rx /\ dev'.uds = dev.uds
    BY <2>1, <2>2, <2>3, CastReset
  <2> QED BY <1>1, <2>4, CalmSpent DEF DevInv, Spent
<1> QED BY <1>2, <1>3 DEF DriverPoll

(* lifecycle_poll.                                                         *)
LEMMA LifecycleKeeps ==
  ASSUME DevInv, LifecyclePoll
  PROVE  DevInv' /\ dev'.awake = dev.awake
<1>1. dev \in Dev /\ Spent(pc, dev) /\ pc' \in Calm
  BY DEF DevInv, LifecyclePoll, Calm
<1> DEFINE d == Flushed(dev)
           c == [d EXCEPT !.cast = 0]
<1>2. d \in Dev /\ d = [dev EXCEPT !.pending = d.pending]
  BY <1>1, FlushedType
<1>3. dev' = d \/ dev' = Post(c, d.state)
  BY DEF LifecyclePoll
<1> HIDE DEF d
<1>4. d.awake = dev.awake /\ d.owed = dev.owed /\ d.rx = dev.rx /\ d.uds = dev.uds
  BY <1>1, <1>2, QuietChange
<1>5. /\ c \in Dev /\ c.awake = dev.awake /\ c.owed = dev.owed /\ c.rx = dev.rx
      /\ c.uds = dev.uds /\ d.state \in Frames
  BY <1>2, <1>4, CastReset DEF Dev
<1> HIDE DEF c
<1>6. /\ dev' \in Dev /\ dev'.awake = dev.awake /\ dev'.owed = dev.owed
      /\ dev'.rx = dev.rx /\ dev'.uds = dev.uds
  <2>1. CASE dev' = d
    BY <1>2, <1>4, <2>1
  <2>2. CASE dev' = Post(c, d.state)
    <3>1. dev' \in Dev /\ dev' = [c EXCEPT !.pending = dev'.pending]
      BY <1>5, <2>2, PostType
    <3> QED BY <1>5, <3>1, QuietChange
  <2> QED BY <1>3, <2>1, <2>2
<1> QED BY <1>1, <1>6, CalmSpent DEF DevInv, Spent

(***************************************************************************)
(* Time passes only while no answer is owed, and shortens an assembly as   *)
(* much as it ages the idle timer.                                         *)
(***************************************************************************)
LEMMA TickKeeps ==
  ASSUME DevInv, Tick
  PROVE  DevInv' /\ dev'.awake = dev.awake
<1>1. dev \in Dev /\ Spent(pc, dev) /\ pc' \in Calm /\ dev.owed = 0 /\ dev' = Aged(dev, 1)
  BY DEF DevInv, Tick, Calm
<1>2. /\ dev' \in Dev /\ dev'.awake = dev.awake /\ dev'.owed = 0
      /\ dev'.uds <= dev.uds + 1
      /\ dev'.rx = IF dev.rx > 1 THEN dev.rx - 1 ELSE Least(dev.rx, 1)
  BY <1>1, AgedType
<1>3. dev'.rx > 1 => dev'.uds <= Sends + RxLimit - dev'.rx + 1
  BY <1>1, <1>2, Numbers DEF Numeric, Least, Spent
<1> QED BY <1>1, <1>2, <1>3, CalmSpent DEF DevInv

(* A phone, or an upgrade of the Qi chip.                                  *)
LEMMA UseKeeps ==
  ASSUME DevInv, Use
  PROVE  DevInv' /\ dev'.awake = dev.awake
<1>1. dev \in Dev /\ Spent(pc, dev) /\ pc' \in Calm
  BY DEF DevInv, Use, Calm
<1>2. PICK u \in {"none", "charging", "upgrade"} : dev' = [dev EXCEPT !.use = u]
  BY DEF Use
<1>3. /\ dev' \in Dev /\ dev'.awake = dev.awake /\ dev'.owed = dev.owed
      /\ dev'.rx = dev.rx /\ dev'.uds = dev.uds
  BY <1>1, <1>2 DEF Dev
<1> QED BY <1>1, <1>3, CalmSpent DEF DevInv, Spent

(* What a step of the decision that wakes the device has seen.             *)
Cause ==
  \/ pc \in {"flag", "judge flag"}
  \/ pc \in {"pin high", "waited flag", "waited pin"} /\ latch.flag
  \/ pc = "no answer" /\ latch.low

(* The decision changes the device only by waking it, for a cause.         *)
LEMMA WakingKeeps ==
  ASSUME DevInv, Waking
  PROVE  /\ DevInv'
         /\ dev' = dev \/ (pc \in Hushed /\ WakeUp /\ Cause)
<1>1. pc \in Hushed
  BY DEF Waking, ReadPin, PendingPin, PendingLatches, Waited, Judge, Hushed
<1>2. \/ WakeUp /\ Cause
      \/ dev' = dev /\ pc' \in {"clear flag", "clear pin", "pin high", "judge flag", "judge pin", "poll"}
  BY DEF Waking, ReadPin, PendingPin, PendingLatches, Waited, Judge, StaysAsleep, Blocked, Cause
<1>3. CASE WakeUp /\ Cause
  BY <1>1, <1>3, WakeKeeps
<1>4. CASE /\ dev' = dev
           /\ pc' \in {"clear flag", "clear pin", "pin high", "judge flag", "judge pin", "poll"}
  BY <1>1, <1>4 DEF DevInv, Spent, Hushed
<1> QED BY <1>2, <1>3, <1>4

(* These steps leave the device's variables alone.                         *)
LEMMA SameKeeps ==
  ASSUME DevInv,
         \/ Looking \/ Configure \/ SleepRefused \/ Leave
         \/ Phantom \/ StalePin \/ Frame \/ PowerUp \/ UNCHANGED vars
  PROVE  DevInv' /\ dev' = dev
<1>1. dev' = dev
  BY DEF Looking, Wipe, Rewipe, WipeAgain, ReadLatches, ClearLatches, Cleared, Configure,
     SleepRefused, Leave, Phantom, StalePin, Frame, PowerUp, vars
<1>2. \/ pc' = pc
      \/ pc' \in Calm
      \/ pc \in Hushed /\ pc' \in Hushed
  BY DEF Looking, Wipe, Rewipe, WipeAgain, ReadLatches, ClearLatches, Cleared, Configure,
     SleepRefused, Leave, Phantom, StalePin, Frame, PowerUp, vars, Calm, Hushed
<1> QED BY <1>1, <1>2 DEF DevInv, Spent, Calm, Hushed

(* Every step keeps the type and the budget of the device.                 *)
LEMMA StepKeepsDev ==
  ASSUME DevInv, [Next]_vars
  PROVE  DevInv'
<1>1. CASE PollBoot \/ PollBegin
  BY <1>1, BootKeeps, BeginKeeps
<1>2. CASE Waking
  BY <1>2, WakingKeeps
<1>3. CASE Announce \/ FlushPending \/ StayAwake
  BY <1>3, AnnounceKeeps, FlushKeeps, StayKeeps
<1>4. CASE GoSleep \/ FallAsleep
  BY <1>4, SleepKeeps, FallKeeps
<1>5. CASE DriverPoll \/ LifecyclePoll \/ Tick \/ Use
  BY <1>5, DriverKeeps, LifecycleKeeps, TickKeeps, UseKeeps
<1>6. CASE \/ Looking \/ Configure \/ SleepRefused \/ Leave
           \/ Phantom \/ StalePin \/ Frame \/ PowerUp \/ UNCHANGED vars
  BY <1>6, SameKeeps
<1> QED BY <1>1, <1>2, <1>3, <1>4, <1>5, <1>6 DEF Next, Loop, Waking, Looking

(* A device that boots for the first time is within its budget.            *)
LEMMA InitDev ==
  ASSUME Init
  PROVE  DevInv
<1>1. dev \in Dev /\ dev.owed = 0 /\ dev.rx = 0
  BY BootedType DEF Init
<1>2. pc \in Calm
  BY DEF Init, Calm
<1> QED BY <1>1, <1>2, CalmSpent DEF DevInv

(***************************************************************************)
(* A device within its budget whose idle timer expired owes nothing: every *)
(* exchange ends before Idle is over.                                      *)
(***************************************************************************)
LEMMA SpentNothing ==
  ASSUME DevInv
  PROVE  NothingOwed
<1> SUFFICES ASSUME pc = "idle", Expired(Refreshed(dev)) PROVE ~Busy(dev)
  BY DEF NothingOwed
<1>1. dev \in Dev /\ Spent("idle", dev)
  BY DEF DevInv
<1>2. Numeric(dev)
  BY <1>1, Numbers
<1>3. IdleLimit(Refreshed(dev)) \in {Idle, Long}
  BY DEF IdleLimit
<1>4. CASE dev.use = "charging"
  <2>1. Refreshed(dev).uds = dev.now /\ Refreshed(dev).now = dev.now
    BY <1>1, <1>4 DEF Refreshed, Dev
  <2> QED BY <1>2, <1>3, <2>1 DEF Expired, Numeric
<1>5. CASE dev.use # "charging"
  <2>1. Refreshed(dev) = dev
    BY <1>5 DEF Refreshed
  <2>2. dev.uds - dev.now >= Idle
    BY <1>2, <1>3, <2>1 DEF Expired, Numeric
  <2> QED BY <1>1, <1>2, <2>2 DEF Spent, Busy, Numeric
<1> QED BY <1>4, <1>5

(***************************************************************************)
(* When the idle timer sends the device to sleep, no answer is owed and no *)
(* request is half received (NothingOwed).                                 *)
(***************************************************************************)
THEOREM SleepOwesNothing == Spec => []NothingOwed
<1>1. Init => DevInv
  BY InitDev
<1>2. DevInv /\ [Next]_vars => DevInv'
  BY StepKeepsDev
<1>3. DevInv => NothingOwed
  BY SpentNothing
<1> QED BY <1>1, <1>2, <1>3, PTL DEF Spec

(* Every step keeps the type of the latches.                               *)
LEMMA LatchTyped ==
  ASSUME latch \in Latch, [Next]_vars
  PROVE  latch' \in Latch
<1>1. Quiet \in Latch /\ [Quiet EXCEPT !.wipe = TRUE] \in Latch
  BY DEF Quiet, Latch, Fates
<1>2. CASE Lost \/ WipeLatches
  BY <1>2 DEF Lost, WipeLatches, Latch, Fates
<1>3. CASE UNCHANGED latch
  BY <1>3
<1>4. CASE ClearLatches
  BY <1>2, <1>4 DEF ClearLatches, Latch, Fates
<1>5. CASE Wipe \/ Rewipe \/ WipeAgain \/ ReadLatches \/ Cleared
  BY <1>2, <1>3, <1>5 DEF Wipe, Rewipe, WipeAgain, ReadLatches, Cleared, ReadSet, ReadClear
<1>6. CASE WakeUp \/ FallAsleep \/ PowerUp
  BY <1>1, <1>6 DEF WakeUp, FallAsleep, PowerUp
<1>7. CASE Blocked
  BY <1>7 DEF Blocked, Latch, Fates
<1>8. CASE Waking
  BY <1>2, <1>3, <1>6, <1>7, <1>8 DEF Waking, ReadPin, PendingPin, PendingLatches, Waited,
     Judge, ReadClear
<1>9. CASE Phantom \/ StalePin \/ Frame
  BY <1>9 DEF Phantom, StalePin, Frame, Latch, Fates
<1>10. CASE \/ PollBoot \/ PollBegin \/ Announce \/ FlushPending
            \/ StayAwake \/ GoSleep \/ Configure \/ SleepRefused \/ DriverPoll
            \/ LifecyclePoll \/ Tick \/ Use \/ Leave \/ UNCHANGED vars
  BY <1>3, <1>10 DEF PollBoot, PollBegin, Announce, FlushPending, StayAwake,
     GoSleep, Configure, SleepRefused, DriverPoll, LifecyclePoll, Tick, Use, Leave, vars
<1> QED BY <1>4, <1>5, <1>6, <1>8, <1>9, <1>10 DEF Next, Loop, Waking

(* The main loop goes from label to label.                                 *)
LEMMA LabelTyped ==
  ASSUME pc \in Labels, [Next]_vars
  PROVE  pc' \in Labels
<1>1. CASE PollBoot \/ PollBegin \/ Looking
  BY <1>1 DEF PollBoot, PollBegin, Looking, Wipe, Rewipe, WipeAgain, ReadLatches,
     ClearLatches, Cleared, Labels
<1>2. CASE Waking
  BY <1>2 DEF Waking, ReadPin, PendingPin, PendingLatches, Waited, Judge, WakeUp,
     StaysAsleep, Blocked, Labels
<1>3. CASE Announce \/ FlushPending \/ StayAwake \/ GoSleep \/ DriverPoll \/ LifecyclePoll
  BY <1>3 DEF Announce, FlushPending, StayAwake, GoSleep, DriverPoll, LifecyclePoll, Labels
<1>4. CASE SleepRefused \/ FallAsleep \/ PowerUp
  BY <1>4 DEF SleepRefused, FallAsleep, PowerUp, Labels
<1>5. CASE \/ Configure \/ Tick \/ Use \/ Leave \/ Phantom \/ StalePin \/ Frame
           \/ UNCHANGED vars
  BY <1>5 DEF Configure, Tick, Use, Leave, Phantom, StalePin, Frame, vars
<1> QED BY <1>1, <1>2, <1>3, <1>4, <1>5 DEF Next, Loop, Waking, Looking

(* The tester is there, or gone.                                           *)
LEMMA HostTyped ==
  ASSUME host \in {"present", "gone"}, [Next]_vars
  PROVE  host' \in {"present", "gone"}
<1>1. CASE Leave
  BY <1>1 DEF Leave
<1>2. CASE UNCHANGED host
  BY <1>2
<1>3. CASE PollBoot \/ PollBegin \/ Looking \/ Waking
  BY <1>2, <1>3 DEF PollBoot, PollBegin, Looking, Wipe, Rewipe, WipeAgain, ReadLatches,
     ClearLatches, Cleared, Waking, ReadPin, PendingPin, PendingLatches, Waited, Judge
<1>4. CASE \/ Announce \/ FlushPending \/ StayAwake \/ GoSleep \/ Configure
           \/ SleepRefused \/ FallAsleep \/ DriverPoll \/ LifecyclePoll
  BY <1>2, <1>4 DEF Announce, FlushPending, StayAwake, GoSleep, Configure, SleepRefused,
     FallAsleep, DriverPoll, LifecyclePoll
<1>5. CASE Tick \/ Use \/ Phantom \/ StalePin \/ Frame \/ PowerUp \/ UNCHANGED vars
  BY <1>2, <1>5 DEF Tick, Use, Phantom, StalePin, Frame, PowerUp, vars
<1> QED BY <1>1, <1>3, <1>4, <1>5 DEF Next, Loop, Waking, Looking

(* The type invariant together with what makes it inductive.               *)
TypeInv ==
  ConfigInv /\ DevInv /\ pc \in Labels /\ latch \in Latch /\ host \in {"present", "gone"}

(***************************************************************************)
(* Every variable keeps its type; the lifecycle queue never outgrows its   *)
(* four slots (TypeOK).                                                    *)
(***************************************************************************)
THEOREM SleepTyped == Spec => []TypeOK
<1>1. Init => TypeInv
  BY InitDev, FilterConstants DEF Init, TypeInv, ConfigInv, Attempt, FilterInv, Chip, Cfg, Steps,
     Labels, Latch, Fates, Quiet
<1>2. TypeInv /\ [Next]_vars => TypeInv'
  BY StepKeepsConfig, StepKeepsDev, LabelTyped, LatchTyped, HostTyped DEF TypeInv
<1>3. TypeInv => TypeOK
  BY DEF TypeInv, TypeOK, ConfigInv, FilterInv, DevInv
<1> QED BY <1>1, <1>2, <1>3, PTL DEF Spec

(***************************************************************************)
(* The inductive invariant behind OnlyFramesWake: after the wipe no latch  *)
(* is set without a frame, except one whose first clear got lost, and that *)
(* one is cleared again before the decision, because its read-back cannot  *)
(* be lost as well.                                                        *)
(***************************************************************************)
Clean ==
  /\ pc \in Hushed \ {"wipe"} => ~latch.wipe
  /\ latch.flag /\ latch.frame # "waiting" =>
       latch.wipe \/ (pc \in {"rewipe", "wipe again"} /\ latch.fault)
  /\ pc \in {"flag", "clear flag", "cleared flag", "waited flag", "judge flag"} =>
       latch.frame = "waiting"

(* The wipe keeps Clean.                                                   *)
LEMMA WipeKeepsClean ==
  ASSUME latch \in Latch, Clean, Wipe \/ Rewipe \/ WipeAgain
  PROVE  Clean'
<1>1. ASSUME WipeLatches
      PROVE  /\ ~latch'.wipe
             /\ \/ ~latch'.flag /\ latch'.frame = "none"
                \/ /\ ~latch.fault /\ latch'.fault
                   /\ latch'.flag = latch.flag /\ latch'.frame = latch.frame
  BY <1>1 DEF WipeLatches, Latch
<1>2. CASE Wipe
  <2>1. pc' = "rewipe" /\ WipeLatches
    BY <1>2 DEF Wipe
  <2> QED BY <1>1, <2>1 DEF Clean, Hushed
<1>3. CASE Rewipe
  <2>1. /\ pc = "rewipe" /\ pc' \in {"wipe again", "decide"}
        /\ latch'.flag = latch.flag /\ latch'.frame = latch.frame /\ latch'.wipe = latch.wipe
        /\ latch.fault => latch'.fault
        /\ pc' = "decide" => ~latch.flag \/ ~latch.fault
    BY <1>3 DEF Rewipe, ReadSet, ReadClear, Lost, Latch
  <2> QED BY <2>1 DEF Clean, Hushed
<1>4. CASE WipeAgain
  <2>1. pc = "wipe again" /\ pc' = "decide" /\ WipeLatches
    BY <1>4 DEF WipeAgain
  <2> QED BY <1>1, <2>1 DEF Clean, Hushed
<1> QED BY <1>2, <1>3, <1>4

(* The looks at the latches that do not wake the device keep Clean.        *)
LEMMA LookKeepsClean ==
  ASSUME latch \in Latch, Clean, ReadLatches \/ ClearLatches \/ Cleared
  PROVE  Clean'
<1>1. ASSUME UNCHANGED latch \/ Lost
      PROVE  /\ latch'.flag = latch.flag /\ latch'.frame = latch.frame
             /\ latch'.wipe = latch.wipe
  BY <1>1 DEF Lost, Latch
<1>2. CASE ReadLatches
  <2>1. /\ pc = "decide" /\ pc' \in {"flag", "no flag", "no answer"}
        /\ pc' = "flag" => latch.flag /\ (UNCHANGED latch \/ Lost)
        /\ UNCHANGED latch \/ Lost
    BY <1>2 DEF ReadLatches
  <2> QED BY <1>1, <2>1 DEF Clean, Hushed
<1>3. CASE ClearLatches
  <2>1. /\ pc \in {"clear flag", "clear pin"}
        /\ pc' = IF pc = "clear flag" THEN "cleared flag" ELSE "cleared pin"
    BY <1>3 DEF ClearLatches
  <2>2. CASE Lost
    BY <1>1, <2>1, <2>2 DEF Clean, Hushed
  <2>3. CASE latch' = [latch EXCEPT !.flag = FALSE,
                                    !.frame = IF pc = "clear pin" /\ latch.flag
                                              THEN "swallowed" ELSE latch.frame]
    <3>1. /\ ~latch'.flag /\ latch'.wipe = latch.wipe
          /\ pc = "clear flag" => latch'.frame = latch.frame
      BY <2>3 DEF Latch
    <3> QED BY <2>1, <3>1 DEF Clean, Hushed
  <2> QED BY <1>3, <2>2, <2>3 DEF ClearLatches
<1>4. CASE Cleared
  <2>1. /\ pc \in {"cleared flag", "cleared pin"}
        /\ UNCHANGED latch \/ Lost
        /\ pc' \in {"judge flag", "judge pin", "waited flag", "waited pin"}
        /\ pc' \in {"judge flag", "waited flag"} => pc = "cleared flag"
    BY <1>4 DEF Cleared, ReadSet, ReadClear
  <2> QED BY <1>1, <2>1 DEF Clean, Hushed
<1> QED BY <1>2, <1>3, <1>4

(* The steps that may wake the device keep Clean.                          *)
LEMMA WakingKeepsClean ==
  ASSUME latch \in Latch, Clean, Waking
  PROVE  Clean'
<1>1. pc \in Hushed /\ ~latch.wipe /\ (latch.flag => latch.frame = "waiting")
  BY DEF Waking, ReadPin, PendingPin, PendingLatches, Waited, Judge, Clean, Hushed
<1>2. CASE WakeUp
  BY <1>2 DEF WakeUp, Quiet, Clean, Hushed
<1>3. CASE Blocked
  <2>1. /\ pc' = "poll" /\ latch'.flag = latch.flag /\ latch'.wipe = latch.wipe
        /\ latch.flag => latch'.frame = latch.frame
    BY <1>3 DEF Blocked, StaysAsleep, Latch
  <2> QED BY <1>1, <2>1 DEF Clean, Hushed
<1>4. CASE /\ UNCHANGED latch \/ Lost
           /\ pc' \in {"clear flag", "clear pin", "pin high", "judge flag", "judge pin", "poll"}
           /\ pc' \in {"clear flag", "judge flag"} => pc \in {"flag", "waited flag"}
  <2>1. /\ latch'.flag = latch.flag /\ latch'.frame = latch.frame
        /\ latch'.wipe = latch.wipe
    BY <1>4 DEF Lost, Latch
  <2> QED BY <1>1, <1>4, <2>1 DEF Clean, Hushed
<1> QED
  BY <1>2, <1>3, <1>4 DEF Waking, ReadPin, PendingPin, PendingLatches, Waited, Judge,
     StaysAsleep, ReadClear

(* Every step keeps Clean.                                                 *)
LEMMA StepKeepsClean ==
  ASSUME latch \in Latch, Clean, [Next]_vars
  PROVE  Clean'
<1>1. CASE Looking \/ Waking
  BY <1>1, WipeKeepsClean, LookKeepsClean, WakingKeepsClean DEF Looking
<1>2. CASE PollBegin
  BY <1>2 DEF PollBegin, Clean, Hushed
<1>3. CASE pc \notin Hushed /\ pc' \notin Hushed /\ latch' = latch
  BY <1>3 DEF Clean, Hushed
<1>4. CASE PollBoot \/ Announce \/ FlushPending \/ StayAwake \/ GoSleep \/ SleepRefused
           \/ DriverPoll \/ LifecyclePoll
  BY <1>3, <1>4 DEF PollBoot, Announce, FlushPending, StayAwake, GoSleep, SleepRefused,
     DriverPoll, LifecyclePoll, Hushed
<1>5. CASE pc' = pc /\ latch' = latch
  BY <1>5 DEF Clean
<1>6. CASE Configure \/ Tick \/ Use \/ Leave \/ UNCHANGED vars
  BY <1>5, <1>6 DEF Configure, Tick, Use, Leave, vars
<1>7. CASE FallAsleep \/ PowerUp
  <2>1. latch' = Quiet \/ latch' = [Quiet EXCEPT !.wipe = TRUE]
    BY <1>7 DEF FallAsleep, PowerUp
  <2>2. ~latch'.flag
    BY <2>1 DEF Quiet
  <2>3. pc' \in {"poll", "no supply", "boot"}
    BY <1>7 DEF FallAsleep, PowerUp
  <2> QED BY <2>2, <2>3 DEF Clean, Hushed
<1>8. CASE Phantom
  <2>1. pc' = pc /\ latch.wipe /\ latch'.wipe /\ latch'.frame = latch.frame
    BY <1>8 DEF Phantom, Latch
  <2> QED BY <2>1 DEF Clean
<1>9. CASE StalePin
  <2>1. /\ pc' = pc /\ latch'.wipe = latch.wipe /\ latch'.frame = latch.frame
        /\ latch'.flag = latch.flag /\ latch'.fault = latch.fault
    BY <1>9 DEF StalePin, Latch
  <2> QED BY <2>1 DEF Clean
<1>10. CASE Frame
  <2>1. pc' = pc /\ latch'.wipe = latch.wipe /\ latch'.frame = "waiting"
    BY <1>10 DEF Frame, Latch
  <2> QED BY <2>1 DEF Clean
<1> QED BY <1>1, <1>2, <1>4, <1>6, <1>7, <1>8, <1>9, <1>10 DEF Next, Loop, Waking, Looking

(* With clean latches the device is woken only by a frame, or by a low pin *)
(* when the latches did not answer.                                        *)
LEMMA WakesReal ==
  ASSUME DevInv, Clean, [Next]_vars, ~dev.awake, pc # "boot", dev'.awake
  PROVE  latch.frame = "waiting" \/ (pc = "no answer" /\ latch.low)
<1>1. CASE Waking
  BY <1>1, WakingKeeps DEF Cause, Clean, Hushed
<1>2. CASE dev'.awake = dev.awake
  BY <1>2
<1>3. CASE PollBoot \/ FallAsleep
  BY <1>3, FallKeeps DEF PollBoot
<1>4. CASE \/ PollBegin \/ Announce \/ FlushPending \/ StayAwake \/ GoSleep
           \/ DriverPoll \/ LifecyclePoll \/ Tick \/ Use
  BY <1>2, <1>4, BeginKeeps, AnnounceKeeps, FlushKeeps, StayKeeps, SleepKeeps, DriverKeeps,
     LifecycleKeeps, TickKeeps, UseKeeps
<1>5. CASE \/ Looking \/ Configure \/ SleepRefused \/ Leave
           \/ Phantom \/ StalePin \/ Frame \/ PowerUp \/ UNCHANGED vars
  BY <1>2, <1>5, SameKeeps
<1> QED BY <1>1, <1>3, <1>4, <1>5 DEF Next, Loop, Waking, Looking

(***************************************************************************)
(* On a bench supply only a frame that came after the wipe and was not     *)
(* swallowed wakes the device, or a low pin when a read of the latches was *)
(* lost (OnlyFramesWake).                                                  *)
(***************************************************************************)
THEOREM FramesOnlyWake == Spec => OnlyFramesWake
<1>1. Init => TypeInv /\ Clean
  BY InitDev, FilterConstants DEF Init, TypeInv, ConfigInv, Attempt, FilterInv, Chip, Cfg, Steps,
     Labels, Latch, Fates, Quiet, Clean, Hushed
<1>2. TypeInv /\ Clean /\ [Next]_vars => TypeInv' /\ Clean'
  BY StepKeepsConfig, StepKeepsDev, LabelTyped, LatchTyped, HostTyped, StepKeepsClean DEF TypeInv
<1>3. TypeInv /\ Clean /\ [Next]_vars
        => [~dev.awake /\ pc # "boot" /\ dev'.awake
              => latch.frame = "waiting" \/ (pc = "no answer" /\ latch.low)]_vars
  BY WakesReal DEF TypeInv
<1> QED BY <1>1, <1>2, <1>3, PTL DEF Spec, OnlyFramesWake

=============================================================================

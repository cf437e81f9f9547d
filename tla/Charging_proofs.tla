-------------------------- MODULE Charging_proofs ---------------------------
(***************************************************************************)
(* Proofs about Charging for any set of power levels, any width of the     *)
(* charge counter and any number of flash faults.                          *)
(***************************************************************************)
EXTENDS Charging, TLAPS

(* The counter stays within its width.                                     *)
LEMMA CountedType ==
  ASSUME NEW n \in 0 .. CountMod - 1
  PROVE  Counted(n) \in 0 .. CountMod - 1
<1>1. CountMod \in Nat /\ CountMod > 1
  BY StoreAssumption
<1>2. (n + 1) % CountMod \in 0 .. CountMod - 1
  BY <1>1
<1> QED BY <1>2 DEF Counted

LEMMA ErasedType == Erased \in Page
  BY StoreAssumption DEF Erased, Page

LEMMA LoadedType ==
  ASSUME NEW p \in Page
  PROVE  Loaded(p) \in Ram
  BY StoreAssumption, ChargingAssumption DEF Page, Loaded, Ram

LEMMA ChipType ==
  /\ Off \in Chip /\ Booting \in Chip
  /\ \A l \in Levels : Ready(l) \in Chip
  /\ \A b \in BOOLEAN, c \in Chip : Supply(b, c) \in Chip
  /\ \A l \in Levels, c \in Chip : Told(l, c) \in Chip
  /\ \A c \in Chip : Started(c) \in Chip
  BY ChargingAssumption DEF Off, Booting, Ready, Supply, Told, Started, Chip

(* The configuration poll returns a state of the device and of the chip.   *)
LEMMA ConfigPollType ==
  ASSUME NEW r \in Ram, NEW c \in Chip, pb2 \in BOOLEAN, busy \in BOOLEAN
  PROVE  ConfigPoll(r, c).r \in Ram /\ ConfigPoll(r, c).c \in Chip
<1>1. Told(r.level, c) \in Chip
  BY ChipType DEF Ram
<1> QED BY <1>1 DEF ConfigPoll, Ram

(* The reset of the transfer's state is a state of the device and of the   *)
(* chip.                                                                   *)
LEMMA IapResetType ==
  ASSUME TypeOK, IapReset
  PROVE  /\ ram' \in Ram /\ chip' \in Chip
         /\ iap' \in BOOLEAN /\ busy' \in BOOLEAN /\ failing' \in BOOLEAN
         /\ blind' \in BOOLEAN
<1>1. ram' \in Ram
  BY DEF TypeOK, IapReset, Elapsed, Ram
<1>2. chip' \in Chip
  BY ChipType, ChargingAssumption DEF TypeOK, IapReset
<1> QED BY <1>1, <1>2 DEF TypeOK, IapReset

(* A word programmed keeps the sector a sector.                            *)
LEMMA ProgramType ==
  ASSUME TypeOK, ProgramWord
  PROVE  page' \in Page /\ job' \in Job
<1> USE DEF TypeOK, StoreType
<1>1. CASE job.word = 1
  BY <1>1 DEF ProgramWord, AfterWord, Words, Page, Job
<1>2. CASE job.word = 2
  BY <1>2 DEF ProgramWord, AfterWord, Words, Page, Job
<1>3. CASE job.word = 3
  BY <1>3 DEF ProgramWord, AfterWord, Words, Page, Job
<1>4. CASE job.word = 4
  BY <1>4 DEF ProgramWord, AfterWord, Words, Page, Job
<1> QED BY <1>1, <1>2, <1>3, <1>4 DEF Job

-----------------------------------------------------------------------------
LEMMA InitType == Init => TypeOK
<1> SUFFICES ASSUME Init PROVE TypeOK
  OBVIOUS
<1>1. page \in Page
  BY DEF Init, Pages
<1>2. ram \in Ram
  BY <1>1, LoadedType DEF Init
<1>3. NoJob \in Job
  BY ErasedType DEF NoJob, Job
<1>4. may \in [enabled : SUBSET BOOLEAN, level : SUBSET Levels,
              count : SUBSET (0 .. CountMod - 1)]
  BY <1>2 DEF Init, Ram
<1>5. StoreType
  BY <1>1, <1>3, StoreAssumption DEF Init, StoreType
<1>6. after \in [set : {"none", "enable", "level", "count"}, value : Levels]
  BY ChargingAssumption DEF Init, NoAfter
<1> QED BY <1>2, <1>4, <1>5, <1>6, ChipType DEF Init, TypeOK

(* The requests of the host that write nothing to the page, and the turns  *)
(* of the loop without a write.                                            *)
LEMMA QuietType ==
  ASSUME TypeOK,
         \/ ProtocolPoll \/ SessionExpires \/ NoRequest
         \/ \E s \in {"extended", "programming"} : OpenSession(s)
         \/ LeaveSession \/ Unlock \/ BeginTransfer \/ EndTransfer
         \/ NoReport \/ (\E hall \in BOOLEAN : ChargePoll(hall)) \/ TimePasses
  PROVE  TypeOK'
<1> USE DEF TypeOK, StoreType, store, link
<1>1. CASE ProtocolPoll
  BY <1>1, ConfigPollType DEF ProtocolPoll
<1>2. CASE SessionExpires
  BY <1>2, IapResetType DEF SessionExpires, ResetSession
<1>3. CASE NoRequest
  BY <1>3 DEF NoRequest
<1>4. CASE \E s \in {"extended", "programming"} : OpenSession(s)
  BY <1>4, ChipType DEF OpenSession
<1>5. CASE LeaveSession
  BY <1>5, IapResetType DEF LeaveSession, ResetSession
<1>6. CASE Unlock
  BY <1>6 DEF Unlock
<1>7. CASE BeginTransfer
  BY <1>7, ChipType, ChargingAssumption DEF BeginTransfer
<1>8. CASE EndTransfer
  BY <1>8, IapResetType DEF EndTransfer
<1>9. CASE NoReport
  BY <1>9 DEF NoReport, LateRefusal
<1>10. CASE \E hall \in BOOLEAN : ChargePoll(hall)
  BY <1>10, ChipType DEF ChargePoll, Ram
<1>11. CASE TimePasses
  BY <1>11, ChipType DEF TimePasses, Elapsed, Ram
<1> QED BY <1>1, <1>2, <1>3, <1>4, <1>5, <1>6, <1>7, <1>8, <1>9, <1>10, <1>11

(* The steps that begin a page write, carry it on or answer it.            *)
LEMMA WriteType ==
  ASSUME TypeOK,
         \/ \E v \in BOOLEAN : WriteEnable(v)
         \/ \E l \in HostLevels : WriteLevel(l)
         \/ \E trig, fault \in BOOLEAN : Report(trig, fault)
         \/ WriteReturns
  PROVE  TypeOK'
<1> USE DEF TypeOK, StoreType, link
<1>1. CASE \E v \in BOOLEAN : WriteEnable(v)
  BY <1>1, ChargingAssumption DEF WriteEnable, Overlay, Job, Page, Ram
<1>2. CASE \E l \in HostLevels : WriteLevel(l)
  BY <1>2, ChargingAssumption DEF WriteLevel, Overlay, Job, Page, Ram
<1>3. CASE \E trig, fault \in BOOLEAN : Report(trig, fault)
  <2> PICK trig \in BOOLEAN, fault \in BOOLEAN : Report(trig, fault)
    BY <1>3
  <2> DEFINE rising == trig /\ ~ram.trig
             n == IF rising THEN Counted(ram.count) ELSE ram.count
  <2>1. n \in 0 .. CountMod - 1
    BY CountedType DEF Ram
  <2>2. ram' = [ram EXCEPT !.trig = trig, !.fault = @ \/ fault, !.count = n]
    BY DEF Report
  <2>3. ram' \in Ram
    BY <2>1, <2>2 DEF Ram
  <2>4. may' = [may EXCEPT !.count = @ \union {n}]
    BY DEF Report
  <2>5. may' \in [enabled : SUBSET BOOLEAN, level : SUBSET Levels,
                 count : SUBSET (0 .. CountMod - 1)]
    BY <2>1, <2>4
  <2>6. job' \in Job /\ turn' \in {"protocol", "can", "uart", "charge"}
        /\ after' \in [set : {"none", "enable", "level", "count"}, value : Levels]
    <3>1. [page EXCEPT !.count = n] \in Page
      BY <2>1 DEF Page
    <3>2. CASE rising
      <4>1. job' = [stage |-> "erase", word |-> 1,
                    image |-> [page EXCEPT !.count = n]]
            /\ after' = [set |-> "count", value |-> FactoryLevel] /\ turn' = turn
        BY <3>2 DEF Report, Overlay
      <4>2. job' \in Job
        BY ONLY <4>1, <3>1 DEF Job
      <4> QED BY <4>1, <4>2, ChargingAssumption
    <3>3. CASE ~rising
      BY <3>3 DEF Report
    <3> QED BY <3>2, <3>3
  <2> QED BY <2>3, <2>5, <2>6 DEF Report, LateRefusal
<1>4. CASE WriteReturns
  <2>1. job' \in Job
    BY <1>4, ErasedType DEF WriteReturns, NoJob, Job
  <2>2. after' \in [set : {"none", "enable", "level", "count"}, value : Levels]
    BY <1>4, ChargingAssumption DEF WriteReturns, NoAfter
  <2>3. /\ ram' \in Ram /\ chip' \in Chip /\ pb2' \in BOOLEAN /\ blind' \in BOOLEAN
        /\ may' \in [enabled : SUBSET BOOLEAN, level : SUBSET Levels,
                    count : SUBSET (0 .. CountMod - 1)]
    <3>1. CASE EnableAnswered
      BY <3>1, ChipType DEF EnableAnswered, Ram
    <3>2. CASE LevelAnswered
      BY <3>2, ChipType DEF LevelAnswered, Ram
    <3>3. CASE CountStored
      BY <3>3 DEF CountStored, Ram
    <3> QED BY <1>4, <3>1, <3>2, <3>3 DEF WriteReturns
  <2> QED BY <1>4, <2>1, <2>2, <2>3 DEF WriteReturns
<1> QED BY <1>1, <1>2, <1>3, <1>4

LEMMA StoreStepType ==
  ASSUME TypeOK, FlashStep
  PROVE  TypeOK'
<1> USE DEF TypeOK, StoreType, FlashStep, cvars, link
<1>1. CASE EraseSector
  BY <1>1, ErasedType DEF EraseSector, Job
<1>2. CASE ProgramWord
  BY <1>2, ProgramType DEF ProgramWord
<1>3. CASE FlashFails
  BY <1>3, ErasedType, StoreAssumption DEF FlashFails, Job
<1> QED BY <1>1, <1>2, <1>3 DEF StoreStep

LEMMA CutType ==
  ASSUME TypeOK, PowerCut
  PROVE  TypeOK'
<1> USE DEF TypeOK, StoreType
<1>1. page' \in Page
  BY ErasedType DEF PowerCut
<1>2. ram' \in Ram
  BY <1>1, LoadedType DEF PowerCut, PowerUp, Ram
<1>3. job' \in Job
  BY ErasedType DEF PowerCut, NoJob, Job
<1>4. may' \in [enabled : SUBSET BOOLEAN, level : SUBSET Levels,
               count : SUBSET (0 .. CountMod - 1)]
  BY ErasedType, ChargingAssumption DEF PowerCut, Torn, Page
<1> QED BY <1>1, <1>2, <1>3, <1>4, ChipType, ChargingAssumption
        DEF PowerCut, PowerUp, NoAfter

(* Every reachable state is well typed: the settings stay settings and the *)
(* counter keeps within its width.                                         *)
THEOREM ChargeTypeCorrect == Spec => []TypeOK
<1>1. TypeOK /\ [Next]_vars => TypeOK'
  <2> SUFFICES ASSUME TypeOK, [Next]_vars PROVE TypeOK'
    OBVIOUS
  <2>1. CASE UNCHANGED vars
    BY <2>1 DEF vars, cvars, link, store, TypeOK, StoreType
  <2>2. CASE Next
    BY <2>2, QuietType, WriteType, StoreStepType, CutType DEF Next, Loop, Host
  <2> QED BY <2>1, <2>2
<1> QED BY <1>1, InitType, PTL DEF Spec

-----------------------------------------------------------------------------
(* Nothing is written while the steps of QuietType are taken: the page and *)
(* the settings stay as they are.                                          *)
Quiet ==
  /\ UNCHANGED <<page, job, faults, after, may>>
  /\ ram'.enabled = ram.enabled /\ ram'.gate = ram.gate
  /\ ram'.level = ram.level /\ ram'.count = ram.count

LEMMA QuietSteps ==
  ASSUME TypeOK,
         \/ ProtocolPoll \/ SessionExpires \/ NoRequest
         \/ \E s \in {"extended", "programming"} : OpenSession(s)
         \/ LeaveSession \/ Unlock \/ BeginTransfer \/ EndTransfer
         \/ NoReport \/ (\E hall \in BOOLEAN : ChargePoll(hall)) \/ TimePasses
  PROVE  Quiet
<1> USE DEF TypeOK, Ram, Quiet, store
<1>1. CASE ProtocolPoll
  BY <1>1 DEF ProtocolPoll, ConfigPoll
<1>2. CASE SessionExpires
  BY <1>2 DEF SessionExpires, ResetSession, IapReset, Elapsed
<1>3. CASE NoRequest
  BY <1>3 DEF NoRequest
<1>4. CASE \E s \in {"extended", "programming"} : OpenSession(s)
  BY <1>4 DEF OpenSession
<1>5. CASE LeaveSession
  BY <1>5 DEF LeaveSession, ResetSession, IapReset, Elapsed
<1>6. CASE Unlock
  BY <1>6 DEF Unlock
<1>7. CASE BeginTransfer
  BY <1>7 DEF BeginTransfer
<1>8. CASE EndTransfer
  BY <1>8 DEF EndTransfer, IapReset, Elapsed
<1>9. CASE NoReport
  BY <1>9 DEF NoReport
<1>10. CASE \E hall \in BOOLEAN : ChargePoll(hall)
  BY <1>10 DEF ChargePoll
<1>11. CASE TimePasses
  BY <1>11 DEF TimePasses, Elapsed
<1> QED BY <1>1, <1>2, <1>3, <1>4, <1>5, <1>6, <1>7, <1>8, <1>9, <1>10, <1>11

-----------------------------------------------------------------------------
LEMMA InitEnable == Init => EnableInv
<1> SUFFICES ASSUME Init PROVE EnableInv
  OBVIOUS
<1>1. job.stage = "none" /\ job.image.enable = "blank"
  BY DEF Init, NoJob, Erased
<1>2. page \in Page /\ ram \in Ram
  BY LoadedType DEF Init, Pages
<1>3. ram.enabled = (page.magic /\ page.enable = "on") /\ ram.gate = ram.enabled
  BY DEF Init, Loaded
<1>4. page.enable = "on" => page.magic
  BY DEF Init, Pages, Erased
<1>5. may.enabled = {ram.enabled}
  BY DEF Init
<1> QED BY ONLY <1>1, <1>2, <1>3, <1>4, <1>5 DEF EnableInv, Idle, Written, Page, Ram

(* One step of a page write never turns a disable into an enable.          *)
LEMMA StoreEnable ==
  ASSUME TypeOK, EnableInv, FlashStep
  PROVE  EnableInv'
<1> USE DEF TypeOK, StoreType
<1>0. ram' = ram /\ may' = may /\ after' = after
  BY DEF FlashStep, cvars
<1>1. CASE EraseSector
  <2>1. page'.enable = "blank" /\ faults' = faults /\ job.stage = "erase"
    BY <1>1 DEF EraseSector, Erased
  <2>2. job'.stage = "program" /\ job'.word = job.word /\ job'.image = job.image
    BY <1>1 DEF EraseSector, Job
  <2>3. faults = 0 => job'.word # 4
    BY <2>1, <2>2 DEF EnableInv
  <2> QED BY ONLY EnableInv, <1>0, <2>1, <2>2, <2>3 DEF EnableInv, Idle, Written
<1>2. CASE ProgramWord
  <2>1. job.stage = "program" /\ faults' = faults /\ job'.image = job.image
        /\ job.word \in 1 .. 4
    BY <1>2 DEF ProgramWord, AfterWord, Job
  <2>2. CASE job.word \in {1, 2}
    <3>1. page'.enable = page.enable
      BY <1>2, <2>2 DEF ProgramWord, Words, Page
    <3>2. job'.stage = "program" /\ job'.word = job.word + 1
      BY <1>2, <2>1, <2>2 DEF ProgramWord, AfterWord, Job
    <3>3. job'.word # 4
      BY <2>2, <3>2
    <3> QED BY ONLY EnableInv, <1>0, <2>1, <3>1, <3>2, <3>3 DEF EnableInv, Idle, Written
  <2>3. CASE job.word = 3
    <3>1. page'.enable = job.image.enable
      BY <1>2, <2>3 DEF ProgramWord, Words, Page
    <3>2. job'.stage = "program" /\ job'.word = 4
      BY <1>2, <2>1, <2>3 DEF ProgramWord, AfterWord, Job
    <3> QED BY ONLY EnableInv, <1>0, <2>1, <3>1, <3>2 DEF EnableInv, Idle, Written
  <2>4. CASE job.word = 4
    <3>1. page'.enable = page.enable
      BY <1>2, <2>4 DEF ProgramWord, Words, Page
    <3>2. job'.stage = "done"
      BY <1>2, <2>1, <2>4 DEF ProgramWord, AfterWord, Job
    <3> QED BY ONLY EnableInv, <1>0, <2>1, <2>4, <3>1, <3>2 DEF EnableInv, Idle, Written
  <2> QED BY <2>1, <2>2, <2>3, <2>4
<1>3. CASE FlashFails
  BY <1>3, StoreAssumption DEF FlashFails, EnableInv
<1> QED BY <1>1, <1>2, <1>3 DEF FlashStep, StoreStep

LEMMA NextEnable ==
  ASSUME TypeOK, EnableInv, [Next]_vars
  PROVE  EnableInv'
<1> USE DEF EnableInv, Idle, Written
<1>1. CASE Quiet
  BY <1>1 DEF Quiet
<1>2. CASE FlashStep
  BY <1>2, StoreEnable
<1>3. ASSUME NEW v \in BOOLEAN, WriteEnable(v) PROVE EnableInv'
  BY <1>3 DEF WriteEnable, Overlay, Serving, TypeOK, StoreType, Ram, Page
<1>4. ASSUME NEW l \in HostLevels, WriteLevel(l) PROVE EnableInv'
  BY <1>4 DEF WriteLevel, Overlay, Serving, TypeOK, StoreType, Ram, Page
<1>5. ASSUME NEW trig \in BOOLEAN, NEW fault \in BOOLEAN, Report(trig, fault)
      PROVE  EnableInv'
  <2>1. ram'.enabled = ram.enabled /\ ram'.gate = ram.gate
        /\ may'.enabled = may.enabled /\ page' = page /\ faults' = faults
    BY <1>5 DEF Report, TypeOK, Ram
  <2>2. \/ job' = job /\ after' = after
        \/ /\ job'.image.enable = page.enable
           /\ job'.stage = "erase" /\ job'.word = 1 /\ after'.set = "count"
    BY <1>5 DEF Report, Overlay, TypeOK, StoreType, Page
  <2> QED BY ONLY EnableInv, <2>1, <2>2 DEF EnableInv, Idle, Written
<1>6. CASE WriteReturns
  <2>1. page' = page /\ faults' = faults /\ job' = NoJob /\ after'.set = "none"
    BY <1>6 DEF WriteReturns, NoAfter
  <2>2. job'.image.enable = "blank" /\ job'.stage = "none"
    BY <2>1 DEF NoJob, Erased
  <2>3. CASE EnableAnswered
    BY <1>6, <2>1, <2>2, <2>3
       DEF WriteReturns, EnableAnswered, TypeOK, StoreType, Ram
  <2>4. CASE LevelAnswered
    BY <2>1, <2>2, <2>4 DEF LevelAnswered, TypeOK
  <2>5. CASE CountStored
    BY <2>1, <2>2, <2>5 DEF CountStored, TypeOK
  <2> QED BY <1>6, <2>3, <2>4, <2>5 DEF WriteReturns
<1>7. CASE PowerCut
  <2>1. page'.enable = page.enable \/ page'.enable = "blank"
    BY <1>7 DEF PowerCut, Erased
  <2>2. job'.stage = "none" /\ job'.image.enable = "blank"
    BY <1>7 DEF PowerCut, NoJob, Erased
  <2>3. /\ faults' = faults /\ after'.set = "none"
        /\ TRUE \in may.enabled => TRUE \in may'.enabled
    BY <1>7 DEF PowerCut, PowerUp, NoAfter, Torn
  <2>4. ram'.enabled \/ ram'.gate => page'.enable = "on"
    BY <1>7 DEF PowerCut, PowerUp, Loaded
  <2> QED BY ONLY EnableInv, <2>1, <2>2, <2>3, <2>4 DEF EnableInv, Idle, Written
<1>8. CASE UNCHANGED vars
  BY <1>8 DEF vars, cvars, store
<1> QED BY <1>1, <1>2, <1>3, <1>4, <1>5, <1>6, <1>7, <1>8, QuietSteps
        DEF Next, Loop, Host

(* A host that has had its disable answered finds charging disabled until  *)
(* somebody asks to enable it, whatever cuts of the supply tear whatever   *)
(* page writes.                                                            *)
THEOREM DisableIsKept == Spec => []DisableSticks
<1>1. EnableInv => DisableSticks
  BY DEF EnableInv, DisableSticks
<1> QED BY <1>1, InitType, InitEnable, NextEnable, ChargeTypeCorrect, PTL DEF Spec

-----------------------------------------------------------------------------
(* What is loaded at power-up is what the page holds, or the values of a   *)
(* blank page.                                                             *)
LEMMA InitDurable == Init => DurableInv
<1> SUFFICES ASSUME Init PROVE DurableInv
  OBVIOUS
<1>1. job.stage = "none"
  BY DEF Init, NoJob
<1>2. page \in Page
  BY DEF Init, Pages
<1>3. ram = Loaded(page) /\ ram \in Ram
  BY <1>2, LoadedType DEF Init
<1>4. may.enabled = {ram.enabled} /\ may.level = {ram.level}
      /\ may.count = {ram.count}
  BY DEF Init
<1>5. page.magic =>
        /\ ram.enabled = (page.enable = "on") /\ ram.count = page.count
        /\ ram.level = IF page.level # Blank THEN page.level ELSE DefaultLevel
  BY <1>2, <1>3 DEF Loaded
<1> QED BY ONLY <1>1, <1>4, <1>5 DEF DurableInv, Kept, Holds, Idle, Written

LEMMA StoreDurable ==
  ASSUME TypeOK, EnableInv, DurableInv, FlashStep
  PROVE  DurableInv'
<1> USE DEF TypeOK, StoreType
<1>0. ram' = ram /\ may' = may /\ after' = after
  BY DEF FlashStep, cvars
<1>1. CASE EraseSector
  <2>1. faults' = faults /\ job.stage = "erase" /\ page' = Erased
    BY <1>1 DEF EraseSector
  <2>2. job'.stage = "program" /\ job'.word = job.word /\ job'.image = job.image
    BY <1>1 DEF EraseSector, Job
  <2>3. faults = 0 => ~(job'.word > 1) /\ ~(job'.word > 2) /\ ~(job'.word > 3)
    BY <2>1, <2>2 DEF EnableInv
  <2> QED BY ONLY DurableInv, <1>0, <2>1, <2>2, <2>3
          DEF DurableInv, Kept, Provisioned, Holds, Confirms, Programmed, Idle, Written
<1>2. CASE ProgramWord
  <2>1. job.stage = "program" /\ faults' = faults /\ job'.image = job.image
    BY <1>2 DEF ProgramWord, AfterWord, Job
  <2>2. job.word \in 1 .. 4 /\ page \in Page /\ job.image \in Page
    BY DEF Job
  <2>3. faults = 0 => Holds(job.image) /\ Confirms(job.image) /\ Programmed
    BY <2>1 DEF DurableInv, Idle
  <2>4. faults = 0 =>
          /\ job'.stage = "program" => Programmed'
          /\ job'.stage = "done" => page' = job'.image
    <3>1. CASE job.word = 1
      <4>1. /\ page'.magic = job.image.magic /\ page'.level = page.level
            /\ page'.enable = page.enable /\ page'.count = page.count
            /\ job'.stage = "program" /\ job'.word = 2
        BY <1>2, <2>1, <2>2, <3>1 DEF ProgramWord, AfterWord, Words, Page, Job
      <4> QED BY <2>1, <2>3, <3>1, <4>1 DEF Programmed
    <3>2. CASE job.word = 2
      <4>1. /\ page'.magic = page.magic /\ page'.level = job.image.level
            /\ page'.enable = page.enable /\ page'.count = page.count
            /\ job'.stage = "program" /\ job'.word = 3
        BY <1>2, <2>1, <2>2, <3>2 DEF ProgramWord, AfterWord, Words, Page, Job
      <4> QED BY <2>1, <2>3, <3>2, <4>1 DEF Programmed
    <3>3. CASE job.word = 3
      <4>1. /\ page'.magic = page.magic /\ page'.level = page.level
            /\ page'.enable = job.image.enable /\ page'.count = page.count
            /\ job'.stage = "program" /\ job'.word = 4
        BY <1>2, <2>1, <2>2, <3>3 DEF ProgramWord, AfterWord, Words, Page, Job
      <4> QED BY <2>1, <2>3, <3>3, <4>1 DEF Programmed
    <3>4. CASE job.word = 4
      <4>1. page'.magic = page.magic /\ page'.level = page.level
            /\ page'.enable = page.enable /\ page'.count = job.image.count
        BY <1>2, <2>1, <2>2, <3>4 DEF ProgramWord, Words, Page
      <4>2. page' \in Page /\ job'.stage = "done"
        BY <1>2, <2>1, <3>4, ProgramType DEF ProgramWord, AfterWord, Job
      <4>3. Programmed => page' = job'.image
        BY <2>1, <2>2, <3>4, <4>1, <4>2 DEF Programmed, Page
      <4> QED BY <2>3, <4>2, <4>3
    <3> QED BY <2>2, <3>1, <3>2, <3>3, <3>4
  <2>5. job'.stage \in {"program", "done"}
    BY <1>2, <2>1 DEF ProgramWord, AfterWord, Job
  <2> QED BY ONLY DurableInv, <1>0, <2>1, <2>3, <2>4, <2>5
          DEF DurableInv, Kept, Provisioned, Holds, Confirms, Idle, Written
<1>3. CASE FlashFails
  BY <1>3, StoreAssumption DEF FlashFails, DurableInv
<1> QED BY <1>1, <1>2, <1>3 DEF FlashStep, StoreStep

(* A request or a trigger that begins a write: the settings of the old     *)
(* sector are still permitted, and the new sector holds what the answer    *)
(* will confirm.                                                           *)
LEMMA BeginDurable ==
  ASSUME TypeOK, DurableInv,
         \/ \E v \in BOOLEAN : WriteEnable(v)
         \/ \E l \in HostLevels : WriteLevel(l)
         \/ \E trig, fault \in BOOLEAN : Report(trig, fault)
  PROVE  DurableInv'
<1>0. page \in Page /\ ram \in Ram
  BY DEF TypeOK, StoreType
<1>1. may \in [enabled : SUBSET BOOLEAN, level : SUBSET Levels,
              count : SUBSET (0 .. CountMod - 1)]
  BY DEF TypeOK
<1>2. ASSUME NEW v \in BOOLEAN, WriteEnable(v) PROVE DurableInv'
  <2>1. page' = page /\ faults' = faults /\ job.stage = "none"
    BY <1>2 DEF WriteEnable, Serving, Idle
  <2>2. job'.stage = "erase" /\ job'.image = [page EXCEPT !.enable = IF v THEN "on" ELSE "off"]
    BY <1>2 DEF WriteEnable, Overlay
  <2>3. /\ job'.image.magic = page.magic /\ job'.image.level = page.level
        /\ job'.image.count = page.count /\ (job'.image.enable = "on") = v
    BY <1>0, <2>2 DEF Page
  <2>4. /\ ram'.enabled = v /\ ram'.level = ram.level /\ ram'.count = ram.count
        /\ after'.set = "enable"
    BY <1>0, <1>2 DEF WriteEnable, Ram
  <2>5. /\ may'.enabled = may.enabled \union {v} /\ may'.level = may.level
        /\ may'.count = may.count
    BY <1>1, <1>2 DEF WriteEnable
  <2> QED BY ONLY DurableInv, <2>1, <2>2, <2>3, <2>4, <2>5
          DEF DurableInv, Kept, Provisioned, Holds, Confirms, Idle, Written
<1>3. ASSUME NEW l \in HostLevels, WriteLevel(l) PROVE DurableInv'
  <2>0. l \in Levels /\ l # Blank
    BY StoreAssumption, ChargingAssumption
  <2>1. page' = page /\ faults' = faults /\ job.stage = "none"
    BY <1>3 DEF WriteLevel, Serving, Idle
  <2>2. job'.stage = "erase" /\ job'.image = [page EXCEPT !.level = l]
    BY <1>3 DEF WriteLevel, Overlay
  <2>3. /\ job'.image.magic = page.magic /\ job'.image.level = l
        /\ job'.image.count = page.count /\ job'.image.enable = page.enable
    BY <1>0, <2>2 DEF Page
  <2>4. /\ ram'.enabled = ram.enabled /\ ram'.level = l /\ ram'.count = ram.count
        /\ after'.set = "level" /\ after'.value = l
    BY <1>0, <1>3 DEF WriteLevel, Ram
  <2>5. /\ may'.enabled = may.enabled /\ may'.level = may.level \union {l}
        /\ may'.count = may.count
    BY <1>1, <1>3 DEF WriteLevel
  <2> QED BY ONLY DurableInv, <2>0, <2>1, <2>2, <2>3, <2>4, <2>5
          DEF DurableInv, Kept, Provisioned, Holds, Confirms, Idle, Written
<1>4. ASSUME NEW trig \in BOOLEAN, NEW fault \in BOOLEAN, Report(trig, fault)
      PROVE  DurableInv'
  <2> DEFINE rising == trig /\ ~ram.trig
             n == IF rising THEN Counted(ram.count) ELSE ram.count
  <2>1. page' = page /\ faults' = faults /\ job.stage = "none"
    BY <1>4 DEF Report, Idle
  <2>2. ram' = [ram EXCEPT !.trig = trig, !.fault = @ \/ fault, !.count = n]
        /\ may' = [may EXCEPT !.count = @ \union {n}]
    BY <1>4 DEF Report
  <2>3. /\ ram'.enabled = ram.enabled /\ ram'.level = ram.level /\ ram'.count = n
        /\ may'.enabled = may.enabled /\ may'.level = may.level
        /\ may'.count = may.count \union {n}
    <3> HIDE DEF n
    <3> QED BY <1>0, <1>1, <2>2 DEF Ram
  <2>4. CASE rising
    <3>0. job' = [stage |-> "erase", word |-> 1,
                  image |-> [page EXCEPT !.count = n]]
          /\ after' = [set |-> "count", value |-> FactoryLevel]
      BY <1>4, <2>4 DEF Report, Overlay
    <3> HIDE DEF n
    <3>1. job'.stage = "erase" /\ job'.image = [page EXCEPT !.count = n]
          /\ after'.set = "count"
      BY <3>0
    <3>2. /\ job'.image.magic = page.magic /\ job'.image.level = page.level
          /\ job'.image.count = n /\ job'.image.enable = page.enable
      BY <1>0, <3>1 DEF Page
    <3> QED BY ONLY DurableInv, <2>1, <2>3, <3>1, <3>2
            DEF DurableInv, Kept, Provisioned, Holds, Confirms, Idle, Written
  <2>5. CASE ~rising
    <3>1. job' = job
      BY <1>4, <2>5 DEF Report
    <3> HIDE DEF n
    <3> QED BY ONLY DurableInv, <2>1, <2>3, <3>1
            DEF DurableInv, Kept, Provisioned, Holds, Confirms, Idle, Written
  <2> QED BY <2>4, <2>5
<1> QED BY <1>2, <1>3, <1>4

(* An answer confirms what the page holds.                                 *)
LEMMA AnswerDurable ==
  ASSUME TypeOK, DurableInv, WriteReturns
  PROVE  DurableInv'
<1>0. page \in Page /\ ram \in Ram
      /\ after \in [set : {"none", "enable", "level", "count"}, value : Levels]
      /\ may \in [enabled : SUBSET BOOLEAN, level : SUBSET Levels,
                  count : SUBSET (0 .. CountMod - 1)]
  BY DEF TypeOK, StoreType
<1>1. page' = page /\ faults' = faults /\ job.stage = "done"
      /\ job'.stage = "none"
  BY DEF WriteReturns, Written, NoJob
<1>2. faults = 0 => Holds(page) /\ Confirms(page) /\ page = job.image
  BY <1>1 DEF DurableInv, Idle, Written
<1>3. CASE EnableAnswered
  <2>1. /\ ram'.enabled = ram.enabled /\ ram'.level = ram.level
        /\ ram'.count = ram.count /\ after.set = "enable"
    BY <1>0, <1>3 DEF EnableAnswered, Ram
  <2>2. /\ may'.enabled = {ram.enabled} /\ may'.level = may.level
        /\ may'.count = may.count
    BY <1>0, <1>3 DEF EnableAnswered
  <2> QED BY ONLY DurableInv, <1>1, <1>2, <2>1, <2>2
          DEF DurableInv, Kept, Provisioned, Holds, Confirms, Idle, Written
<1>4. CASE LevelAnswered
  <2>1. ram' = ram /\ after.set = "level" /\ after.value # Blank
    BY <1>0, <1>4, StoreAssumption DEF LevelAnswered
  <2>2. /\ may'.enabled = may.enabled /\ may'.level = {after.value}
        /\ may'.count = may.count
    BY <1>0, <1>4 DEF LevelAnswered
  <2> QED BY ONLY DurableInv, <1>1, <1>2, <2>1, <2>2
          DEF DurableInv, Kept, Provisioned, Holds, Confirms, Idle, Written
<1>5. CASE CountStored
  <2>1. ram' = ram /\ after.set = "count"
    BY <1>5 DEF CountStored
  <2>2. /\ may'.enabled = may.enabled /\ may'.level = may.level
        /\ may'.count = {ram.count}
    BY <1>0, <1>5 DEF CountStored
  <2> QED BY ONLY DurableInv, <1>1, <1>2, <2>1, <2>2
          DEF DurableInv, Kept, Provisioned, Holds, Confirms, Idle, Written
<1> QED BY <1>3, <1>4, <1>5 DEF WriteReturns

(* A cut finds the old sector, the new one, or one with blank words.       *)
LEMMA CutDurable ==
  ASSUME TypeOK, DurableInv, PowerCut
  PROVE  DurableInv'
<1>0. /\ page \in Page /\ job.stage \in {"none", "erase", "program", "done"}
      /\ may \in [enabled : SUBSET BOOLEAN, level : SUBSET Levels,
                  count : SUBSET (0 .. CountMod - 1)]
  BY DEF TypeOK, StoreType, Job
<1>1. faults' = faults /\ job'.stage = "none"
  BY DEF PowerCut, NoJob
<1>2. /\ ram'.enabled = (page'.magic /\ page'.enable = "on")
      /\ ram'.level = IF page'.magic /\ page'.level # Blank THEN page'.level
                                                          ELSE DefaultLevel
      /\ ram'.count = IF page'.magic THEN page'.count ELSE 0
  BY DEF PowerCut, PowerUp, Loaded
<1>3. faults = 0 => Holds(page)'
  <2>1. CASE job.stage = "program"
    <3>1. page' = page
      BY <2>1 DEF PowerCut
    <3>2. /\ may'.enabled = may.enabled \union {FALSE}
          /\ may'.level = may.level \union {DefaultLevel}
          /\ may'.count = may.count \union {Erased.count}
      BY <2>1 DEF PowerCut, Torn
    <3>3. faults = 0 => Programmed /\ Holds(job.image)
      BY <2>1 DEF DurableInv, Idle
    <3> QED BY ONLY <3>1, <3>2, <3>3 DEF Holds, Programmed, Erased
  <2>2. CASE job.stage # "program" /\ page' = page
    <3>1. may' = may
      BY <2>2 DEF PowerCut
    <3>2. faults = 0 => Holds(page)
      BY <1>0, <2>2 DEF DurableInv, Idle, Written
    <3> QED BY ONLY <2>2, <3>1, <3>2 DEF Holds
  <2>3. CASE page' # page
    <3>1. ~page'.magic
      BY <2>3 DEF PowerCut, Erased
    <3> QED BY <3>1 DEF Holds
  <2> QED BY <2>1, <2>2, <2>3
<1>4. page' \in Page
  BY <1>0, ErasedType DEF PowerCut
<1>5. page'.magic \in BOOLEAN
  BY <1>4 DEF Page
<1> QED BY ONLY <1>1, <1>2, <1>3, <1>5
        DEF DurableInv, Kept, Provisioned, Holds, Idle, Written

(* The answered settings and the counter, or what a blank page stands for  *)
(* where the page has no validity word, are what the device works with:    *)
(* for any delivered page, any levels and any cuts between any two flash   *)
(* operations, until a flash operation fails.                              *)
THEOREM SettingsDurable == Spec => []Durable
<1>1. TypeOK /\ EnableInv /\ DurableInv /\ [Next]_vars => DurableInv'
  <2> SUFFICES ASSUME TypeOK, EnableInv, DurableInv, [Next]_vars PROVE DurableInv'
    OBVIOUS
  <2> USE DEF Kept, Provisioned, Holds, Confirms, Programmed, Idle, Written
  <2>1. CASE Quiet
    BY <2>1 DEF Quiet, DurableInv
  <2>2. CASE UNCHANGED vars
    BY <2>2 DEF vars, cvars, store, DurableInv
  <2> HIDE DEF Kept, Provisioned, Holds, Confirms, Programmed, Idle, Written
  <2> QED BY <2>1, <2>2, QuietSteps, StoreDurable, BeginDurable, AnswerDurable,
             CutDurable DEF Next, Loop, Host
<1>2. DurableInv => Durable
  <2>1. /\ Loaded(Erased).enabled = FALSE /\ Loaded(Erased).count = 0
        /\ Loaded(Erased).level = DefaultLevel
    BY DEF Loaded, Erased
  <2> QED BY <2>1 DEF DurableInv, Durable
<1> QED BY <1>1, <1>2, InitDurable, InitType, InitEnable, NextEnable, ChargeTypeCorrect,
           PTL DEF Spec

-----------------------------------------------------------------------------
(* The chip at the level of the device.  The step lemmas state, for each   *)
(* action, what it does to the fields LevelInv speaks of.                  *)
LEMMA InitLevel == Init => LevelInv
BY DEF Init, Loaded, Off, NoAfter, NoJob, Idle, LevelInv

LEMMA PollLevel ==
  ASSUME TypeOK, LevelInv, ProtocolPoll
  PROVE  LevelInv'
<1>1. /\ turn = "protocol" /\ turn' = "can" /\ Idle /\ Idle'
      /\ UNCHANGED <<iap, busy, pb2, after, session>> /\ blind' = (blind /\ pb2)
      /\ ram' = ConfigPoll(ram, chip).r /\ chip' = ConfigPoll(ram, chip).c
  BY DEF ProtocolPoll, store, link, Idle
<1>2. ram \in Ram /\ chip \in Chip /\ after.set # "level"
  BY <1>1 DEF TypeOK, LevelInv
<1>3. CASE ~pb2
  <2>1. ram' = [ram EXCEPT !.sent = FALSE, !.due = "none"] /\ chip' = chip
    BY <1>1, <1>3 DEF ConfigPoll
  <2>2. ~ram'.sent /\ ram'.due = "none"
    BY <1>2, <2>1 DEF Ram
  <2> QED BY <1>1, <1>2, <1>3, <2>1, <2>2 DEF LevelInv
<1>4. CASE pb2 /\ ~ram.sent /\ ram.due = "none"
  <2>1. ram' = [ram EXCEPT !.due = "waiting"] /\ chip' = chip
    BY <1>1, <1>4 DEF ConfigPoll
  <2>2. ~ram'.sent /\ ram'.due = "waiting"
    BY <1>2, <1>4, <2>1 DEF Ram
  <2> QED BY <1>1, <1>2, <1>4, <2>1, <2>2 DEF LevelInv
<1>5. CASE pb2 /\ ~ram.sent /\ ram.due = "reached" /\ ~busy
  <2>1. ram' = [ram EXCEPT !.sent = TRUE] /\ chip' = Told(ram.level, chip)
    BY <1>1, <1>5 DEF ConfigPoll
  <2>2. chip.on = "ready" \/ (blind /\ chip.on = "booting")
    BY <1>2, <1>5 DEF LevelInv, Chip
  <2>3. ram'.level = ram.level
    BY <1>2, <2>1 DEF Ram
  <2>4. CASE chip.on = "ready"
    <3>1. chip'.on = "ready" /\ chip'.level = ram.level
      BY <2>1, <2>4 DEF Told, Ready
    <3> QED BY <1>1, <1>2, <1>5, <2>3, <3>1 DEF LevelInv
  <2>5. CASE blind /\ chip.on = "booting"
    <3>1. chip' = chip
      BY <2>1, <2>5 DEF Told
    <3> QED BY <1>1, <1>2, <1>5, <2>3, <2>5, <3>1 DEF LevelInv
  <2> QED BY <2>2, <2>4, <2>5
<1>6. CASE /\ pb2 /\ (ram.sent \/ ram.due # "none")
           /\ ram.sent \/ ram.due # "reached" \/ busy
  <2>1. ram' = ram /\ chip' = chip
    BY <1>1, <1>6 DEF ConfigPoll
  <2> QED BY <1>1, <1>2, <1>6, <2>1 DEF LevelInv
<1> QED BY <1>3, <1>4, <1>5, <1>6

(* The state of the transfer is reset: a chip that restarts, or was        *)
(* booting, is up before it has to be told again.                          *)
LEMMA ResetLevel ==
  ASSUME TypeOK, LevelInv, turn = "can", turn' \in {"can", "uart"}, Idle, Idle',
         IapReset, UNCHANGED <<pb2, after>>
  PROVE  LevelInv'
<1>1. /\ ~ram'.sent /\ ram'.gate = ram.gate /\ ram'.level = ram.level
      /\ ram.due = "none" => ram'.due = "none"
  BY DEF TypeOK, Ram, IapReset, Elapsed
<1>2. after.set # "level" /\ ~iap' /\ ~blind'
  BY DEF LevelInv, IapReset
<1>3. CASE iap
  <2>1. chip'.on = "ready" /\ pb2
    BY <1>3 DEF IapReset, Ready, LevelInv
  <2> QED BY <1>1, <1>2, <2>1 DEF LevelInv
<1>4. CASE ~iap
  <2>1. chip'.on = IF chip.on = "booting" THEN "ready" ELSE chip.on
    BY <1>4 DEF IapReset, Started, TypeOK, Chip
  <2>2. chip'.on # "booting" /\ (pb2' <=> chip'.on # "off")
    BY <2>1 DEF LevelInv
  <2> QED BY <1>1, <1>2, <2>2 DEF LevelInv
<1> QED BY <1>3, <1>4

(* A session opened while the chip is supplied, or is not.                 *)
LEMMA SessionLevel ==
  ASSUME TypeOK, LevelInv,
         NEW s \in {"extended", "programming"}, OpenSession(s)
  PROVE  LevelInv'
<1>1. /\ turn = "can" /\ turn' = "uart" /\ UNCHANGED <<ram, iap, busy, after, job>>
      /\ pb2' = (pb2 /\ s # "programming") /\ session' = s
      /\ chip' = IF s = "programming" THEN Off ELSE chip
      /\ blind' = (blind \/ (s = "programming" /\ chip.on # "off"))
  BY DEF OpenSession, Serving, store, link
<1>2. CASE s = "programming"
  <2>1. ~pb2' /\ chip'.on = "off"
    BY <1>1, <1>2 DEF Off
  <2>2. ~blind' => ~pb2 /\ ~blind
    BY <1>1, <1>2 DEF LevelInv
  <2> QED BY <1>1, <1>2, <2>1, <2>2 DEF LevelInv, Idle
<1>3. CASE s # "programming"
  BY <1>1, <1>3 DEF LevelInv, Idle, TypeOK
<1> QED BY <1>2, <1>3

LEMMA TransferLevel ==
  ASSUME TypeOK, LevelInv, BeginTransfer
  PROVE  LevelInv'
<1>1. /\ iap' /\ busy' /\ pb2' /\ turn' = "uart" /\ chip'.on = "ready"
      /\ UNCHANGED <<ram, after, job, session, blind>>
  BY DEF BeginTransfer, Ready, store
<1> QED BY <1>1 DEF LevelInv, Idle

LEMMA WriteLevelInv ==
  ASSUME TypeOK, LevelInv,
         \/ \E v \in BOOLEAN : WriteEnable(v)
         \/ \E l \in HostLevels : WriteLevel(l)
         \/ \E trig, fault \in BOOLEAN : Report(trig, fault)
  PROVE  LevelInv'
<1>1. /\ ram'.sent = ram.sent /\ ram'.due = ram.due /\ ram'.gate = ram.gate
      /\ UNCHANGED <<iap, pb2, chip, session, blind>> /\ (busy => busy')
  BY DEF WriteEnable, WriteLevel, Report, LateRefusal, link, TypeOK, Ram
<1>2. ASSUME NEW v \in BOOLEAN, WriteEnable(v) PROVE LevelInv'
  <2>1. ram'.level = ram.level /\ after'.set = "enable" /\ turn' = turn
        /\ after.set # "level"
    BY <1>2 DEF WriteEnable, Serving, LevelInv, TypeOK, Ram
  <2>2. turn = "can"
    BY <1>2 DEF WriteEnable, Serving
  <2> QED BY <1>1, <2>1, <2>2 DEF LevelInv
<1>3. ASSUME NEW l \in HostLevels, WriteLevel(l) PROVE LevelInv'
  <2>1. /\ ram'.level = l /\ after'.set = "level" /\ after'.value = l
        /\ turn = "can" /\ turn' = turn
    BY <1>3 DEF WriteLevel, Serving, TypeOK, Ram
  <2>2. ~Idle'
    BY <1>3 DEF WriteLevel, Overlay, Idle
  <2> QED BY <1>1, <2>1, <2>2 DEF LevelInv
<1>4. ASSUME NEW trig \in BOOLEAN, NEW fault \in BOOLEAN, Report(trig, fault)
      PROVE  LevelInv'
  <2>1. after.set # "level" /\ after'.set # "level"
    <3>1. Idle /\ (after' = after \/ after' = [set |-> "count", value |-> FactoryLevel])
      BY <1>4 DEF Report
    <3> QED BY <3>1 DEF LevelInv
  <2>2. ram'.level = ram.level /\ turn = "uart"
    BY <1>4 DEF Report, TypeOK, Ram
  <2>3. turn' = turn \/ (turn' = "charge" /\ Idle')
    BY <1>4 DEF Report, Idle
  <2> QED BY <1>1, <2>1, <2>2, <2>3 DEF LevelInv
<1> QED BY <1>2, <1>3, <1>4

LEMMA AnswerLevel ==
  ASSUME TypeOK, LevelInv, WriteReturns
  PROVE  LevelInv'
<1>1. /\ turn' \in {"uart", "charge"} /\ after'.set = "none" /\ iap' = iap
      /\ Idle' /\ turn \in {"can", "uart"} /\ UNCHANGED <<busy, session>>
  BY DEF WriteReturns, NoAfter, NoJob, Idle, Written, link, LevelInv
<1>2. ram \in Ram /\ pb2 \in BOOLEAN
  BY DEF TypeOK
<1>4. CASE EnableAnswered
  <2>1. /\ pb2' = (pb2 /\ ram.enabled) /\ ram'.gate = ram.enabled
        /\ ram'.level = ram.level /\ after.set # "level"
        /\ ram'.sent = (ram.sent /\ ~ram.enabled)
        /\ ram'.due = (IF ram.enabled THEN "waiting" ELSE ram.due)
        /\ blind' = (blind /\ ~ram.enabled)
    BY <1>2, <1>4 DEF EnableAnswered, Ram
  <2>2. CASE ram.enabled
    <3>1. pb2' <=> pb2
      BY <2>1, <2>2
    <3>2. \/ chip'.on = chip.on /\ chip'.level = chip.level
          \/ ~pb2' /\ chip'.on = "off"
      BY <1>4, <3>1 DEF EnableAnswered, Supply, Off, LevelInv
    <3> QED BY <1>1, <2>1, <2>2, <3>1, <3>2 DEF LevelInv
  <2>3. CASE ~ram.enabled
    <3>1. ~pb2' /\ chip' = Off
      BY <1>4, <2>1, <2>3 DEF EnableAnswered, Supply
    <3> QED BY <1>1, <2>1, <2>3, <3>1 DEF LevelInv, Off
  <2> QED BY <2>2, <2>3
<1>5. CASE LevelAnswered
  <2>1. /\ after.set = "level" /\ after.value = ram.level
        /\ UNCHANGED <<ram, pb2, blind>>
        /\ chip' = Told(ram.level, chip)
    BY <1>5 DEF LevelAnswered, LevelInv
  <2>2. chip'.on = chip.on /\ (chip'.on = "ready" => chip'.level = ram.level)
    BY <2>1 DEF Told, Ready
  <2> QED BY <1>1, <2>1, <2>2 DEF LevelInv
<1>6. CASE CountStored
  BY <1>1, <1>6 DEF CountStored, LevelInv
<1> QED BY <1>4, <1>5, <1>6 DEF WriteReturns

LEMMA SupplyLevel ==
  ASSUME TypeOK, LevelInv, NEW hall \in BOOLEAN, ChargePoll(hall)
  PROVE  LevelInv'
<1>1. /\ turn = "charge" /\ turn' = "protocol"
      /\ UNCHANGED <<ram, iap, busy, after, job, session, blind>>
      /\ pb2' = (iap \/ (ram.gate /\ hall)) /\ chip' = Supply(pb2', chip)
  BY DEF ChargePoll, store, link
<1>2. CASE ~pb2'
  BY <1>1, <1>2 DEF Supply, Off, LevelInv, Idle
<1>3. CASE pb2' /\ pb2
  <2>1. chip' = chip
    BY <1>1, <1>3 DEF Supply, LevelInv
  <2> QED BY <1>1, <1>3, <2>1 DEF LevelInv, Idle
<1>4. CASE pb2' /\ ~pb2
  <2>1. chip'.on = "booting"
    BY <1>1, <1>4 DEF Supply, Booting, LevelInv
  <2> QED BY <1>1, <1>4, <2>1 DEF LevelInv, Idle
<1> QED BY <1>1, <1>2, <1>3, <1>4

LEMMA TimeLevel ==
  ASSUME TypeOK, LevelInv, TimePasses
  PROVE  LevelInv'
<1>1. ram \in Ram /\ chip \in Chip
  BY DEF TypeOK
<1>2. /\ turn = "protocol"
      /\ UNCHANGED <<iap, busy, pb2, turn, after, job, session, blind>>
      /\ chip' = [chip EXCEPT !.on = IF @ = "booting" THEN "ready" ELSE @]
      /\ ram' = [ram EXCEPT !.due = IF @ = "waiting" THEN "reached" ELSE @]
  BY DEF TimePasses, Started, Elapsed, store, link
<1>3. /\ chip'.on = IF chip.on = "booting" THEN "ready" ELSE chip.on
      /\ chip'.level = chip.level
  BY <1>1, <1>2 DEF Chip
<1>4. ram'.sent = ram.sent /\ ram'.gate = ram.gate /\ ram'.level = ram.level
  BY <1>1, <1>2 DEF Ram
<1> QED BY <1>2, <1>3, <1>4 DEF LevelInv, Idle

LEMMA CutLevel ==
  ASSUME PowerCut
  PROVE  LevelInv'
BY DEF PowerCut, PowerUp, Off, NoAfter, NoJob, Idle, LevelInv

LEMMA FlashLevel ==
  ASSUME TypeOK, LevelInv, FlashStep
  PROVE  LevelInv'
<1>1. UNCHANGED <<ram, iap, busy, pb2, chip, turn, after, session, blind>>
  BY DEF FlashStep, cvars, link
<1>2. ~Idle' /\ ~Idle
  BY DEF FlashStep, StoreStep, EraseSector, ProgramWord, AfterWord, FlashFails, Idle,
         TypeOK, StoreType, Job
<1> QED BY <1>1, <1>2 DEF LevelInv

LEMMA NextLevel == TypeOK /\ LevelInv /\ [Next]_vars => LevelInv'
<1> SUFFICES ASSUME TypeOK, LevelInv, [Next]_vars PROVE LevelInv'
  OBVIOUS
<1>1. CASE NoRequest \/ Unlock \/ NoReport
  <2>1. /\ UNCHANGED <<ram, iap, pb2, chip, after, job, session, blind>> /\ Idle
        /\ turn \in {"can", "uart"} /\ turn' \in {"uart", "charge"}
    BY <1>1 DEF NoRequest, Unlock, NoReport, LateRefusal, Serving, store, link
  <2>2. busy => busy'
    BY <1>1 DEF NoRequest, Unlock, NoReport, LateRefusal, link
  <2> QED BY <2>1, <2>2 DEF LevelInv, Idle
<1>2. CASE SessionExpires \/ LeaveSession \/ EndTransfer
  <2>1. /\ turn = "can" /\ turn' \in {"can", "uart"} /\ Idle /\ Idle'
        /\ IapReset /\ UNCHANGED <<pb2, after>>
    BY <1>2 DEF SessionExpires, LeaveSession, EndTransfer, ResetSession, Serving,
                store, Idle
  <2> QED BY <2>1, ResetLevel
<1>3. CASE UNCHANGED vars
  BY <1>3 DEF vars, cvars, link, store, LevelInv, Idle
<1> QED
  BY <1>1, <1>2, <1>3, PollLevel, SessionLevel, TransferLevel, WriteLevelInv,
     AnswerLevel, SupplyLevel, TimeLevel, CutLevel, FlashLevel
  DEF Next, Loop, Host

(* A chip under supply that the device believes informed charges at the    *)
(* level the host chose, whichever way it lost its supply in between: for  *)
(* any levels, and any order of Hall switch, disables, sessions,           *)
(* transfers, late refusals, page writes and cuts.  The exception is a     *)
(* chip that 10 02 has restarted, and only until its session ends.         *)
THEOREM ChipIsTold == Spec => []ChipFollowsLevel
<1>1. LevelInv => ChipFollowsLevel
  BY DEF LevelInv, ChipFollowsLevel
<1> QED BY <1>1, InitLevel, NextLevel, ChargeTypeCorrect, PTL DEF Spec

=============================================================================

------------------------------ MODULE Charging ------------------------------
(***************************************************************************)
(* Charging control of the application: the settings a host writes by UDS  *)
(* (DID 0x2101 enable, DID 0x210D power level), the charge counter, their  *)
(* copies in RAM and on the configuration page, the 5 V supply of the Qi   *)
(* chip (PB2) that board_charge_poll switches, and the power level that    *)
(* the chip has to be told again each time its supply comes up.            *)
(*                                                                         *)
(* One turn of the main loop is: "protocol" (can_protocol_poll), "can"     *)
(* (can_driver_poll, where requests are served), "uart" (qi_uart_poll,     *)
(* where reports of the chip arrive) and "charge" (board_charge_poll).  A  *)
(* page write stops the loop until it is over.  A fall asleep is a power   *)
(* cut too: the transceiver takes the supply of the board away.  A host    *)
(* sends a request when it has the answer to the one before, so that one   *)
(* turn of the loop serves one request.                                    *)
(***************************************************************************)
EXTENDS NvmStore

CONSTANTS
  DefaultLevel,    \* g_qi_power_level after power-up without a page
  HostLevels,      \* power levels the host writes
  FactoryLevel     \* what the chip charges at until it is told otherwise

ASSUME ChargingAssumption ==
  /\ HostLevels \subseteq Levels
  /\ DefaultLevel \in Levels
  /\ FactoryLevel \in Levels

VARIABLES
  ram,       \* enabled, gate, level, sent, due, count, trig, fault
  session,   \* "default", "extended" or "programming"
  unlocked,  \* security_unlocked
  iap,       \* a transfer to the chip runs and holds PB2
  busy,      \* g_qi_iap_state is not QI_IAP_IDLE: a transfer runs, or one
             \* that has ended was refused by the chip afterwards (FAILED)
  failing,   \* a refusal (CC 03) of a transfer that has ended waits in the
             \* receive ring
  pb2,       \* the 5 V supply of the chip
  chip,      \* on: "off", "booting" or "ready"; level: what it charges at
  turn,      \* what the main loop does next
  after,     \* what follows the page write: a setting and its value
  may,       \* the values each setting may have: the one last answered,
             \* and those asked for since without an answer
  blind      \* 10 02 has restarted the chip, and nothing since then has
             \* made the device send the level again

link == <<iap, busy, failing>>
cvars == <<ram, session, unlocked, link, pb2, chip, turn, after,
           may, blind>>
vars == <<store, cvars>>

Off == [on |-> "off", level |-> FactoryLevel]
Booting == [on |-> "booting", level |-> FactoryLevel]
Ready(level) == [on |-> "ready", level |-> level]

NoAfter == [set |-> "none", value |-> FactoryLevel]

(* The chip's supply switches: it starts with its factory level.           *)
Supply(on, c) == IF ~on THEN Off ELSE IF c.on = "off" THEN Booting ELSE c

(* A command that reaches the chip; it hears none before it is ready.      *)
Told(level, c) == IF c.on = "ready" THEN Ready(level) ELSE c

(* A tenth of a second later the chip is up, and the planned time is over. *)
Started(c) == [c EXCEPT !.on = IF @ = "booting" THEN "ready" ELSE @]
Elapsed(r) == [r EXCEPT !.due = IF @ = "waiting" THEN "reached" ELSE @]

-----------------------------------------------------------------------------
(* A mutant: a blank enable word enables charging. *)
LoadedEager(p) ==
  [enabled |-> p.enable # "off",
   gate    |-> p.enable # "off",
   level   |-> IF p.magic /\ p.level # Blank THEN p.level ELSE DefaultLevel,
   sent    |-> TRUE,
   due     |-> "none",
   count   |-> IF p.magic THEN p.count ELSE 0,
   trig    |-> FALSE,
   fault   |-> FALSE]

(* qi_nvm_load_config, after nvm_drv_init has looked at the validity word. *)
Loaded(p) ==
  [enabled |-> p.magic /\ p.enable = "on",
   gate    |-> p.magic /\ p.enable = "on",
   level   |-> IF p.magic /\ p.level # Blank THEN p.level ELSE DefaultLevel,
   sent    |-> TRUE,
   due     |-> "none",
   count   |-> IF p.magic THEN p.count ELSE 0,
   trig    |-> FALSE,
   fault   |-> FALSE]

(* What is left of a power-up: the settings of the page, everything else   *)
(* cleared, and the chip off again after the version probe, which has told *)
(* it the power level once (sent) and may have heard of a fault.           *)
PowerUp ==
  /\ \E f \in BOOLEAN : ram' = [Loaded(page') EXCEPT !.fault = f]
  /\ session' = "default"
  /\ unlocked' = FALSE
  /\ iap' = FALSE
  /\ busy' = FALSE
  /\ failing' = FALSE
  /\ pb2' = FALSE
  /\ chip' = Off
  /\ turn' = "protocol"
  /\ after' = NoAfter
  /\ blind' = FALSE

(* The pages a unit is delivered with.  merge_prod_bin leaves the sector   *)
(* erased; a unit that has had an earlier firmware, with settings in mW,   *)
(* may carry a validity word, which nothing in this repository writes.     *)
Pages == {p \in Page : p.magic \/ p = Erased}

Init ==
  /\ page \in Pages
  /\ job = NoJob
  /\ faults = 0
  /\ ram = Loaded(page)
  /\ session = "default"
  /\ unlocked = FALSE
  /\ iap = FALSE
  /\ busy = FALSE
  /\ failing = FALSE
  /\ pb2 = FALSE
  /\ chip = Off
  /\ turn = "protocol"
  /\ after = NoAfter
  /\ may = [enabled |-> {ram.enabled}, level |-> {ram.level},
            count |-> {ram.count}]
  /\ blind = FALSE

-----------------------------------------------------------------------------
(* A mutant: the loss of the supply is not noticed. *)
ConfigPollKept(r, c) ==
  IF pb2 /\ ~r.sent /\ ~busy
    THEN IF r.due = "none" THEN [r |-> [r EXCEPT !.due = "waiting"], c |-> c]
         ELSE IF r.due = "reached"
              THEN [r |-> [r EXCEPT !.sent = TRUE], c |-> Told(r.level, c)]
              ELSE [r |-> r, c |-> c]
    ELSE [r |-> r, c |-> c]

(* A mutant: every poll plans the command anew. *)
ConfigPollReplans(r, c) ==
  IF pb2 /\ ~r.sent THEN [r |-> [r EXCEPT !.due = "waiting"], c |-> c]
                    ELSE [r |-> [r EXCEPT !.sent = FALSE], c |-> c]

(* qi_power_cfg_poll: the level goes out once per supply period, 100 ms    *)
(* after the poll has first seen the supply up, and not before             *)
(* g_qi_iap_state is IDLE (qi_apply_power_cfg).                            *)
ConfigPoll(r, c) ==
  CASE ~pb2 -> [r |-> [r EXCEPT !.sent = FALSE, !.due = "none"], c |-> c]
    [] pb2 /\ ~r.sent /\ r.due = "none" ->
         [r |-> [r EXCEPT !.due = "waiting"], c |-> c]
    [] pb2 /\ ~r.sent /\ r.due = "reached" /\ ~busy ->
         [r |-> [r EXCEPT !.sent = TRUE], c |-> Told(r.level, c)]
    [] OTHER -> [r |-> r, c |-> c]

(* can_proto_qi_iap_reset, at the end of a transfer and in each reset of   *)
(* the session: the state is IDLE, the level is to be sent again, and the  *)
(* hold on the supply is let go.  The chip of a transfer restarts and has  *)
(* come up again by the end of the wait that follows (500 ms, 800 ms); its *)
(* refusal of the last block may come after the reset of the state.        *)
IapReset ==
  /\ iap' = FALSE
  /\ busy' = FALSE
  /\ failing' \in {failing, failing \/ iap}
  /\ chip' = IF iap THEN Ready(FactoryLevel) ELSE Started(chip)
  /\ ram' = [Elapsed(ram) EXCEPT !.sent = FALSE]
  /\ blind' = FALSE

(* session_reset_to_default with ota_dl_abort.                             *)
ResetSession ==
  /\ session' = "default"
  /\ unlocked' = FALSE
  /\ IapReset

ProtocolPoll ==
  /\ turn = "protocol" /\ Idle
  /\ LET p == ConfigPoll(ram, chip) IN ram' = p.r /\ chip' = p.c
  /\ blind' = (blind /\ pb2)
  /\ turn' = "can"
  /\ UNCHANGED <<store, session, unlocked, link, pb2, after, may>>

(* Thirty seconds without a request, at the end of can_protocol_poll.      *)
SessionExpires ==
  /\ turn = "can" /\ Idle
  /\ session # "default"
  /\ ResetSession
  /\ UNCHANGED <<store, pb2, turn, after, may>>

-----------------------------------------------------------------------------
(* The requests of a host; each is served in one can_driver_poll.          *)
Serving == turn = "can" /\ Idle
Permitted == session = "extended" /\ unlocked

NoRequest ==
  /\ Serving
  /\ turn' = "uart"
  /\ UNCHANGED <<store, ram, session, unlocked, link, pb2, chip, after,
                 may, blind>>

(* 10 02 cuts the 5 V supply, which board_charge_poll may raise again in   *)
(* the same turn; a session other than the default one is left without the *)
(* unlock when it changes.                                                 *)
OpenSession(s) ==
  /\ Serving
  /\ session' = s
  /\ unlocked' = (unlocked /\ s = session)
  /\ pb2' = (pb2 /\ s # "programming")
  /\ chip' = IF s = "programming" THEN Off ELSE chip
  /\ blind' = (blind \/ (s = "programming" /\ chip.on # "off"))
  /\ turn' = "uart"
  /\ UNCHANGED <<store, ram, link, after, may>>

LeaveSession ==
  /\ Serving
  /\ ResetSession
  /\ turn' = "uart"
  /\ UNCHANGED <<store, pb2, after, may>>

(* 27 01 to 27 02, modelled in SecurityAccess.                             *)
Unlock ==
  /\ Serving /\ session # "default"
  /\ unlocked' = TRUE
  /\ turn' = "uart"
  /\ UNCHANGED <<store, ram, session, link, pb2, chip, after, may,
                 blind>>

(* 2E 21 01: the flag in RAM first, then the page, and the gate last; a    *)
(* fault of the chip refuses the enable.                                   *)
WriteEnable(v) ==
  /\ Serving /\ Permitted
  /\ v => ~ram.fault
  /\ ram' = [ram EXCEPT !.enabled = v]
  /\ may' = [may EXCEPT !.enabled = @ \union {v}]
  /\ after' = [set |-> "enable", value |-> FactoryLevel]
  /\ Overlay([page EXCEPT !.enable = IF v THEN "on" ELSE "off"])
  /\ UNCHANGED <<page, faults, session, unlocked, link, pb2, chip, turn,
                 blind>>

(* 2E 21 0D: RAM, then the page, then the command to the chip.             *)
WriteLevel(l) ==
  /\ Serving /\ Permitted
  /\ ram' = [ram EXCEPT !.level = l]
  /\ may' = [may EXCEPT !.level = @ \union {l}]
  /\ after' = [set |-> "level", value |-> l]
  /\ Overlay([page EXCEPT !.level = l])
  /\ UNCHANGED <<page, faults, session, unlocked, link, pb2, chip, turn,
                 blind>>

(* What the handlers do after the page write, whatever became of it: the   *)
(* result of qi_nvm_save is not looked at, and the answer is positive.     *)
EnableAnswered ==
  /\ after.set = "enable"
  /\ pb2' = (pb2 /\ ram.enabled)
  /\ chip' = Supply(pb2', chip)
  /\ ram' = [ram EXCEPT !.gate = ram.enabled,
                        !.sent = @ /\ ~ram.enabled,
                        !.due = IF ram.enabled THEN "waiting" ELSE @]
  /\ may' = [may EXCEPT !.enabled = {ram.enabled}]
  /\ blind' = (blind /\ ~ram.enabled)

LevelAnswered ==
  /\ after.set = "level"
  /\ chip' = Told(after.value, chip)
  /\ may' = [may EXCEPT !.level = {after.value}]
  /\ UNCHANGED <<ram, pb2, blind>>

CountStored ==
  /\ after.set = "count"
  /\ may' = [may EXCEPT !.count = {ram.count}]
  /\ UNCHANGED <<ram, pb2, chip, blind>>

WriteReturns ==
  /\ Written
  /\ EnableAnswered \/ LevelAnswered \/ CountStored
  /\ job' = NoJob
  /\ after' = NoAfter
  /\ turn' = IF turn = "can" THEN "uart" ELSE "charge"
  /\ UNCHANGED <<page, faults, session, unlocked, link>>

(* 34 of an MCU2 download: the supply is switched on and held, 200 ms      *)
(* later the chip is up, and the receive ring is emptied.                  *)
BeginTransfer ==
  /\ Serving
  /\ session = "programming" /\ unlocked /\ ~iap
  /\ iap' = TRUE
  /\ busy' = TRUE
  /\ failing' = FALSE
  /\ pb2' = TRUE
  /\ chip' = IF chip.on = "ready" THEN chip ELSE Ready(FactoryLevel)
  /\ turn' = "uart"
  /\ UNCHANGED <<store, ram, session, unlocked, after, may, blind>>

(* 37 of an MCU2 download.                                                 *)
EndTransfer ==
  /\ Serving
  /\ session = "programming" /\ unlocked /\ iap
  /\ IapReset
  /\ turn' = "uart"
  /\ UNCHANGED <<store, session, unlocked, pb2, after, may>>

-----------------------------------------------------------------------------
(* A refusal that waited in the ring: the state is FAILED, whatever it was *)
(* before, and no answer is owed that would take it back to IN_PROGRESS    *)
(* (qi_iap_apply_ack_status, qi_iap_ack_poll).                             *)
LateRefusal ==
  /\ busy' = (busy \/ failing)
  /\ failing' = FALSE
  /\ UNCHANGED iap

NoReport ==
  /\ turn = "uart" /\ Idle
  /\ LateRefusal
  /\ turn' = "charge"
  /\ UNCHANGED <<store, ram, session, unlocked, pb2, chip, after, may,
                 blind>>

(* The counter stays where it is instead of wrapping to zero.              *)
Counted(n) == IF (n + 1) % CountMod = 0 THEN n ELSE (n + 1) % CountMod

(* qi_iap_frame_cb on a status report: a fault is kept, and a rising       *)
(* trigger is counted and written to the page.                             *)
Report(trig, fault) ==
  /\ turn = "uart" /\ Idle
  /\ chip.on = "ready" /\ ~iap
  /\ LateRefusal
  /\ LET rising == trig /\ ~ram.trig
         n == IF rising THEN Counted(ram.count) ELSE ram.count IN
     /\ ram' = [ram EXCEPT !.trig = trig, !.fault = @ \/ fault, !.count = n]
     /\ may' = [may EXCEPT !.count = @ \union {n}]
     /\ IF rising
          THEN /\ Overlay([page EXCEPT !.count = n])
               /\ after' = [set |-> "count", value |-> FactoryLevel]
               /\ UNCHANGED turn
          ELSE turn' = "charge" /\ UNCHANGED <<job, after>>
  /\ UNCHANGED <<page, faults, session, unlocked, pb2, chip, blind>>

(* board_charge_poll; hall: the Hall input allows charging, that is        *)
(* board_hall_open() = 0.                                                  *)
ChargePoll(hall) ==
  /\ turn = "charge" /\ Idle
  /\ pb2' = (iap \/ (ram.gate /\ hall))
  /\ chip' = Supply(pb2', chip)
  /\ turn' = "protocol"
  /\ UNCHANGED <<store, ram, session, unlocked, link, after, may,
                 blind>>

-----------------------------------------------------------------------------
(* A tenth of a second, far longer than a turn of the loop.                *)
TimePasses ==
  /\ Idle /\ turn = "protocol"
  /\ chip.on = "booting" \/ ram.due = "waiting"
  /\ chip' = Started(chip)
  /\ ram' = Elapsed(ram)
  /\ UNCHANGED <<store, session, unlocked, link, pb2, turn, after, may,
                 blind>>

(* What the settings may be after a torn page write: blank words too.      *)
Torn(m) ==
  [enabled |-> m.enabled \union {FALSE},
   level   |-> m.level \union {DefaultLevel},
   count   |-> m.count \union {Erased.count}]

(* The supply of the board fails, or the board has fallen asleep, and      *)
(* comes back.  A cut during the erase finds the sector old or blank.      *)
PowerCut ==
  /\ page' \in IF job.stage = "erase" THEN {page, Erased} ELSE {page}
  /\ may' = IF job.stage = "program" \/ page' # page THEN Torn(may) ELSE may
  /\ job' = NoJob
  /\ PowerUp
  /\ UNCHANGED faults

FlashStep == StoreStep /\ UNCHANGED cvars

Host ==
  \/ NoRequest
  \/ \E s \in {"extended", "programming"} : OpenSession(s)
  \/ LeaveSession
  \/ Unlock
  \/ \E v \in BOOLEAN : WriteEnable(v)
  \/ \E l \in HostLevels : WriteLevel(l)
  \/ BeginTransfer
  \/ EndTransfer

Loop ==
  \/ ProtocolPoll
  \/ Host
  \/ NoReport
  \/ \E trig, fault \in BOOLEAN : Report(trig, fault)
  \/ \E hall \in BOOLEAN : ChargePoll(hall)
  \/ WriteReturns

Next ==
  \/ Loop
  \/ FlashStep
  \/ SessionExpires
  \/ TimePasses
  \/ PowerCut

Spec == Init /\ [][Next]_vars

(* The loop turns, flash operations end and time passes - it is looked at  *)
(* once per turn, hence strongly; nothing obliges the host, the phone on   *)
(* the charger or the supply of the board.                                 *)
FairSpec ==
  Spec /\ WF_vars(Loop) /\ WF_vars(FlashStep) /\ SF_vars(TimePasses)

-----------------------------------------------------------------------------
Ram == [enabled : BOOLEAN, gate : BOOLEAN, level : Levels, sent : BOOLEAN,
        due : {"none", "waiting", "reached"}, count : 0 .. CountMod - 1,
        trig : BOOLEAN, fault : BOOLEAN]

Chip == [on : {"off", "booting", "ready"}, level : Levels]

(* The variables keep their types; in particular the counter stays within  *)
(* its width (can_protocol.c:2625-2632).                                   *)
TypeOK ==
  /\ StoreType
  /\ ram \in Ram
  /\ session \in {"default", "extended", "programming"}
  /\ unlocked \in BOOLEAN
  /\ iap \in BOOLEAN
  /\ busy \in BOOLEAN
  /\ failing \in BOOLEAN
  /\ pb2 \in BOOLEAN
  /\ chip \in Chip
  /\ turn \in {"protocol", "can", "uart", "charge"}
  /\ after \in [set : {"none", "enable", "level", "count"}, value : Levels]
  /\ may \in [enabled : SUBSET BOOLEAN, level : SUBSET Levels,
              count : SUBSET (0 .. CountMod - 1)]
  /\ blind \in BOOLEAN

(* The validity word of the page, or of the page about to be written.      *)
Provisioned == IF Idle THEN page.magic ELSE job.image.magic

(* A setting is the one last answered or one asked for since, or, on a     *)
(* page without a validity word, the one of a blank page.                  *)
Kept(value, values, blank) == value \in values \/ (~Provisioned /\ value = blank)

(* Without a flash fault, a unit whose page has its validity word works    *)
(* with the settings and the counter last answered, or with one asked for  *)
(* since, whatever cuts of the supply came in between; a cut between erase *)
(* and rewrite can make words blank, the validity word too, and nothing    *)
(* else (qi_nvm_load_config after qi_nvm_save).  On a page without the     *)
(* word, that of every unit made with this firmware alone, an answered     *)
(* setting lasts until the next cut, when the values of a blank page take  *)
(* its place - and nothing else does; docs/15:656-659 says it survives.    *)
Durable ==
  faults = 0 =>
    /\ Kept(ram.enabled, may.enabled, Loaded(Erased).enabled)
    /\ Kept(ram.level, may.level, Loaded(Erased).level)
    /\ Kept(ram.count, may.count, Loaded(Erased).count)

(* A host that has had its disable answered finds charging disabled until  *)
(* somebody asks to enable it, however often the supply is cut, in the     *)
(* middle of any later page write too: a torn page never enables charging. *)
DisableSticks ==
  faults = 0 => (ram.enabled \/ ram.gate => TRUE \in may.enabled)

(* A chip under supply that the device believes informed charges at the    *)
(* level the host chose, not at its factory level: a restart by the Hall   *)
(* switch, a disable, a transfer or a cut is followed by the command       *)
(* (qi_power_cfg_poll and g_qi_pwr_cfg_sent).  The one restart that is not *)
(* is that of a programming session opened while the chip is supplied:     *)
(* can_protocol.c:1766 takes PB2 down, where docs/15:652 and 664 want it   *)
(* to stay, board_charge_poll raises it in the same turn, and no poll sees *)
(* the gap.  Such a chip charges at its factory level until the session    *)
(* ends; in the default session no chip does.                              *)
ChipFollowsLevel ==
  chip.on = "ready" /\ turn = "can" /\ ram.sent /\ ~iap /\ Idle
     => chip.level = ram.level \/ (blind /\ session # "default")

(* Supply that stays up ends with the chip at the level of the device,     *)
(* unless g_qi_iap_state stays FAILED - a refusal of the chip that comes   *)
(* after the end of its transfer leaves it so, with no transfer running,   *)
(* until the session is reset or another transfer runs                     *)
(* (can_protocol.c:1384, 2479-2483) - or the chip has been restarted by    *)
(* 10 02 and the session goes on.                                          *)
LevelReaches ==
  <>[](pb2 /\ ~busy /\ ~blind /\ Idle)
     => <>[](chip.on = "ready" /\ chip.level = ram.level)

-----------------------------------------------------------------------------
(* The inductive invariants behind the safety properties.                  *)

(* What ChipFollowsLevel rests on.  A chip that comes up again while the   *)
(* device takes it for informed is one that a transfer holds or 10 02 has  *)
(* restarted, and any other chip that boots is up before the time planned  *)
(* for the command has come.                                               *)
LevelInv ==
  /\ pb2 <=> chip.on # "off"
  /\ iap => busy
  /\ turn \in {"protocol", "can"} /\ iap => pb2
  /\ turn = "can" /\ ~pb2 => ~blind /\ ram.due = "none"
  /\ turn # "protocol" /\ ~iap /\ ~pb2 /\ ram.gate /\ ~blind =>
       ~ram.sent /\ ram.due # "reached"
  /\ chip.on = "booting" /\ ~iap /\ ~blind => ~ram.sent /\ ram.due # "reached"
  /\ chip.on = "ready" /\ ram.sent /\ ~iap /\ ~blind /\ after.set # "level" =>
       chip.level = ram.level
  /\ blind => session # "default"
  /\ after.set = "level" => ~Idle /\ after.value = ram.level
  /\ ~Idle => turn \in {"can", "uart"}

(* Neither the device, nor the page, nor the sector about to be written    *)
(* enables charging against the host.                                      *)
EnableInv ==
  faults = 0 =>
    /\ ram.enabled \/ ram.gate => TRUE \in may.enabled
    /\ page.enable = "on" => TRUE \in may.enabled
    /\ job.image.enable = "on" => TRUE \in may.enabled
    /\ after.set = "enable" /\ ~Idle =>
         job.image.enable = IF ram.enabled THEN "on" ELSE "off"
    /\ job.stage = "erase" => job.word = 1
    /\ Written \/ (job.stage = "program" /\ job.word = 4) =>
         page.enable = job.image.enable

(* A sector from which the device would load settings it may have, or one  *)
(* without a validity word, from which it loads those of a blank page.     *)
Holds(p) ==
  p.magic =>
    /\ (p.enable = "on") \in may.enabled
    /\ (IF p.level # Blank THEN p.level ELSE DefaultLevel) \in may.level
    /\ p.count \in may.count

(* The sector about to be written holds what the answer will confirm.      *)
Confirms(p) ==
  /\ after.set = "enable" => (p.enable = "on") = ram.enabled
  /\ after.set = "level" => p.level = after.value /\ ram.level = after.value
  /\ after.set = "count" => p.count = ram.count

(* What a sector holds while it is programmed: new words, and blank ones.  *)
Programmed ==
  /\ page.magic = IF job.word > 1 THEN job.image.magic ELSE Erased.magic
  /\ page.level = IF job.word > 2 THEN job.image.level ELSE Erased.level
  /\ page.enable = IF job.word > 3 THEN job.image.enable ELSE Erased.enable
  /\ page.count = Erased.count

DurableInv ==
  faults = 0 =>
    /\ Kept(ram.enabled, may.enabled, FALSE)
    /\ Kept(ram.level, may.level, DefaultLevel)
    /\ Kept(ram.count, may.count, 0)
    /\ job.stage \in {"none", "erase"} => Holds(page)
    /\ job.stage = "erase" => job.image.magic = page.magic
    /\ ~Idle => Holds(job.image) /\ Confirms(job.image)
    /\ job.stage = "program" => Programmed
    /\ Written => page = job.image

=============================================================================

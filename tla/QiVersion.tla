----------------------------- MODULE QiVersion -----------------------------
(***************************************************************************)
(* The firmware version of the Qi chip as the charger knows it: in RAM     *)
(* from the reports of the chip, on the device information page as what    *)
(* to answer after a restart, with the serial number and the public key    *)
(* beside it.  The chip gets a new firmware by an upgrade (QiIap); the     *)
(* sleep of the charger is a power cut for all of this.                    *)
(*                                                                         *)
(* A page is written by one erase and many words with the checksum among   *)
(* them: between the erase and the last word it is no page.  The processor *)
(* does nothing else meanwhile.                                            *)
(***************************************************************************)
EXTENDS Integers, Sequences

CONSTANTS
  Versions,      \* firmware versions of the chip
  None,          \* no version
  Torn,          \* a page that does not check
  MaxFrames,     \* frames in the ring of the UART
  MaxUpgrades,   \* bounds of the model: firmware changes, torn pages
  MaxTorn

Ids == {"sn", "key"}
Page == [ids : SUBSET Ids, ver : Versions \union {None}]

ASSUME VersionAssumption ==
  /\ None \notin Versions
  /\ Torn \notin Page
  /\ MaxFrames \in Nat
  /\ MaxUpgrades \in Nat
  /\ MaxTorn \in Nat

VARIABLES
  fw,       \* the firmware of the chip
  chip,     \* whether it has no supply, runs its firmware or takes a new one
  asked,    \* a version query has reached it
  rx,       \* its frames that wait in the ring
  pc,       \* where the charger is: off, in the probe, in its loop, in 0x37
  ver,      \* g_qi_ver_major, _minor, _patch
  valid,    \* g_qi_fw_version_valid
  owed,     \* g_qi_ver_q_state
  iap,      \* a download for the chip is open, and holds its supply
  info,     \* the device information page
  save,     \* the page being written
  loaded,   \* history: the version in RAM was read from the page
  dropped,  \* history: a download has ended without 0x37 since the start
  settled,  \* history: the firmware has been heard and written to the page
  kept,     \* history: what was written to the page and never torn
  credit,   \* history: version writes of the page that are justified, less
            \* those that happened
  changes, torn

device == <<ver, valid, owed, iap, loaded, dropped>>
pages == <<info, save, settled, kept, credit, torn>>
line == <<fw, chip, asked, rx, changes>>
vars == <<fw, chip, asked, rx, pc, ver, valid, owed, iap, info, save, loaded,
          dropped, settled, kept, credit, changes, torn>>

Frame == [kind : {"report", "answer"}, v : Versions]
Save == [stage : {"none", "erase", "program"}, by : Ids \union {"version"},
         to : Page]
NoSave == [stage |-> "none", by |-> "version", to |-> [ids |-> {}, ver |-> None]]
Quiet == save.stage = "none"

TypeOK ==
  /\ fw \in Versions
  /\ chip \in {"dead", "run", "iap"}
  /\ rx \in Seq(Frame)
  /\ Len(rx) <= MaxFrames
  /\ pc \in {"off", "probe", "probed", "loop", "refresh", "exit"}
  /\ ver \in Versions \union {None}
  /\ asked \in BOOLEAN /\ valid \in BOOLEAN /\ owed \in BOOLEAN
  /\ iap \in BOOLEAN /\ loaded \in BOOLEAN /\ dropped \in BOOLEAN
  /\ settled \in BOOLEAN
  /\ info \in Page \union {Torn}
  /\ save \in Save
  /\ kept \in SUBSET Ids
  /\ credit \in Int
  /\ changes \in 0 .. MaxUpgrades
  /\ torn \in 0 .. MaxTorn

-----------------------------------------------------------------------------
(* The chip.  It reports its version again and again while it runs, and    *)
(* answers a query once; what it sends may be lost, which is as if it had  *)
(* not been sent.                                                          *)
Sends(kind) ==
  /\ chip = "run" /\ pc # "off"
  /\ Len(rx) < MaxFrames
  /\ rx' = Append(rx, [kind |-> kind, v |-> fw])
  /\ UNCHANGED <<fw, chip, changes, pc, device, pages>>

Report == Sends("report") /\ UNCHANGED asked

Answer == asked /\ Sends("answer") /\ asked' = FALSE

(* It takes the prepare command some time after 0x34 sent it, but before   *)
(* the host goes on (QiUpgrade has hosts that do not wait), ...            *)
Prepared ==
  /\ iap /\ chip = "run" /\ pc = "loop"
  /\ chip' = "iap"
  /\ asked' = FALSE
  /\ UNCHANGED <<fw, rx, changes, pc, device, pages>>

(* ... and starts the new firmware by itself when it has all of it, long   *)
(* after the loop has read what it sent before.                            *)
Starts ==
  /\ chip = "iap" /\ rx = <<>>
  /\ changes < MaxUpgrades
  /\ fw' \in Versions \ {fw}
  /\ chip' = "run"
  /\ changes' = changes + 1
  /\ credit' = credit + 1
  /\ settled' = FALSE
  /\ UNCHANGED <<asked, rx, pc, device, info, save, kept, torn>>

(* Outside a download the supply follows the phone and the enable.         *)
Supply ==
  /\ pc = "loop" /\ ~iap /\ Quiet
  /\ chip' = IF chip = "dead" THEN "run" ELSE "dead"
  /\ asked' = FALSE
  /\ UNCHANGED <<fw, rx, changes, pc, device, pages>>

-----------------------------------------------------------------------------
(* The page.  Mutant: the version is written whenever it is heard.         *)
NeedsWriteAlways(v) == info # Torn

(* A page that does not check is left alone; one that holds the version    *)
(* is not written again.                                                   *)
NeedsWrite(v) == info # Torn /\ info.ver # v

(* qi_ver_persist_if_changed and device_info_write_qi_version up to the    *)
(* erase.                                                                  *)
Persist(v) ==
  save' = IF NeedsWrite(v)
          THEN [stage |-> "erase", by |-> "version", to |-> [info EXCEPT !.ver = v]]
          ELSE save

(* Mutant: a new page is built from nothing.                               *)
OverlayFresh(id) == [ids |-> {id}, ver |-> None]

(* The page with a serial number or a key: the old one overlaid, or a new  *)
(* one where there is none.                                                *)
Overlay(id) ==
  IF info = Torn THEN [ids |-> {id}, ver |-> None]
                 ELSE [info EXCEPT !.ids = @ \union {id}]

(* 0x2E of DID 0xF18C or 0x2120: device_info_write_sn and _pubkey.         *)
WriteId(id) ==
  /\ pc = "loop" /\ Quiet
  /\ save' = [stage |-> "erase", by |-> id, to |-> Overlay(id)]
  /\ UNCHANGED <<line, pc, device, info, settled, kept, credit, torn>>

EraseSector ==
  /\ save.stage = "erase"
  /\ info' = Torn
  /\ save' = [save EXCEPT !.stage = "program"]
  /\ credit' = IF save.by = "version" THEN credit - 1 ELSE credit
  /\ UNCHANGED <<line, pc, device, settled, kept, torn>>

(* The words of the page; a new page has no version yet.                   *)
ProgramWords ==
  /\ save.stage = "program"
  /\ info' = save.to
  /\ save' = NoSave
  /\ kept' = IF save.by = "version" THEN kept ELSE kept \union {save.by}
  /\ UNCHANGED <<line, pc, device, settled, credit, torn>>

(* The flash refuses the erase or a word: device_info.c returns an error,  *)
(* which only a host that writes a number or a key is told.                *)
FlashFails ==
  /\ ~Quiet /\ torn < MaxTorn
  /\ info' = Torn
  /\ save' = NoSave
  /\ torn' = torn + 1
  /\ kept' = {}
  /\ credit' = credit + 1
  /\ UNCHANGED <<line, pc, device, settled>>

-----------------------------------------------------------------------------
(* The charger starts; the probe switches the chip on.                     *)
PowerUp ==
  /\ pc = "off"
  /\ pc' = "probe"
  /\ chip' = "run"
  /\ UNCHANGED <<fw, asked, rx, changes, device, pages>>

(* The supply goes, at any moment: RAM is lost, and the page in a write.   *)
PowerCut ==
  /\ pc # "off"
  /\ pc' = "off"
  /\ chip' = "dead" /\ asked' = FALSE /\ rx' = <<>>
  /\ ver' = None /\ valid' = FALSE /\ owed' = FALSE /\ iap' = FALSE
  /\ loaded' = FALSE /\ dropped' = FALSE
  /\ save' = NoSave
  /\ IF save.stage = "program"
     THEN /\ torn < MaxTorn
          /\ torn' = torn + 1
          /\ kept' = {}
          /\ credit' = credit + 1
     ELSE UNCHANGED <<torn, kept, credit>>
  /\ UNCHANGED <<fw, changes, info, settled>>

Listening == pc \in {"probe", "loop", "refresh"} /\ Quiet /\ rx # <<>>

(* The status report in qi_iap_frame_cb. *)
HearReport ==
  /\ Listening /\ Head(rx).kind = "report"
  /\ rx' = Tail(rx)
  /\ ver' = Head(rx).v /\ valid' = TRUE /\ loaded' = FALSE
  /\ UNCHANGED <<fw, chip, asked, changes, pc, owed, iap, dropped, pages>>

(* The answer to the query, which is taken only while one is owed. *)
HearAnswer ==
  /\ Listening /\ Head(rx).kind = "answer"
  /\ rx' = Tail(rx)
  /\ IF owed
     THEN /\ ver' = Head(rx).v /\ valid' = TRUE /\ loaded' = FALSE
          /\ owed' = FALSE
          /\ Persist(Head(rx).v)
     ELSE UNCHANGED <<ver, valid, loaded, owed, save>>
  /\ UNCHANGED <<fw, chip, asked, changes, pc, iap, dropped, info, settled,
                 kept, credit, torn>>

(* can_proto_qi_version_probe: it listens for a second; what it hears goes *)
(* to the page, and when it hears nothing the page has to do.              *)
ProbeHeard ==
  /\ pc = "probe" /\ valid
  /\ pc' = "probed"
  /\ Persist(ver)
  /\ UNCHANGED <<line, device, info, settled, kept, credit, torn>>

ProbeTimeout ==
  /\ pc = "probe" /\ ~valid
  /\ pc' = "probed"
  /\ IF info # Torn /\ info.ver # None
     THEN ver' = info.ver /\ valid' = TRUE /\ loaded' = TRUE
     ELSE UNCHANGED <<ver, valid, loaded>>
  /\ UNCHANGED <<line, owed, iap, dropped, pages>>

EndProbe ==
  /\ pc = "probed" /\ Quiet
  /\ pc' = "loop"
  /\ rx' = <<>>
  /\ chip' = "dead" /\ asked' = FALSE
  /\ settled' = (settled \/ (valid /\ ~loaded))
  /\ UNCHANGED <<fw, changes, device, info, save, kept, credit, torn>>

(* 0x22 of DID 0x2013: refused while one is owed or a download is open.    *)
Query ==
  /\ pc = "loop" /\ Quiet
  /\ ~owed /\ ~iap
  /\ owed' = TRUE
  /\ asked' = (asked \/ chip = "run")
  /\ UNCHANGED <<fw, chip, rx, changes, pc, ver, valid, iap, loaded, dropped,
                 pages>>

(* qi_ver_query_poll: the version in RAM has to do, or there is none. *)
QueryTimeout ==
  /\ pc = "loop" /\ Quiet /\ owed
  /\ owed' = FALSE
  /\ UNCHANGED <<line, pc, ver, valid, iap, loaded, dropped, pages>>

(* 0x34 for the chip: can_proto_qi_iap_prepare_async. *)
Begin ==
  /\ pc = "loop" /\ Quiet /\ ~iap
  /\ iap' = TRUE
  /\ chip' = IF chip = "dead" THEN "run" ELSE chip
  /\ rx' = <<>>
  /\ UNCHANGED <<fw, asked, changes, pc, ver, valid, owed, loaded, dropped, pages>>

(* A session end or a new erase: the version in RAM stays. *)
Abort ==
  /\ pc = "loop" /\ Quiet /\ iap
  /\ iap' = FALSE /\ dropped' = TRUE
  /\ UNCHANGED <<line, pc, ver, valid, owed, loaded, pages>>

(* Mutant: the refresh believes the version it has.                        *)
RefreshValidKept == valid

RefreshValid == FALSE

(* 0x37: can_proto_qi_version_refresh_blocking listens for 800 ms.  What   *)
(* the chip sent before the download has been read with its answers.       *)
Exit ==
  /\ pc = "loop" /\ Quiet /\ iap
  /\ chip = "iap" => rx = <<>>
  /\ pc' = "refresh"
  /\ valid' = RefreshValid /\ owed' = FALSE
  /\ UNCHANGED <<line, ver, iap, loaded, dropped, pages>>

RefreshHeard ==
  /\ pc = "refresh" /\ valid
  /\ pc' = "exit"
  /\ Persist(ver)
  /\ UNCHANGED <<line, device, info, settled, kept, credit, torn>>

RefreshTimeout ==
  /\ pc = "refresh" /\ ~valid /\ rx = <<>>
  /\ pc' = "exit"
  /\ UNCHANGED <<line, device, pages>>

(* The positive answer, after which the supply is released. *)
EndExit ==
  /\ pc = "exit" /\ Quiet
  /\ pc' = "loop"
  /\ iap' = FALSE
  /\ settled' = (settled \/ valid)
  /\ UNCHANGED <<line, ver, valid, owed, loaded, dropped, info, save, kept,
                 credit, torn>>

-----------------------------------------------------------------------------
(* A charger as it leaves the production: a page with neither version nor  *)
(* anything else, and the credit to write one.                             *)
Init ==
  /\ fw \in Versions
  /\ chip = "dead" /\ asked = FALSE /\ rx = <<>>
  /\ pc = "off"
  /\ ver = None /\ valid = FALSE /\ owed = FALSE /\ iap = FALSE
  /\ info = [ids |-> {}, ver |-> None]
  /\ save = NoSave
  /\ loaded = FALSE /\ dropped = FALSE /\ settled = FALSE
  /\ kept = {}
  /\ credit = 1
  /\ changes = 0 /\ torn = 0

Next ==
  \/ Report \/ Answer \/ Prepared \/ Starts \/ Supply
  \/ (\E id \in Ids : WriteId(id)) \/ EraseSector \/ ProgramWords \/ FlashFails
  \/ PowerUp \/ PowerCut
  \/ HearReport \/ HearAnswer
  \/ ProbeHeard \/ ProbeTimeout \/ EndProbe
  \/ Query \/ QueryTimeout
  \/ Begin \/ Abort \/ Exit \/ RefreshHeard \/ RefreshTimeout \/ EndExit

Spec == Init /\ [][Next]_vars

-----------------------------------------------------------------------------
(* What the host is told is true: a version heard from the chip is that of *)
(* the firmware it runs, unless a download ended without 0x37; and once    *)
(* the firmware has been heard by the probe or by 0x37, no older version   *)
(* comes back, after restarts that hear nothing either (the comments of    *)
(* qi_ver_persist_if_changed).                                             *)
VersionTrue ==
  valid /\ ~iap /\ ~dropped /\ (~loaded \/ settled) => ver = fw

(* The page keeps what was written to it, whatever else is written: a page *)
(* that checks has the serial number and the key that were stored, and     *)
(* the version that was settled, if no new page had to be built.           *)
PageKept ==
  info # Torn =>
    /\ kept \subseteq info.ids
    /\ settled /\ torn = 0 => info.ver = fw

(* The page with the serial number and the key is put at risk by a version *)
(* write only when the firmware has changed, and once for a new page.      *)
Sparing == credit >= 0
=============================================================================

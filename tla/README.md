# Verification of the Qi charger's firmware, diagnostics and charging control

TLA+ models of the CAN-connected Qi charger of this repository (bootloader,
application, the Qi chip behind it, the maintenance tool in front of it), the
TLC runs that check them on small instances, and TLAPS proofs of what matters
most for instances of every size.

`PROJECT.json` holds the machine-readable side: components, runs, for every
definition the source lines it models (`map`), for every property a plausible
bug of the code that breaks it (`mutants`), the hazards and the theorems.

Paths below are shortened: `BL/` is `src/qi_wireless_bootloader/`, `APP/` is
`src/qi_wireless_code_app/`, `TOOL/` is `src/QiChargerStationTool/`, `PROD/` is
`src/ProductionStationTool/`, and `docs/N` is the document of `src/docs` whose
name begins with N.

## 1. The system

Two microcontrollers on one board. **MCU1** talks CAN (ISO-TP, UDS) and holds
bootloader and application; **MCU2** is the Qi chip, reached over a UART. A
Windows **tool** upgrades either over a serial CAN adapter.

| Component | State it keeps | Operations | Talks to |
|---|---|---|---|
| Bootloader (`BL/mdk_app/Src/boot_*.c`, `main.c`) | metadata record and its two flash copies, App and Backup region, copy position | load/repair metadata, decide, verify, erase, copy, re-verify, commit, jump, safe mode | flash; the application only through flash and the reset cause |
| Application download engine (`APP/.../ota_download.c`, `ota_trigger.c`) | erased / active / exit-pending flags, address, block number, metadata | 0x31, 0x34, 0x36, 0x37, deferred verification and reset, abort | flash, UDS dispatcher |
| Qi chip download (same file and `can_protocol.c`) | IAP state, owed answer, hold of the 5 V supply, chunk address | the same services with deferred answers, acknowledgement polling, timeouts, cancellation | UART to MCU2 |
| Qi chip protocol and UART (`qi_protocol.c`, `qi_uart.c`) | receive ring, parser state | interrupt, poll, flush, frame build and parse | the chip; everything above it takes frames |
| Version of the chip (`can_protocol.c`, `device_info.c`) | version in RAM, validity, owed query, device information page | probe at start, query (DID 0x2013), refresh at 0x37, page writes | chip, flash |
| Charging control (`can_protocol.c`, `board_gpio.c`) | enable, gate, power level, charge counter, fault, PB2 | DID 0x2101 and 0x210D, status reports, Hall switch, level command after each restart of the chip | chip, configuration page |
| NVM record store (`nvm_drv.c`) | configuration page: validity word, level, enable, counter | read, overlay-erase-program | flash |
| UDS dispatcher and session (`can_protocol.c`) | session, unlock, S3 timer, slot for one long answer | dispatch, session switch and reset, flush of the slot | everything in the application |
| Security access (`can_protocol.c`, 0x27) | seed, signature chunks, failures, lockout | 27 01, 27 03, 27 02 | the tool |
| ISO-TP of the device (`isotp.c`) | receive buffer, transmit position, deferred flow control | receive, send, wait for flow control, poll | CAN |
| Sleep, wake-up, lifecycle (`can_protocol.c`, `lifecycle.c`, `sit1145.c`) | awake or asleep, idle timer, wake latches, transceiver registers, queue of lifecycle frames | idle gate, sleep entry, wake decision, periodic broadcasts | CAN transceiver over SPI, board power |
| ISO-TP and UDS client of the tool (`IsoTpClient.cs`, `UdsClient.cs`) | half-assembled answer, retries | send, receive, request with repetition | CAN |
| Unlock and upgrade sequences of the tool (`SeedSigner.cs`, `MainWindow.xaml.cs`) | phase, attempt, chunk | UnlockCoreAsync, RunUpgradeAsync | UDS client |
| Production station (`PROD/`) | serial numbers, test records | allocate, test, store | database, power analyser |
| Drivers, cryptography, user interface | registers, none, windows | - | - |

### Where it is hard

* **Power.** The CAN transceiver cuts the board's power when the device sleeps,
  and a vehicle may cut it at any time: between any two flash operations of
  copy, commit, metadata save and repair, and of the two pages that have no
  second copy (configuration, device information).
* **Failing flash.** Several saves ignore their result.
* **Deferred answers.** A 0x36 for the chip is answered up to 2.5 s later, while
  the host may have repeated, abandoned or replaced the request. 0x37 for MCU1
  verifies and commits in the main loop, after the handler has returned.
* **One slot for long answers**, requests executed while a transmission waits
  for its flow control, and answers overtaking one another.
* **Repeated and late messages.** Retries without request identifiers; 8-bit
  block numbers and 4-bit frame numbers that wrap.
* **Sleep.** An SPI bus that loses register writes can leave the transceiver
  asleep with nothing that wakes it; latches that the transition sets look like
  frames; the one wake frame may fall between a clear and its read-back; all RAM
  state of the diagnostics is gone under a waiting tool.
* **Restarts of the chip.** What the charger believes of it (power level,
  version) outlives the restart.
* **A parser without time.** After a damaged length the next frames are data.

### What makes each part correct

* Bootloader and download engine: there is always an image to run or to copy;
  only signed images are ever executed; what was acknowledged with 0x77
  survives and is the image that runs; every boot ends.
* Qi chip download: each chunk lands at its own address; answers belong to the
  block they claim; the supply is held exactly while it is needed; every owed
  answer is sent; a reported pass means a whole image.
* UART: transparent when undisturbed; a disturbance costs a bounded number of
  frames.
* Version: what the host is told is the firmware that runs; an older version
  never comes back; the page with the serial number is not risked without need.
* Charging: an answered setting survives power cuts if the page has its validity
  word; an answered disable is never undone; a supplied chip charges at the level
  that was set, whatever made it restart (but for 10 02, section 6).
* ISO-TP: no message is put together from two; the answer slot drains.
* Security access: no guessing during a lockout; a tool with the right key is
  never refused; lost messages cost retries, not the unlock; the tool is right
  when it believes the device to be unlocked.
* Sleep: a sleeping device can be woken; it wakes for a frame and for nothing
  else, and the frames its wake decision may swallow are known; it does fall
  asleep; nothing owed is dropped.

## 2. The modules

| Module | Models | Lines it stands for |
|---|---|---|
| `OtaFlash` | the two regions, the two metadata copies, the metadata save both programs carry | `boot_metadata.c`, `ota_trigger.c`, `boot_verify.c` |
| `BootCore` | the bootloader from reset to the jump or safe mode | `main.c`, `boot_trial.c`, `boot_jump.c`, `boot_safe_mode.c` |
| `AppDownload` | services 0x31/34/36/37 for MCU1, deferred 0x37, abort, session | `ota_download.c`, part of `can_protocol.c` |
| `OtaSystem` | both on one CPU, with power loss, reset and flash faults | both `main.c` |
| `OtaInvariants` | the inductive invariant of `OtaSystem` | |
| `Upgrade` | abstract: one image installed, at most one staged, at most one promised | |
| `OtaRefinement` | the refinement mapping from `OtaSystem` to `Upgrade`, and the invariant it needs | |
| `OtaClaims` | statements of comments and documents that do not hold | |
| `OtaSystem_proofs` | theorems about `OtaSystem`, and that it implements `Upgrade` | |
| `QiIap` | the device's side of an MCU2 download, and the chip | `ota_download.c`, `can_protocol.c`, `board_gpio.c` |
| `QiUpgrade` | the host's upgrade sequence, the CAN link and `QiIap` | `MainWindow.xaml.cs`, `UdsClient.cs` |
| `QiUpgrade_proofs` | theorems about `QiUpgrade` | |
| `QiLink` | the UART byte by byte: ring, flush, parser | `qi_uart.c`, `qi_protocol.c` |
| `QiLink_proofs` | theorems about `QiLink` | |
| `QiVersion` | the version of the chip in RAM and on the device information page | `can_protocol.c`, `device_info.c` |
| `QiVersion_proofs` | theorems about `QiVersion` | |
| `NvmStore` | the configuration page and a write of it, operation by operation | `nvm_drv.c` |
| `Charging` | settings, counter, supply and level of the chip, over `NvmStore` | `can_protocol.c`, `board_gpio.c` |
| `Charging_proofs` | theorems about `Charging` | |
| `WakeFilter` | how the transceiver is prepared for Sleep over a bus that loses writes | `sit1145.c` |
| `SleepWake` | main loop, idle gate, S3, sleep entry, wake decision, lifecycle frames, over `WakeFilter` | `can_protocol.c`, `lifecycle.c`, `sit1145.c` |
| `SleepWake_proofs` | theorems about `SleepWake` | |
| `IsoTp` | ISO-TP of tool and device, frame by frame, with the answer slot | `isotp.c`, `IsoTpClient.cs`, parts of `can_protocol.c`, `UdsClient.cs` |
| `IsoTp_proofs` | theorems about `IsoTp` | |
| `SecurityAccess` | 0x27 on the device and the tool's unlock loop, over a lossy link | `can_protocol.c`, `SeedSigner.cs` |
| `SecurityAccess_proofs` | theorems about `SecurityAccess` | |
| `MCOtaSystem`, `MCQiUpgrade`, `MCQiLink`, `MCIsoTp` | instances for TLC | |

### OtaFlash, BootCore, AppDownload, OtaSystem

A region is a function from its flash sectors to what they hold: that sector of
an image, `Erased`, or `Torn` (anything else). A metadata page is a record or
`Bad`. One step is one flash operation or one stretch of code between two of
them, so `PowerLoss` can strike between any two; the operation it strikes may
leave its sector torn. `pc` names the point of the straight-line code; the saves
of the metadata are a subroutine (`save`), and `BootAfterSave` says where each
call returns, whatever its result: the code ignores it. Distinct images have
distinct CRCs. What the host sends is free: any service, any image, any order.
The host's view is the variable `verdict`: the image 0x77 was sent for, `Nack`,
or `None` after it has started over.

`MaxFaults` bounds flash operations that fail; the model does not fix which.
`Upgrade` has a variable `broken`: a failed flash operation voids its promises,
so the refinement says what the code keeps with working flash and leaves the
rest to `OnlySignedRuns`, `AppRewrittenFromStaged` and `BootEnds`, which hold
whatever the flash does.

### QiIap, QiUpgrade

The chip takes one command at a time from the UART, which may lose or damage
`MaxNoise` frames. The device forwards a block, remembers that an answer is owed
and gives it from the main loop (`Poll`): acknowledged, refused, timed out. The
host is the tool's own sequence. An eager one may time out before the device's
answer: that is the host the device announces by P2 = 50 ms and P2* = 5000 ms in
its answer to 0x10 while sending no 7F xx 78 during the wait for the chip. The
other is the maintenance tool, whose 8 s for a 0x36 exceed every deferred answer.
Which of them it is, and how bad its links are, is chosen in the initial state.

### QiLink

The frames of a chip are a script that it repeats for ever. Bytes wait in the
ring; one that finds it full is dropped; a byte may be damaged or lost, the
supply of the chip cut in mid frame, the ring and the parser flushed. A byte
carries, for the properties only, its place: which byte of which frame. The parser is `qi_protocol.c`'s state machine with its one-byte
sum, its limit of 32 data bytes and its two frame forms. In the other modules
frames are whole: `QiLink` shows what they leave out.

### QiVersion

The chip reports its version again and again, answers a query, and changes its
firmware at the end of a download. The charger is in its probe, its loop, or the
800 ms wait of 0x37. A page write is an erase and then the words. `settled` and
`credit` are history: whether the firmware has been heard by a place that writes
the page, and how many page writes are justified. Left out: answers in the
two-byte form (section 6), and a host that goes on before the chip has answered
(`QiUpgrade` has one). A sleep is a power cut for all of it.

### NvmStore, Charging

A write of one setting reads the page, overlays the setting, erases and programs
word after word; `PowerCut` can strike between any two and loses RAM. A turn of
the main loop is protocol, CAN, UART, charge, in this order. A host sends any
request in any session, one at a time: it waits for the answer, so one turn
serves one request.

A unit starts with an erased page, which is what this firmware and its image
builder leave (nothing calls `nvm_drv_set_valid`), or with one that an earlier
firmware has given the validity word. Without the word settings are written but
not read at power-up. `may` is what a host may find after a restart: the values
last answered, those asked for since, and after a torn write the values of blank
words. `Provisioned` says whether the page has the word.

Three variables keep apart what the code keeps apart. `iap` is the hold of a
transfer on PB2. `busy` is `g_qi_iap_state # QI_IAP_IDLE`, which a refusal of the
chip that arrives after the end of the transfer (`failing`: it waits in the ring)
leaves set with no hold. `blind` is history: 10 02 has restarted the chip, and
nothing since has made the device send the level.

### WakeFilter, SleepWake

`WakeFilter` reduces the transceiver's registers to what they decide and goes
through `sit1145_sleep_config` and `sit1145_sleep_commit` write by write, each
of which the bus may lose: three rounds of configure, lock and verify, then the
fallback to the standard wake-up. Reads may be lost as well; a lost read-back of
the mode counts as sleep, as in the code (`CommitMode`).

`SleepWake` keeps time as ages of the code's time stamps that saturate at the
largest limit they are compared with, and has an age for `now` itself, which
`can_protocol_poll` reads once and uses seconds later. The wake decision is one
step per look at the chip: the latches (`ReadLatches`), the pin (`ReadPin`), the
clear (`ClearLatches`), its read-back (`Cleared`), the wait (`Waited`), the pin
once more (`Judge`). A frame, a phantom latch or a change of RXD can come between
any two, and RXD need not be released by a clear. One transfer of the latches per
sleep may be lost (`fault`): a clear that does nothing, or a read that answers
0xFF, with the fall-through of `sit1145_wakeup_pending` to the pin
(`PendingPin`, `PendingLatches`). `latch.frame` is history: whether a frame waits
to be noticed, or was swallowed by the decision. On a car supply INH takes the
power of the board away, and the wake-up is a boot; on a bench supply, or when
the chip did not go to Sleep, the loop goes on. Left out: what has no state
(diagnostic frames, the SLEEP marker). At most one request arrives in one poll of
the driver.

### IsoTp

Frames on two queues, first frame, consecutive frames, flow control, single
frame. The device's receive path, the deferred flow control, the wait for a flow
control inside `isotp_tx_send` with the requests it executes meanwhile, and the
one answer slot with its three tries; the tool's three first frames, its batch
of consecutive frames, the half-assembled answer and its watchdog, and the
repetition of a request. A timeout expires when its frame can no longer come;
`MaxHasty` of them expire earlier.

### SecurityAccess

Messages instead of frames; what `IsoTp` found about their order is kept: the
long answer to 27 01 leaves through the slot and short answers overtake it. A
seed is a number, a chunk of the signature a pair of seed and chunk number.
`FallAsleep` stands for ten idle seconds (`app_config.h:68`): the transceiver
cuts the board's power and the RAM with it. The next request wakes the device,
since the wake-up filter passes every frame that shares a bit with 02 3E
(`sit1145.c:905`), but is lost itself.

## 3. The runs

| Run | Instance | Shows |
|---|---|---|
| `OtaDevice` | 4 images, 2 sectors, 1 fault, fair | power losses anywhere, any host, a failing flash operation: the inductive invariant; always recoverable, acknowledged images durable and running, the device implements `Upgrade`; whatever the flash does only signed images in the App region, and every boot ends |
| `QiHosts` | 3 chunks; the tool with 2 messages lost and 2 UART faults, or an eager host with one of each; 2 upgrades | chunks in place, refusals about the right block, a reported pass means a whole image, supply held and released, owed answers given |
| `QiLink` | 32 data bytes as in the code, ring of 4, 6 scripts, 2 disturbances | transparent when undisturbed; a tight bound on the frames a disturbance costs; frames are heard again |
| `QiVersion` | 2 versions, 2 upgrades, 2 frames in the ring, 1 torn page | what is told is the firmware that runs; the page keeps what it was given and is not risked without need |
| `ChargePower` | 2 levels, counter modulo 2, 1 fault, pages with and without validity word, 10 02 at any time, late refusals of the chip | settings durable with the word and what replaces them without it; a disable sticks; the chip follows the level |
| `SleepWake` | 3 rounds, 2 tries, 3 lost transfers, scaled times | a sleeper hears, only frames wake, every frame wakes that is not swallowed in one of two ways, an idle device sleeps, nothing owed is dropped |
| `IsoLink` | 3 asks, 2 frames lost, 1 early timeout, fair | requests and answers are assembled from one message; no gap in what is sent; the slot drains |
| `SaUnlock` | 3 chunks, 3 failures, 3 attempts, 3 tries, 2 unlocks, 4 messages lost, 2 early timeouts | lockout, honest tool, lost chunks, lost answers, true belief |
| `OtaClaimFlag`, `QiClaimAck`, `IsoClaimIntact`, `SleepClaimSession` | small | counterexamples to statements of the repository, section 6 |

The type invariants of `OtaSystem`, `QiUpgrade`, `SecurityAccess`, `Charging`,
`SleepWake`, `IsoTp` and `QiVersion` are proved (section 4) and in no run.

### The properties that carry weight

`Recoverable`, `AckDurable`, `AckedRuns`: with flash that works. Each fails for
an order of two writes swapped, a verification dropped or the flag cleared one
step early. `OnlySignedRuns` and `AppRewrittenFromStaged` hold with failing
flash too: the bootloader checks no signature, so everything hangs on the record
naming the image that the application has verified.

`ImplementsUpgrade`: the abstract specification of section 2. The installed image
changes at the *first erase* of the App region, the point of no return: from
there every boot ends in the image of the Backup region. Until the last copied
sector is verified, the installed image is therefore read from the Backup region.

`ChunksInPlace`, `RefusalsMatch`: repeated and abandoned blocks against the
duplicate detection of 0x36. `PassedWhole` needs that one of the links is
undisturbed: see `QiClaimAck`.

`LossBounded`: one disturbance of a link in step costs the frame it hits, those
that fit into the longest frame, since a length read in the wrong place may claim
one, and one more where a frame ends like a header begins. The bound is tight:
with `MCLength`, whose command is read as a length, three frames of 19 bytes are
missed, and 2 * 19 is the 38 bytes of the longest frame. A second disturbance
before the parser is in step again starts the count anew and is not bounded; then
only `Recovers` speaks. It is claimed for chips whose frames hold no header
inside and never end like one twice in a row; without that the parser may stay
out of step for ever (section 6), and `Transparent` shows that even such frames
pass when nothing is disturbed.

`VersionTrue`: three places write the version to RAM, two of them to the page,
and a restart reads it back. The premises are the code's real limits: a download
that ended without 0x37, or a 0x37 that heard nothing, leaves an old version
behind (section 6). `Sparing` counts: the page with serial number and key is
erased for the version at most once per new firmware, new page or lost page.

`DisableSticks`: what a torn page reads as never enables charging, with the
validity word or without. `Durable` says what a setting can be after any cuts: on
a page with the word the value answered or asked for since, or a blank one where
a cut fell between erase and rewrite; without the word that, or the value of a
blank page, and nothing else. `ChipFollowsLevel` follows every restart of the
chip. Only one goes untold, that of a 10 02 under supply, and not beyond the end
of the session. `LevelReaches` needs `g_qi_iap_state` to be IDLE, as the code
does: that is less than no transfer running (section 6).

`AsleepWakes`: the last line of defence against "sleep death". It counts: three
rounds, any of whose writes may be lost, then a fallback that needs one verified
write. Its second half says what a false report of sleep costs: the write of the
mode and its read-back, both lost. `OnlyFramesWake` and `FrameWakes` are the two
sides of the wake decision. A frame can fall between any two looks. `FrameWakes`
names the two ways in which the code swallows one, both with RXD low: it came
after the latches had been read as clear and was cleared with the stale pin
(`can_protocol.c:3252`, `3332`), or its latch was consumed and the pin stayed low
(`3391-3398`). Everywhere else the frame wakes the device, also when a clear or a
read of the latches is lost. `NothingOwed` says that the wait in
`can_lp_go_sleep` for an owed answer is never needed: time limits alone see to
it.

`RequestsIntact` holds when frames are lost or timeouts expire early, but not
both: TLC shows that a late flow control of an abandoned first frame, together
with the loss of the next request's first frame, splices two requests.
`AnswersCurrent` needs the stronger premise that it names, and short answers
(section 4).

`HonestNeverRefused`, `UnlockIsTrue`: both premises are needed. A late answer to
an earlier 27 01 makes the tool sign a seed the device has replaced, or believe
an all-zero seed of a session that is over. `LossesSurvived` gives the exact
price of the sleep: one lost 67 02 costs two of three attempts, because the
device falls asleep after 10 s while the tool waits 15 s, and the request that
wakes it is lost. While a phone is charging the device does not sleep, and two
losses are survived.

### Bounds, and why they are enough

* Sectors: a first and a last one in every loop, and an image that leaves one
  unwritten; `OtaClaimFlag` has three. The proofs have any number.
* Flash faults: one. Every promise is void after the first, and what holds in
  spite of faults is proved for any number of them.
* Images: the factory's, a signed one, one with a wrong signature, and a signed
  one whose stack pointer the jump refuses: the outcomes of the three checks.
* Block numbers: `BscMod` and `SeqMod` 3, so the number wraps during a download,
  as 256 does with more blocks.
* `SnMod` 3 with four consecutive frames: frame numbers wrap inside a message, as
  16 does in the 18 frames of a block of 0x36.
* `QiLink` has the code's frame limit, since the bound depends on it; the ring is
  4 for 64, full at a delay as short. The disturbing bytes are zero, the two
  header bytes, the one command with another form, and the greatest length.
* Versions: two, so that the firmware can go back to the version of before; two
  frames are one of the old and one of the new firmware.
* Counter modulo 2: its greatest value is reached and kept. Two levels: the
  default of the device and the chip's own, so that a chip not told is noticed.
* `SleepWake`: the tries of one verified write are 2 for 5; three lost transfers
  spoil all rounds, and two of them the commit. One transfer of the latches is
  lost per sleep: with two, the wipe and its read-back, a phantom wakes the
  device. Times keep their order: 1, 2, 2, 6 and 7 for 100 ms, 1 s,
  2 s, 10 s and 30 s; the proofs have any times in that order.
* Chunks, failures, attempts and tries of the unlock are the code's except the
  chunks: 3 for 16, a first, a middle and a last. Two unlocks: the second starts
  from what the first has left.
* Lost messages and early timeouts: one more than the properties' premises
  tolerate, so that each premise is exercised on both sides.

`CHECK_DEADLOCK FALSE` in `IsoLink`, `IsoClaimIntact` and `SaUnlock`, where the
tool stops after the requests it is allowed, and in `SleepWake` and
`SleepClaimSession`, where a device without supply waits for a host that has
left. All other runs check for deadlock.

### Fairness, and why the code justifies it

* `OtaSystem`: weak fairness of `BootStep`, `ProgressStep` and `SelfReset`. The
  code between two resets is one sequential program that waits for nobody.
  Requests and power losses are not fair; liveness is claimed only if the power
  eventually stays (`PowerStays`).
* `QiUpgrade`: weak fairness of the main loop's poll and of the chip. What the
  host does is not fair; only `PowerReleased` assumes that somebody talks to the
  device or the session times out (`Attended`).
* `QiLink`: weak fairness of the chip's sending and of the loop's reading.
* `Charging`: weak fairness of the loop and of the flash operation under way;
  strong fairness of `TimePasses`, since time is looked at once per turn.
* `SleepWake`: weak fairness of the loop and strong fairness of `Tick`. Strong
  fairness of a read-back that finds no new frame (`Cleared /\ ~latch.flag`) and
  of a last look at the pin before which none came (`Judge /\ ~latch.flag`): no
  sender hits, in every poll, the microseconds after a clear. RXD is not fair: it
  may stay low for ever.
* `IsoTp`: weak fairness of the device's main loop and of the tool's reading
  while it waits.
* `QiVersion`, `SecurityAccess`: none; they claim safety only.

## 4. The theorems

All are proved for every value of the constants that satisfies the modules'
assumptions, without TLC's bounds.

**`OtaSystem_proofs`.** The inductive invariant is `Inv` of `OtaInvariants`; TLC
checks it in `OtaDevice`. None of the safety properties is inductive. The
argument:

* *Whatever the flash does* (`SafetyInv`): a copy is under way only while the
  Backup region is whole and the record in RAM names it; every record, in flash
  or in RAM, names a signed image or none; the record being committed describes
  the Backup region. Hence the App region only receives sectors of signed
  images, although nobody checks a signature there.
* *Until the first fault* (`FaultFreeInv`): the App region is whole, or an image
  is staged **and the primary copy says so**. `Staged` alone is not enough: if
  only the backup copy carried the flag, the repair of the primary copy could
  lose it. `CopyProgress` says what has been copied, `PromiseInv` that a promise
  is staged or installed.
* `PromiseClosesTransfer`: while a promise stands no transfer is open; it is what
  keeps a new 0x31 from pulling an acknowledged image away unnoticed.

Proved from it: `TypeCorrect`, `Invariance`, `AlwaysRecoverable`,
`SafeModeOnlyJustified`, `AckIsDurable`, `AckedImageRuns`, `OnlySigned`, and the
action property `RewrittenFromStaged`.

The second part is `DeviceImplementsUpgrade`: `Spec => ImplementsUpgrade`,
for every set of images, region size and bound on faults. The switch from old to
new is the first erase of the App region; the rest of the copy, and every boot
that starts it again, stutters. Once a flash operation has failed every step is
`Break`. Up to then each step is one of `Upgrade`'s or changes nothing it sees
(`Maps`, one lemma per group of actions). `Inv` does not suffice for that: an
image that a host was promised and that runs must not be staged a second time,
or `Upgrade` would clear and stage it again behind the host's back. `MapInv` says
what excludes it: no record about to be saved describes such an image, the backup
copy of the metadata does not when the primary one is bad, and a metadata save
that has reached the primary copy has written the backup copy.

**`QiUpgrade_proofs`.** `QiTypeCorrect` and `QiPowerHeld`, the latter with the
invariant that the supply is held while a download is active or an answer owed,
for firmware of any size and all kinds of host. `QiPassedWhole` follows, while
one of the links is undisturbed, what the tool counts, what the device has
forwarded and what the chip has taken. `QiChunksInPlace` and `QiRefusalsMatch`
come from one invariant, `InStep`: one thing is under way at a time, a request, an
answer owed or an answer, all about the host's block (`OneAtATime`, `InOrder`),
and the device is at that block or one past it (`Counted`). They are stated
for a host that waits for its answers (`~kind.eager`), and have to be: an eager
host that gives up a block after two losses and goes on makes the number wrap
(with `SeqMod` 3, 5 chunks, no repetition and 5 upgrades TLC shows it), so a
block may be taken for the repetition of another. The instance of `QiHosts` is
too small for an eager host to do so.

**`QiVersion_proofs`.** `VersionTypeCorrect`, `VersionIsTrue`, `PageIsKept` and
`PageIsSpared`, from one invariant `VersionInv`. Its first part is that no frame
of an old firmware waits in the ring when the firmware changes, so all that can
be heard is true (`RingInv`, `ChipInv`). The rest follows what has been heard
into RAM (`HeardInv`), into the page being written and the page (`SaveInv`,
`SettledInv`). `Sparing` needs `CreditInv`: the credit covers the version write
that has not erased yet, and one more if the page will have a wrong version after
it.

**`Charging_proofs`.** `ChargeTypeCorrect`; `DisableIsKept` from `EnableInv`
(neither RAM, nor the page, nor the sector about to be written enables charging
against the host; a page between erase and its enable word reads as disabled);
`SettingsDurable` from `DurableInv` (before the erase the page, from the request
on the sector to be written hold what may be answered, unless they lack the
validity word; while the sector is programmed it holds new words and then blank
ones, `Programmed`, so a cut adds blank values and no others). `ChipIsTold`
(`ChipFollowsLevel`) from `LevelInv`: a chip that boots is up before the time
planned for the command has come, so the device never takes a chip for informed
that is not, unless a download holds its supply or 10 02 has restarted it
(`blind`); a chip that is up and informed has the level in RAM unless the request
that changes it is still being served; and `blind` ends with the session, whose
reset sends the level again. Neither theorem has a premise beyond the constants':
pages without the word and programming sessions under supply are part of both.

**`SleepWake_proofs`.** `SleepTyped`; `SleepersHear` from `FilterInv`, which
counts: the transfers that must have been lost for the registers to be as bad as
they are (`Debt`) never exceed those that were lost, and at the end of the rounds
the losses left do not suffice for a deaf sleep (`Fits`); sleep reported by an
awake chip has cost two. `SleepOwesNothing` from
a budget of time (`Spent`): what is owed or half received refreshes the idle
timer or gives up early enough. `FramesOnlyWake` from `Clean`: after the wipe a
latch that is set has been set by a frame, and so has the one a later point of
the decision remembers (`pc`); one lemma for the wipe, one for the looks, one for
what wakes the device. Its exception, a lost read while RXD is low, is the code's
own choice.

**`SecurityAccess_proofs`.** `SaTypeCorrect` and `SaNoSeedInLockout`. 27 02 itself
looks neither at the lockout nor at the limit of the failures; the strengthening
`LockInv` (the timer runs only at the limit, a seed exists only below it, and a
locked device is not unlocked) shows why that is sound: 27 01 gives no seed in
a lockout, and forgets the failures when it gives the first one after it.

The properties about the tool rest on `Course`, which says for each state of the
tool what is on the two links, what the device has of the signature, and which
seed both work on, as long as no timeout expires early: one message at a time
(`InTurn`), a seed offered is the device's (`SeedTold`), and the device has the
chunks before the tool's, or that one as well (`ChunkTold`). From it
`SaHonestNeverRefused` and `SaUnlockIsTrue`; `SaChunkLossAbsorbed` because every
further try of a chunk has been paid for by a lost one (`Again`);
`SaLossesSurvived` because the attempts used up never exceed what lost messages
may have spoilt (`Spent`; `Spoils` is one attempt for each while a phone is
charging, two otherwise). `Spoils < Attempts` is the bound for any number of
attempts.

**`IsoTp_proofs`.** `IsoTypeCorrect`, and `LongAnswersInSequence` from `LongInv`:
the frames the tool has yet to read are chained, each consecutive frame to the
one before it (`Chained`), and the last of them is the one before what the device
sends next (`EndsIn`), although requests executed while it waits may fill, clear
or block the slot the answer came from.

`RequestsArriveWhole` from `Assembly`: on the link every consecutive frame follows
its first frame or the frame before it (`Batched`), and what the device has
assembled is either all that came before the next frame, or too short for this
request ever to be complete (`Kept`): after a loss no later number of the batch is
the one expected, since the device's count stands still and the numbers go up by
one. That the frame in front belongs to what the device is assembling needs
`Ready` and `Token`, the two halves of the premise. Without losses a flow control
finds the device at the first frame it answers; without early timeouts there is
one first frame or flow control at a time.

`AnswersAreCurrent` from `Turn` and `Course`. `Turn`: as long as an answer is in the
slot or on the link the tool waits for it, all its frames are of the current
execution, and nothing that could be executed is on its way. `Course` holds while
at most one frame is lost: before each consecutive frame the half-assembled
answer has the whole body so far, or is too short for that frame to fit
(`Place`). It is kept after the loss because until then the tool has been in step
with the device (`InStep`). The theorem is stated for answers of no more
consecutive frames than there are sequence numbers (`ShortAnswers`), 16 here: the
tool reads DIDs of at most 35 bytes, five frames. It is false for longer answers:
with `Ans` 3 and `SnMod` 2, TLC lets a refused transmission start the answer again
after its second frame, and the first consecutive frame of the repetition fits as
the third. Only DID 0x2140 (up to 245 bytes) is as long, and this tool does not
read it.

**`QiLink_proofs`.** Proved: `LinkTypeCorrect`, `LinkTransparent`,
`LinkLossBounded`, for every frame limit up to 253, ring, noise and chip. The sum
of a frame is a recursive function over its bytes; that it exists is proved by a
least counterexample (`SumsExist`), and no more is needed of it than that one step
adds one byte (`SumStep`). `LinkInv` looks at the stream: the bytes in the ring
and the one the chip sends next. Undisturbed, the stream is frames in a row and
the parser is where the bytes before its head have taken it (`Reached`), whatever
these bytes are. One disturbance leaves one damaged byte or one gap in the stream
(`Damaged`, `Broken`). When the parser reads across it, it stays in step or comes
into one of four phases: it covers what comes as if it were part of a frame it
believes in (`Covering`, at most `MaxData + 6` bytes), has missed a byte of a
header (`Misled`), looks for a header in the middle of a frame (`Skipping`) or
holds the last byte of a frame for one (`Stray`). Each phase leads to the next or
back into step, and carries a bound on the frames missed so far; that a chip is
`Distinct` is needed in the last two only. TLC checked `LinkInv` on small
instances before the proof. The invariant replaced a first form of `LossBounded`
that allowed any number of disturbances and was true only of the scripts in the
run.

What the proofs changed in the model. `IsoTp.Body` started the body of the answer
again for *every* number 1, where the tool does so only when it does not expect
that number. `SecurityAccess.LossesSurvived` had counted lost messages instead of
what they spoil, which is the same for three attempts only. In
`QiUpgrade.Advance` and `SecurityAccess.Succeeded` cases overlapped.

Only model-checked: liveness (`BootEnds`, `AckedActivates`, `DeferredAnswered`,
`PowerReleased`, `SlotDrains`, `LevelReaches`, `FrameWakes`, `IdleSleeps`,
`Recovers`), which is out of the proof system's reach; and
`ChunksInPlace` and `RefusalsMatch` for the eager host.

## 5. Order of the work, and what could follow

The modules were written in the order of what an error would cost: the upgrade
of MCU1, of MCU2, the transport, the unlock, then settings and supply, sleep and
wake-up, the UART and the version. What a next step would add:

1. **The tool's MCU1 sequence and its station runner** over `AppDownload`'s
   services, with a reset of the device in the middle.
2. **Production station**: serial numbers of several stations over one database,
   upsert of test records. Reading it showed what section 6 lists.
3. **CAN driver** mailboxes, bus-off recovery, and safe mode's UDS subset.
4. A bound on what several disturbances cost `QiLink`, one phase of the parser
   after the other.

## 6. Where code and words disagree

`findings` in `PROJECT.json` quotes the lines. The first four have a run of their
own, in which TLC finds the counterexample:

* `OtaClaimFlag`: "Interruptions at any point leave the flag set". A power loss
  during the *repair* of a bad primary copy does not: the repair saves through
  the normal path, which erases the backup copy, the only good one, first. No
  image is lost by it, only the upgrade. The fault-free proofs show why it is not
  worse: before the acknowledgement, never after it.
* `QiClaimAck`: a 0x76 "only after the chip's acknowledgement". Block number and
  address advance when a block is forwarded, so a repetition after a lost refusal
  is answered positively as a duplicate.
* `IsoClaimIntact`: the watchdog of the half-assembled answer "prevents the next
  from being joined to it". A repetition within five seconds is joined to it.
* `SleepClaimSession`: "every request refreshes S3". The timer is compared with a
  `now` read before a request that is served in the same poll; the unsigned
  difference wraps, and the session ends at once (`can_protocol.c:3532`;
  `docs/3:265`, `docs/15:150`). The idle timer was changed to a signed comparison
  for the same reason.

Three are in `ChargePower`, whose properties have to admit them; without the
exception each is violated there within seconds:

* `Durable`: nothing calls `nvm_drv_set_valid` (`nvm_drv.c:133`) and the image
  builder leaves the page erased, so every answered setting of a new unit is lost
  with the power. `docs/15:656-659` says it is restored and charging resumes
  without a new command.
* `ChipFollowsLevel`: 10 02 cuts the chip's supply for one turn of the loop only
  (`can_protocol.c:1766`, `board_gpio.c:112`); `docs/15:652` and `664` say the
  session keeps it low. While the charger is
  enabled the chip restarts, `qi_power_cfg_poll` never sees the supply down, and
  the chip charges at its factory level until the session ends.
* `LevelReaches`: a CC 03 that arrives after the end of a transfer leaves
  `g_qi_iap_state` FAILED (`can_protocol.c:2479-2483`) with no transfer running,
  and `qi_apply_power_cfg` (`1384`) sends no level until a session is reset or
  another transfer runs; `docs/15:685` says it is sent 100 ms after each start of
  charging.

Seen while modelling, without a run of its own. Of the upgrade of MCU1:

* A refused 0x37 "does not set the flag" (`docs/3:252`): when the write of the
  primary copy fails, the backup copy already carries it (`ota_trigger.c:170`).
* `docs/3` says the host must resend a signature from chunk 1 after a wrong number
  (`docs/3:319`); the code advances its counter and answers the resent chunk
  positively, and only 27 02 refuses. The block number wraps to 0x00, not 0x01
  (`docs/3:222`).
* `boot_verify.c:7-11` calls the staged image fully validated before the erase,
  but the stack pointer is looked at only by the jump, which then leaves safe mode
  and no old image (the second case of `SafeModeJustified`).

Of the upgrade of the chip:

* "After the upgrade the state is IDLE" (`can_protocol.c:1034-1036`): a late frame
  of the chip moves it to FAILED (`can_protocol.c:2479`), where the version query
  is refused.
* 0x37 does not check that all data arrived, and the tool reports a pass when it
  is refused.
* `isotp.c:516-518` says a long answer to a nested request is queued, but an
  occupied slot drops it.
* `qi_protocol.c:12` says LEN leaves out SEQ; the code counts it. The parser
  drops the frame after a stray 0x55 (`qi_protocol.c:110`), may stay out of
  step for ever when a payload holds 55 AA and a length, and its 8-bit sum may
  accept a mixture of two frames after a loss.

Of the version of the chip:

* "A restart must not bring an old version back" (`can_protocol.c:1069-1071`,
  `1125`): when 0x37 hears no report within 800 ms the page keeps the old version;
  later reports go to RAM only, and a restart whose probe hears nothing tells the
  old one. An aborted download keeps the old version valid.
* "Written only when it changes" (`can_protocol.c:1068`): a two-byte answer
  (`qi_protocol.h:55-59`) is parsed to 0.x.y, the report is not, so every start
  and query rewrite the page twice ("same source", `can_protocol.c:3095`).
* A power cut during a write of the version loses serial number and key; the
  function's comment avoids that only for a page that is missing already
  (`device_info.c:227`). Writing a key on a torn page makes a serial number of FF.
* DID 0x2133 and 0x2132 ignore the valid flag; a report of six data bytes passes
  the check (`can_protocol.c:2611`) while `data[6]` is read (`docs/4:51-57`); the
  refresh by polling (`can_protocol.c:1827-1840`) is never started; 0x37 drops an
  answer owed for DID 0x2013.

Of settings and charging:

* The result of the page write is ignored (`can_protocol.c:2101`, `2145`): with a
  flash fault an answered disable or level is in RAM only, and `DisableSticks` and
  `Durable` are false.
* A fault of the chip is never cleared before a power cut
  (`can_protocol.c:2676-2739`); a count of 0xFFFFFFFF never counts again
  (`2624-2637`); DID 0x210D during a download sends to the chip although the
  comment (`1380`) says it does not; comments and documents disagree on the
  polarity of PA0 (`board_gpio.c:105`, `docs/15:638`, `649`).

Of sleep and lifecycle:

* `lifecycle_post` sends directly although older frames wait in the queue
  (`lifecycle.c:108-120`); `docs/10` (TC-LC05) says the order is kept.
* `sit1145_sleep_commit` takes a read-back of 0xFF for asleep (`sit1145.c:490`,
  `510`). If the write was lost too the chip is awake and the device, which now
  polls for wake-up latches only, hears no request; the comment prefers no sleep
  to sleep death (`455-456`). `AsleepWakes` admits it at the price of two lost
  transfers.
* The wake decision may swallow a frame in two ways (`FrameWakes`; the comment at
  `can_protocol.c:3182-3184` knows of the first).
* The lockout is compared with a signed difference (`can_protocol.c:2201`), which
  turns after 25 days awake.

Of the production station:

* After an enable whose answers are lost `chargeOk` is false, and the safe stop
  that the comments promise (`Station1Control.xaml.cs:314`,
  `Station3Control.xaml.cs:278`) is not sent.
* After a missing sample or a failed read-back the serial number is in the unit
  but not consumed (`Station1Workflow.cs:19`, `58`): the next unit gets it too, and
  passes or fails on one record with it (`Station4Control.xaml.cs:15`).
* `_nextSequence` starts at 1 with each start of the program and on each machine
  (`docs/21` says so); a retest at station 1 makes a new number, so the promised
  overwriting of the record never happens; station 2 stores no record, while
  station 4 demands one.

## 7. Not modelled

* Most of the 74 800 lines: 57 000 are the vendor's drivers and CMSIS, twice,
  and 5 500 the tools' user interfaces and the power analyser. Of the
  application's own code about half stands behind the models.
* Time as a number, except in `SleepWake`, where it is scaled. Timers are events
  with guards.
* Cryptography, CRC, image formats: images and signatures are valid or not.
  Random seeds are distinct and not zero.
* DIDs that only read a variable or a page, the sniffer of DID 0x2140, and the
  extended fields of the status report: they change no state.
* The signature inside 27 02, flow control with overflow or wait, 7F xx 78 at the
  transport level, bus-off recovery: no tool of the repository causes the first
  two, the others are left for later.
* The station runner (a list of steps around the UDS client, each a request of
  the free hosts of the models), the production station, the CAN driver, and safe
  mode's UDS subset: see section 5.
* `nvm_drv_set_valid`, `nvm_drv_erase`, the refresh of the version by polling and
  the SBC functions nothing calls.
* Drivers, user interface, power analyser, vendored code: no protocol state.

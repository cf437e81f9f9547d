------------------------------ MODULE SleepWake ------------------------------
(***************************************************************************)
(* The application's main loop as far as sleeping and waking go: the idle  *)
(* gate, the S3 session timer, the sleep entry, the wake-up decision and   *)
(* the lifecycle broadcasts of can_protocol.c and lifecycle.c, over the    *)
(* transceiver of WakeFilter.                                              *)
(*                                                                         *)
(* Time is kept as ages of the code's time stamps, which saturate at the   *)
(* largest limit they are compared with.  can_protocol_poll takes its      *)
(* "now" once, at its start, and can serve requests and wait for seconds   *)
(* after that, so the age of "now" is a variable too: a stamp may well be  *)
(* younger than "now".                                                     *)
(***************************************************************************)
EXTENDS WakeFilter, Integers, Sequences

CONSTANTS
  Delay,     \* CAN_LP_ANNOUNCE_DELAY_MS, CAN_LP_WAKE_INHIBIT_MS (100 ms)
  Period,    \* LIFECYCLE_PERIODIC_INTERVAL_MS (1 s)
  RxLimit,   \* ISOTP_N_CR_TIMEOUT_MS (2 s)
  Idle,      \* CAN_LP_IDLE_TIMEOUT_MS (10 s)
  Long,      \* SESSION_TIMEOUT_MS, and the idle limit of an upgrade (30 s)
  Sends      \* attempts at one multi-frame answer (3)

ASSUME TimeConstants ==
  /\ {Delay, Period, RxLimit, Idle, Long, Sends} \subseteq Nat \ {0}
  /\ Delay <= Period /\ Period < Idle /\ Sends + RxLimit < Idle
  /\ Idle <= Long

VARIABLES
  pc,     \* where the main loop is
  dev,    \* the variables of can_protocol.c and lifecycle.c
  latch,  \* the wake-up event latches of the transceiver, and its RXD pin
  host    \* whether there still is a tester

vars == <<chip, cfg, pc, dev, latch, host>>

BOOTUP == "BOOTUP"
OPERATIONAL == "OPERATIONAL"

Least(a, b) == IF a < b THEN a ELSE b

(***************************************************************************)
(* awake    g_can_awake                     session  current_session       *)
(* owed     attempts left for the answer in g_tx_pend, 0: none             *)
(* rx       time until a request in assembly is dropped, 0: none           *)
(* announce g_need_lifecycle_announce       ever     g_lp_ever_sleep       *)
(* state    g_lifecycle_state               pending  g_pending             *)
(* use      what keeps the device up: charging, or a Qi chip upgrade       *)
(* now uds tp edge cast  ages of now, g_uds_last_ms,                       *)
(*          last_tester_present_tick, g_sleep_since_ms (the wake-up when   *)
(*          awake, from which g_announce_due_ms is derived) and            *)
(*          g_last_broadcast_tick                                          *)
(***************************************************************************)
Frames == {BOOTUP, OPERATIONAL}
PendingMax == 4

Dev ==
  [awake : BOOLEAN, session : {"default", "other"}, owed : 0 .. Sends,
   rx : 0 .. RxLimit, announce : BOOLEAN, ever : BOOLEAN, state : Frames,
   pending : {q \in Seq(Frames) : Len(q) <= PendingMax},
   use : {"none", "charging", "upgrade"}, now : 0 .. Long, uds : 0 .. Long,
   tp : 0 .. Long, edge : 0 .. Delay, cast : 0 .. Period]

Booted(ever) ==
  [awake |-> FALSE, session |-> "default", owed |-> 0, rx |-> 0,
   announce |-> FALSE, ever |-> ever, state |-> BOOTUP, pending |-> <<>>,
   use |-> "none", now |-> 0, uds |-> 0, tp |-> 0, edge |-> 0, cast |-> 0]

(***************************************************************************)
(* flag   a wake-up event is latched (CW or WUF)    low  RXD reads low     *)
(* wipe   g_lp_pre_wipe_due                                                *)
(* fault  the one SPI transfer of the latches (a clear, or a read, which   *)
(*        then answers 0xFF) that may get lost in a sleep is lost          *)
(* frame  what became of the frames since the last wipe (no variable of    *)
(*        the code): none came, one waits to be noticed, or the last was   *)
(*        swallowed by the decision                                        *)
(***************************************************************************)
Fates == {"none", "waiting", "swallowed"}

Latch == [flag : BOOLEAN, low : BOOLEAN, wipe : BOOLEAN, fault : BOOLEAN,
          frame : Fates]

Quiet == [flag |-> FALSE, low |-> FALSE, wipe |-> FALSE, fault |-> FALSE,
          frame |-> "none"]

-----------------------------------------------------------------------------
(* Time, requests and lifecycle frames, as functions of the device.        *)

Aged(d, n) ==
  [d EXCEPT !.now = Least(@ + n, Long), !.uds = Least(@ + n, Long),
            !.tp = IF d.session = "default" THEN 0 ELSE Least(@ + n, Long),
            !.edge = Least(@ + n, Delay), !.cast = Least(@ + n, Period),
            !.rx = IF @ > n THEN @ - n ELSE Least(@, 1)]

(* session_reset_to_default, which drops an unsent answer too.             *)
SessionReset(d) == [d EXCEPT !.session = "default", !.owed = 0, !.tp = 0]

(***************************************************************************)
(* One request served by can_driver_poll -> isotp -> uds_process_message:  *)
(* it refreshes the idle timer and S3.  Of what it asks, only this counts: *)
(* a plain one, one that opens or ends another session, one whose answer   *)
(* takes several frames (left in the single slot g_tx_pend if that is      *)
(* free), and the first frame of a long request.                           *)
(***************************************************************************)
Requests == {"plain", "open", "close", "long answer", "first frame"}

Served(d, r) ==
  LET e == [d EXCEPT !.uds = 0, !.tp = 0] IN
    CASE r = "plain" -> [e EXCEPT !.rx = 0]
      [] r = "open" -> [e EXCEPT !.session = "other", !.rx = 0]
      [] r = "close" -> [SessionReset(e) EXCEPT !.rx = 0]
      [] r = "long answer" -> [e EXCEPT !.rx = 0,
                                        !.owed = IF @ = 0 THEN Sends ELSE @]
      [] r = "first frame" -> [e EXCEPT !.rx = RxLimit]

(* The tester may send nothing or one request while the device listens.    *)
MayServe(d) ==
  {d} \cup (IF host = "present" THEN {Served(d, r) : r \in Requests} ELSE {})

(***************************************************************************)
(* isotp_wait_cts hands frames to isotp_rx_process itself: a first frame   *)
(* that arrives there refreshes no timer, a whole request does.            *)
(***************************************************************************)
MayServeInline(d) ==
  {d} \cup (IF host = "present"
            THEN {[d EXCEPT !.rx = RxLimit]}
                   \cup {Served(d, r) : r \in Requests \ {"first frame"}}
            ELSE {})

Busy(d) == d.owed > 0 \/ d.rx > 0

(* can_protocol_lifecycle_tx_ready, with the tick of the moment.           *)
TxReady(d) == d.awake /\ ~Busy(d) /\ (d.announce => d.edge >= Delay)

(* lifecycle_post: send it, or queue it unless it is the last one queued.  *)
Post(d, s) ==
  IF TxReady(d) THEN d
  ELSE IF Len(d.pending) > 0 /\ d.pending[Len(d.pending)] = s THEN d
  ELSE IF Len(d.pending) < PendingMax THEN [d EXCEPT !.pending = Append(@, s)]
  ELSE d

(* lifecycle_flush: the queue goes out in order once the bus is ready.     *)
Flushed(d) ==
  IF TxReady(d) THEN [d EXCEPT !.pending = <<>>] ELSE d

-----------------------------------------------------------------------------
(* can_protocol_poll.                                                      *)

(***************************************************************************)
(* can_lp_enter_normal: on line, event cleared, the idle timer restarted,  *)
(* the announcement due in Delay.                                          *)
(***************************************************************************)
OnLine(d) ==
  [d EXCEPT !.awake = TRUE, !.uds = 0, !.edge = 0, !.announce = TRUE]

(* ... and, after a sleep, CAN_LP_RX_HARVEST_MS of serving requests.       *)
Harvests(d) ==
  UNION {MayServe(Aged(OnLine(d), n)) : n \in {0, 1}}

(* The first poll after can_protocol_init takes "now" after going on line. *)
PollBoot ==
  /\ pc = "boot"
  /\ \E d \in IF dev.ever THEN Harvests(dev) ELSE {OnLine(dev)} :
       dev' = [d EXCEPT !.now = 0]
  /\ pc' = "announce"
  /\ UNCHANGED <<chip, cfg, latch, host>>

PollBegin ==
  /\ pc = "poll"
  /\ dev' = [dev EXCEPT !.now = 0]
  /\ pc' = IF dev.awake THEN "announce"
           ELSE IF dev.edge < Delay THEN "poll"
           ELSE IF latch.wipe THEN "wipe" ELSE "decide"
  /\ UNCHANGED <<chip, cfg, latch, host>>

(* A clear or a read of the latches gets lost on SPI.                      *)
Lost == ~latch.fault /\ latch' = [latch EXCEPT !.fault = TRUE]

(* The latches are read, or the read answers 0xFF, which shows no latch.   *)
ReadSet == latch.flag /\ UNCHANGED latch
ReadClear == \/ ~latch.flag /\ UNCHANGED latch
             \/ Lost

(***************************************************************************)
(* sit1145_wakeup_clear in the wipe: whatever is latched is gone.  RXD is  *)
(* released some time later (StalePin), or never.                          *)
(***************************************************************************)
WipeLatches ==
  latch' \in {[latch EXCEPT !.flag = FALSE, !.wipe = FALSE, !.frame = "none"]}
              \cup (IF latch.fault THEN {}
                    ELSE {[latch EXCEPT !.wipe = FALSE, !.fault = TRUE]})

(* The unconditional wipe of the first poll after the inhibit window ...   *)
Wipe ==
  /\ pc = "wipe"
  /\ WipeLatches
  /\ pc' = "rewipe"
  /\ UNCHANGED <<chip, cfg, dev, host>>

(* A slip: the wipe is not read back.                                      *)
RewipeSkipped ==
  /\ pc = "rewipe"
  /\ pc' = "decide"
  /\ UNCHANGED <<chip, cfg, dev, latch, host>>

(* ... read back ...                                                       *)
Rewipe ==
  /\ pc = "rewipe"
  /\ \/ ReadSet /\ pc' = "wipe again"
     \/ ReadClear /\ pc' = "decide"
  /\ UNCHANGED <<chip, cfg, dev, host>>

(* ... and repeated if a latch still reads as set.                         *)
WipeAgain ==
  /\ pc = "wipe again"
  /\ WipeLatches
  /\ pc' = "decide"
  /\ UNCHANGED <<chip, cfg, dev, host>>

(* can_lp_enter_normal from the wake-up decision: "now" stays as it was.   *)
WakeUp ==
  /\ dev' \in Harvests(dev)
  /\ latch' = Quiet
  /\ chip' = [chip EXCEPT !.sleep = FALSE]
  /\ pc' = "announce"

StaysAsleep(next) == pc' = next /\ UNCHANGED <<chip, dev>>

(***************************************************************************)
(* The decision, one step per look at the chip.  First the latches ...     *)
(***************************************************************************)
ReadLatches ==
  /\ pc = "decide"
  /\ \/ UNCHANGED latch /\ pc' = IF latch.flag THEN "flag" ELSE "no flag"
     \/ Lost /\ pc' = "no answer"
  /\ UNCHANGED <<chip, cfg, dev, host>>

(***************************************************************************)
(* ... then the pin.  Latch set and RXD released: a real wake-up.  RXD     *)
(* low: suspicious, clear and look again (without a latch only every       *)
(* CAN_LP_WIPE_RETRY_MS, so maybe not now).                                *)
(***************************************************************************)
ReadPin ==
  /\ pc \in {"flag", "no flag"}
  /\ \/ pc = "flag" /\ ~latch.low /\ WakeUp
     \/ pc = "flag" /\ latch.low /\ StaysAsleep("clear flag") /\ UNCHANGED latch
     \/ pc = "no flag" /\ latch.low /\ StaysAsleep("clear pin") /\ UNCHANGED latch
     \/ pc = "no flag" /\ StaysAsleep("poll") /\ UNCHANGED latch
  /\ UNCHANGED <<cfg, host>>

(* SPI dead: sit1145_wakeup_pending takes a low pin for a wake-up ...      *)
PendingPin ==
  /\ pc = "no answer"
  /\ IF latch.low THEN WakeUp ELSE StaysAsleep("pin high") /\ UNCHANGED latch
  /\ UNCHANGED <<cfg, host>>

(* ... and reads the latches again.                                        *)
PendingLatches ==
  /\ pc = "pin high"
  /\ IF latch.flag THEN WakeUp ELSE StaysAsleep("poll") /\ UNCHANGED latch
  /\ UNCHANGED <<cfg, host>>

(***************************************************************************)
(* The clear of a suspicious latch.  A frame that came after the latches   *)
(* were read as clear is swallowed here.                                   *)
(***************************************************************************)
ClearLatches ==
  /\ pc \in {"clear flag", "clear pin"}
  /\ \/ latch' = [latch EXCEPT !.flag = FALSE,
                               !.frame = IF pc = "clear pin" /\ latch.flag
                                         THEN "swallowed" ELSE @]
     \/ Lost
  /\ pc' = IF pc = "clear flag" THEN "cleared flag" ELSE "cleared pin"
  /\ UNCHANGED <<chip, cfg, dev, host>>

(* A latch that survived the clear is not waited for; else wait up to 5 ms. *)
Cleared ==
  /\ pc \in {"cleared flag", "cleared pin"}
  /\ \/ /\ ReadSet
        /\ pc' = IF pc = "cleared flag" THEN "judge flag" ELSE "judge pin"
     \/ /\ ReadClear
        /\ pc' = IF pc = "cleared flag" THEN "waited flag" ELSE "waited pin"
  /\ UNCHANGED <<chip, cfg, dev, host>>

(* After the wait: a latch set since the clear is a frame sent again.      *)
Waited ==
  /\ pc \in {"waited flag", "waited pin"}
  /\ \/ latch.flag /\ WakeUp
     \/ /\ ReadClear
        /\ StaysAsleep(IF pc = "waited flag" THEN "judge flag" ELSE "judge pin")
  /\ UNCHANGED <<cfg, host>>

(* Still low, the poll is blocked; a frame whose latch is gone stays unseen. *)
Blocked ==
  /\ StaysAsleep("poll")
  /\ latch' = [latch EXCEPT !.frame = IF @ = "waiting" /\ ~latch.flag
                                      THEN "swallowed" ELSE @]

(* A slip: the latch that was set before the clear is not trusted.         *)
JudgeForgets ==
  /\ pc \in {"judge flag", "judge pin"}
  /\ IF latch.low THEN Blocked ELSE StaysAsleep("poll") /\ UNCHANGED latch
  /\ UNCHANGED <<cfg, host>>

(***************************************************************************)
(* The pin once more: still low, it blocks this poll; released, it wakes   *)
(* the device only if a latch had been set before the clear.               *)
(***************************************************************************)
Judge ==
  /\ pc \in {"judge flag", "judge pin"}
  /\ \/ latch.low /\ Blocked
     \/ ~latch.low /\ pc = "judge flag" /\ WakeUp
     \/ ~latch.low /\ pc = "judge pin" /\ StaysAsleep("poll") /\ UNCHANGED latch
  /\ UNCHANGED <<cfg, host>>

(* The announcement, BOOTUP and then OPERATIONAL, due by the poll's "now". *)
Announced(d) ==
  [Post([Post([d EXCEPT !.announce = FALSE], BOOTUP)
           EXCEPT !.state = OPERATIONAL], OPERATIONAL) EXCEPT !.cast = 0]

Announce ==
  /\ pc = "announce"
  /\ dev' = IF dev.announce /\ dev.edge - dev.now >= Delay
            THEN Announced(dev) ELSE dev
  /\ pc' = "flush"
  /\ UNCHANGED <<chip, cfg, latch, host>>

(* A slip: a failed answer is tried for ever.                              *)
FlushForEver ==
  /\ pc = "flush"
  /\ LET d == [dev EXCEPT !.rx = IF @ = 1 THEN 0 ELSE @] IN
       IF d.owed = 0 THEN dev' = d
       ELSE \E n \in {0, 1} : \E e \in MayServeInline(Aged(d, n)) :
              \/ host = "present" /\ dev' = [e EXCEPT !.owed = 0]
              \/ n = 1 /\ dev' = e
  /\ pc' = "idle"
  /\ UNCHANGED <<chip, cfg, latch, host>>

(***************************************************************************)
(* isotp_poll drops an assembly that timed out; proto_flush_pending_tx     *)
(* sends the owed answer and waits for its flow control, serving requests  *)
(* meanwhile.  Sent, or given up at the last attempt, it is owed no more.  *)
(***************************************************************************)
FlushPending ==
  /\ pc = "flush"
  /\ LET d == [dev EXCEPT !.rx = IF @ = 1 THEN 0 ELSE @] IN
       IF d.owed = 0 THEN dev' = d
       ELSE \E n \in {0, 1} : \E e \in MayServeInline(Aged(d, n)) :
              \/ host = "present" /\ dev' = [e EXCEPT !.owed = 0]
              \/ n = 1 /\ dev' = [e EXCEPT !.owed = IF @ = 0 THEN 0 ELSE @ - 1]
  /\ pc' = "idle"
  /\ UNCHANGED <<chip, cfg, latch, host>>

(* The idle timer: charging refreshes it with "now", an upgrade widens it. *)
IdleLimit(d) == IF d.use = "upgrade" THEN Long ELSE Idle

Refreshed(d) == IF d.use = "charging" THEN [d EXCEPT !.uds = d.now] ELSE d

Expired(d) == d.uds - d.now >= IdleLimit(d)

(* S3, the end of can_protocol_poll, in the code's unsigned arithmetic.    *)
S3Expired(d) ==
  d.session # "default" /\ (d.tp < d.now \/ d.tp - d.now >= Long)

StayAwake ==
  /\ pc = "idle"
  /\ LET d == Refreshed(dev) IN
       /\ ~Expired(d)
       /\ dev' = IF S3Expired(d) THEN SessionReset(d) ELSE d
  /\ pc' = "driver"
  /\ UNCHANGED <<chip, cfg, latch, host>>

(***************************************************************************)
(* can_lp_go_sleep: the session ends, queued lifecycle frames are dropped, *)
(* the SLEEP frame goes out, the transceiver is configured.  Its bounded   *)
(* wait for a multi-frame exchange never runs: see NothingOwed.            *)
(***************************************************************************)
GoSleep ==
  /\ pc = "idle"
  /\ Expired(Refreshed(dev))
  /\ dev' = [SessionReset(dev) EXCEPT !.pending = <<>>]
  /\ StartConfig
  /\ pc' = "config"
  /\ UNCHANGED <<latch, host>>

Configure == pc = "config" /\ FilterNext /\ UNCHANGED <<pc, dev, latch, host>>

(* The chip refused: back on line, and the same again in the next poll.    *)
SleepRefused ==
  /\ pc = "config"
  /\ cfg.at = "refused"
  /\ cfg' = [cfg EXCEPT !.at = "off", !.round = 1]
  /\ pc' = "driver"
  /\ UNCHANGED <<chip, dev, latch, host>>

(***************************************************************************)
(* Asleep.  On the product INH cuts the board's supply; on a bench supply, *)
(* or if the chip did not really go to Sleep, the processor keeps its RAM  *)
(* and polls the latches.                                                  *)
(***************************************************************************)
FallAsleep ==
  /\ pc = "config"
  /\ cfg.at = "asleep"
  /\ cfg' = [cfg EXCEPT !.at = "off", !.round = 1]
  /\ latch' = [Quiet EXCEPT !.wipe = TRUE]
  /\ \/ /\ pc' = "poll"
        /\ dev' = [dev EXCEPT !.awake = FALSE, !.edge = 0, !.ever = TRUE]
     \/ /\ chip.sleep
        /\ pc' = "no supply"
        /\ dev' = Booted(TRUE)
  /\ UNCHANGED <<chip, host>>

-----------------------------------------------------------------------------
(* The rest of the main loop.                                              *)

(* can_driver_poll serves requests, and reports a recovery from bus-off.   *)
DriverPoll ==
  /\ pc = "driver"
  /\ \/ dev' \in MayServe(dev)
     \/ dev.cast >= Period /\ dev' = [Post(dev, dev.state) EXCEPT !.cast = 0]
  /\ pc' = "lifecycle"
  /\ UNCHANGED <<chip, cfg, latch, host>>

(* A slip: the periodic frame counts as traffic.                           *)
LifecycleRefreshes ==
  /\ pc = "lifecycle"
  /\ LET d == Flushed(dev) IN
       dev' = IF /\ d.state = OPERATIONAL /\ d.use # "upgrade"
                 /\ d.cast >= Period
              THEN Post([d EXCEPT !.cast = 0, !.uds = 0], d.state)
              ELSE d
  /\ pc' = "poll"
  /\ UNCHANGED <<chip, cfg, latch, host>>

(* lifecycle_poll: flush, then the periodic OPERATIONAL.                   *)
LifecyclePoll ==
  /\ pc = "lifecycle"
  /\ LET d == Flushed(dev) IN
       dev' = IF /\ d.state = OPERATIONAL /\ d.use # "upgrade"
                 /\ d.cast >= Period
              THEN Post([d EXCEPT !.cast = 0], d.state)
              ELSE d
  /\ pc' = "poll"
  /\ UNCHANGED <<chip, cfg, latch, host>>

Loop ==
  \/ PollBoot \/ PollBegin
  \/ Wipe \/ Rewipe \/ WipeAgain
  \/ ReadLatches \/ ReadPin \/ PendingPin \/ PendingLatches
  \/ ClearLatches \/ Cleared \/ Waited \/ Judge
  \/ Announce \/ FlushPending \/ StayAwake
  \/ GoSleep \/ Configure \/ SleepRefused \/ FallAsleep
  \/ DriverPoll \/ LifecyclePoll

(***************************************************************************)
(* Time passes between two polls, and before the lifecycle poll.  A turn   *)
(* of the loop is short against the second FlushPending may wait, so while *)
(* an answer is owed only those waits count.                               *)
(***************************************************************************)
Tick ==
  /\ pc \in {"poll", "lifecycle"}
  /\ dev.owed = 0
  /\ dev' = Aged(dev, 1)
  /\ UNCHANGED <<chip, cfg, pc, latch, host>>

-----------------------------------------------------------------------------
(* The surroundings.                                                       *)

(* A phone is placed or taken away; the tester upgrades the Qi chip.       *)
Use ==
  /\ pc = "poll" /\ dev.awake
  /\ \E u \in {"none", "charging", "upgrade"} :
       /\ u = "upgrade" => host = "present"
       /\ dev' = [dev EXCEPT !.use = u]
  /\ UNCHANGED <<chip, cfg, pc, latch, host>>

Leave ==
  /\ pc = "poll"
  /\ host' = "gone"
  /\ UNCHANGED <<chip, cfg, pc, dev, latch>>

(* On entry to Sleep the chip may latch a wake-up that no frame caused.    *)
Phantom ==
  /\ ~dev.awake /\ latch.wipe /\ pc # "no supply"
  /\ \E low \in BOOLEAN :
       latch' = [latch EXCEPT !.flag = TRUE, !.low = low]
  /\ UNCHANGED <<chip, cfg, pc, dev, host>>

(* RXD may read low without any latch, and is released at any time.        *)
StalePin ==
  /\ ~dev.awake /\ pc \notin {"no supply", "boot"}
  /\ latch' = [latch EXCEPT !.low = ~@]
  /\ UNCHANGED <<chip, cfg, pc, dev, host>>

(* The host sends the wake frame to a device that polls its latches ...    *)
Frame ==
  /\ ~dev.awake /\ chip.sleep /\ Hears /\ pc # "no supply"
  /\ host = "present"
  /\ \E low \in BOOLEAN :
       latch' = [latch EXCEPT !.flag = TRUE, !.low = low,
                              !.frame = "waiting"]
  /\ UNCHANGED <<chip, cfg, pc, dev, host>>

(* ... or to one without supply: INH returns, and the boot sees the latch. *)
PowerUp ==
  /\ pc = "no supply" /\ Hears /\ host = "present"
  /\ latch' = Quiet
  /\ chip' = [chip EXCEPT !.sleep = FALSE]
  /\ pc' = "boot"
  /\ UNCHANGED <<cfg, dev, host>>

Init ==
  /\ chip = [cwe |-> TRUE, filter |-> FALSE, rate |-> TRUE, cpnc |-> FALSE,
             pncok |-> FALSE, sleep |-> FALSE]
  /\ cfg = [at |-> "off", round |-> 1, lost |-> 0]
  /\ pc = "boot"
  /\ dev = Booted(FALSE)
  /\ latch = Quiet
  /\ host = "present"

Next ==
  \/ Loop \/ Tick
  \/ Use \/ Leave \/ Phantom \/ StalePin \/ Frame \/ PowerUp

Spec == Init /\ [][Next]_vars

(***************************************************************************)
(* The main loop keeps running, time keeps passing, and no sender manages  *)
(* to hit, in every poll, the microseconds between a clear and its         *)
(* read-back, or those between the last look at the latches and the pin.   *)
(***************************************************************************)
FairSpec ==
  /\ Spec
  /\ WF_vars(Loop) /\ SF_vars(Tick)
  /\ SF_vars(Cleared /\ ~latch.flag) /\ SF_vars(Judge /\ ~latch.flag)

-----------------------------------------------------------------------------

Labels ==
  {"boot", "poll", "wipe", "rewipe", "wipe again", "decide", "flag", "no flag",
   "no answer", "pin high", "clear flag", "clear pin", "cleared flag",
   "cleared pin", "waited flag", "waited pin", "judge flag", "judge pin",
   "announce", "flush", "idle", "config", "no supply", "driver", "lifecycle"}

(* Every variable has its type; the queue never grows past its four slots. *)
TypeOK ==
  /\ chip \in Chip
  /\ cfg \in Cfg
  /\ pc \in Labels
  /\ dev \in Dev
  /\ latch \in Latch
  /\ host \in {"present", "gone"}

(***************************************************************************)
(* When the idle timer sends the device to sleep, no multi-frame answer is *)
(* owed and no request is half received, so the wait of can_lp_go_sleep is *)
(* never needed and session_reset_to_default throws no answer away.        *)
(***************************************************************************)
NothingOwed ==
  pc = "idle" /\ Expired(Refreshed(dev)) => ~Busy(dev)

(***************************************************************************)
(* A device on a bench supply wakes only for a frame that came after the   *)
(* wipe and was not swallowed, although the chip may latch a phantom on    *)
(* entry, RXD may be low for no reason, and one clear or read of the       *)
(* latches may be lost.  The one exception is the code's own: a lost read  *)
(* with RXD low ("a dead SPI must never swallow a bus wake").              *)
(***************************************************************************)
OnlyFramesWake ==
  [][~dev.awake /\ pc # "boot" /\ dev'.awake
       => latch.frame = "waiting" \/ (pc = "no answer" /\ latch.low)]_vars

(***************************************************************************)
(* Once the wipe is over a wake frame wakes the device, in whatever step   *)
(* of the decision it falls, even if a clear or a read of its latch is     *)
(* lost, but for two cases in which the decision swallows it: it came      *)
(* after the latches had been read as clear, with RXD low, and was cleared *)
(* unseen (ClearLatches); or RXD was still low when the decision ended,    *)
(* its latch already consumed (Blocked).  While RXD is released neither    *)
(* can happen.                                                             *)
(***************************************************************************)
FrameWakes ==
  ~dev.awake /\ latch.frame = "waiting" /\ ~latch.wipe
     /\ pc \notin {"rewipe", "wipe again"}
  ~> dev.awake \/ latch.frame = "swallowed"

(***************************************************************************)
(* With the tester gone, nothing to charge and the SPI bus working, the    *)
(* device goes to sleep and stays asleep.                                  *)
(***************************************************************************)
IdleSleeps ==
  <>[](host = "gone" /\ dev.use = "none" /\ cfg.lost = 0 /\ ~latch.fault)
    => <>[](~dev.awake)

(***************************************************************************)
(* S3 (docs/3:265, docs/15:150): a session ends by itself only after Long  *)
(* without a request.                                                      *)
(***************************************************************************)
SessionKept ==
  [][pc = "idle" /\ dev.session = "other" /\ dev'.session = "default"
       => dev.tp >= Long \/ Expired(Refreshed(dev))]_vars

=============================================================================

----------------------------- MODULE QiUpgrade -----------------------------
(***************************************************************************)
(* An MCU2 upgrade end to end: a host, the CAN link, and the charger of    *)
(* QiIap.  The host is the maintenance tool (RunUpgradeAsync on            *)
(* UdsClient), or one that keeps to the P2 timing the device announces.    *)
(* It sends one request at a time, repeats an unanswered 0x36 a few times, *)
(* gives up on a negative answer, and reports a pass whatever becomes of   *)
(* 0x37.  ISO-TP delivers a message whole and in order, or not at all.     *)
(***************************************************************************)
EXTENDS QiIap

CONSTANTS
  Kinds,        \* the kinds of host, each with the disturbances it meets
  MaxAttempts   \* upgrades started

(* eager: the host may time out before the device answers (P2 is 50 ms,    *)
(* the deferred answer takes up to 2.5 s); FALSE for the tool, which waits *)
(* 8 s.  retries: requestRetries of the 0x36 call.  losses, noise: the     *)
(* bounds on messages lost on CAN and on faults of the UART.               *)
ASSUME HostAssumption ==
  /\ Kinds \subseteq [eager: BOOLEAN, retries: Nat, losses: Nat,
                      noise: 0..MaxNoise]
  /\ MaxAttempts \in Nat

VARIABLES
  kind,       \* the host
  host,       \* phase, blk (next chunk), waiting, tries
  requests,   \* UDS requests on their way to the device
  lost,       \* messages lost so far
  attempts    \* upgrades started so far

vars == <<qvars, kind, host, requests, lost, attempts>>

SidOf == [erase |-> "31", download |-> "34", data |-> "36", exit |-> "37"]
Working == DOMAIN SidOf

Init ==
  /\ DeviceInit
  /\ kind \in Kinds
  /\ host = [phase |-> "idle", blk |-> 0, waiting |-> FALSE, tries |-> 0]
  /\ requests = <<>>
  /\ lost = 0
  /\ attempts = 0

-----------------------------------------------------------------------------
BscOf(blk) == (blk + 1) % SeqMod

Request ==
  [sid |-> SidOf[host.phase], chunk |-> host.blk,
   bsc |-> IF host.phase = "data" THEN BscOf(host.blk) ELSE 0]

(* Open the session, unlock, choose MCU2, and begin.                       *)
HostStart ==
  /\ host.phase \in {"idle", "passed", "failed"}
  /\ attempts < MaxAttempts
  /\ attempts' = attempts + 1
  /\ host' = [phase |-> "erase", blk |-> 0, waiting |-> FALSE, tries |-> 0]
  /\ EnterProgramming
  /\ UNCHANGED <<kind, requests, lost>>

HostSend ==
  /\ host.phase \in Working /\ ~host.waiting
  /\ requests' = Append(requests, Request)
  /\ host' = [host EXCEPT !.waiting = TRUE]
  /\ UNCHANGED <<qvars, kind, lost, attempts>>

(* The filter of TryRequestOnce: the service, and for 0x76 the number too. *)
Matches(a) ==
  /\ host.waiting
  /\ a.sid = Request.sid
  /\ a.ok /\ a.sid = "36" => a.bsc = Request.bsc

(* What follows a phase that ended well.                                   *)
Advance ==
  CASE host.phase = "erase"    -> [host EXCEPT !.phase = "download"]
    [] host.phase = "download" -> [host EXCEPT !.phase = "data"]
    [] host.phase = "data" /\ host.blk < NChunks - 1 ->
                                  [host EXCEPT !.blk = @ + 1]
    [] host.phase = "data" /\ host.blk >= NChunks - 1 ->
                                  [host EXCEPT !.phase = "exit"]
    [] OTHER                   -> [host EXCEPT !.phase = "passed"]

GiveUp == [host EXCEPT !.phase = IF @ = "exit" THEN "passed" ELSE "failed"]

HostTake ==
  /\ answers # <<>>
  /\ LET a == Head(answers) IN
     host' = IF ~Matches(a) THEN host
             ELSE [(IF a.ok THEN Advance ELSE GiveUp)
                     EXCEPT !.waiting = FALSE, !.tries = 0]
  /\ answers' = Tail(answers)
  /\ UNCHANGED <<dvars, uart, kind, requests, lost, attempts>>

(* The tool's 8 s are longer than any deferred answer takes.               *)
Silent == requests = <<>> /\ answers = <<>> /\ ~Owed

HostTimeout ==
  /\ host.waiting
  /\ kind.eager \/ Silent
  /\ host' = IF host.phase = "data" /\ host.tries < kind.retries
               THEN [host EXCEPT !.waiting = FALSE, !.tries = @ + 1]
               ELSE [GiveUp EXCEPT !.waiting = FALSE, !.tries = 0]
  /\ UNCHANGED <<qvars, kind, requests, lost, attempts>>

-----------------------------------------------------------------------------
Serve(r) ==
  CASE r.sid = "31" -> Erase
    [] r.sid = "34" -> RequestDownload
    [] r.sid = "36" -> TransferData(r.bsc, r.chunk)
    [] OTHER        -> TransferExit

DeviceServe ==
  /\ requests # <<>>
  /\ Serve(Head(requests))
  /\ requests' = Tail(requests)
  /\ UNCHANGED <<kind, host, lost, attempts>>

DevicePoll == Poll /\ UNCHANGED <<kind, host, requests, lost, attempts>>

(* Thirty seconds without a request: nobody is upgrading.                  *)
S3Timeout ==
  /\ host.phase \notin Working /\ requests = <<>>
  /\ SessionLost
  /\ UNCHANGED <<kind, host, requests, lost, attempts>>

ChipStep ==
  /\ Chip
  /\ noise' <= kind.noise
  /\ UNCHANGED <<kind, host, requests, lost, attempts>>

LoseRequest ==
  /\ requests # <<>>
  /\ requests' = Tail(requests)
  /\ UNCHANGED <<qvars, host>>

LoseAnswer ==
  /\ answers # <<>>
  /\ answers' = Tail(answers)
  /\ UNCHANGED <<dvars, uart, host, requests>>

Lose ==
  /\ lost < kind.losses
  /\ lost' = lost + 1
  /\ UNCHANGED <<kind, attempts>>
  /\ LoseRequest \/ LoseAnswer

(* Every upgrade allowed has been run and all is quiet.                    *)
Finished ==
  /\ host.phase \in {"passed", "failed"} /\ attempts = MaxAttempts
  /\ ~gate /\ requests = <<>> /\ answers = <<>>
  /\ UNCHANGED vars

Next == \/ HostStart \/ HostSend \/ HostTake \/ HostTimeout
        \/ DeviceServe \/ DevicePoll \/ S3Timeout \/ ChipStep \/ Lose
        \/ Finished

Spec == Init /\ [][Next]_vars

(* The device and the chip alone: the main loop polls, the chip works      *)
(* through its commands.                                                   *)
FairSpec == Spec /\ WF_vars(DevicePoll) /\ WF_vars(ChipStep)

(* Somebody talks to the device, or nobody does and the session times out. *)
Attended ==
  /\ WF_vars(DeviceServe)
  /\ WF_vars(S3Timeout)
  /\ WF_vars(HostSend) /\ WF_vars(HostTake) /\ WF_vars(HostTimeout)

-----------------------------------------------------------------------------
Requests == [sid: Sids, chunk: Chunks, bsc: Bsc]
Hosts == [phase: Working \cup {"idle", "passed", "failed"}, blk: Chunks,
          waiting: BOOLEAN, tries: 0..kind.retries]

TypeOK ==
  /\ DeviceTypeOK
  /\ kind \in Kinds
  /\ host \in Hosts
  /\ requests \in Seq(Requests)
  /\ lost \in 0..kind.losses
  /\ attempts \in 0..MaxAttempts

(* The supply of the chip is held on for as long as a download is active   *)
(* or an answer is still owed to the host (board_iap_hold_power against    *)
(* ota_dl_abort, 0x37 and the session timeout).                            *)
PowerHeld == dl.active \/ Owed => hold

(* A chunk is only ever programmed at its own address, however requests    *)
(* and answers are lost, repeated or late (duplicate detection of 0x36     *)
(* against g_mcu2_addr).                                                   *)
ChunksInPlace == \A p \in image : p[1] = p[2]

(* A refusal the host would take for the block it is sending is about that *)
(* block (can_proto_qi_iap_resp_cancel against the deferred answers).      *)
RefusalsMatch ==
  \A j \in DOMAIN answers :
    LET a == answers[j] IN
    a.sid = "36" /\ ~a.ok /\ host.phase = "data" /\ Matches(a)
      => a.bsc = Request.bsc

Whole == image = {<<c, c>> : c \in Chunks}

(* Unless both links were disturbed, an upgrade the tool reports as passed *)
(* has left the whole firmware in the chip.                                *)
PassedWhole ==
  host.phase = "passed" /\ ~kind.eager /\ (lost = 0 \/ noise = 0) => Whole

(* The device never leaves an answer owed: the acknowledgement, or its     *)
(* timeout, sees to it, whatever the host does (qi_iap_ack_poll).          *)
DeferredAnswered == Owed ~> ~Owed

(* Once nobody starts another upgrade the chip's supply is released, by    *)
(* 0x37 or by the session timeout (board_iap_hold_power).                  *)
PowerReleased == Attended => <>[](~hold)

-----------------------------------------------------------------------------
(* What comments and documents say of this path, and the code does not do. *)

(* can_protocol.c:1224-1226, and docs/15: 0x76 is sent only once the chip  *)
(* has acknowledged the block, a refusal or a timeout is answered with     *)
(* 7F 36 72.                                                               *)
AckedMeansTaken ==
  \A j \in DOMAIN answers :
    answers[j].sid = "36" /\ answers[j].ok /\ Matches(answers[j])
      => host.phase = "data" /\ <<host.blk, host.blk>> \in image

=============================================================================

------------------------------- MODULE QiIap -------------------------------
(***************************************************************************)
(* The MCU2 (Qi chip) upgrade path of the application.  0x31, 0x34, 0x36   *)
(* and 0x37 are the same services as for MCU1, but the data goes to the    *)
(* chip over a UART and the answer to 0x34 and 0x36 is deferred until the  *)
(* chip's acknowledgement has been polled.  The request handlers and the   *)
(* polls all run in the main loop, so each is one action.                  *)
(*                                                                         *)
(* A 0x36 block is one chunk of QI_IAP_MAX_CHUNK bytes.  The chip and the  *)
(* bytes on the UART are external: they are modelled from the commands     *)
(* this code sends and the frames it accepts.  A timer is modelled by      *)
(* letting it expire only when what it waits for can no longer come.       *)
(***************************************************************************)
EXTENDS Integers, Sequences

CONSTANTS
  NChunks,    \* chunks of the chip firmware
  SeqMod,     \* modulus of the block sequence counter (256 in the code)
  MaxNoise    \* commands the chip refuses or loses, and acknowledgements lost

ASSUME QiAssumption ==
  /\ NChunks \in Nat \ {0}
  /\ SeqMod \in Nat /\ SeqMod > 2
  /\ MaxNoise \in Nat

VARIABLES
  gate,      \* in the programming session and unlocked
  dl,        \* the download: erased, active, ready, seq, written (chunks)
  iap,       \* g_qi_iap_*: state, resp, bsc, pending (chunks), total, sent
  hold,      \* g_iap_hold_power: the chip's supply is held on
  answers,   \* UDS answers on their way to the host
  toChip, fromChip,   \* the UART, both ways
  image,     \* what the chip has programmed: pairs <<address, chunk>>
  prepared,  \* the chip is in IAP mode
  noise      \* number of UART faults so far

dvars == <<gate, dl, iap, hold>>
uart  == <<toChip, fromChip, image, prepared, noise>>
qvars == <<dvars, answers, uart>>

States == {"IDLE", "WAIT_ACK", "IN_PROGRESS", "SUCCESS", "FAILED"}
Chunks == 0..(NChunks - 1)
Bsc    == 0..(SeqMod - 1)
Sids   == {"31", "34", "36", "37"}

(* The bsc of a negative answer is not on the wire; it says which request  *)
(* the answer is about.                                                    *)
Answer(sid, ok, bsc) == [sid |-> sid, ok |-> ok, bsc |-> bsc]
Send(a) == answers' = Append(answers, a)

(* can_proto_qi_iap_reset; total and sent stay.                            *)
Reset == [iap EXCEPT !.state = "IDLE", !.resp = "NONE", !.pending = 0]

NoDownload == [erased |-> FALSE, active |-> FALSE, ready |-> dl.ready,
               seq |-> 0, written |-> 0]

Frames   == [cmd: {"IAP", "ACK"}, status: {"OK", "FAILED", "COMPLETE"}]
Commands == [cmd: {"PREPARE", "DATA"}, addr: Nat, chunk: Chunks]
Answers  == [sid: Sids, ok: BOOLEAN, bsc: Bsc]

Downloads == [erased: BOOLEAN, active: BOOLEAN, ready: BOOLEAN,
              seq: Bsc, written: Nat]

IapStates == [state: States, resp: {"NONE", "RDB", "TXD"}, bsc: Bsc,
              pending: {0, 1}, total: Nat, sent: Nat]

DeviceTypeOK ==
  /\ gate \in BOOLEAN
  /\ dl \in Downloads
  /\ iap \in IapStates
  /\ hold \in BOOLEAN
  /\ answers \in Seq(Answers)
  /\ toChip \in Seq(Commands)
  /\ fromChip \in Seq(Frames)
  /\ image \subseteq Nat \X Chunks
  /\ prepared \in BOOLEAN
  /\ noise \in 0..MaxNoise

DeviceInit ==
  /\ gate = FALSE
  /\ dl = [erased |-> FALSE, active |-> FALSE, ready |-> FALSE,
           seq |-> 0, written |-> 0]
  /\ iap = [state |-> "IDLE", resp |-> "NONE", bsc |-> 0, pending |-> 0,
            total |-> 0, sent |-> 0]
  /\ hold = FALSE
  /\ answers = <<>>
  /\ toChip = <<>>
  /\ fromChip = <<>>
  /\ image = {}
  /\ prepared = FALSE
  /\ noise = 0

-----------------------------------------------------------------------------
(* Mutant: an owed answer survives.                                        *)
AbortIapKeepsAnswer ==
  /\ iap' = [Reset EXCEPT !.resp = iap.resp]
  /\ hold' = FALSE

(* Mutant: the supply stays on.                                            *)
AbortIapHolds ==
  /\ iap' = Reset
  /\ hold' = hold

(* ota_dl_abort with can_proto_qi_iap_reset.                               *)
AbortIap ==
  /\ iap' = Reset
  /\ hold' = FALSE

(* session_reset_to_default (S3 expired, or 10 01).                        *)
SessionLost ==
  /\ gate
  /\ gate' = FALSE
  /\ dl' = NoDownload
  /\ AbortIap
  /\ UNCHANGED <<answers, uart>>

(* 10 02 and 27: they abort nothing.                                       *)
EnterProgramming ==
  /\ gate' = TRUE
  /\ UNCHANGED <<dl, iap, hold, answers, uart>>

Refuse(sid, bsc) ==
  /\ Send(Answer(sid, FALSE, bsc))
  /\ UNCHANGED <<gate, iap, hold, uart>>

Erase ==
  \/ /\ ~gate
     /\ Refuse("31", 0)
     /\ UNCHANGED dl
  \/ /\ gate
     /\ dl' = [NoDownload EXCEPT !.erased = TRUE, !.ready = FALSE]
     /\ AbortIap
     /\ Send(Answer("31", TRUE, 0))
     /\ UNCHANGED <<gate, uart>>

(* can_proto_qi_iap_prepare_async: the UART input is flushed first.        *)
Prepare ==
  /\ hold' = TRUE
  /\ fromChip' = <<>>
  /\ toChip' = Append(toChip, [cmd |-> "PREPARE", addr |-> 0, chunk |-> 0])
  /\ iap' = [iap EXCEPT !.state = "WAIT_ACK", !.resp = "RDB", !.pending = 0,
                        !.total = NChunks, !.sent = 0]
  /\ UNCHANGED <<image, prepared, noise>>

RequestDownload ==
  \/ /\ ~gate \/ ~dl.erased
     /\ Refuse("34", 0)
     /\ UNCHANGED dl
  \/ /\ gate /\ dl.erased
     /\ dl' = [dl EXCEPT !.active = TRUE, !.ready = FALSE, !.seq = 0,
                         !.written = 0]
     /\ Prepare
     /\ UNCHANGED <<gate, answers>>

NotCancelled == iap   \* mutant: the owed answer stays owed

(* can_proto_qi_iap_resp_cancel                                            *)
Cancelled ==
  IF iap.resp = "TXD" THEN [iap EXCEPT !.resp = "NONE", !.pending = 0]
                      ELSE iap

NextBsc == (dl.seq + 1) % SeqMod

(* can_proto_qi_iap_data_async                                             *)
Forward(addr, chunk, bsc) ==
  /\ toChip' = Append(toChip, [cmd |-> "DATA", addr |-> addr, chunk |-> chunk])
  /\ iap' = [iap EXCEPT !.state = "WAIT_ACK", !.resp = "TXD", !.bsc = bsc,
                        !.pending = 1]
  /\ UNCHANGED <<hold, fromChip, image, prepared, noise>>

(* The chunk counts as written, and its number as accepted, before the     *)
(* chip has seen it.                                                       *)
AcceptBlock(bsc, chunk) ==
  /\ bsc # dl.seq /\ bsc = NextBsc
  /\ dl' = [dl EXCEPT !.seq = bsc, !.written = @ + 1]
  /\ Forward(dl.written, chunk, bsc)
  /\ UNCHANGED <<gate, answers>>

RejectBlock(bsc) ==
  /\ bsc # dl.seq /\ bsc # NextBsc
  /\ dl' = [dl EXCEPT !.active = FALSE, !.seq = NextBsc]
  /\ Refuse("36", bsc)

(* Mutant: a repeated block goes to the chip again, at the next address.   *)
RepeatBlockForwarded(bsc, chunk) ==
  /\ bsc = dl.seq
  /\ dl' = [dl EXCEPT !.written = @ + 1]
  /\ Forward(dl.written, chunk, bsc)
  /\ UNCHANGED <<gate, answers>>

(* A block with the number of the last accepted one is answered at once.   *)
RepeatBlock(bsc, chunk) ==
  /\ bsc = dl.seq
  /\ iap' = Cancelled
  /\ Send(Answer("36", TRUE, bsc))
  /\ UNCHANGED <<gate, dl, hold, uart>>

TransferData(bsc, chunk) ==
  \/ /\ ~gate \/ ~dl.active
     /\ Refuse("36", bsc)
     /\ UNCHANGED dl
  \/ /\ gate /\ dl.active
     /\ \/ RepeatBlock(bsc, chunk)
        \/ RejectBlock(bsc)
        \/ AcceptBlock(bsc, chunk)

(* 0x37: neither the size nor an outstanding acknowledgement is looked at. *)
TransferExit ==
  \/ /\ ~gate \/ ~dl.active
     /\ Send(Answer("37", gate /\ dl.ready, 0))
     /\ UNCHANGED <<dvars, uart>>
  \/ /\ gate /\ dl.active
     /\ dl' = [dl EXCEPT !.active = FALSE, !.erased = FALSE, !.ready = TRUE]
     /\ AbortIap
     /\ Send(Answer("37", TRUE, 0))
     /\ UNCHANGED <<gate, uart>>

-----------------------------------------------------------------------------
Acked(chunks) == [iap EXCEPT !.sent = @ + chunks, !.pending = 0]

(* qi_iap_frame_cb and qi_iap_apply_ack_status on one frame: a 0xCC frame  *)
(* is taken in any state, an ACK frame only in WAIT_ACK.                   *)
Applied(f) ==
  IF f.cmd = "ACK" /\ iap.state # "WAIT_ACK" THEN iap
  ELSE CASE f.status = "FAILED"   -> [iap EXCEPT !.state = "FAILED", !.pending = 0]
         [] f.status = "COMPLETE" -> [Acked(iap.pending) EXCEPT !.state = "SUCCESS"]
         [] f.status = "OK" /\ iap.state = "WAIT_ACK" ->
              [Acked(iap.pending) EXCEPT !.state = "IN_PROGRESS"]
         [] OTHER -> iap

PollFrame ==
  /\ fromChip # <<>>
  /\ iap' = Applied(Head(fromChip))
  /\ fromChip' = Tail(fromChip)
  /\ UNCHANGED <<gate, dl, hold, answers, toChip, image, prepared, noise>>

Owed == iap.resp # "NONE"

(* Mutant: a refusal of the chip is passed on as a success.                *)
DeferredPositive(ok) ==
  Answer(IF iap.resp = "RDB" THEN "34" ELSE "36", TRUE,
         IF iap.resp = "RDB" THEN 0 ELSE iap.bsc)

Deferred(ok) ==
  Answer(IF iap.resp = "RDB" THEN "34" ELSE "36", ok,
         IF iap.resp = "RDB" THEN 0 ELSE iap.bsc)

(* Mutant: only data is timed.                                             *)
AckTimeoutData ==
  iap.state = "WAIT_ACK" /\ iap.resp = "TXD" /\ toChip = <<>> /\ fromChip = <<>>

(* The acknowledgement timer of iap_ack_poll.                              *)
AckTimeout == iap.state = "WAIT_ACK" /\ toChip = <<>> /\ fromChip = <<>>

AckPoll ==
  /\ Owed
  /\ \/ /\ iap.state \in {"IN_PROGRESS", "SUCCESS"}
        /\ Send(Deferred(TRUE))
        /\ iap' = [iap EXCEPT !.resp = "NONE"]
     \/ /\ iap.state = "FAILED" \/ AckTimeout
        /\ Send(Deferred(FALSE))
        /\ iap' = [iap EXCEPT !.state = "IN_PROGRESS", !.resp = "NONE",
                              !.pending = 0]
  /\ UNCHANGED <<gate, dl, hold, uart>>

(* can_protocol_poll: everything was acknowledged three seconds ago.       *)
AutoComplete ==
  /\ iap.state = "IN_PROGRESS"
  /\ iap.total > 0 /\ iap.sent >= iap.total
  /\ iap' = [iap EXCEPT !.state = "SUCCESS"]
  /\ UNCHANGED <<gate, dl, hold, answers, uart>>

-----------------------------------------------------------------------------
(* The chip.  Its frames: 0xCC echoes the command on success; a failure    *)
(* comes in either kind of frame; completion only in an ACK frame.         *)
GoodFrames == {[cmd |-> "IAP", status |-> "OK"], [cmd |-> "ACK", status |-> "OK"]}
BadFrames  == {[cmd |-> "IAP", status |-> "FAILED"],
               [cmd |-> "ACK", status |-> "FAILED"]}
LastFrame  == [cmd |-> "ACK", status |-> "COMPLETE"]

Written(c) == image \cup {<<c.addr, c.chunk>>}

(* The chip carries out a command and acknowledges it.                     *)
ChipTakes ==
  /\ toChip # <<>>
  /\ LET c == Head(toChip) IN
     /\ c.cmd = "DATA" => prepared
     /\ prepared' = TRUE
     /\ image' = IF c.cmd = "PREPARE" THEN {} ELSE Written(c)
     /\ \E f \in GoodFrames \cup (IF c.cmd = "DATA" /\ c.addr = NChunks - 1
                                    THEN {LastFrame} ELSE {}) :
          \/ fromChip' = Append(fromChip, f) /\ noise' = noise
          \/ fromChip' = fromChip /\ noise < MaxNoise /\ noise' = noise + 1
  /\ toChip' = Tail(toChip)
  /\ UNCHANGED <<dvars, answers>>

(* The chip refuses a command, or never sees it: a fault, except for data  *)
(* that reaches a chip that is not in IAP mode.                            *)
ChipRefuses ==
  /\ toChip # <<>>
  /\ LET stray == Head(toChip).cmd = "DATA" /\ ~prepared IN
     /\ stray \/ noise < MaxNoise
     /\ noise' = IF stray THEN noise ELSE noise + 1
  /\ \/ fromChip' = fromChip
     \/ \E f \in BadFrames : fromChip' = Append(fromChip, f)
  /\ toChip' = Tail(toChip)
  /\ UNCHANGED <<dvars, answers, image, prepared>>

(* Without the hold the 5 V supply may be cut at any time.                 *)
ChipOff ==
  /\ ~hold
  /\ prepared \/ toChip # <<>>
  /\ prepared' = FALSE
  /\ toChip' = <<>>
  /\ UNCHANGED <<dvars, answers, fromChip, image, noise>>

Poll == PollFrame \/ AckPoll \/ AutoComplete
Chip == ChipTakes \/ ChipRefuses \/ ChipOff
=============================================================================

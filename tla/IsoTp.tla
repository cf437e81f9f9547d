-------------------------------- MODULE IsoTp --------------------------------
(***************************************************************************)
(* The ISO 15765-2 link between the application of the device and the      *)
(* maintenance tool.  A message longer than one CAN frame is a first frame *)
(* (FF), a flow control (FC) of the receiver and consecutive frames (CF).  *)
(*                                                                         *)
(* The device sends a long answer from the main loop, out of a slot of one *)
(* message; while it waits for the flow control it processes whatever      *)
(* arrives, new requests included.  The tool sends a request, waits for    *)
(* the answer that matches it, and asks again when none comes.             *)
(*                                                                         *)
(* A message is known by its kind (service and DID), the request it is or  *)
(* answers, and the execution that produced it: two answers to one request *)
(* may differ.  A buffer is the sequence of the pieces it was built from.  *)
(* A timeout expires when what it waits for can no longer come; MaxHasty   *)
(* of them expire earlier, since the device may be busy for longer.        *)
(***************************************************************************)
EXTENDS Integers, Sequences, SequencesExt

CONSTANTS
  Kinds,      \* kinds of request
  Req, Ans,   \* consecutive frames of a request and of its answer, by kind
  Resets,     \* kinds that reset the session (10 01)
  SnMod,      \* modulus of the sequence number (16 in the code)
  MaxAsks,    \* requests the tool sends, repetitions included
  MaxFaults,  \* frames lost and transmissions the mailboxes refuse
  MaxHasty,   \* timeouts of the tool that expire early
  MaxQueue    \* frames kept for a tool that does not read

ASSUME IsoAssumption ==
  /\ Req \in [Kinds -> Nat] /\ Ans \in [Kinds -> Nat]
  /\ Resets \subseteq {k \in Kinds : Ans[k] = 0}
  /\ SnMod \in Nat /\ SnMod > 1
  /\ MaxAsks \in Nat /\ MaxFaults \in Nat /\ MaxHasty \in Nat
  /\ MaxQueue \in Nat

VARIABLES
  rx,         \* rx_ctx: on, buf
  fcPending,  \* g_fc_pending
  tx,         \* isotp_tx_send: phase, copy (g_tx_copy), next
  slot,       \* g_tx_pend
  retries,    \* g_tx_pend_retries
  served,     \* requests executed
  heard,      \* the request executed last, as assembled
  ask,        \* the tool's request: phase, kind, re, tries
  half,       \* _ffBuf and _cfBuf: the half-assembled answer
  got,        \* the answer the tool accepted, as assembled
  toDev, toHost,          \* the CAN bus, both ways
  asks, faults, hasty     \* counters of the three bounds

device == <<rx, fcPending, tx, slot, retries, served, heard>>
tool   == <<ask, half, got, asks, hasty>>
vars   == <<device, tool, toDev, toHost, faults>>

(* execution 0 is the request itself.                                      *)
Messages == [kind: Kinds, re: Nat, v: Nat]
None     == [kind |-> "none", re |-> 0, v |-> 0]
Pieces   == [m: Messages, n: Nat]
Frames   == [t: {"SF", "FF", "CF"}, m: Messages, n: Nat]
              \union [t: {"FC"}, m: {None}, n: {0}]

Piece(f)     == [m |-> f.m, n |-> f.n]
Single(m)    == [t |-> "SF", m |-> m, n |-> 0]
First(m)     == [t |-> "FF", m |-> m, n |-> 0]
Consec(m, n) == [t |-> "CF", m |-> m, n |-> n]
FlowControl  == [t |-> "FC", m |-> None, n |-> 0]

(* The consecutive frames of a message.                                    *)
Cfs(m) == IF m.v = 0 THEN Req[m.kind] ELSE Ans[m.kind]

(* A CF is known by its number modulo SnMod only; buf[1] is the FF.        *)
Expected(buf, f) == f.n % SnMod = Len(buf) % SnMod
Complete(buf)    == Len(buf) = Cfs(buf[1].m) + 1

(* The pieces of one message in their order.                               *)
Intact(buf) == \A i \in DOMAIN buf : buf[i] = [m |-> buf[1].m, n |-> i - 1]

Has(queue, t) == \E i \in DOMAIN queue : queue[i].t = t

TypeOK ==
  /\ rx \in [on: BOOLEAN, buf: Seq(Pieces)]
  /\ fcPending \in BOOLEAN
  /\ tx \in [phase: {"idle", "cts", "send"}, copy: Messages \union {None},
             next: Nat]
  /\ slot \in Messages \union {None}
  /\ retries \in 0..2
  /\ served \in Nat
  /\ heard \in Seq(Pieces)
  /\ ask \in [phase: {"idle", "fc", "wait"}, kind: Kinds, re: Nat,
              tries: 0..3]
  /\ half \in Seq(Pieces)
  /\ got \in Seq(Pieces)
  /\ toDev \in Seq(Frames)
  /\ toHost \in Seq(Frames)
  /\ asks \in 0..MaxAsks /\ faults \in 0..MaxFaults /\ hasty \in 0..MaxHasty

Init ==
  /\ rx = [on |-> FALSE, buf |-> <<>>]
  /\ fcPending = FALSE
  /\ tx = [phase |-> "idle", copy |-> None, next |-> 0]
  /\ slot = None
  /\ retries = 0
  /\ served = 0
  /\ heard = <<>>
  /\ ask \in [phase: {"idle"}, kind: Kinds, re: {0}, tries: {0}]
  /\ half = <<>>
  /\ got = <<>>
  /\ toDev = <<>> /\ toHost = <<>>
  /\ asks = 0 /\ faults = 0 /\ hasty = 0

Fault ==
  /\ faults < MaxFaults
  /\ faults' = faults + 1

-----------------------------------------------------------------------------
(* The device.                                                             *)

(* proto_send_response: a short answer is sent at once; when the mailboxes *)
(* refuse it, and for a long answer, it goes to the slot, which an older   *)
(* answer keeps.  `kept' is the slot after a reset of the session.         *)
Respond(a, kept) ==
  \/ /\ Ans[a.kind] = 0
     /\ toHost' = Append(toHost, Single(a))
     /\ slot' = kept
     /\ UNCHANGED <<retries, faults>>
  \/ /\ IF Ans[a.kind] = 0 THEN Fault ELSE UNCHANGED faults
     /\ IF kept = None
          THEN slot' = a /\ retries' = 0
          ELSE slot' = kept /\ UNCHANGED retries
     /\ UNCHANGED toHost

(* uds_process_message on an assembled request; session_reset_to_default   *)
(* empties the slot.                                                       *)
Dispatch(buf) ==
  LET m == buf[1].m
      a == [m EXCEPT !.v = served + 1]
  IN  /\ heard' = buf
      /\ served' = served + 1
      /\ Respond(a, IF m.kind \in Resets THEN None ELSE slot)

SingleFrame(f) ==
  /\ f.t = "SF"
  /\ rx' = [rx EXCEPT !.on = FALSE]
  /\ Dispatch(<<Piece(f)>>)
  /\ UNCHANGED fcPending

(* Mutant: a first frame does not start the buffer again.                  *)
FirstFrameKeepsBuffer(f) ==
  /\ f.t = "FF"
  /\ rx' = IF rx.on THEN rx ELSE [on |-> TRUE, buf |-> <<Piece(f)>>]
  /\ toHost' = Append(toHost, FlowControl)
  /\ fcPending' = FALSE
  /\ UNCHANGED <<slot, retries, served, heard, faults>>

(* When the mailboxes are busy for 20 ms the flow control is left to       *)
(* isotp_poll.                                                             *)
FirstFrame(f) ==
  /\ f.t = "FF"
  /\ rx' = [on |-> TRUE, buf |-> <<Piece(f)>>]
  /\ \/ /\ toHost' = Append(toHost, FlowControl)
        /\ fcPending' = FALSE
        /\ UNCHANGED faults
     \/ /\ Fault
        /\ fcPending' = TRUE
        /\ UNCHANGED toHost
  /\ UNCHANGED <<slot, retries, served, heard>>

(* A frame out of order is ignored; the transfer goes on.                  *)
ConsecutiveFrame(f) ==
  LET buf == Append(rx.buf, Piece(f))
      fits == rx.on /\ Expected(rx.buf, f)
  IN  /\ f.t = "CF"
      /\ UNCHANGED fcPending
      /\ \/ /\ fits /\ Complete(buf)
            /\ rx' = [on |-> FALSE, buf |-> buf]
            /\ Dispatch(buf)
         \/ /\ ~(fits /\ Complete(buf))
            /\ rx' = IF fits THEN [rx EXCEPT !.buf = buf] ELSE rx
            /\ UNCHANGED <<toHost, slot, retries, served, heard, faults>>

Receive(f) == SingleFrame(f) \/ FirstFrame(f) \/ ConsecutiveFrame(f)

(* can_protocol_rx_handler, from the main loop.  A flow control nobody     *)
(* waits for only sets a flag that isotp_wait_cts clears.                  *)
RxHandler ==
  /\ tx.phase = "idle" /\ toDev # <<>>
  /\ toDev' = Tail(toDev)
  /\ \/ Receive(Head(toDev))
     \/ /\ Head(toDev).t = "FC"
        /\ UNCHANGED <<rx, fcPending, toHost, slot, retries, served, heard,
                       faults>>
  /\ UNCHANGED <<tx, tool>>

(* isotp_poll sends the flow control that was left over; its five attempts *)
(* may all fail.                                                           *)
PollFlowControl ==
  /\ tx.phase = "idle" /\ fcPending
  /\ fcPending' = FALSE
  /\ \/ toHost' = Append(toHost, FlowControl) /\ UNCHANGED faults
     \/ Fault /\ UNCHANGED toHost
  /\ UNCHANGED <<rx, tx, slot, retries, served, heard, tool, toDev>>

(* N_Cr, in isotp_poll.                                                    *)
ReceiveTimeout ==
  /\ tx.phase = "idle" /\ rx.on
  /\ toDev = <<>> /\ ~fcPending /\ ~(ask.phase = "fc" /\ Has(toHost, "FC"))
  /\ rx' = [rx EXCEPT !.on = FALSE]
  /\ UNCHANGED <<fcPending, tx, slot, retries, served, heard, tool, toDev,
                 toHost, faults>>

(* Mutant: a message that fails is retried for ever.                       *)
SendFailedForever ==
  /\ tx' = [tx EXCEPT !.phase = "idle"]
  /\ retries' = 0
  /\ UNCHANGED slot

(* The third failure drops what the slot holds.                            *)
SendFailed ==
  /\ tx' = [tx EXCEPT !.phase = "idle"]
  /\ IF retries = 2
       THEN retries' = 0 /\ slot' = None
       ELSE retries' = retries + 1 /\ UNCHANGED slot

(* proto_flush_pending_tx as far as the first frame.                       *)
Flush ==
  /\ tx.phase = "idle" /\ slot # None /\ Len(toHost) < MaxQueue
  /\ \/ /\ Ans[slot.kind] = 0
        /\ toHost' = Append(toHost, Single(slot))
        /\ slot' = None /\ retries' = 0
        /\ UNCHANGED <<tx, faults>>
     \/ /\ Ans[slot.kind] > 0
        /\ toHost' = Append(toHost, First(slot))
        /\ tx' = [phase |-> "cts", copy |-> slot, next |-> 1]
        /\ UNCHANGED <<slot, retries, faults>>
     \/ /\ Fault
        /\ SendFailed
        /\ UNCHANGED toHost
  /\ UNCHANGED <<rx, fcPending, served, heard, tool, toDev>>

(* isotp_wait_cts: every frame is processed at once.                       *)
WaitCts ==
  /\ tx.phase = "cts" /\ toDev # <<>>
  /\ toDev' = Tail(toDev)
  /\ \/ Receive(Head(toDev)) /\ UNCHANGED tx
     \/ /\ Head(toDev).t = "FC"
        /\ tx' = [tx EXCEPT !.phase = "send"]
        /\ UNCHANGED <<rx, fcPending, toHost, slot, retries, served, heard,
                       faults>>
  /\ UNCHANGED tool

(* N_Bs.                                                                   *)
CtsTimeout ==
  /\ tx.phase = "cts" /\ ~Has(toDev, "FC")
  /\ ~(ask.phase = "wait" /\ Has(toHost, "FF"))
  /\ SendFailed
  /\ UNCHANGED <<rx, fcPending, served, heard, tool, toDev, toHost, faults>>

(* Mutant: the frames are read from the slot.                              *)
SendConsecutiveFromSlot ==
  /\ tx.phase = "send" /\ slot # None
  /\ toHost' = Append(toHost, Consec(slot, tx.next))
  /\ IF tx.next < Cfs(tx.copy)
       THEN /\ tx' = [tx EXCEPT !.next = @ + 1]
            /\ UNCHANGED <<slot, retries>>
       ELSE /\ tx' = [tx EXCEPT !.phase = "idle"]
            /\ slot' = None /\ retries' = 0
  /\ UNCHANGED <<rx, fcPending, served, heard, tool, toDev, faults>>

(* The tool announces no block size, so nothing is read between two        *)
(* consecutive frames.  After the last one the slot is cleared.            *)
SendConsecutive ==
  /\ tx.phase = "send"
  /\ \/ /\ toHost' = Append(toHost, Consec(tx.copy, tx.next))
        /\ IF tx.next < Cfs(tx.copy)
             THEN /\ tx' = [tx EXCEPT !.next = @ + 1]
                  /\ UNCHANGED <<slot, retries>>
             ELSE /\ tx' = [tx EXCEPT !.phase = "idle"]
                  /\ slot' = None /\ retries' = 0
        /\ UNCHANGED faults
     \/ /\ Fault
        /\ SendFailed
        /\ UNCHANGED toHost
  /\ UNCHANGED <<rx, fcPending, served, heard, tool, toDev>>

DeviceStep ==
  \/ RxHandler \/ PollFlowControl \/ ReceiveTimeout
  \/ Flush \/ WaitCts \/ CtsTimeout \/ SendConsecutive

-----------------------------------------------------------------------------
(* The tool.                                                               *)

Asked == [kind |-> ask.kind, re |-> ask.re, v |-> 0]

(* TryRequest: a new request, or the last one again.                       *)
Ask ==
  /\ ask.phase = "idle" /\ asks < MaxAsks
  /\ asks' = asks + 1
  /\ \E k \in Kinds, re \in {ask.re, asks + 1} :
       /\ re = ask.re => asks > 0 /\ k = ask.kind
       /\ LET m == [kind |-> k, re |-> re, v |-> 0]
          IN  \/ /\ Req[k] = 0
                 /\ toDev' = Append(toDev, Single(m))
                 /\ ask' = [phase |-> "wait", kind |-> k, re |-> re,
                            tries |-> 0]
              \/ /\ Req[k] > 0
                 /\ toDev' = Append(toDev, First(m))
                 /\ ask' = [phase |-> "fc", kind |-> k, re |-> re,
                            tries |-> 1]
  /\ got' = <<>>
  /\ UNCHANGED <<device, half, toHost, faults, hasty>>

Patient(quiet) ==
  \/ quiet /\ UNCHANGED hasty
  \/ ~quiet /\ hasty < MaxHasty /\ hasty' = hasty + 1

(* 300 ms without a flow control: the first frame again, three in all.     *)
FlowControlTimeout ==
  /\ ask.phase = "fc"
  /\ Patient(~Has(toDev, "FF") /\ ~Has(toHost, "FC") /\ ~fcPending)
  /\ \/ /\ ask.tries < 3
        /\ ask' = [ask EXCEPT !.tries = @ + 1]
        /\ toDev' = Append(toDev, First(Asked))
     \/ /\ ask.tries = 3
        /\ ask' = [ask EXCEPT !.phase = "idle"]
        /\ UNCHANGED toDev
  /\ UNCHANGED <<device, half, got, asks, toHost, faults>>

(* WaitFc throws every other frame away.  The consecutive frames go out as *)
(* one batch, the last one twice.                                          *)
AwaitFlowControl ==
  /\ ask.phase = "fc" /\ toHost # <<>>
  /\ toHost' = Tail(toHost)
  /\ IF Head(toHost).t = "FC"
       THEN /\ toDev' = toDev
                 \o [n \in 1..Req[ask.kind] |-> Consec(Asked, n)]
                 \o <<Consec(Asked, Req[ask.kind])>>
            /\ ask' = [ask EXCEPT !.phase = "wait"]
       ELSE UNCHANGED <<toDev, ask>>
  /\ UNCHANGED <<device, half, got, asks, hasty, faults>>

(* The answer matches by service and DID, which are in its first frame.    *)
Accept(buf) ==
  IF buf[1].m.kind = ask.kind
    THEN /\ got' = buf
         /\ ask' = [ask EXCEPT !.phase = "idle"]
    ELSE UNCHANGED <<got, ask>>

(* Mutant: the first consecutive frame does not start the body again.      *)
BodyGoesOn(f) == half

(* The first consecutive frame starts the body of the answer again, unless *)
(* its number is the one expected next.                                    *)
Body(f) ==
  IF half # <<>> /\ f.n % SnMod = 1 /\ ~Expected(half, f) THEN <<half[1]>>
                                                         ELSE half

(* A first frame never replaces a half-assembled answer, and is always     *)
(* answered, twice.                                                        *)
TryReceive ==
  LET f    == Head(toHost)
      base == Body(f)
      buf  == Append(base, Piece(f))
      fits == half # <<>> /\ Expected(base, f)
  IN  /\ ask.phase = "wait" /\ toHost # <<>>
      /\ toHost' = Tail(toHost)
      /\ \/ /\ f.t = "SF"
            /\ Accept(<<Piece(f)>>)
            /\ UNCHANGED <<half, toDev>>
         \/ /\ f.t = "FF"
            /\ half' = IF half = <<>> THEN <<Piece(f)>> ELSE half
            /\ toDev' = toDev \o <<FlowControl, FlowControl>>
            /\ UNCHANGED <<got, ask>>
         \/ /\ f.t = "CF" /\ fits /\ Complete(buf)
            /\ half' = <<>>
            /\ Accept(buf)
            /\ UNCHANGED toDev
         \/ /\ f.t = "CF" /\ ~(fits /\ Complete(buf))
            /\ half' = IF fits THEN buf ELSE half
            /\ UNCHANGED <<got, ask, toDev>>
         \/ /\ f.t = "FC"
            /\ UNCHANGED <<half, got, ask, toDev>>
      /\ UNCHANGED <<device, asks, hasty, faults>>

(* TryReceive returns null; the half-assembled answer stays.               *)
AnswerTimeout ==
  /\ ask.phase = "wait"
  /\ Patient(/\ toDev = <<>> /\ toHost = <<>>
             /\ tx.phase = "idle" /\ slot = None /\ ~fcPending)
  /\ ask' = [ask EXCEPT !.phase = "idle"]
  /\ UNCHANGED <<device, half, got, asks, toDev, toHost, faults>>

(* Five seconds after its first frame the half-assembled answer is dropped *)
(* by the next TryReceive.                                                 *)
Watchdog ==
  /\ ask.phase = "idle" /\ half # <<>>
  /\ half' = <<>>
  /\ UNCHANGED <<device, ask, got, asks, hasty, toDev, toHost, faults>>

ToolStep ==
  \/ Ask \/ FlowControlTimeout \/ AwaitFlowControl
  \/ TryReceive \/ AnswerTimeout \/ Watchdog

-----------------------------------------------------------------------------
Lose ==
  /\ Fault
  /\ \/ toDev # <<>> /\ toDev' = Tail(toDev) /\ UNCHANGED toHost
     \/ toHost # <<>> /\ toHost' = Tail(toHost) /\ UNCHANGED toDev
  /\ UNCHANGED <<device, tool>>

Next == DeviceStep \/ ToolStep \/ Lose

Spec == Init /\ [][Next]_vars

(* The main loop of the device runs for ever, and a tool that waits for an *)
(* answer reads what arrives.                                              *)
FairSpec == Spec /\ WF_vars(DeviceStep) /\ WF_vars(TryReceive)

-----------------------------------------------------------------------------
(* A request the device executes is one the tool sent, from its first byte *)
(* to its last, while frames are lost or timeouts expire early, but not    *)
(* both: requests are never put together from two (isotp_rx_process).      *)
RequestsIntact == faults = 0 \/ hasty = 0 => Intact(heard)

(* Unless a timeout expires early or two frames are lost, the body of an   *)
(* answer the tool accepts, all but its first frame, is the body of one    *)
(* answer, and that one is to the request the tool is waiting for          *)
(* (IsoTpClient.TryReceive).                                               *)
AnswersCurrent ==
  hasty = 0 /\ faults < 2 /\ got # <<>> =>
    /\ Last(got).m.re = ask.re
    /\ \A i \in 2..Len(got) : got[i] = [m |-> Last(got).m, n |-> i - 1]

(* The consecutive frames on the bus continue the first frame that went    *)
(* out last, without a gap, whatever requests are executed meanwhile       *)
(* (isotp_tx_send and isotp_wait_cts).                                     *)
SentInSequence ==
  \A i, j \in DOMAIN toHost :
    /\ i < j
    /\ toHost[j].t = "CF"
    /\ toHost[i].t \in {"FF", "CF"}
    /\ \A l \in (i + 1)..(j - 1) : toHost[l].t \notin {"FF", "CF"}
    => toHost[j].m = toHost[i].m /\ toHost[j].n = toHost[i].n + 1

(* The slot is emptied, so that later answers find room: an answer nobody  *)
(* fetches is dropped (proto_flush_pending_tx).                            *)
SlotDrains == slot # None ~> slot = None

(* A late half-assembled answer is never joined with the next one          *)
(* (IsoTpClient.cs:221).                                                   *)
AnswersIntact == Intact(got)
=============================================================================

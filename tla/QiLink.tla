------------------------------- MODULE QiLink -------------------------------
(***************************************************************************)
(* The UART between the charger and the Qi chip, byte by byte: the chip    *)
(* sends frames, the interrupt puts bytes into a ring (qi_uart.c), the     *)
(* main loop takes them out and the parser of qi_protocol.c makes frames   *)
(* of them again.  QiIap and Charging take whole frames for granted; this  *)
(* is where frames get lost, and how many at a time.                       *)
(*                                                                         *)
(* The parser knows no time: what it waits for may come from the next      *)
(* frame.  Bytes are numbers below 256; the sum is kept in one byte.       *)
(***************************************************************************)
EXTENDS Integers, SequencesExt

CONSTANTS
  MaxData,    \* QI_FRAME_MAX_DATA_LEN
  RingSize,   \* QI_UART_RX_BUF_SIZE
  Scripts,    \* what a chip may send: sequences of frames, repeated for ever
  Noise,      \* what a damaged byte may be received as
  MaxFaults   \* disturbances: a bound of the model

Byte == 0..255
Header1 == 85      \* 0x55
Header2 == 170     \* 0xAA
CmdIap  == 204     \* 0xCC

(* The frame on the wire: qi_protocol_send and qi_protocol_send_iap; an    *)
(* IAP frame has no sequence number, and its length does not count one.    *)
WithSeq(cmd) == cmd # CmdIap

Frame == {f \in [cmd : Byte, data : Seq(Byte), seq : Byte] :
            /\ Len(f.data) <= MaxData
            /\ WithSeq(f.cmd) \/ f.seq = 0}

ASSUME LinkAssumption ==
  /\ MaxData \in 1..253
  /\ RingSize \in Nat \ {0}
  /\ Noise \subseteq Byte
  /\ MaxFaults \in Nat
  /\ \A s \in Scripts : s \in Seq(Frame) /\ s # <<>>

VARIABLES
  script,   \* what this chip sends
  turn,     \* the frame of it that is being sent
  sent,     \* how many bytes of that frame are on their way
  ring,     \* rx_buf
  rx,       \* the parser
  heard,    \* what the last byte read gave: no frame, a frame, a wrong one
  missed,   \* frames in a row that ended since the last fault unheard
  faults    \* disturbances so far

vars == <<script, turn, sent, ring, rx, heard, missed, faults>>

-----------------------------------------------------------------------------
LenField(f) == Len(f.data) + IF WithSeq(f.cmd) THEN 2 ELSE 1

Body(f) == <<Header1, Header2, LenField(f), f.cmd>> \o f.data
             \o (IF WithSeq(f.cmd) THEN <<f.seq>> ELSE <<>>)

(* The sum after each of these bytes. *)
Sums(bytes) ==
  LET sum[k \in 0..Len(bytes)] ==
        IF k = 0 THEN 0 ELSE (sum[k - 1] + bytes[k]) % 256
  IN  sum

Wire(f) == LET body == Body(f) IN Append(body, Sums(body)[Len(body)])

Wires == [s \in Scripts |-> [k \in DOMAIN s |-> Wire(s[k])]]

-----------------------------------------------------------------------------
(* The parser.  rx_reset forgets everything.                               *)
Idle == [state |-> "IDLE", cs |-> 0, len |-> 0, cmd |-> 0, data |-> <<>>,
         seq |-> 0]

(* Mutant: the longest frame is refused.                                   *)
LengthOkShort(b) == b \in 1..(MaxData + 1)

LengthOk(b) == b \in 1..(MaxData + 2)

(* Mutant: every frame has a sequence number.                              *)
DataLenSeq(len, cmd) == len - 2

(* DATA bytes of a frame with this length field; negative when the length  *)
(* cannot hold what the command needs.                                     *)
DataLen(len, cmd) == len - IF WithSeq(cmd) THEN 2 ELSE 1

AfterData(cmd) == IF WithSeq(cmd) THEN "SEQ" ELSE "CS"

OnCmd(r, b) ==
  LET n == DataLen(r.len, b)
  IN  IF n < 0 \/ n > MaxData THEN Idle
      ELSE [r EXCEPT !.cmd = b,
                     !.state = IF n > 0 THEN "DATA" ELSE AfterData(b)]

OnData(r, b) ==
  [r EXCEPT !.data = Append(@, b),
            !.state = IF Len(r.data) + 1 >= DataLen(r.len, r.cmd)
                      THEN AfterData(r.cmd) ELSE "DATA"]

(* Mutant: a wrong checksum leaves the parser waiting for the right one.   *)
AfterMismatchWait(r) == r

AfterMismatch(r) == Idle

(* rx_process_byte, but for the callback. *)
Parse(r, b) ==
  LET s == [r EXCEPT !.cs = (@ + b) % 256]
  IN  CASE r.state = "IDLE"    -> IF b = Header1
                                  THEN [s EXCEPT !.state = "HEADER2"] ELSE r
        [] r.state = "HEADER2" -> IF b = Header2
                                  THEN [s EXCEPT !.state = "LENGTH"] ELSE Idle
        [] r.state = "LENGTH"  -> IF LengthOk(b)
                                  THEN [s EXCEPT !.len = b, !.state = "CMD"]
                                  ELSE Idle
        [] r.state = "CMD"     -> OnCmd(s, b)
        [] r.state = "DATA"    -> OnData(s, b)
        [] r.state = "SEQ"     -> [s EXCEPT !.seq = b, !.state = "CS"]
        [] r.state = "CS"      -> IF r.cs = b THEN Idle ELSE AfterMismatch(r)

(* rx_complete: the frame the callback is given with the byte b. *)
Completes(r, b) == r.state = "CS" /\ r.cs = b

FrameOf(r) == [cmd |-> r.cmd, data |-> r.data,
               seq |-> IF WithSeq(r.cmd) THEN r.seq ELSE 0]

-----------------------------------------------------------------------------
Init ==
  /\ script \in Scripts
  /\ turn = 1
  /\ sent = 0
  /\ ring = <<>>
  /\ rx = Idle
  /\ heard = "none"
  /\ missed = 0
  /\ faults = 0

Disturbed ==
  /\ faults < MaxFaults
  /\ faults' = faults + 1
  /\ missed' = 0

Undisturbed == UNCHANGED <<faults, missed>>

(* The byte the chip sends now.  In the ring it carries, for the           *)
(* properties only, its place: the n-th byte of that frame.                *)
Current == Wires[script][turn]
Arriving(b) == [v |-> b, turn |-> turn, n |-> sent + 1]

EndsFrame(it) == it.n = Len(Wires[script][it.turn])

NextTurn(s, k) == IF k = Len(s) THEN 1 ELSE k + 1

NextByte ==
  /\ IF sent + 1 = Len(Current)
     THEN turn' = NextTurn(script, turn) /\ sent' = 0
     ELSE turn' = turn /\ sent' = sent + 1
  /\ UNCHANGED <<script, rx, heard>>

(* qi_uart_rx_irq_handler: a byte that finds the ring full is dropped; the *)
(* loop is that late only when something holds it up.                      *)
Receive ==
  /\ NextByte
  /\ \/ /\ Len(ring) < RingSize
        /\ ring' = Append(ring, Arriving(Current[sent + 1]))
        /\ Undisturbed
     \/ /\ Len(ring) = RingSize
        /\ UNCHANGED ring
        /\ Disturbed

(* A byte is damaged or lost on the line. *)
Damage ==
  /\ NextByte
  /\ Len(ring) < RingSize
  /\ ring' \in {Append(ring, Arriving(b)) : b \in Noise} \cup {ring}
  /\ Disturbed

(* The supply of the chip is cut and comes back (board_charge_poll): it    *)
(* stops in the middle of a frame and starts anew.                         *)
CutSupply ==
  /\ turn' = 1
  /\ sent' = 0
  /\ Disturbed
  /\ UNCHANGED <<script, ring, rx, heard>>

(* qi_protocol_rx_flush, before an IAP and after the version probe. *)
Flush ==
  /\ rx' = Idle
  /\ ring' = <<>>
  /\ Disturbed
  /\ UNCHANGED <<script, turn, sent, heard>>

(* Beyond this many, frames missed in a row are not counted. *)
MissCap == MaxData + 8

Given(it) ==
  IF ~Completes(rx, it.v) THEN "none"
  ELSE IF EndsFrame(it) /\ FrameOf(rx) = script[it.turn] THEN "frame" ELSE "wrong"

(* One byte for the parser: the body of the loop of qi_protocol_poll, and  *)
(* what qi_uart_poll does once per turn of the main loop.                  *)
Read ==
  /\ ring # <<>>
  /\ LET it == Head(ring)
     IN  /\ rx' = Parse(rx, it.v)
         /\ heard' = Given(it)
         /\ missed' = IF Given(it) = "frame" THEN 0
                      ELSE IF EndsFrame(it) /\ missed < MissCap THEN missed + 1
                      ELSE missed
  /\ ring' = Tail(ring)
  /\ UNCHANGED <<script, turn, sent, faults>>

Next == Receive \/ Damage \/ CutSupply \/ Flush \/ Read

Spec == Init /\ [][Next]_vars

(* The chip keeps reporting and the main loop keeps polling. *)
FairSpec == Spec /\ WF_vars(Receive) /\ WF_vars(Read)

-----------------------------------------------------------------------------
TypeOK ==
  /\ script \in Scripts
  /\ turn \in DOMAIN script
  /\ sent \in 0..(Len(Current) - 1)
  /\ Len(ring) <= RingSize
  /\ \A k \in DOMAIN ring : ring[k].v \in Byte
  /\ rx.state \in {"IDLE", "HEADER2", "LENGTH", "CMD", "DATA", "SEQ", "CS"}
  /\ Len(rx.data) <= MaxData
  /\ rx.cs \in Byte
  /\ heard \in {"none", "frame", "wrong"}
  /\ missed \in 0..MissCap
  /\ faults \in 0..MaxFaults

(* Left alone, the link is transparent: every frame is handed on, once and *)
(* unchanged, whatever its bytes are, headers among them, with or without  *)
(* a sequence number and up to the greatest length.                        *)
Transparent == faults = 0 => missed = 0 /\ heard # "wrong"

(* A chip whose frames a parser out of step cannot mistake for others: no  *)
(* header inside a frame, and never two frames in a row that end like a    *)
(* header begins, each of which spoils the frame behind it.                *)
HeaderInside(w) ==
  \E k \in 3..(Len(w) - 1) : w[k] = Header1 /\ w[k + 1] = Header2
EndsLikeHeader(w) == Last(w) = Header1
Distinct ==
  {s \in Scripts :
     \A k \in DOMAIN s :
        /\ ~HeaderInside(Wires[s][k])
        /\ ~(EndsLikeHeader(Wires[s][k]) /\ EndsLikeHeader(Wires[s][NextTurn(s, k)]))}

Shortest(s) == Min({Len(Wires[s][k]) : k \in DOMAIN s})

(* The frame a disturbance hits, and one more where the parser takes the   *)
(* last byte of a frame for a header.                                      *)
Spoilt(s) == IF \E k \in DOMAIN s : EndsLikeHeader(Wires[s][k]) THEN 2 ELSE 1

(* What one disturbance costs a link in step: those frames, and what fits  *)
(* into the longest frame, as a length read in the wrong place may claim.  *)
LossBounded ==
  script \in Distinct /\ faults < 2
     => (missed - Spoilt(script)) * Shortest(script) <= MaxData + 6

(* After the last disturbance frames are heard again, for ever. *)
Recovers == script \in Distinct => []<>(heard = "frame")
=============================================================================

---------------------------- MODULE IsoTp_proofs ----------------------------
(***************************************************************************)
(* Proofs about IsoTp, for any kinds of request, any lengths, any modulus  *)
(* of the sequence number, and any number of requests, lost frames and     *)
(* early timeouts: the state is well typed, the consecutive frames of the  *)
(* device continue the first frame that went out last, requests arrive     *)
(* whole, and short answers are current.                                   *)
(***************************************************************************)
EXTENDS IsoTp, TLAPS

Long == {"FF", "CF"}

(* The long messages of a queue are in sequence: SentInSequence of any     *)
(* queue.                                                                  *)
Chained(q) ==
  \A i, j \in DOMAIN q :
    /\ i < j
    /\ q[j].t = "CF"
    /\ q[i].t \in Long
    /\ \A l \in (i + 1)..(j - 1) : q[l].t \notin Long
    => q[j].m = q[i].m /\ q[j].n = q[i].n + 1

(* The last frame of a long message in the queue, if it has one, is the    *)
(* n-th of m.                                                              *)
EndsIn(q, m, n) ==
  \A i \in DOMAIN q :
    /\ q[i].t \in Long
    /\ \A l \in (i + 1)..Len(q) : q[l].t \notin Long
    => q[i].m = m /\ q[i].n = n

-----------------------------------------------------------------------------
(* What a queue keeps when a frame is put in at its end or taken out at    *)
(* its front.                                                              *)
LEMMA ChainedTail ==
  ASSUME NEW q \in Seq(Frames), q # <<>>, Chained(q)
  PROVE  Chained(Tail(q))
<1> SUFFICES ASSUME NEW i \in DOMAIN Tail(q), NEW j \in DOMAIN Tail(q),
                    i < j, Tail(q)[j].t = "CF", Tail(q)[i].t \in Long,
                    \A l \in (i + 1)..(j - 1) : Tail(q)[l].t \notin Long
             PROVE  Tail(q)[j].m = Tail(q)[i].m /\ Tail(q)[j].n = Tail(q)[i].n + 1
  BY DEF Chained
<1>1. /\ i \in 1..(Len(q) - 1) /\ j \in 1..(Len(q) - 1)
      /\ \A k \in 1..(Len(q) - 1) : Tail(q)[k] = q[k + 1]
  OBVIOUS
<1>2. \A l \in (i + 2)..j : q[l].t \notin Long
  <2> TAKE l \in (i + 2)..j
  <2>1. l - 1 \in (i + 1)..(j - 1) /\ l - 1 \in 1..(Len(q) - 1)
    BY <1>1
  <2>2. Tail(q)[l - 1] = q[l]
    BY <1>1, <2>1
  <2> QED
    BY <2>1, <2>2
<1>3. /\ i + 1 \in DOMAIN q /\ j + 1 \in DOMAIN q /\ i + 1 < j + 1
      /\ q[j + 1].t = "CF" /\ q[i + 1].t \in Long
  BY <1>1
<1> QED
  BY <1>1, <1>2, <1>3 DEF Chained

LEMMA EndsInTail ==
  ASSUME NEW q \in Seq(Frames), q # <<>>, NEW m, NEW n, EndsIn(q, m, n)
  PROVE  EndsIn(Tail(q), m, n)
<1> SUFFICES ASSUME NEW i \in DOMAIN Tail(q), Tail(q)[i].t \in Long,
                    \A l \in (i + 1)..Len(Tail(q)) : Tail(q)[l].t \notin Long
             PROVE  Tail(q)[i].m = m /\ Tail(q)[i].n = n
  BY DEF EndsIn
<1>1. /\ i \in 1..(Len(q) - 1) /\ Len(Tail(q)) = Len(q) - 1
      /\ \A k \in 1..(Len(q) - 1) : Tail(q)[k] = q[k + 1]
  OBVIOUS
<1>2. \A l \in (i + 2)..Len(q) : q[l].t \notin Long
  <2> TAKE l \in (i + 2)..Len(q)
  <2>1. l - 1 \in (i + 1)..Len(Tail(q)) /\ l - 1 \in 1..(Len(q) - 1)
    BY <1>1
  <2>2. Tail(q)[l - 1] = q[l]
    BY <1>1, <2>1
  <2> QED
    BY <2>1, <2>2
<1> QED
  BY <1>1, <1>2 DEF EndsIn

LEMMA ChainedAppend ==
  ASSUME NEW q \in Seq(Frames), NEW f \in Frames, Chained(q),
         f.t = "CF" => EndsIn(q, f.m, f.n - 1)
  PROVE  Chained(Append(q, f))
<1> DEFINE p == Append(q, f)
<1>1. Len(p) = Len(q) + 1 /\ p[Len(q) + 1] = f /\ \A k \in 1..Len(q) : p[k] = q[k]
  OBVIOUS
<1> SUFFICES ASSUME NEW i \in DOMAIN p, NEW j \in DOMAIN p,
                    i < j, p[j].t = "CF", p[i].t \in Long,
                    \A l \in (i + 1)..(j - 1) : p[l].t \notin Long
             PROVE  p[j].m = p[i].m /\ p[j].n = p[i].n + 1
  BY DEF Chained
<1>2. i \in 1..Len(q) /\ j \in 1..(Len(q) + 1)
  OBVIOUS
<1>3. \A l \in (i + 1)..(j - 1) : q[l].t \notin Long
  BY <1>1, <1>2
<1>4. CASE j <= Len(q)
  BY <1>1, <1>2, <1>3, <1>4 DEF Chained
<1>5. CASE j = Len(q) + 1
  <2>1. q[i].m = f.m /\ q[i].n = f.n - 1
    BY <1>1, <1>2, <1>3, <1>5 DEF EndsIn
  <2>2. f.n \in Int
    BY DEF Frames
  <2> QED
    BY <1>1, <1>2, <1>5, <2>1, <2>2
<1> QED
  BY <1>2, <1>4, <1>5

LEMMA EndsInAppend ==
  ASSUME NEW q \in Seq(Frames), NEW f \in Frames, NEW m, NEW n,
         IF f.t \in Long THEN f.m = m /\ f.n = n ELSE EndsIn(q, m, n)
  PROVE  EndsIn(Append(q, f), m, n)
<1> DEFINE p == Append(q, f)
<1>1. Len(p) = Len(q) + 1 /\ p[Len(q) + 1] = f /\ \A k \in 1..Len(q) : p[k] = q[k]
  OBVIOUS
<1> SUFFICES ASSUME NEW i \in DOMAIN p, p[i].t \in Long,
                    \A l \in (i + 1)..Len(p) : p[l].t \notin Long
             PROVE  p[i].m = m /\ p[i].n = n
  BY DEF EndsIn
<1>2. CASE i = Len(q) + 1
  BY <1>1, <1>2
<1>3. CASE i \in 1..Len(q)
  <2>1. f.t \notin Long
    BY <1>1, <1>3
  <2>2. \A l \in (i + 1)..Len(q) : q[l].t \notin Long
    BY <1>1, <1>3
  <2> QED
    BY <1>1, <1>3, <2>1, <2>2 DEF EndsIn
<1> QED
  BY <1>1, <1>2, <1>3

-----------------------------------------------------------------------------
(* What an answer, an executed request and a received frame may change.    *)
Other(f) == f \in Frames /\ f.t \notin Long

AnswersQuietly ==
  /\ toHost' = toHost \/ \E f \in Frames : Other(f) /\ toHost' = Append(toHost, f)
  /\ slot' \in Messages \union {None}
  /\ retries' \in 0..2
  /\ faults' \in 0..MaxFaults

LEMMA FrameTypes ==
  /\ FlowControl \in Frames /\ Other(FlowControl)
  /\ \A m \in Messages : Single(m) \in Frames /\ Other(Single(m))
  /\ \A m \in Messages : First(m) \in Frames
  /\ \A m \in Messages, n \in Nat : Consec(m, n) \in Frames
BY DEF Other, Long, Frames, FlowControl, Single, First, Consec

LEMMA PieceTypes ==
  ASSUME NEW f \in Frames, f.t # "FC"
  PROVE  f.m \in Messages /\ f.n \in Nat /\ Piece(f) \in Pieces
BY DEF Frames, Piece, Pieces

LEMMA FaultTyped ==
  ASSUME faults \in 0..MaxFaults, Fault
  PROVE  faults' \in 0..MaxFaults
BY IsoAssumption DEF Fault

LEMMA RespondStep ==
  ASSUME TypeOK, NEW a \in Messages, NEW kept \in Messages \union {None},
         Respond(a, kept)
  PROVE  AnswersQuietly
<1>1. CASE toHost' = Append(toHost, Single(a)) /\ slot' = kept
           /\ UNCHANGED <<retries, faults>>
  BY <1>1, FrameTypes DEF AnswersQuietly, TypeOK
<1>2. CASE /\ IF Ans[a.kind] = 0 THEN Fault ELSE UNCHANGED faults
           /\ IF kept = None
                THEN slot' = a /\ retries' = 0
                ELSE slot' = kept /\ UNCHANGED retries
           /\ UNCHANGED toHost
  BY <1>2, FaultTyped DEF AnswersQuietly, TypeOK
<1> QED
  BY <1>1, <1>2 DEF Respond

LEMMA DispatchStep ==
  ASSUME TypeOK, NEW buf \in Seq(Pieces), buf # <<>>, Dispatch(buf)
  PROVE  AnswersQuietly /\ heard' \in Seq(Pieces) /\ served' \in Nat
<1>1. /\ buf[1].m \in Messages
      /\ served \in Nat /\ slot \in Messages \union {None}
  <2>1. buf[1] \in Pieces
    OBVIOUS
  <2> QED
    BY <2>1 DEF Pieces, TypeOK
<1> DEFINE m == buf[1].m
           a == [m EXCEPT !.v = served + 1]
           kept == IF m.kind \in Resets THEN None ELSE slot
<1>2. a \in Messages /\ kept \in Messages \union {None}
  BY <1>1 DEF Messages
<1>3. Respond(a, kept) /\ heard' = buf /\ served' = served + 1
  BY DEF Dispatch
<1>4. AnswersQuietly
  BY <1>2, <1>3, RespondStep
<1> QED
  BY <1>1, <1>3, <1>4

LEMMA ReceiveStep ==
  ASSUME TypeOK, NEW f \in Frames, Receive(f)
  PROVE  /\ AnswersQuietly
         /\ rx' \in [on: BOOLEAN, buf: Seq(Pieces)]
         /\ fcPending' \in BOOLEAN
         /\ heard' \in Seq(Pieces) /\ served' \in Nat
<1>1. CASE SingleFrame(f)
  <2>1. <<Piece(f)>> \in Seq(Pieces) /\ <<Piece(f)>> # <<>>
    BY <1>1, PieceTypes DEF SingleFrame
  <2>2. AnswersQuietly /\ heard' \in Seq(Pieces) /\ served' \in Nat
    BY <1>1, <2>1, DispatchStep DEF SingleFrame
  <2> QED
    BY <1>1, <2>2 DEF SingleFrame, TypeOK
<1>2. CASE FirstFrame(f)
  <2>1. <<Piece(f)>> \in Seq(Pieces)
    BY <1>2, PieceTypes DEF FirstFrame
  <2>2. /\ slot' \in Messages \union {None} /\ retries' \in 0..2
        /\ faults' \in 0..MaxFaults
    BY <1>2, FaultTyped DEF FirstFrame, TypeOK
  <2>3. toHost' = toHost \/ toHost' = Append(toHost, FlowControl)
    BY <1>2 DEF FirstFrame
  <2>4. AnswersQuietly
    BY <2>2, <2>3, FrameTypes DEF AnswersQuietly
  <2> QED
    <3>1. heard \in Seq(Pieces) /\ served \in Nat /\ fcPending' \in BOOLEAN
      BY <1>2 DEF FirstFrame, TypeOK
    <3> QED
      BY <1>2, <2>1, <2>4, <3>1 DEF FirstFrame
<1>3. CASE ConsecutiveFrame(f)
  <2> DEFINE buf == Append(rx.buf, Piece(f))
             fits == rx.on /\ Expected(rx.buf, f)
  <2>1. rx.buf \in Seq(Pieces) /\ buf \in Seq(Pieces) /\ buf # <<>>
    <3>1. rx.buf \in Seq(Pieces)
      BY DEF TypeOK
    <3>2. Piece(f) \in Pieces
      BY <1>3, PieceTypes DEF ConsecutiveFrame
    <3> QED
      BY <3>1, <3>2
  <2>2. CASE rx' = [on |-> FALSE, buf |-> buf] /\ Dispatch(buf)
    <3>1. AnswersQuietly /\ heard' \in Seq(Pieces) /\ served' \in Nat
      BY <2>1, <2>2, DispatchStep
    <3> QED
      BY <1>3, <2>1, <2>2, <3>1 DEF ConsecutiveFrame, TypeOK
  <2>3. CASE /\ rx' = IF fits THEN [rx EXCEPT !.buf = buf] ELSE rx
             /\ UNCHANGED <<toHost, slot, retries, served, heard, faults>>
    <3>1. rx' \in [on: BOOLEAN, buf: Seq(Pieces)]
      BY <2>1, <2>3 DEF TypeOK
    <3> QED
      BY <1>3, <2>3, <3>1 DEF ConsecutiveFrame, TypeOK, AnswersQuietly
  <2> QED
    BY <1>3, <2>2, <2>3 DEF ConsecutiveFrame
<1> QED
  BY <1>1, <1>2, <1>3 DEF Receive

-----------------------------------------------------------------------------
(* Type correctness and sequence, step by step.                            *)
LongInv ==
  /\ Chained(toHost)
  /\ tx.phase # "idle" =>
       /\ tx.copy \in Messages
       /\ EndsIn(toHost, tx.copy, tx.next - 1)

IsoInv == TypeOK /\ LongInv

(* A step that puts no frame of a long message on the bus, and leaves the  *)
(* transmission where it is or ends it.                                    *)
LEMMA QuietStep ==
  ASSUME IsoInv,
         \/ toHost' = toHost
         \/ toHost # <<>> /\ toHost' = Tail(toHost)
         \/ \E f \in Frames : Other(f) /\ toHost' = Append(toHost, f),
         \/ tx'.phase = "idle"
         \/ tx.phase # "idle" /\ tx'.copy = tx.copy /\ tx'.next = tx.next
         \/ tx' = tx
  PROVE  LongInv' /\ toHost' \in Seq(Frames)
<1>1. toHost \in Seq(Frames) /\ Chained(toHost)
  BY DEF IsoInv, TypeOK, LongInv
<1>2. /\ toHost' \in Seq(Frames) /\ Chained(toHost')
      /\ \A m, n : EndsIn(toHost, m, n) => EndsIn(toHost', m, n)
  <2>1. CASE toHost' = toHost
    BY <1>1, <2>1
  <2>2. CASE toHost # <<>> /\ toHost' = Tail(toHost)
    BY <1>1, <2>2, ChainedTail, EndsInTail
  <2>3. CASE \E f \in Frames : Other(f) /\ toHost' = Append(toHost, f)
    <3>1. PICK f \in Frames : Other(f) /\ toHost' = Append(toHost, f)
      BY <2>3
    <3>2. f.t \notin Long /\ f.t # "CF"
      BY <3>1 DEF Other, Long
    <3>3. Chained(toHost')
      BY <1>1, <3>1, <3>2, ChainedAppend
    <3>4. ASSUME NEW m, NEW n, EndsIn(toHost, m, n) PROVE EndsIn(toHost', m, n)
      BY <1>1, <3>1, <3>2, <3>4, EndsInAppend
    <3> QED
      BY <1>1, <3>1, <3>3, <3>4
  <2> QED
    BY <2>1, <2>2, <2>3
<1>3. tx'.phase # "idle" =>
        tx.phase # "idle" /\ tx'.copy = tx.copy /\ tx'.next = tx.next
  OBVIOUS
<1> QED
  BY <1>2, <1>3 DEF IsoInv, LongInv

LEMMA AnswersQuietlyTyped ==
  ASSUME IsoInv, AnswersQuietly,
         \/ tx.phase # "idle" /\ tx'.copy = tx.copy /\ tx'.next = tx.next
         \/ tx' = tx
  PROVE  LongInv' /\ toHost' \in Seq(Frames)
BY QuietStep DEF AnswersQuietly

LEMMA RxHandlerKeeps == ASSUME IsoInv, RxHandler PROVE IsoInv'
<1> DEFINE f == Head(toDev)
<1>1. f \in Frames /\ toDev' \in Seq(Frames) /\ UNCHANGED <<tx, tool>>
  BY DEF IsoInv, TypeOK, RxHandler
<1>2. CASE Receive(f)
  <2>1. /\ AnswersQuietly
        /\ rx' \in [on: BOOLEAN, buf: Seq(Pieces)] /\ fcPending' \in BOOLEAN
        /\ heard' \in Seq(Pieces) /\ served' \in Nat
    BY <1>1, <1>2, ReceiveStep DEF IsoInv
  <2>2. LongInv' /\ toHost' \in Seq(Frames)
    BY <1>1, <2>1, AnswersQuietlyTyped
  <2> QED
    BY <1>1, <2>1, <2>2 DEF IsoInv, TypeOK, AnswersQuietly, tool
<1>3. CASE UNCHANGED <<rx, fcPending, toHost, slot, retries, served, heard, faults>>
  <2>1. LongInv' /\ toHost' \in Seq(Frames)
    BY <1>1, <1>3, QuietStep
  <2> QED
    BY <1>1, <1>3, <2>1 DEF IsoInv, TypeOK, tool
<1> QED
  BY <1>2, <1>3 DEF RxHandler

LEMMA PollFlowControlKeeps == ASSUME IsoInv, PollFlowControl PROVE IsoInv'
<1>1. toHost' = toHost \/ \E f \in Frames : Other(f) /\ toHost' = Append(toHost, f)
  BY FrameTypes DEF PollFlowControl
<1>2. tx' = tx /\ UNCHANGED tool
  BY DEF PollFlowControl
<1>3. LongInv' /\ toHost' \in Seq(Frames)
  BY <1>1, <1>2, QuietStep
<1>4. faults' \in 0..MaxFaults
  BY FaultTyped DEF IsoInv, TypeOK, PollFlowControl
<1> QED
  BY <1>2, <1>3, <1>4 DEF IsoInv, TypeOK, PollFlowControl, tool

LEMMA ReceiveTimeoutKeeps == ASSUME IsoInv, ReceiveTimeout PROVE IsoInv'
<1>1. LongInv' /\ toHost' \in Seq(Frames)
  BY QuietStep DEF ReceiveTimeout
<1> QED
  BY <1>1 DEF IsoInv, TypeOK, ReceiveTimeout, tool

Tx == [phase: {"idle", "cts", "send"}, copy: Messages \union {None}, next: Nat]

(* The end of a transmission that failed.                                  *)
LEMMA SendFailedStep ==
  ASSUME TypeOK, SendFailed
  PROVE  /\ tx' \in Tx
         /\ tx'.phase = "idle"
         /\ slot' \in Messages \union {None} /\ retries' \in 0..2
<1>1. /\ tx \in Tx
      /\ slot \in Messages \union {None} /\ retries \in 0..2
  BY DEF TypeOK, Tx
<1>2. tx' \in Tx /\ tx'.phase = "idle"
  BY <1>1 DEF SendFailed, Tx
<1>3. slot' \in Messages \union {None} /\ retries' \in 0..2
  BY <1>1 DEF SendFailed
<1> QED
  BY <1>2, <1>3

LEMMA FlushKeeps == ASSUME IsoInv, Flush PROVE IsoInv'
<1>1. slot \in Messages /\ toHost \in Seq(Frames)
  BY DEF IsoInv, TypeOK, Flush
<1>2. CASE /\ toHost' = Append(toHost, Single(slot))
           /\ slot' = None /\ retries' = 0
           /\ UNCHANGED <<tx, faults>>
  <2>1. LongInv' /\ toHost' \in Seq(Frames)
    BY <1>1, <1>2, FrameTypes, QuietStep
  <2> QED
    BY <1>2, <2>1 DEF IsoInv, TypeOK, Flush, tool
<1>3. CASE /\ toHost' = Append(toHost, First(slot))
           /\ tx' = [phase |-> "cts", copy |-> slot, next |-> 1]
           /\ UNCHANGED <<slot, retries, faults>>
  <2>1. First(slot) \in Frames /\ First(slot).t = "FF" /\ First(slot).m = slot
        /\ First(slot).n = 0
    BY <1>1, FrameTypes DEF First
  <2>2. Chained(toHost') /\ toHost' \in Seq(Frames)
    BY <1>1, <1>3, <2>1, ChainedAppend DEF IsoInv, LongInv
  <2>3. EndsIn(toHost', slot, 0)
    BY <1>1, <1>3, <2>1, EndsInAppend DEF Long
  <2>4. LongInv'
    BY <1>1, <1>3, <2>2, <2>3 DEF LongInv
  <2>5. tx' \in Tx
    BY <1>1, <1>3 DEF Tx
  <2> QED
    BY <1>3, <2>2, <2>4, <2>5 DEF IsoInv, TypeOK, Tx, Flush, tool
<1>4. CASE Fault /\ SendFailed /\ UNCHANGED toHost
  <2>1. /\ tx' \in Tx
        /\ tx'.phase = "idle"
        /\ slot' \in Messages \union {None} /\ retries' \in 0..2
    BY <1>4, SendFailedStep DEF IsoInv
  <2>2. LongInv' /\ toHost' \in Seq(Frames) /\ faults' \in 0..MaxFaults
    BY <1>4, <2>1, QuietStep, FaultTyped DEF IsoInv, TypeOK
  <2> QED
    BY <2>1, <2>2 DEF IsoInv, TypeOK, Tx, Flush, tool
<1> QED
  BY <1>2, <1>3, <1>4 DEF Flush

LEMMA WaitCtsKeeps == ASSUME IsoInv, WaitCts PROVE IsoInv'
<1> DEFINE f == Head(toDev)
<1>1. f \in Frames /\ toDev' \in Seq(Frames) /\ UNCHANGED tool
  BY DEF IsoInv, TypeOK, WaitCts
<1>2. CASE Receive(f) /\ UNCHANGED tx
  <2>1. /\ AnswersQuietly
        /\ rx' \in [on: BOOLEAN, buf: Seq(Pieces)] /\ fcPending' \in BOOLEAN
        /\ heard' \in Seq(Pieces) /\ served' \in Nat
    BY <1>1, <1>2, ReceiveStep DEF IsoInv
  <2>2. LongInv' /\ toHost' \in Seq(Frames)
    BY <1>2, <2>1, AnswersQuietlyTyped
  <2> QED
    BY <1>1, <1>2, <2>1, <2>2 DEF IsoInv, TypeOK, AnswersQuietly, tool
<1>3. CASE /\ tx' = [tx EXCEPT !.phase = "send"]
           /\ UNCHANGED <<rx, fcPending, toHost, slot, retries, served, heard, faults>>
  <2>1. /\ tx' \in Tx
        /\ tx.phase # "idle" /\ tx'.copy = tx.copy /\ tx'.next = tx.next
    BY <1>3 DEF IsoInv, TypeOK, Tx, WaitCts
  <2>2. LongInv' /\ toHost' \in Seq(Frames)
    BY <1>3, <2>1, QuietStep
  <2> QED
    BY <1>1, <1>3, <2>1, <2>2 DEF IsoInv, TypeOK, Tx, tool
<1> QED
  BY <1>2, <1>3 DEF WaitCts

LEMMA CtsTimeoutKeeps == ASSUME IsoInv, CtsTimeout PROVE IsoInv'
<1>1. /\ tx' \in Tx
      /\ tx'.phase = "idle"
      /\ slot' \in Messages \union {None} /\ retries' \in 0..2
  BY SendFailedStep DEF IsoInv, CtsTimeout
<1>2. LongInv' /\ toHost' \in Seq(Frames)
  BY <1>1, QuietStep DEF CtsTimeout
<1> QED
  BY <1>1, <1>2 DEF IsoInv, TypeOK, Tx, CtsTimeout, tool

LEMMA SendConsecutiveKeeps == ASSUME IsoInv, SendConsecutive PROVE IsoInv'
<1>1. CASE /\ toHost' = Append(toHost, Consec(tx.copy, tx.next))
           /\ IF tx.next < Cfs(tx.copy)
                THEN /\ tx' = [tx EXCEPT !.next = @ + 1]
                     /\ UNCHANGED <<slot, retries>>
                ELSE /\ tx' = [tx EXCEPT !.phase = "idle"]
                     /\ slot' = None /\ retries' = 0
           /\ UNCHANGED faults
  <2> DEFINE f == Consec(tx.copy, tx.next)
  <2>1. /\ tx.copy \in Messages /\ tx.next \in Nat
        /\ toHost \in Seq(Frames) /\ Chained(toHost)
        /\ EndsIn(toHost, tx.copy, tx.next - 1)
    BY DEF IsoInv, TypeOK, LongInv, SendConsecutive
  <2>2. f \in Frames /\ f.t = "CF" /\ f.m = tx.copy /\ f.n = tx.next
    BY <2>1, FrameTypes DEF Consec
  <2>3. Chained(toHost') /\ toHost' \in Seq(Frames)
    BY <1>1, <2>1, <2>2, ChainedAppend
  <2>4. EndsIn(toHost', tx.copy, tx.next)
    BY <1>1, <2>1, <2>2, EndsInAppend DEF Long
  <2>5. /\ tx' \in Tx
        /\ slot' \in Messages \union {None} /\ retries' \in 0..2
        /\ tx'.phase # "idle" => tx'.copy = tx.copy /\ tx'.next = tx.next + 1
    <3>1. /\ tx \in Tx
          /\ slot \in Messages \union {None} /\ retries \in 0..2
      BY DEF IsoInv, TypeOK, Tx
    <3>2. CASE tx.next < Cfs(tx.copy)
      BY <1>1, <2>1, <3>1, <3>2 DEF Tx
    <3>3. CASE ~(tx.next < Cfs(tx.copy))
      BY <1>1, <2>1, <3>1, <3>3 DEF Tx
    <3> QED
      BY <3>2, <3>3
  <2>6. LongInv'
    BY <2>1, <2>3, <2>4, <2>5 DEF LongInv
  <2> QED
    BY <1>1, <2>3, <2>5, <2>6 DEF IsoInv, TypeOK, Tx, SendConsecutive, tool
<1>2. CASE Fault /\ SendFailed /\ UNCHANGED toHost
  <2>1. /\ tx' \in Tx
        /\ tx'.phase = "idle"
        /\ slot' \in Messages \union {None} /\ retries' \in 0..2
    BY <1>2, SendFailedStep DEF IsoInv
  <2>2. LongInv' /\ toHost' \in Seq(Frames) /\ faults' \in 0..MaxFaults
    BY <1>2, <2>1, QuietStep, FaultTyped DEF IsoInv, TypeOK
  <2> QED
    BY <2>1, <2>2 DEF IsoInv, TypeOK, Tx, SendConsecutive, tool
<1> QED
  BY <1>1, <1>2 DEF SendConsecutive

-----------------------------------------------------------------------------
(* The tool, and the bus.  The device stays as it is.                      *)
ToolTyped ==
  /\ ask \in [phase: {"idle", "fc", "wait"}, kind: Kinds, re: Nat, tries: 0..3]
  /\ half \in Seq(Pieces)
  /\ got \in Seq(Pieces)
  /\ toDev \in Seq(Frames)
  /\ asks \in 0..MaxAsks /\ hasty \in 0..MaxHasty

LEMMA ToolKeeps ==
  ASSUME IsoInv, ToolTyped', UNCHANGED <<device, faults>>,
         toHost' = toHost \/ (toHost # <<>> /\ toHost' = Tail(toHost))
  PROVE  IsoInv'
<1>1. tx' = tx
  BY DEF device
<1>2. LongInv' /\ toHost' \in Seq(Frames)
  BY <1>1, QuietStep
<1> QED
  BY <1>2 DEF IsoInv, TypeOK, ToolTyped, device

LEMMA ToolTypes == ASSUME IsoInv PROVE ToolTyped /\ toHost \in Seq(Frames)
BY DEF IsoInv, TypeOK, ToolTyped

LEMMA AskKeeps == ASSUME IsoInv, Ask PROVE IsoInv'
<1>1. ToolTyped
  BY ToolTypes
<1>2. asks' \in 0..MaxAsks /\ asks + 1 \in Nat /\ ask.re \in Nat
  BY <1>1, IsoAssumption DEF ToolTyped, Ask
<1>3. PICK k \in Kinds, re \in {ask.re, asks + 1} :
        LET m == [kind |-> k, re |-> re, v |-> 0]
        IN  \/ /\ toDev' = Append(toDev, Single(m))
               /\ ask' = [phase |-> "wait", kind |-> k, re |-> re, tries |-> 0]
            \/ /\ toDev' = Append(toDev, First(m))
               /\ ask' = [phase |-> "fc", kind |-> k, re |-> re, tries |-> 1]
  BY DEF Ask
<1>4. [kind |-> k, re |-> re, v |-> 0] \in Messages
  BY <1>2 DEF Messages
<1>5. toDev' \in Seq(Frames)
  <2> DEFINE m == [kind |-> k, re |-> re, v |-> 0]
  <2>1. toDev \in Seq(Frames) /\ Single(m) \in Frames /\ First(m) \in Frames
    BY <1>1, <1>4, FrameTypes DEF ToolTyped
  <2>2. toDev' = Append(toDev, Single(m)) \/ toDev' = Append(toDev, First(m))
    BY <1>3
  <2> QED
    BY <2>1, <2>2
<1>6. ask' \in [phase: {"idle", "fc", "wait"}, kind: Kinds, re: Nat, tries: 0..3]
  BY <1>2, <1>3
<1>7. ToolTyped'
  BY <1>1, <1>2, <1>5, <1>6 DEF ToolTyped, Ask
<1>8. UNCHANGED <<device, faults>> /\ toHost' = toHost
  BY DEF Ask
<1> QED
  BY <1>7, <1>8, ToolKeeps

LEMMA PatientTyped ==
  ASSUME hasty \in 0..MaxHasty, NEW quiet, Patient(quiet)
  PROVE  hasty' \in 0..MaxHasty
BY IsoAssumption DEF Patient

LEMMA AskedTyped == ASSUME ToolTyped PROVE Asked \in Messages
BY DEF ToolTyped, Asked, Messages

LEMMA FlowControlTimeoutKeeps == ASSUME IsoInv, FlowControlTimeout PROVE IsoInv'
<1>1. ToolTyped
  BY ToolTypes
<1>2. hasty' \in 0..MaxHasty
  BY <1>1, PatientTyped DEF ToolTyped, FlowControlTimeout
<1>3. toDev' \in Seq(Frames)
  <2>1. toDev \in Seq(Frames) /\ First(Asked) \in Frames
    BY <1>1, AskedTyped, FrameTypes DEF ToolTyped
  <2>2. toDev' = toDev \/ toDev' = Append(toDev, First(Asked))
    BY DEF FlowControlTimeout
  <2> QED
    BY <2>1, <2>2
<1>4. ask' \in [phase: {"idle", "fc", "wait"}, kind: Kinds, re: Nat, tries: 0..3]
  <2>1. CASE ask.tries < 3 /\ ask' = [ask EXCEPT !.tries = @ + 1]
    BY <1>1, <2>1 DEF ToolTyped
  <2>2. CASE ask' = [ask EXCEPT !.phase = "idle"]
    BY <1>1, <2>2 DEF ToolTyped
  <2> QED
    BY <2>1, <2>2 DEF FlowControlTimeout
<1>5. ToolTyped'
  BY <1>1, <1>2, <1>3, <1>4 DEF ToolTyped, FlowControlTimeout
<1>6. UNCHANGED <<device, faults>> /\ toHost' = toHost
  BY DEF FlowControlTimeout
<1> QED
  BY <1>5, <1>6, ToolKeeps

LEMMA AwaitFlowControlKeeps == ASSUME IsoInv, AwaitFlowControl PROVE IsoInv'
<1>1. ToolTyped
  BY ToolTypes
<1> DEFINE batch == [n \in 1..Req[ask.kind] |-> Consec(Asked, n)]
           last == Consec(Asked, Req[ask.kind])
<1>2. Req[ask.kind] \in Nat /\ Asked \in Messages
  BY <1>1, AskedTyped, IsoAssumption DEF ToolTyped
<1>3. batch \in Seq(Frames)
  <2>1. \A n \in 1..Req[ask.kind] : Consec(Asked, n) \in Frames
    BY <1>2, FrameTypes
  <2> QED
    BY <1>2, <2>1
<1>4. last \in Frames
  BY <1>2, FrameTypes
<1>5. toDev \o batch \o <<last>> \in Seq(Frames)
  BY <1>1, <1>3, <1>4 DEF ToolTyped
<1>6. toDev' \in Seq(Frames)
  BY <1>1, <1>5 DEF ToolTyped, AwaitFlowControl
<1>7. ToolTyped'
  BY <1>1, <1>6 DEF ToolTyped, AwaitFlowControl
<1> QED
  BY <1>7, ToolKeeps DEF AwaitFlowControl

LEMMA AcceptTyped ==
  ASSUME ToolTyped, NEW buf \in Seq(Pieces), Accept(buf)
  PROVE  /\ got' \in Seq(Pieces)
         /\ ask' \in [phase: {"idle", "fc", "wait"}, kind: Kinds, re: Nat, tries: 0..3]
BY DEF ToolTyped, Accept

LEMMA TryReceiveKeeps == ASSUME IsoInv, TryReceive PROVE IsoInv'
<1> DEFINE f == Head(toHost)
           base == Body(f)
           buf == Append(base, Piece(f))
           fits == half # <<>> /\ Expected(base, f)
<1>1. ToolTyped /\ f \in Frames
  BY ToolTypes DEF TryReceive
<1>2. f.t # "FC" => Piece(f) \in Pieces /\ <<Piece(f)>> \in Seq(Pieces)
  BY <1>1, PieceTypes
<1>3. base \in Seq(Pieces)
  BY <1>1 DEF ToolTyped, Body
<1>4. f.t # "FC" => buf \in Seq(Pieces)
  BY <1>2, <1>3
<1>5. toDev \o <<FlowControl, FlowControl>> \in Seq(Frames)
  BY <1>1, FrameTypes DEF ToolTyped
<1>6. /\ half' \in Seq(Pieces) /\ got' \in Seq(Pieces) /\ toDev' \in Seq(Frames)
      /\ ask' \in [phase: {"idle", "fc", "wait"}, kind: Kinds, re: Nat, tries: 0..3]
  <2>1. CASE f.t = "SF" /\ Accept(<<Piece(f)>>) /\ UNCHANGED <<half, toDev>>
    BY <1>1, <1>2, <2>1, AcceptTyped DEF ToolTyped
  <2>2. CASE /\ f.t = "FF"
             /\ half' = IF half = <<>> THEN <<Piece(f)>> ELSE half
             /\ toDev' = toDev \o <<FlowControl, FlowControl>>
             /\ UNCHANGED <<got, ask>>
    BY <1>1, <1>2, <1>5, <2>2 DEF ToolTyped
  <2>3. CASE f.t = "CF" /\ half' = <<>> /\ Accept(buf) /\ UNCHANGED toDev
    <3>1. buf \in Seq(Pieces) /\ half' \in Seq(Pieces)
      BY <1>4, <2>3
    <3> QED
      BY <1>1, <2>3, <3>1, AcceptTyped DEF ToolTyped
  <2>4. CASE /\ f.t = "CF"
             /\ half' = IF fits THEN buf ELSE half
             /\ UNCHANGED <<got, ask, toDev>>
    BY <1>1, <1>4, <2>4 DEF ToolTyped
  <2>5. CASE UNCHANGED <<half, got, ask, toDev>>
    BY <1>1, <2>5 DEF ToolTyped
  <2> QED
    BY <2>1, <2>2, <2>3, <2>4, <2>5 DEF TryReceive
<1>7. ToolTyped'
  BY <1>1, <1>6 DEF ToolTyped, TryReceive
<1> QED
  BY <1>7, ToolKeeps DEF TryReceive

LEMMA AnswerTimeoutKeeps == ASSUME IsoInv, AnswerTimeout PROVE IsoInv'
<1>1. ToolTyped
  BY ToolTypes
<1>2. hasty' \in 0..MaxHasty
  BY <1>1, PatientTyped DEF ToolTyped, AnswerTimeout
<1>3. ToolTyped'
  BY <1>1, <1>2 DEF ToolTyped, AnswerTimeout
<1>4. UNCHANGED <<device, faults>> /\ toHost' = toHost
  BY DEF AnswerTimeout
<1> QED
  BY <1>3, <1>4, ToolKeeps

LEMMA WatchdogKeeps == ASSUME IsoInv, Watchdog PROVE IsoInv'
<1>1. ToolTyped'
  BY ToolTypes DEF ToolTyped, Watchdog
<1>2. UNCHANGED <<device, faults>> /\ toHost' = toHost
  BY DEF Watchdog
<1> QED
  BY <1>1, <1>2, ToolKeeps

LEMMA LoseKeeps == ASSUME IsoInv, Lose PROVE IsoInv'
<1>1. ToolTyped /\ toHost \in Seq(Frames)
  BY ToolTypes
<1>2. faults' \in 0..MaxFaults /\ tx' = tx
  BY FaultTyped DEF IsoInv, TypeOK, Lose, device
<1>3. toDev' \in Seq(Frames)
  <2>1. toDev \in Seq(Frames) /\ (toDev' = toDev \/ (toDev # <<>> /\ toDev' = Tail(toDev)))
    BY <1>1 DEF ToolTyped, Lose
  <2> QED
    BY <2>1
<1>4. LongInv' /\ toHost' \in Seq(Frames)
  BY <1>2, QuietStep DEF Lose
<1> QED
  BY <1>2, <1>3, <1>4 DEF IsoInv, TypeOK, Lose, device, tool

-----------------------------------------------------------------------------
LEMMA IsoInitial == Init => IsoInv
<1> SUFFICES ASSUME Init PROVE IsoInv
  OBVIOUS
<1>1. LongInv
  BY DEF Init, LongInv, Chained
<1>2. rx \in [on: BOOLEAN, buf: Seq(Pieces)] /\ heard \in Seq(Pieces)
  BY DEF Init
<1>3. /\ tx \in [phase: {"idle", "cts", "send"}, copy: Messages \union {None},
                 next: Nat]
      /\ ask \in [phase: {"idle", "fc", "wait"}, kind: Kinds, re: Nat, tries: 0..3]
  BY DEF Init
<1>4. half \in Seq(Pieces) /\ got \in Seq(Pieces)
  BY DEF Init
<1>5. toDev \in Seq(Frames) /\ toHost \in Seq(Frames)
  BY DEF Init
<1>6. asks \in 0..MaxAsks /\ faults \in 0..MaxFaults /\ hasty \in 0..MaxHasty
  BY IsoAssumption DEF Init
<1>7. fcPending \in BOOLEAN /\ slot \in Messages \union {None}
  BY DEF Init
<1>8. retries \in 0..2 /\ served \in Nat
  BY DEF Init
<1> QED
  BY <1>1, <1>2, <1>3, <1>4, <1>5, <1>6, <1>7, <1>8 DEF IsoInv, TypeOK

LEMMA IsoInductive == IsoInv /\ [Next]_vars => IsoInv'
<1> SUFFICES ASSUME IsoInv, [Next]_vars PROVE IsoInv'
  OBVIOUS
<1>1. CASE DeviceStep
  BY <1>1, RxHandlerKeeps, PollFlowControlKeeps, ReceiveTimeoutKeeps, FlushKeeps,
     WaitCtsKeeps, CtsTimeoutKeeps, SendConsecutiveKeeps DEF DeviceStep
<1>2. CASE ToolStep
  BY <1>2, AskKeeps, FlowControlTimeoutKeeps, AwaitFlowControlKeeps,
     TryReceiveKeeps, AnswerTimeoutKeeps, WatchdogKeeps DEF ToolStep
<1>3. CASE Lose
  BY <1>3, LoseKeeps
<1>4. CASE UNCHANGED vars
  BY <1>4 DEF IsoInv, TypeOK, LongInv, Chained, EndsIn, vars, device, tool
<1> QED
  BY <1>1, <1>2, <1>3, <1>4 DEF Next

(* Every reachable state of the link is well typed.                        *)
THEOREM IsoTypeCorrect == Spec => []TypeOK
<1>1. IsoInv => TypeOK
  BY DEF IsoInv
<1> QED
  BY <1>1, IsoInitial, IsoInductive, PTL DEF Spec

(* Whatever requests the device executes while a long answer waits for its *)
(* flow control or fails, and whatever is lost, the consecutive frames on  *)
(* the bus continue the first frame before them without a gap              *)
(* (isotp_tx_send, proto_flush_pending_tx).                                *)
THEOREM LongAnswersInSequence == Spec => []SentInSequence
<1>1. IsoInv => SentInSequence
  BY DEF IsoInv, LongInv, Chained, Long, SentInSequence
<1> QED
  BY <1>1, IsoInitial, IsoInductive, PTL DEF Spec

-----------------------------------------------------------------------------
(* Requests arrive whole, while frames are lost or timeouts of the tool    *)
(* expire early, but not both.                                             *)
OneKindOfTrouble == faults = 0 \/ hasty = 0

Once(q, t) == \A i, j \in DOMAIN q : q[i].t = t /\ q[j].t = t => i = j

(* A consecutive frame on its way to the device follows the first frame of *)
(* its request or the frame before it, or repeats the last one.            *)
Follows(q, i) ==
  LET f == q[i]
      p == q[i - 1]
  IN  /\ f.m.v = 0 /\ f.n \in 1..Req[f.m.kind]
      /\ i > 1 => /\ p.m = f.m
                  /\ \/ p.t = "FF" /\ f.n = 1
                     \/ p.t = "CF" /\ p.n = f.n - 1
                     \/ p.t = "CF" /\ p.n = f.n /\ f.n = Req[f.m.kind]

Batched(q) ==
  \A i \in DOMAIN q :
    /\ q[i].t = "CF" => Follows(q, i)
    /\ q[i].t \in {"SF", "FF"} => q[i].n = 0

(* The device has assembled all that came before the next frame, or has    *)
(* missed so much that this request will never be complete.                *)
Kept ==
  /\ rx.on => rx.buf # <<>> /\ rx.buf[1].n = 0
  /\ rx.on /\ toDev # <<>> /\ toDev[1].t = "CF" =>
       /\ rx.buf[1].m = toDev[1].m
       /\ \/ Len(rx.buf) < toDev[1].n
          \/ Len(rx.buf) = toDev[1].n /\ Intact(rx.buf)

(* A flow control finds the device at the first frame it answers, or that  *)
(* frame still on its way.                                                 *)
Ready ==
  ask.phase = "fc" =>
    /\ Req[ask.kind] > 0
    /\ faults = 0 \/ Has(toHost, "FC") \/ fcPending =>
         IF toDev = <<>> THEN rx.on => rx.buf = <<Piece(First(Asked))>>
                         ELSE toDev[Len(toDev)] = First(Asked)

(* Without early timeouts there is one first frame or flow control at a    *)
(* time, and only while the tool waits for it.                             *)
Token ==
  hasty = 0 =>
    /\ \A i \in DOMAIN toDev :
         toDev[i].t = "FF" =>
           /\ i = Len(toDev) /\ toDev[i] = First(Asked)
           /\ ask.phase = "fc" /\ ~Has(toHost, "FC") /\ ~fcPending
    /\ fcPending => ask.phase = "fc" /\ ~Has(toHost, "FC") /\ toDev = <<>>
    /\ Has(toHost, "FC") => ask.phase = "fc" /\ toDev = <<>>
    /\ Once(toHost, "FC")

Assembly == Batched(toDev) /\ Kept /\ Ready /\ Token /\ Intact(heard)

RequestInv == IsoInv /\ (OneKindOfTrouble => Assembly)

LEMMA TailFacts ==
  ASSUME NEW q \in Seq(Frames), q # <<>>
  PROVE  /\ Head(q) = q[1] /\ q[1] \in Frames /\ Len(q) \in Nat \ {0}
         /\ Tail(q) \in Seq(Frames) /\ Len(Tail(q)) = Len(q) - 1
         /\ DOMAIN Tail(q) = 1..(Len(q) - 1) /\ DOMAIN q = 1..Len(q)
         /\ \A i \in 1..(Len(q) - 1) : Tail(q)[i] = q[i + 1]
         /\ Tail(q) = <<>> <=> Len(q) = 1
<1>1. Head(q) = q[1] /\ q[1] \in Frames /\ Len(q) \in Nat \ {0} /\ DOMAIN q = 1..Len(q)
  OBVIOUS
<1>2. /\ Tail(q) \in Seq(Frames) /\ Len(Tail(q)) = Len(q) - 1
      /\ DOMAIN Tail(q) = 1..(Len(q) - 1)
  OBVIOUS
<1>3. \A i \in 1..(Len(q) - 1) : Tail(q)[i] = q[i + 1]
  OBVIOUS
<1>4. Tail(q) = <<>> <=> Len(Tail(q)) = 0
  BY <1>2
<1> QED
  BY <1>1, <1>2, <1>3, <1>4

LEMMA AppendFacts ==
  ASSUME NEW S, NEW q \in Seq(S), NEW f
  PROVE  /\ Len(q) \in Nat /\ Len(Append(q, f)) = Len(q) + 1
         /\ DOMAIN Append(q, f) = 1..(Len(q) + 1) /\ DOMAIN q = 1..Len(q)
         /\ \A i \in 1..Len(q) : Append(q, f)[i] = q[i]
         /\ Append(q, f)[Len(q) + 1] = f
         /\ Append(q, f) # <<>>
         /\ q = <<>> <=> Len(q) = 0
OBVIOUS

(* A buffer grows by the piece that comes next.                            *)
LEMMA SingleIntact ==
  ASSUME NEW e \in Pieces, e.n = 0
  PROVE  Intact(<<e>>) /\ Len(<<e>>) = 1 /\ <<e>>[1] = e /\ <<e>> # <<>>
<1>1. Len(<<e>>) = 1 /\ <<e>>[1] = e /\ DOMAIN <<e>> = {1}
  OBVIOUS
<1>2. e = [m |-> e.m, n |-> 0]
  BY DEF Pieces
<1> QED
  BY <1>1, <1>2 DEF Intact

LEMMA IntactAppend ==
  ASSUME NEW buf \in Seq(Pieces), buf # <<>>, Intact(buf),
         NEW e, e = [m |-> buf[1].m, n |-> Len(buf)]
  PROVE  Intact(Append(buf, e)) /\ Append(buf, e)[1] = buf[1]
<1>1. /\ Len(buf) \in Nat \ {0} /\ DOMAIN Append(buf, e) = 1..(Len(buf) + 1)
      /\ DOMAIN buf = 1..Len(buf)
      /\ \A i \in 1..Len(buf) : Append(buf, e)[i] = buf[i]
      /\ Append(buf, e)[Len(buf) + 1] = e
  BY AppendFacts
<1>2. Append(buf, e)[1] = buf[1]
  BY <1>1
<1> SUFFICES ASSUME NEW i \in DOMAIN Append(buf, e)
             PROVE  Append(buf, e)[i] = [m |-> buf[1].m, n |-> i - 1]
  BY <1>2 DEF Intact
<1>3. CASE i \in 1..Len(buf)
  BY <1>1, <1>3 DEF Intact
<1>4. CASE i = Len(buf) + 1
  BY <1>1, <1>4
<1> QED
  BY <1>1, <1>3, <1>4

LEMMA HasTail ==
  ASSUME NEW q \in Seq(Frames), q # <<>>, NEW t
  PROVE  Has(Tail(q), t) => Has(q, t)
<1> SUFFICES ASSUME NEW i \in DOMAIN Tail(q), Tail(q)[i].t = t PROVE Has(q, t)
  BY DEF Has
<1>1. i \in 1..(Len(q) - 1) /\ Tail(q)[i] = q[i + 1] /\ i + 1 \in DOMAIN q
  BY TailFacts
<1> QED BY <1>1 DEF Has

LEMMA HasAppend ==
  ASSUME NEW q \in Seq(Frames), NEW f, NEW t
  PROVE  Has(Append(q, f), t) <=> Has(q, t) \/ f.t = t
<1>1. /\ Len(q) \in Nat /\ DOMAIN Append(q, f) = 1..(Len(q) + 1)
      /\ DOMAIN q = 1..Len(q)
      /\ \A i \in 1..Len(q) : Append(q, f)[i] = q[i]
      /\ Append(q, f)[Len(q) + 1] = f
  BY AppendFacts
<1> QED BY <1>1 DEF Has

LEMMA BatchedTail ==
  ASSUME NEW q \in Seq(Frames), q # <<>>, Batched(q)
  PROVE  Batched(Tail(q))
<1>1. /\ DOMAIN Tail(q) = 1..(Len(q) - 1) /\ DOMAIN q = 1..Len(q)
      /\ \A i \in 1..(Len(q) - 1) : Tail(q)[i] = q[i + 1]
      /\ Len(q) \in Nat
  BY TailFacts
<1> SUFFICES ASSUME NEW i \in DOMAIN Tail(q)
             PROVE  /\ Tail(q)[i].t = "CF" => Follows(Tail(q), i)
                    /\ Tail(q)[i].t \in {"SF", "FF"} => Tail(q)[i].n = 0
  BY DEF Batched
<1>2. i + 1 \in DOMAIN q /\ Tail(q)[i] = q[i + 1]
  BY <1>1
<1>3. i > 1 => Tail(q)[i - 1] = q[i]
  <2>1. i > 1 => i - 1 \in 1..(Len(q) - 1) /\ (i - 1) + 1 = i
    BY <1>1
  <2> QED BY <1>1, <2>1
<1>4. (i + 1) - 1 = i /\ i + 1 > 1
  BY <1>1
<1>5. ASSUME q[i + 1].t = "CF" PROVE Follows(Tail(q), i)
  <2>1. Follows(q, i + 1)
    BY <1>2, <1>5 DEF Batched
  <2> QED BY <1>2, <1>3, <1>4, <2>1 DEF Follows
<1> QED BY <1>2, <1>5 DEF Batched

(* The tool puts a request, or the flow controls of an answer, behind what *)
(* is already on its way.                                                  *)
LEMMA BatchedAppend ==
  ASSUME NEW q \in Seq(Frames), Batched(q), NEW f, f.t # "CF",
         f.t \in {"SF", "FF"} => f.n = 0
  PROVE  Batched(Append(q, f))
<1> DEFINE p == Append(q, f)
<1>1. /\ DOMAIN p = 1..(Len(q) + 1) /\ DOMAIN q = 1..Len(q)
      /\ \A i \in 1..Len(q) : p[i] = q[i]
      /\ p[Len(q) + 1] = f
      /\ Len(q) \in Nat
  BY AppendFacts
<1> HIDE DEF p
<1> SUFFICES ASSUME NEW i \in DOMAIN p
             PROVE  /\ p[i].t = "CF" => Follows(p, i)
                    /\ p[i].t \in {"SF", "FF"} => p[i].n = 0
  BY DEF Batched, p
<1>2. CASE i = Len(q) + 1
  BY <1>1, <1>2
<1>3. CASE i \in 1..Len(q)
  <2>1. p[i] = q[i] /\ (i > 1 => p[i - 1] = q[i - 1])
    BY <1>1, <1>3
  <2> QED BY <1>1, <1>3, <2>1 DEF Batched, Follows
<1> QED BY <1>1, <1>2, <1>3

LEMMA OnceTail ==
  ASSUME NEW q \in Seq(Frames), q # <<>>, NEW t, Once(q, t)
  PROVE  Once(Tail(q), t)
<1>1. /\ DOMAIN Tail(q) = 1..(Len(q) - 1) /\ DOMAIN q = 1..Len(q)
      /\ \A i \in 1..(Len(q) - 1) : Tail(q)[i] = q[i + 1]
      /\ Len(q) \in Nat
  BY TailFacts
<1> SUFFICES ASSUME NEW i \in DOMAIN Tail(q), NEW j \in DOMAIN Tail(q),
                    Tail(q)[i].t = t, Tail(q)[j].t = t
             PROVE  i = j
  BY DEF Once
<1>2. i + 1 \in DOMAIN q /\ j + 1 \in DOMAIN q /\ q[i + 1].t = t /\ q[j + 1].t = t
  BY <1>1
<1>3. i + 1 = j + 1
  BY <1>2 DEF Once
<1> QED
  BY <1>1, <1>3

LEMMA OnceAppend ==
  ASSUME NEW q \in Seq(Frames), NEW f, NEW t,
         Once(q, t), f.t = t => ~Has(q, t)
  PROVE  Once(Append(q, f), t)
<1>1. /\ Len(q) \in Nat /\ DOMAIN Append(q, f) = 1..(Len(q) + 1)
      /\ DOMAIN q = 1..Len(q)
      /\ \A i \in 1..Len(q) : Append(q, f)[i] = q[i]
      /\ Append(q, f)[Len(q) + 1] = f
  BY AppendFacts
<1> SUFFICES ASSUME NEW i \in DOMAIN Append(q, f), NEW j \in DOMAIN Append(q, f),
                    Append(q, f)[i].t = t, Append(q, f)[j].t = t
             PROVE  i = j
  BY DEF Once
<1>2. CASE i \in DOMAIN q /\ j \in DOMAIN q
  BY <1>1, <1>2 DEF Once
<1>3. CASE ~(i \in DOMAIN q /\ j \in DOMAIN q)
  BY <1>1, <1>3 DEF Has
<1> QED
  BY <1>2, <1>3

(* A step that puts no flow control on the bus.                            *)
NoNewFc ==
  /\ Has(toHost', "FC") => Has(toHost, "FC")
  /\ Once(toHost, "FC") => Once(toHost', "FC")

LEMMA NoNewFcStep ==
  ASSUME toHost \in Seq(Frames),
         \/ toHost' = toHost
         \/ toHost # <<>> /\ toHost' = Tail(toHost)
         \/ \E f \in Frames : f.t # "FC" /\ toHost' = Append(toHost, f)
  PROVE  NoNewFc
<1>1. CASE toHost' = toHost
  BY <1>1 DEF NoNewFc
<1>2. CASE toHost # <<>> /\ toHost' = Tail(toHost)
  BY <1>2, HasTail, OnceTail DEF NoNewFc
<1>3. CASE \E f \in Frames : f.t # "FC" /\ toHost' = Append(toHost, f)
  BY <1>3, HasAppend, OnceAppend DEF NoNewFc
<1> QED
  BY <1>1, <1>2, <1>3

(* A step that leaves the request on its way alone: the buffer may be      *)
(* given up, and so may the wait for a flow control that cannot come.      *)
LEMMA QuietRequest ==
  ASSUME Assembly, NoNewFc,
         toDev' = toDev, fcPending' = fcPending, heard' = heard,
         rx' = rx \/ ~rx'.on,
         \/ ask' = ask
         \/ /\ ask'.phase # "fc"
            /\ hasty' = 0 => ~Has(toDev, "FF") /\ ~Has(toHost, "FC") /\ ~fcPending,
         faults' = 0 => faults = 0, hasty' = 0 => hasty = 0
  PROVE  Assembly'
<1>1. Batched(toDev)' /\ Intact(heard)'
  BY DEF Assembly, Batched, Follows, Intact
<1>2. Kept'
  BY DEF Assembly, Kept, Intact
<1>3. Ready'
  <2>1. CASE ask' = ask
    <3>1. Has(toHost, "FC")' => Has(toHost, "FC")
      BY DEF NoNewFc, Has
    <3> QED
      BY <2>1, <3>1 DEF Assembly, Ready, Asked
  <2>2. CASE ask'.phase # "fc"
    BY <2>2 DEF Ready
  <2> QED
    BY <2>1, <2>2
<1>4. Token'
  <2> SUFFICES ASSUME hasty' = 0 PROVE Token'
    BY DEF Token
  <2>1. /\ Has(toHost, "FC")' => Has(toHost, "FC")
        /\ Once(toHost, "FC")'
        /\ hasty = 0
    BY DEF NoNewFc, Has, Once, Assembly, Token
  <2>2. CASE ask' = ask
    BY <2>1, <2>2 DEF Assembly, Token, Asked
  <2>3. CASE ~Has(toDev, "FF") /\ ~Has(toHost, "FC") /\ ~fcPending
    <3>1. \A i \in DOMAIN toDev' : toDev'[i].t # "FF"
      BY <2>3 DEF Has
    <3>2. ~fcPending' /\ ~Has(toHost, "FC")'
      BY <2>1, <2>3
    <3> QED
      BY <2>1, <3>1, <3>2 DEF Token
  <2> QED
    BY <2>2, <2>3
<1> QED
  BY <1>1, <1>2, <1>3, <1>4 DEF Assembly

-----------------------------------------------------------------------------
(* The steps that leave the request on its way alone.                      *)
LEMMA TroubleCounts ==
  ASSUME TypeOK
  PROVE  /\ Fault => faults' # 0
         /\ \A quiet \in BOOLEAN :
              Patient(quiet) => (hasty' = 0 => quiet /\ hasty = 0)
BY DEF TypeOK, Fault, Patient

LEMMA ReceiveTimeoutRequest ==
  ASSUME IsoInv, Assembly, ReceiveTimeout
  PROVE  Assembly'
<1>1. toHost' = toHost /\ rx' = [rx EXCEPT !.on = FALSE]
      /\ UNCHANGED <<fcPending, heard, ask, hasty, toDev, faults>>
  BY DEF ReceiveTimeout, tool
<1>2. toHost \in Seq(Frames) /\ ~rx'.on
  BY <1>1 DEF IsoInv, TypeOK
<1>3. NoNewFc
  BY <1>1, <1>2, NoNewFcStep
<1> QED
  BY <1>1, <1>2, <1>3, QuietRequest

(* The steps of a transmission: what goes out is never a flow control.     *)
LEMMA SendingRequest ==
  ASSUME IsoInv, Assembly,
         toHost' = toHost \/ \E f \in Frames : f.t # "FC" /\ toHost' = Append(toHost, f),
         UNCHANGED <<rx, fcPending, heard, tool, toDev>>,
         UNCHANGED faults \/ Fault
  PROVE  Assembly'
<1>1. UNCHANGED <<rx, fcPending, heard, ask, hasty, toDev>>
  BY DEF tool
<1>2. toHost \in Seq(Frames) /\ (faults' = 0 => faults = 0)
  BY TroubleCounts DEF IsoInv, TypeOK
<1>3. NoNewFc
  BY <1>2, NoNewFcStep
<1> QED
  BY <1>1, <1>2, <1>3, QuietRequest

LEMMA FlushRequest ==
  ASSUME IsoInv, Assembly, Flush
  PROVE  Assembly'
<1>1. slot \in Messages
  BY DEF Flush, IsoInv, TypeOK
<1>2. /\ Single(slot) \in Frames /\ Single(slot).t # "FC"
      /\ First(slot) \in Frames /\ First(slot).t # "FC"
  BY <1>1, FrameTypes DEF Single, First
<1>3. toHost' = toHost \/ \E f \in Frames : f.t # "FC" /\ toHost' = Append(toHost, f)
  BY <1>2 DEF Flush
<1>4. UNCHANGED <<rx, fcPending, heard, tool, toDev>> /\ (UNCHANGED faults \/ Fault)
  BY DEF Flush
<1> QED
  BY <1>3, <1>4, SendingRequest

LEMMA CtsTimeoutRequest ==
  ASSUME IsoInv, Assembly, CtsTimeout
  PROVE  Assembly'
BY SendingRequest DEF CtsTimeout

LEMMA SendConsecutiveRequest ==
  ASSUME IsoInv, Assembly, SendConsecutive
  PROVE  Assembly'
<1>1. tx.copy \in Messages /\ tx.next \in Nat
  BY DEF SendConsecutive, IsoInv, LongInv, TypeOK
<1>2. Consec(tx.copy, tx.next) \in Frames /\ Consec(tx.copy, tx.next).t # "FC"
  BY <1>1, FrameTypes DEF Consec
<1>3. toHost' = toHost \/ \E f \in Frames : f.t # "FC" /\ toHost' = Append(toHost, f)
  BY <1>2 DEF SendConsecutive
<1>4. UNCHANGED <<rx, fcPending, heard, tool, toDev>> /\ (UNCHANGED faults \/ Fault)
  BY DEF SendConsecutive
<1> QED
  BY <1>3, <1>4, SendingRequest

LEMMA AnswerTimeoutRequest ==
  ASSUME IsoInv, Assembly, AnswerTimeout
  PROVE  Assembly'
<1>1. UNCHANGED <<rx, fcPending, heard, toDev, toHost, faults>>
      /\ ask.phase = "wait" /\ ask'.phase = "idle"
  BY DEF AnswerTimeout, device, IsoInv, TypeOK
<1>2. hasty' = 0 => hasty = 0
  BY TroubleCounts DEF AnswerTimeout, IsoInv
<1>3. hasty' = 0 => ~Has(toDev, "FF") /\ ~Has(toHost, "FC") /\ ~fcPending
  BY <1>1, <1>2 DEF Assembly, Token, Has
<1>4. NoNewFc
  BY <1>1 DEF NoNewFc
<1> QED
  BY <1>1, <1>2, <1>3, <1>4, QuietRequest

LEMMA WatchdogRequest ==
  ASSUME IsoInv, Assembly, Watchdog
  PROVE  Assembly'
<1>1. UNCHANGED <<rx, fcPending, heard, toDev, toHost, faults, ask, hasty>>
  BY DEF Watchdog, device
<1>2. NoNewFc
  BY <1>1 DEF NoNewFc
<1> QED
  BY <1>1, <1>2, QuietRequest

LEMMA StutterRequest ==
  ASSUME IsoInv, Assembly, UNCHANGED vars
  PROVE  Assembly'
<1>1. UNCHANGED <<rx, fcPending, heard, toDev, toHost, faults, ask, hasty>>
  BY DEF vars, device, tool
<1>2. NoNewFc
  BY <1>1 DEF NoNewFc
<1> QED
  BY <1>1, <1>2, QuietRequest

-----------------------------------------------------------------------------
(* A frame on its way to the device is lost, or the device has no use for  *)
(* it.                                                                     *)
LEMMA LastOfTail ==
  ASSUME NEW q \in Seq(Frames), q # <<>>, Tail(q) # <<>>
  PROVE  Tail(q)[Len(Tail(q))] = q[Len(q)]
<1>1. /\ Len(q) \in Nat \ {0} /\ Len(Tail(q)) = Len(q) - 1 /\ Len(q) # 1
      /\ \A i \in 1..(Len(q) - 1) : Tail(q)[i] = q[i + 1]
  BY TailFacts
<1> QED
  BY <1>1

(* The consecutive frame behind the first on the bus.                      *)
LEMMA SecondFollows ==
  ASSUME NEW q \in Seq(Frames), q # <<>>, Batched(q),
         Tail(q) # <<>>, Tail(q)[1].t = "CF"
  PROVE  /\ q[1].t \in {"FF", "CF"} /\ Tail(q)[1].m = q[1].m /\ q[1].m.v = 0
         /\ q[1].t = "FF" => Tail(q)[1].n = 1 /\ q[1].n = 0
         /\ q[1].t = "CF" =>
              /\ q[1].n \in 1..Req[q[1].m.kind] /\ Tail(q)[1].n \in Nat
              /\ \/ Tail(q)[1].n = q[1].n + 1
                 \/ Tail(q)[1].n = q[1].n /\ q[1].n = Req[q[1].m.kind]
<1>1. /\ Len(q) \in Nat \ {0} /\ Len(q) # 1 /\ DOMAIN q = 1..Len(q)
      /\ \A i \in 1..(Len(q) - 1) : Tail(q)[i] = q[i + 1]
      /\ q[1] \in Frames
  BY TailFacts
<1>2. Tail(q)[1] = q[2] /\ 1 \in DOMAIN q /\ 2 \in DOMAIN q /\ q[2] \in Frames
  <2>1. 1 \in 1..(Len(q) - 1) /\ 2 \in 1..Len(q)
    BY <1>1
  <2> QED
    BY <1>1, <2>1
<1>3. Follows(q, 2) /\ (q[1].t = "FF" => q[1].n = 0)
      /\ (q[1].t = "CF" => Follows(q, 1))
  BY <1>2 DEF Batched
<1>4. /\ q[2].m.v = 0 /\ q[2].n \in 1..Req[q[2].m.kind] /\ q[1].m = q[2].m
      /\ \/ q[1].t = "FF" /\ q[2].n = 1
         \/ q[1].t = "CF" /\ q[1].n = q[2].n - 1
         \/ q[1].t = "CF" /\ q[1].n = q[2].n /\ q[2].n = Req[q[2].m.kind]
  BY <1>3 DEF Follows
<1>5. q[1].t = "CF" => q[1].n \in 1..Req[q[1].m.kind]
  BY <1>3 DEF Follows
<1>6. q[1].n \in Nat /\ q[2].n \in Nat
  BY <1>1, <1>2 DEF Frames
<1> QED
  BY <1>2, <1>3, <1>4, <1>5, <1>6

LEMMA FrontGone ==
  ASSUME IsoInv, Assembly, toDev # <<>>, toDev' = Tail(toDev),
         \/ Head(toDev).t = "FC" /\ OneKindOfTrouble
         \/ hasty = 0 /\ faults' # 0,
         faults' = 0 => faults = 0,
         UNCHANGED <<rx, fcPending, heard, toHost, ask, hasty>>
  PROVE  Assembly'
<1> DEFINE q == toDev
<1>1. /\ q \in Seq(Frames) /\ Len(q) \in Nat \ {0} /\ DOMAIN q = 1..Len(q)
      /\ Head(q) = q[1] /\ q[1] \in Frames
      /\ DOMAIN Tail(q) = 1..(Len(q) - 1) /\ Len(Tail(q)) = Len(q) - 1
      /\ \A i \in 1..(Len(q) - 1) : Tail(q)[i] = q[i + 1]
  BY TailFacts DEF IsoInv, TypeOK
<1>2. Batched(toDev)' /\ Intact(heard)'
  <2>1. Batched(Tail(q))
    BY <1>1, BatchedTail DEF Assembly
  <2> QED
    BY <2>1 DEF Assembly, Batched, Follows, Intact
<1>3. Kept'
  <2>1. rx.on => rx.buf # <<>> /\ rx.buf[1].n = 0
    BY DEF Assembly, Kept
  <2>2. ASSUME rx.on, Tail(q) # <<>>, Tail(q)[1].t = "CF"
        PROVE  /\ rx.buf[1].m = Tail(q)[1].m
               /\ \/ Len(rx.buf) < Tail(q)[1].n
                  \/ Len(rx.buf) = Tail(q)[1].n /\ Intact(rx.buf)
    <3>1. /\ q[1].t \in {"FF", "CF"} /\ Tail(q)[1].m = q[1].m
          /\ q[1].t = "CF" =>
               /\ q[1].n \in Nat /\ Tail(q)[1].n \in Nat
               /\ Tail(q)[1].n = q[1].n + 1 \/ Tail(q)[1].n = q[1].n
      <4>1. q[1].n \in Nat
        BY <1>1 DEF Frames
      <4> QED
        BY <1>1, <2>2, <4>1, SecondFollows DEF Assembly
    <3>2. q[1].t = "CF"
      <4>1. CASE Head(toDev).t = "FC"
        BY <1>1, <3>1, <4>1
      <4>2. CASE hasty = 0
        <5>1. q[1].t = "FF" => 1 = Len(q)
          BY <1>1, <4>2 DEF Assembly, Token
        <5>2. Len(q) # 1
          BY <1>1, <2>2, TailFacts
        <5> QED
          BY <3>1, <5>1, <5>2
      <4> QED
        BY <4>1, <4>2
    <3>3. /\ rx.buf[1].m = q[1].m
          /\ Len(rx.buf) < q[1].n \/ (Len(rx.buf) = q[1].n /\ Intact(rx.buf))
      BY <2>2, <3>2 DEF Assembly, Kept
    <3>4. Len(rx.buf) \in Nat
      <4>1. rx.buf \in Seq(Pieces)
        BY DEF IsoInv, TypeOK
      <4> QED
        BY <4>1
    <3> DEFINE n == q[1].n
               next == Tail(q)[1].n
               len == Len(rx.buf)
    <3>5. /\ n \in Nat /\ next \in Nat /\ len \in Nat
          /\ next = n + 1 \/ next = n
          /\ len < n \/ len = n
      BY <3>1, <3>2, <3>3, <3>4
    <3>6. len < next \/ (len = next /\ len = n)
      <4> HIDE DEF n, next, len
      <4> QED
        BY ONLY <3>5
    <3> QED
      BY <3>1, <3>3, <3>5, <3>6
  <2> QED
    BY <2>1, <2>2 DEF Kept, Intact
<1>4. Ready'
  <2>1. ASSUME ask.phase = "fc" PROVE Req[ask.kind] > 0
    BY <2>1 DEF Assembly, Ready
  <2>2. ASSUME ask.phase = "fc", faults' = 0 \/ Has(toHost, "FC") \/ fcPending
        PROVE  Tail(q) # <<>> /\ Tail(q)[Len(Tail(q))] = First(Asked)
    <3>1. Head(toDev).t = "FC" /\ OneKindOfTrouble
      <4>1. hasty = 0 => ~Has(toHost, "FC") /\ ~fcPending
        BY DEF Assembly, Token
      <4> QED
        BY <2>2, <4>1
    <3>2. q[Len(q)] = First(Asked)
      <4>1. faults = 0 \/ Has(toHost, "FC") \/ fcPending
        BY <2>2
      <4> QED
        BY <2>2, <4>1 DEF Assembly, Ready
    <3>3. Len(q) # 1
      BY <1>1, <3>1, <3>2 DEF First
    <3>4. Tail(q) # <<>>
      BY <1>1, <3>3, TailFacts
    <3> QED
      BY <1>1, <3>2, <3>4, LastOfTail
  <2> QED
    BY <2>1, <2>2 DEF Ready, Asked, Has
<1>5. Token'
  <2> SUFFICES ASSUME hasty = 0 PROVE Token'
    BY DEF Token
  <2>1. ~fcPending /\ ~Has(toHost, "FC") /\ Once(toHost, "FC")
    BY DEF Assembly, Token
  <2>2. ASSUME NEW i \in DOMAIN Tail(q), Tail(q)[i].t = "FF"
        PROVE  i = Len(Tail(q)) /\ Tail(q)[i] = First(Asked) /\ ask.phase = "fc"
    <3>1. i + 1 \in DOMAIN q /\ Tail(q)[i] = q[i + 1]
      BY <1>1, <2>2
    <3>2. i + 1 = Len(q) /\ q[i + 1] = First(Asked) /\ ask.phase = "fc"
      BY <2>2, <3>1 DEF Assembly, Token
    <3> QED
      BY <1>1, <3>1, <3>2
  <2> QED
    BY <2>1, <2>2 DEF Token, Asked, Has, Once
<1> QED
  BY <1>2, <1>3, <1>4, <1>5 DEF Assembly

LEMMA LoseRequest ==
  ASSUME IsoInv, OneKindOfTrouble', Assembly, Lose
  PROVE  Assembly'
<1>1. faults' # 0 /\ UNCHANGED <<rx, fcPending, heard, ask, hasty>>
  BY TroubleCounts DEF Lose, IsoInv, device, tool
<1>2. hasty = 0
  BY <1>1 DEF OneKindOfTrouble
<1>3. CASE toDev # <<>> /\ toDev' = Tail(toDev) /\ UNCHANGED toHost
  BY <1>1, <1>2, <1>3, FrontGone
<1>4. CASE toHost # <<>> /\ toHost' = Tail(toHost) /\ UNCHANGED toDev
  <2>1. NoNewFc
    BY <1>4, NoNewFcStep DEF IsoInv, TypeOK
  <2> QED
    BY <1>1, <1>2, <1>4, <2>1, QuietRequest
<1> QED
  BY <1>3, <1>4 DEF Lose

-----------------------------------------------------------------------------
(* The tool sends a request, or its first frame again.                     *)
LEMMA RequestSent ==
  ASSUME IsoInv, Assembly, NEW f, toDev' = Append(toDev, f),
         \/ f.t = "SF" /\ f.n = 0 /\ ask'.phase = "wait"
         \/ f = First(Asked') /\ ask'.phase = "fc" /\ Req[ask'.kind] > 0,
         hasty' = 0 => /\ hasty = 0 /\ ~fcPending
                       /\ ~Has(toDev, "FF") /\ ~Has(toHost, "FC"),
         UNCHANGED <<rx, fcPending, heard, toHost>>
  PROVE  Assembly'
<1>1. /\ Len(toDev) \in Nat /\ Len(toDev') = Len(toDev) + 1
      /\ DOMAIN toDev' = 1..(Len(toDev) + 1) /\ DOMAIN toDev = 1..Len(toDev)
      /\ \A i \in 1..Len(toDev) : toDev'[i] = toDev[i]
      /\ toDev'[Len(toDev) + 1] = f
      /\ toDev' # <<>> /\ (toDev = <<>> <=> Len(toDev) = 0)
  <2>1. toDev \in Seq(Frames)
    BY DEF IsoInv, TypeOK
  <2> QED
    BY <2>1, AppendFacts
<1>2. f.t # "CF" /\ f.t # "FC" /\ f.n = 0
  BY DEF First
<1>3. Batched(toDev)' /\ Intact(heard)'
  <2>1. Batched(Append(toDev, f))
    BY <1>2, BatchedAppend DEF Assembly, IsoInv, TypeOK
  <2> QED
    BY <2>1 DEF Assembly, Batched, Follows, Intact
<1>4. Kept'
  <2>1. toDev'[1].t = "CF" => toDev # <<>> /\ toDev'[1] = toDev[1]
    BY <1>1, <1>2
  <2> QED
    BY <2>1 DEF Assembly, Kept, Intact
<1>5. Ready'
  <2>1. ask'.phase = "fc" =>
          Req[ask'.kind] > 0 /\ toDev'[Len(toDev')] = First(Asked')
    BY <1>1
  <2> QED
    BY <1>1, <2>1 DEF Ready
<1>6. Token'
  <2> SUFFICES ASSUME hasty' = 0 PROVE Token'
    BY DEF Token
  <2>1. hasty = 0 /\ ~fcPending /\ ~Has(toDev, "FF") /\ ~Has(toHost, "FC")
    OBVIOUS
  <2>2. \A i \in DOMAIN toDev' :
          toDev'[i].t = "FF" =>
            i = Len(toDev') /\ toDev'[i] = First(Asked') /\ ask'.phase = "fc"
    <3>1. \A i \in 1..Len(toDev) : toDev'[i].t # "FF"
      BY <1>1, <2>1 DEF Has
    <3> QED
      BY <1>1, <3>1
  <2>3. ~fcPending' /\ ~Has(toHost, "FC")' /\ Once(toHost, "FC")'
    BY <2>1 DEF Assembly, Token, Has, Once
  <2> QED
    BY <2>2, <2>3 DEF Token
<1> QED
  BY <1>3, <1>4, <1>5, <1>6 DEF Assembly

LEMMA AskRequest ==
  ASSUME IsoInv, Assembly, Ask
  PROVE  Assembly'
<1>1. UNCHANGED <<rx, fcPending, heard, toHost, hasty>> /\ ask.phase = "idle"
  BY DEF Ask, device
<1>2. hasty = 0 => ~fcPending /\ ~Has(toDev, "FF") /\ ~Has(toHost, "FC")
  BY <1>1 DEF Assembly, Token, Has
<1>3. PICK k \in Kinds, re \in {ask.re, asks + 1} :
        LET m == [kind |-> k, re |-> re, v |-> 0]
        IN  \/ /\ Req[k] = 0
               /\ toDev' = Append(toDev, Single(m))
               /\ ask' = [phase |-> "wait", kind |-> k, re |-> re, tries |-> 0]
            \/ /\ Req[k] > 0
               /\ toDev' = Append(toDev, First(m))
               /\ ask' = [phase |-> "fc", kind |-> k, re |-> re, tries |-> 1]
  BY DEF Ask
<1> DEFINE m == [kind |-> k, re |-> re, v |-> 0]
<1>4. CASE /\ toDev' = Append(toDev, Single(m))
           /\ ask' = [phase |-> "wait", kind |-> k, re |-> re, tries |-> 0]
  <2>1. Single(m).t = "SF" /\ Single(m).n = 0 /\ ask'.phase = "wait"
    BY <1>4 DEF Single
  <2> QED
    BY <1>1, <1>2, <1>4, <2>1, RequestSent
<1>5. CASE /\ Req[k] > 0
           /\ toDev' = Append(toDev, First(m))
           /\ ask' = [phase |-> "fc", kind |-> k, re |-> re, tries |-> 1]
  <2>1. First(m) = First(Asked') /\ ask'.phase = "fc" /\ Req[ask'.kind] > 0
    BY <1>5 DEF Asked
  <2> QED
    BY <1>1, <1>2, <1>5, <2>1, RequestSent
<1> QED
  BY <1>3, <1>4, <1>5

LEMMA FlowControlTimeoutRequest ==
  ASSUME IsoInv, Assembly, FlowControlTimeout
  PROVE  Assembly'
<1>1. UNCHANGED <<rx, fcPending, heard, toHost, faults>> /\ ask.phase = "fc"
  BY DEF FlowControlTimeout, device
<1>2. hasty' = 0 => /\ hasty = 0 /\ ~fcPending
                    /\ ~Has(toDev, "FF") /\ ~Has(toHost, "FC")
  BY TroubleCounts DEF FlowControlTimeout, IsoInv
<1>3. CASE /\ ask' = [ask EXCEPT !.tries = @ + 1]
           /\ toDev' = Append(toDev, First(Asked))
  <2>1. ask'.phase = "fc" /\ ask'.kind = ask.kind /\ ask'.re = ask.re
    BY <1>1, <1>3 DEF IsoInv, TypeOK
  <2>2. Req[ask'.kind] > 0
    BY <1>1, <2>1 DEF Assembly, Ready
  <2>3. First(Asked) = First(Asked')
    BY <2>1 DEF Asked
  <2> QED
    BY <1>1, <1>2, <1>3, <2>1, <2>2, <2>3, RequestSent
<1>4. CASE ask' = [ask EXCEPT !.phase = "idle"] /\ UNCHANGED toDev
  <2>1. ask'.phase # "fc" /\ NoNewFc
    BY <1>1, <1>4 DEF IsoInv, TypeOK, NoNewFc
  <2> QED
    BY <1>1, <1>2, <1>4, <2>1, QuietRequest
<1> QED
  BY <1>3, <1>4 DEF FlowControlTimeout

LEMMA TryReceiveRequest ==
  ASSUME IsoInv, Assembly, TryReceive
  PROVE  Assembly'
<1>1. /\ UNCHANGED <<rx, fcPending, heard, hasty, faults>>
      /\ ask.phase = "wait" /\ toHost # <<>> /\ toHost' = Tail(toHost)
      /\ toHost \in Seq(Frames) /\ toDev \in Seq(Frames)
  BY DEF TryReceive, device, IsoInv, TypeOK
<1>2. NoNewFc
  BY <1>1, NoNewFcStep
<1>3. hasty = 0 => ~fcPending /\ ~Has(toDev, "FF") /\ ~Has(toHost, "FC")
  BY <1>1 DEF Assembly, Token, Has
<1>4. CASE toDev' = toDev
  <2>1. ask' = ask \/ ask'.phase # "fc"
    BY DEF TryReceive, Accept, IsoInv, TypeOK
  <2> QED
    BY <1>1, <1>2, <1>3, <1>4, <2>1, QuietRequest
<1>5. CASE toDev' = toDev \o <<FlowControl, FlowControl>> /\ ask' = ask
  <2> DEFINE q == Append(toDev, FlowControl)
  <2>1. toDev' = Append(q, FlowControl) /\ q \in Seq(Frames)
    BY <1>1, <1>5, FrameTypes
  <2>2. FlowControl.t = "FC"
    BY DEF FlowControl
  <2>3. Batched(toDev') /\ ~(hasty = 0 /\ Has(toDev', "FF"))
    <3>1. Batched(q) /\ (Has(q, "FF") => Has(toDev, "FF"))
      BY <1>1, <2>2, BatchedAppend, HasAppend DEF Assembly
    <3> HIDE DEF q
    <3> QED
      BY <1>3, <2>1, <2>2, <3>1, BatchedAppend, HasAppend
  <2>4. toDev'[1].t = "CF" => toDev # <<>> /\ toDev'[1] = toDev[1]
    <3>1. q[1].t = "CF" => toDev # <<>> /\ q[1] = toDev[1]
      BY <1>1, <2>2, AppendFacts
    <3>2. 1 \in 1..Len(q)
      BY <1>1, AppendFacts
    <3> HIDE DEF q
    <3>3. toDev'[1] = q[1]
      BY <2>1, <3>2, AppendFacts
    <3> QED
      BY <3>1, <3>3
  <2>5. Kept'
    BY <1>1, <2>4 DEF Assembly, Kept, Intact
  <2>6. Token'
    <3>1. Has(toHost', "FC") => Has(toHost, "FC")
      BY <1>2 DEF NoNewFc
    <3>2. hasty = 0 => Once(toHost', "FC")
      BY <1>2 DEF NoNewFc, Assembly, Token
    <3>3. hasty = 0 => \A i \in DOMAIN toDev' : toDev'[i].t # "FF"
      BY <2>3 DEF Has
    <3> QED
      BY <1>1, <1>3, <3>1, <3>2, <3>3 DEF Token, Has, Once
  <2>7. Batched(toDev)' /\ Intact(heard)' /\ Ready'
    BY <1>1, <1>5, <2>3 DEF Assembly, Batched, Follows, Intact, Ready
  <2> QED
    BY <2>5, <2>6, <2>7 DEF Assembly
<1> QED
  BY <1>4, <1>5 DEF TryReceive

LEMMA PollFlowControlRequest ==
  ASSUME IsoInv, Assembly, PollFlowControl
  PROVE  Assembly'
<1>1. UNCHANGED <<rx, heard, toDev, ask, hasty>> /\ fcPending /\ ~fcPending'
      /\ toHost \in Seq(Frames)
  BY DEF PollFlowControl, tool, IsoInv, TypeOK
<1>2. faults' = 0 => faults = 0
  BY TroubleCounts DEF PollFlowControl, IsoInv
<1>3. toHost' = toHost \/ toHost' = Append(toHost, FlowControl)
  BY DEF PollFlowControl
<1>4. Batched(toDev)' /\ Intact(heard)' /\ Kept'
  BY <1>1 DEF Assembly, Batched, Follows, Intact, Kept
<1>5. Ready'
  BY <1>1 DEF Assembly, Ready, Asked
<1>6. Token'
  <2> SUFFICES ASSUME hasty = 0 PROVE Token'
    BY <1>1 DEF Token
  <2>1. ask.phase = "fc" /\ ~Has(toHost, "FC") /\ toDev = <<>> /\ Once(toHost, "FC")
    BY <1>1 DEF Assembly, Token
  <2>2. Once(toHost', "FC")
    BY <1>1, <1>3, <2>1, OnceAppend
  <2> QED
    BY <1>1, <2>1, <2>2 DEF Token, Once
<1> QED
  BY <1>4, <1>5, <1>6 DEF Assembly

(* The flow control is there: the consecutive frames follow the first      *)
(* frame, on the bus or in the buffer.                                     *)
LEMMA ConcatFacts ==
  ASSUME NEW q \in Seq(Frames), NEW b \in Seq(Frames)
  PROVE  /\ q \o b \in Seq(Frames) /\ Len(q \o b) = Len(q) + Len(b)
         /\ Len(q) \in Nat /\ Len(b) \in Nat
         /\ \A i \in 1..Len(q) : (q \o b)[i] = q[i]
         /\ \A i \in 1..Len(b) : (q \o b)[Len(q) + i] = b[i]
<1>1. q \o b \in Seq(Frames)
  OBVIOUS
<1>2. Len(q \o b) = Len(q) + Len(b)
  OBVIOUS
<1>3. \A i \in 1..Len(q) : (q \o b)[i] = q[i]
  OBVIOUS
<1>4. \A i \in 1..Len(b) : (q \o b)[Len(q) + i] = b[i]
  OBVIOUS
<1> QED
  BY <1>1, <1>2, <1>3, <1>4

(* p is q followed by the consecutive frames of m, the last one twice.     *)
Extends(p, q, m) ==
  LET r == Req[m.kind]
  IN  /\ DOMAIN p = 1..(Len(q) + r + 1)
      /\ \A i \in 1..Len(q) : p[i] = q[i]
      /\ \A i \in (Len(q) + 1)..(Len(q) + r) : p[i] = Consec(m, i - Len(q))
      /\ p[Len(q) + r + 1] = Consec(m, r)

LEMMA BatchExtends ==
  ASSUME NEW q \in Seq(Frames), NEW m \in Messages, Req[m.kind] \in Nat,
         NEW b \in Seq(Frames), Len(b) = Req[m.kind],
         \A n \in 1..Req[m.kind] : b[n] = Consec(m, n)
  PROVE  Extends((q \o b) \o <<Consec(m, Req[m.kind])>>, q, m)
<1> DEFINE r == Req[m.kind]
           c == q \o b
           p == c \o <<Consec(m, r)>>
<1>1. /\ c \in Seq(Frames) /\ Len(c) = Len(q) + r /\ Len(q) \in Nat
      /\ \A i \in 1..Len(q) : c[i] = q[i]
      /\ \A i \in 1..r : c[Len(q) + i] = b[i]
  BY ConcatFacts
<1>2. p = Append(c, Consec(m, r))
  <2>1. \A s \in Seq(Frames) : \A e : s \o <<e>> = Append(s, e)
    OBVIOUS
  <2> HIDE DEF c
  <2> QED
    BY <1>1, <2>1
<1>3. r \in Nat /\ \A n \in 1..r : b[n] = Consec(m, n)
  OBVIOUS
<1>4. p = c \o <<Consec(m, r)>>
  OBVIOUS
<1>5. Extends(p, q, m) <=>
        /\ DOMAIN p = 1..(Len(q) + r + 1)
        /\ \A i \in 1..Len(q) : p[i] = q[i]
        /\ \A i \in (Len(q) + 1)..(Len(q) + r) : p[i] = Consec(m, i - Len(q))
        /\ p[Len(q) + r + 1] = Consec(m, r)
  BY DEF Extends
<1>6. SUFFICES Extends(p, q, m)
  OBVIOUS
<1> HIDE DEF r, c, p
<1>7. /\ DOMAIN p = 1..(Len(c) + 1)
      /\ \A i \in 1..Len(c) : p[i] = c[i]
      /\ p[Len(c) + 1] = Consec(m, r)
  BY ONLY <1>1, <1>2, AppendFacts
<1>8. \A i \in (Len(q) + 1)..(Len(q) + r) :
        i - Len(q) \in 1..r /\ i \in 1..Len(c) /\ Len(q) + (i - Len(q)) = i
  BY <1>1, <1>3
<1>9. \A i \in 1..Len(q) : i \in 1..Len(c)
  BY <1>1, <1>3
<1>10. \A i \in (Len(q) + 1)..(Len(q) + r) : p[i] = Consec(m, i - Len(q))
  BY <1>1, <1>3, <1>7, <1>8
<1> QED
  BY <1>1, <1>5, <1>7, <1>9, <1>10

LEMMA FrameFields ==
  /\ \A m, n : Consec(m, n).t = "CF" /\ Consec(m, n).m = m /\ Consec(m, n).n = n
  /\ \A m : First(m).t = "FF" /\ First(m).m = m /\ First(m).n = 0
BY DEF Consec, First

LEMMA BatchedExtended ==
  ASSUME NEW q \in Seq(Frames), Batched(q), NEW m \in Messages, m.v = 0,
         Req[m.kind] \in Nat \ {0}, q # <<>> => q[Len(q)] = First(m),
         NEW p, Extends(p, q, m)
  PROVE  Batched(p)
<1> DEFINE L == Len(q)
           r == Req[m.kind]
<1>1. /\ DOMAIN p = 1..(L + r + 1)
      /\ \A i \in 1..L : p[i] = q[i]
      /\ \A i \in (L + 1)..(L + r) : p[i] = Consec(m, i - L)
      /\ p[L + r + 1] = Consec(m, r)
  BY DEF Extends
<1>2. L \in Nat /\ DOMAIN q = 1..L /\ (q = <<>> <=> L = 0) /\ r \in Nat \ {0}
  BY AppendFacts
<1> SUFFICES ASSUME NEW i \in DOMAIN p
             PROVE  /\ p[i].t = "CF" => Follows(p, i)
                    /\ p[i].t \in {"SF", "FF"} => p[i].n = 0
  BY DEF Batched
<1>3. CASE i \in 1..L
  <2>1. p[i] = q[i] /\ i \in DOMAIN q
    BY <1>1, <1>2, <1>3
  <2>2. i > 1 => p[i - 1] = q[i - 1]
    <3>1. i > 1 => i - 1 \in 1..L
      BY <1>2, <1>3
    <3> QED
      BY <1>1, <3>1
  <2> QED
    BY <2>1, <2>2 DEF Batched, Follows
<1>4. ASSUME NEW n \in 1..r, p[i] = Consec(m, n),
             i > 1 => \/ n = 1 /\ p[i - 1] = First(m)
                      \/ p[i - 1] = Consec(m, n - 1)
                      \/ n = r /\ p[i - 1] = Consec(m, n)
      PROVE  Follows(p, i) /\ p[i].t = "CF"
  <2>1. p[i].t = "CF" /\ p[i].m = m /\ p[i].n = n
    BY <1>4, FrameFields
  <2>2. i > 1 => /\ p[i - 1].m = m
                 /\ \/ p[i - 1].t = "FF" /\ n = 1
                    \/ p[i - 1].t = "CF" /\ p[i - 1].n = n - 1
                    \/ p[i - 1].t = "CF" /\ p[i - 1].n = n /\ n = r
    BY <1>4, FrameFields
  <2> QED
    BY <2>1, <2>2 DEF Follows
<1> HIDE DEF L, r
<1>5. CASE i = L + 1
  <2>1. i \in (L + 1)..(L + r) /\ i - L = 1 /\ 1 \in 1..r
    BY ONLY <1>2, <1>5
  <2>2. p[i] = Consec(m, 1)
    BY <1>1, <2>1
  <2>3. i > 1 => p[i - 1] = First(m)
    <3>1. i > 1 => i - 1 = L /\ L \in 1..L /\ q # <<>>
      BY <1>2, <1>5
    <3> QED
      BY <1>1, <3>1 DEF L
  <2> QED
    BY <1>4, <2>1, <2>2, <2>3
<1>6. CASE i \in (L + 2)..(L + r)
  <2>1. /\ i \in (L + 1)..(L + r) /\ i - 1 \in (L + 1)..(L + r)
        /\ i - L \in 1..r /\ (i - 1) - L = (i - L) - 1
    BY ONLY <1>2, <1>6
  <2>2. p[i] = Consec(m, i - L) /\ p[i - 1] = Consec(m, (i - L) - 1)
    BY <1>1, <2>1
  <2> QED
    BY <1>4, <2>1, <2>2
<1>7. CASE i = L + r + 1
  <2>1. i - 1 \in (L + 1)..(L + r) /\ (i - 1) - L = r /\ r \in 1..r
    BY ONLY <1>2, <1>7
  <2>2. p[i] = Consec(m, r) /\ p[i - 1] = Consec(m, r)
    BY <1>1, <1>7, <2>1
  <2> QED
    BY <1>4, <2>1, <2>2
<1>8. \/ i \in 1..L \/ i = L + 1
      \/ i \in (L + 2)..(L + r) \/ i = L + r + 1
  BY <1>1, <1>2
<1> QED
  BY <1>3, <1>4, <1>5, <1>6, <1>7, <1>8

LEMMA BatchSent ==
  ASSUME IsoInv, Assembly, AwaitFlowControl, Head(toHost).t = "FC"
  PROVE  /\ Req[ask.kind] \in Nat \ {0} /\ Asked \in Messages /\ Asked.v = 0
         /\ IF toDev = <<>> THEN rx.on => rx.buf = <<Piece(First(Asked))>>
                            ELSE toDev[Len(toDev)] = First(Asked)
         /\ Extends(toDev', toDev, Asked)
         /\ ask' = [ask EXCEPT !.phase = "wait"]
<1>1. /\ ask.phase = "fc" /\ toHost # <<>>
      /\ toHost \in Seq(Frames) /\ toDev \in Seq(Frames)
      /\ toDev' = toDev
           \o [n \in 1..Req[ask.kind] |-> Consec(Asked, n)]
           \o <<Consec(Asked, Req[ask.kind])>>
      /\ ask' = [ask EXCEPT !.phase = "wait"]
  BY DEF AwaitFlowControl, IsoInv, TypeOK
<1> DEFINE r == Req[ask.kind]
<1>2. Head(toHost) = toHost[1] /\ 1 \in DOMAIN toHost
  BY <1>1, TailFacts
<1>3. Has(toHost, "FC")
  BY <1>1, <1>2 DEF Has
<1>4. r \in Nat \ {0}
  <2>1. ask.kind \in Kinds
    BY DEF IsoInv, TypeOK
  <2> QED
    BY <1>1, <2>1, IsoAssumption DEF Assembly, Ready
<1>5. IF toDev = <<>> THEN rx.on => rx.buf = <<Piece(First(Asked))>>
                      ELSE toDev[Len(toDev)] = First(Asked)
  BY <1>1, <1>3 DEF Assembly, Ready
<1>6. Asked \in Messages /\ Asked.v = 0 /\ r = Req[Asked.kind]
  BY DEF Asked, Messages, IsoInv, TypeOK
<1> DEFINE b == [n \in 1..r |-> Consec(Asked, n)]
<1>7. b \in Seq(Frames) /\ Len(b) = r
  <2>1. \A n \in 1..r : Consec(Asked, n) \in Frames
    BY <1>6, FrameTypes
  <2>2. r \in Nat /\ r = Req[ask.kind]
    BY <1>4
  <2> HIDE DEF r
  <2> QED
    BY ONLY <2>1, <2>2
<1>8. \A n \in 1..r : b[n] = Consec(Asked, n)
  OBVIOUS
<1>9. toDev' = (toDev \o b) \o <<Consec(Asked, r)>> /\ toDev' \in Seq(Frames)
  <2>1. toDev' = (toDev \o b) \o <<Consec(Asked, r)>>
    BY <1>1
  <2>2. Consec(Asked, r) \in Frames
    BY <1>4, <1>6, FrameTypes
  <2>3. toDev \o b \in Seq(Frames) /\ <<Consec(Asked, r)>> \in Seq(Frames)
    BY <1>1, <1>7, <2>2, ConcatFacts
  <2> HIDE DEF b
  <2> QED
    BY <2>1, <2>3, ConcatFacts
<1> HIDE DEF b
<1>10. Extends(toDev', toDev, Asked)
  <2>1. r \in Nat
    BY <1>4
  <2> QED
    BY <1>1, <1>6, <1>7, <1>8, <1>9, <2>1, BatchExtends
<1> QED
  BY <1>1, <1>4, <1>5, <1>6, <1>10

LEMMA AwaitFlowControlRequest ==
  ASSUME IsoInv, OneKindOfTrouble, Assembly, AwaitFlowControl
  PROVE  Assembly'
<1>1. /\ UNCHANGED <<rx, fcPending, heard, hasty, faults>>
      /\ ask.phase = "fc" /\ toHost # <<>> /\ toHost' = Tail(toHost)
      /\ toHost \in Seq(Frames) /\ toDev \in Seq(Frames)
  BY DEF AwaitFlowControl, device, IsoInv, TypeOK
<1>2. NoNewFc
  BY <1>1, NoNewFcStep
<1>3. CASE UNCHANGED <<toDev, ask>>
  BY <1>1, <1>2, <1>3, QuietRequest
<1>4. CASE /\ Head(toHost).t = "FC"
           /\ toDev' = toDev
                \o [n \in 1..Req[ask.kind] |-> Consec(Asked, n)]
                \o <<Consec(Asked, Req[ask.kind])>>
           /\ ask' = [ask EXCEPT !.phase = "wait"]
  <2> DEFINE r == Req[ask.kind]
  <2>1. /\ Head(toHost) = toHost[1] /\ 1 \in DOMAIN toHost
        /\ DOMAIN toHost = 1..Len(toHost) /\ Len(toHost) \in Nat
        /\ DOMAIN toHost' = 1..(Len(toHost) - 1)
        /\ \A i \in 1..(Len(toHost) - 1) : toHost'[i] = toHost[i + 1]
    BY <1>1, TailFacts
  <2>2. Has(toHost, "FC")
    BY <1>4, <2>1 DEF Has
  <2>3. /\ r \in Nat \ {0} /\ Asked \in Messages /\ Asked.v = 0
        /\ IF toDev = <<>> THEN rx.on => rx.buf = <<Piece(First(Asked))>>
                           ELSE toDev[Len(toDev)] = First(Asked)
        /\ Extends(toDev', toDev, Asked)
    BY <1>4, BatchSent
  <2>4. r = Req[Asked.kind]
    BY DEF Asked
  <2>5. /\ DOMAIN toDev' = 1..(Len(toDev) + r + 1)
        /\ \A i \in 1..Len(toDev) : toDev'[i] = toDev[i]
        /\ \A i \in (Len(toDev) + 1)..(Len(toDev) + r) :
             toDev'[i] = Consec(Asked, i - Len(toDev))
        /\ toDev'[Len(toDev) + r + 1] = Consec(Asked, r)
    BY <2>3, <2>4 DEF Extends
  <2>6. Batched(toDev')
    BY <1>1, <2>3, <2>4, BatchedExtended DEF Assembly
  <2>7. Len(toDev) \in Nat /\ (toDev = <<>> <=> Len(toDev) = 0)
    BY <1>1, AppendFacts
  <2>8. Kept'
    <3>1. CASE toDev = <<>>
      <4>1. toDev'[1] = Consec(Asked, 1)
        <5>1. 1 \in (Len(toDev) + 1)..(Len(toDev) + r) /\ 1 - Len(toDev) = 1
          BY <2>3, <2>7, <3>1
        <5> QED
          BY <2>5, <5>1
      <4>2. rx.on => /\ rx.buf[1].m = Asked /\ Len(rx.buf) = 1 /\ Intact(rx.buf)
                     /\ rx.buf[1].n = 0 /\ rx.buf # <<>>
        <5> DEFINE e == Piece(First(Asked))
        <5>1. e \in Pieces /\ e.m = Asked /\ e.n = 0
          BY <2>3 DEF Piece, First, Pieces
        <5>2. rx.on => rx.buf = <<e>>
          BY <2>3, <3>1
        <5> HIDE DEF e
        <5>3. Intact(<<e>>) /\ Len(<<e>>) = 1 /\ <<e>>[1] = e /\ <<e>> # <<>>
          BY <5>1, SingleIntact
        <5> QED
          BY <5>1, <5>2, <5>3
      <4> QED
        BY <1>1, <4>1, <4>2 DEF Kept, Consec, Intact
    <3>2. CASE toDev # <<>>
      <4>1. toDev'[1] = toDev[1]
        BY <2>5, <2>7, <3>2
      <4> QED
        BY <1>1, <3>2, <4>1 DEF Assembly, Kept, Intact
    <3> QED
      BY <3>1, <3>2
  <2>9. Token'
    <3> SUFFICES ASSUME hasty = 0 PROVE Token'
      BY <1>1 DEF Token
    <3>1. toDev = <<>> /\ ~fcPending /\ Once(toHost, "FC")
      BY <2>2 DEF Assembly, Token
    <3>2. \A i \in DOMAIN toDev' : toDev'[i].t # "FF"
      <4>1. \A i \in DOMAIN toDev' :
              i \in (Len(toDev) + 1)..(Len(toDev) + r) \/ i = Len(toDev) + r + 1
        BY <2>3, <2>5, <2>7, <3>1
      <4> QED
        BY <2>5, <4>1, FrameFields
    <3>3. ~Has(toHost', "FC")
      <4>1. ASSUME NEW i \in DOMAIN toHost', toHost'[i].t = "FC" PROVE FALSE
        <5>1. i + 1 \in DOMAIN toHost /\ toHost[i + 1].t = "FC" /\ i + 1 # 1
          BY <2>1, <4>1
        <5> QED
          BY <1>4, <2>1, <3>1, <5>1 DEF Once
      <4> QED
        BY <4>1 DEF Has
    <3>4. Once(toHost', "FC")
      BY <1>2, <3>1 DEF NoNewFc
    <3> QED
      BY <1>1, <3>1, <3>2, <3>3, <3>4 DEF Token, Has, Once
  <2>10. Ready'
    <3>1. ask'.phase # "fc"
      BY <1>4 DEF IsoInv, TypeOK
    <3> QED
      BY <3>1 DEF Ready
  <2> QED
    BY <1>1, <2>6, <2>8, <2>9, <2>10 DEF Assembly, Batched, Follows, Intact
<1> QED
  BY <1>3, <1>4 DEF AwaitFlowControl

-----------------------------------------------------------------------------
(* The device receives a frame of a request.                               *)
LEMMA DispatchRequest ==
  ASSUME IsoInv, NEW buf \in Seq(Pieces), buf # <<>>, Dispatch(buf)
  PROVE  heard' = buf /\ NoNewFc /\ (faults' = 0 => faults = 0)
<1>1. buf[1].m \in Messages /\ buf[1].m.kind \in Kinds /\ served \in Nat
  <2>1. buf[1] \in Pieces
    OBVIOUS
  <2> QED
    BY <2>1 DEF Pieces, Messages, IsoInv, TypeOK
<1> DEFINE m == buf[1].m
           a == [m EXCEPT !.v = served + 1]
<1>2. a \in Messages
  BY <1>1 DEF Messages
<1>3. /\ heard' = buf
      /\ Respond(a, IF m.kind \in Resets THEN None ELSE slot)
  BY DEF Dispatch
<1>4. Single(a) \in Frames /\ Single(a).t # "FC"
  BY <1>2, FrameTypes DEF Single
<1> HIDE DEF a
<1>5. toHost' = toHost \/ toHost' = Append(toHost, Single(a))
  BY <1>3 DEF Respond
<1>6. faults' = 0 => faults = 0
  BY <1>3, TroubleCounts DEF Respond, IsoInv
<1>7. NoNewFc
  BY <1>4, <1>5, NoNewFcStep DEF IsoInv, TypeOK
<1> QED
  BY <1>3, <1>6, <1>7

(* Behind a frame that asks for no flow control the bus keeps what Ready   *)
(* and Token say of it.                                                    *)
LEMMA BehindFront ==
  ASSUME IsoInv, Assembly, toDev # <<>>, toDev' = Tail(toDev),
         Head(toDev).t # "FF", NoNewFc, UNCHANGED <<fcPending, ask, hasty>>,
         faults' = 0 => faults = 0
  PROVE  Ready' /\ Token'
<1> DEFINE q == toDev
<1>1. /\ q \in Seq(Frames) /\ Len(q) \in Nat \ {0} /\ DOMAIN q = 1..Len(q)
      /\ Head(q) = q[1]
      /\ DOMAIN Tail(q) = 1..(Len(q) - 1) /\ Len(Tail(q)) = Len(q) - 1
      /\ \A i \in 1..(Len(q) - 1) : Tail(q)[i] = q[i + 1]
  BY TailFacts DEF IsoInv, TypeOK
<1>2. Ready'
  <2>1. ASSUME ask.phase = "fc" PROVE Req[ask.kind] > 0
    BY <2>1 DEF Assembly, Ready
  <2>2. ASSUME ask.phase = "fc", faults' = 0 \/ Has(toHost', "FC") \/ fcPending
        PROVE  Tail(q) # <<>> /\ Tail(q)[Len(Tail(q))] = First(Asked)
    <3>1. q[Len(q)] = First(Asked)
      <4>1. faults = 0 \/ Has(toHost, "FC") \/ fcPending
        BY <2>2 DEF NoNewFc
      <4> QED
        BY <2>2, <4>1 DEF Assembly, Ready
    <3>2. Len(q) # 1
      BY <1>1, <3>1, FrameFields
    <3>3. Tail(q) # <<>>
      BY <1>1, <3>2, TailFacts
    <3> QED
      BY <1>1, <3>1, <3>3, LastOfTail
  <2> QED
    BY <2>1, <2>2 DEF Ready, Asked, Has
<1>3. Token'
  <2> SUFFICES ASSUME hasty = 0 PROVE Token'
    BY DEF Token
  <2>1. ~fcPending /\ ~Has(toHost', "FC") /\ Once(toHost', "FC")
    BY DEF Assembly, Token, NoNewFc
  <2>2. ASSUME NEW i \in DOMAIN Tail(q), Tail(q)[i].t = "FF"
        PROVE  i = Len(Tail(q)) /\ Tail(q)[i] = First(Asked) /\ ask.phase = "fc"
    <3>1. i + 1 \in DOMAIN q /\ Tail(q)[i] = q[i + 1]
      BY <1>1, <2>2
    <3>2. i + 1 = Len(q) /\ q[i + 1] = First(Asked) /\ ask.phase = "fc"
      BY <2>2, <3>1 DEF Assembly, Token
    <3> QED
      BY <1>1, <3>1, <3>2
  <2> QED
    BY <2>1, <2>2 DEF Token, Asked, Has, Once
<1> QED
  BY <1>2, <1>3

LEMMA SingleFrameRequest ==
  ASSUME IsoInv, Assembly, toDev # <<>>, toDev' = Tail(toDev),
         SingleFrame(Head(toDev)), UNCHANGED tool
  PROVE  Assembly'
<1> DEFINE f == Head(toDev)
<1>1. f \in Frames /\ f.t = "SF" /\ f = toDev[1] /\ 1 \in DOMAIN toDev
  BY TailFacts DEF SingleFrame, IsoInv, TypeOK
<1>2. Piece(f) \in Pieces /\ Piece(f).n = 0
  <2>1. f.n = 0
    BY <1>1 DEF Assembly, Batched
  <2> QED
    BY <1>1, <2>1, PieceTypes DEF Piece
<1> DEFINE buf == <<Piece(f)>>
<1>3. buf \in Seq(Pieces) /\ buf # <<>> /\ Intact(buf)
  BY <1>2, SingleIntact
<1>4. Dispatch(buf) /\ fcPending' = fcPending /\ rx' = [rx EXCEPT !.on = FALSE]
      /\ UNCHANGED <<ask, hasty>>
  BY DEF SingleFrame, tool
<1> HIDE DEF buf
<1>5. heard' = buf /\ NoNewFc /\ (faults' = 0 => faults = 0)
  BY <1>3, <1>4, DispatchRequest
<1>6. Ready' /\ Token'
  BY <1>1, <1>4, <1>5, BehindFront
<1>7. Kept'
  <2>1. ~rx'.on
    BY <1>4 DEF IsoInv, TypeOK
  <2> QED
    BY <2>1 DEF Kept
<1>8. Batched(toDev')
  BY BatchedTail DEF Assembly, IsoInv, TypeOK
<1>9. Intact(heard')
  BY <1>3, <1>5
<1> QED
  BY <1>6, <1>7, <1>8, <1>9 DEF Assembly, Batched, Follows, Intact

LEMMA FirstFrameRequest ==
  ASSUME IsoInv, OneKindOfTrouble, Assembly, toDev # <<>>, toDev' = Tail(toDev),
         FirstFrame(Head(toDev)), UNCHANGED tool
  PROVE  Assembly'
<1> DEFINE q == toDev
           f == Head(toDev)
<1>1. /\ q \in Seq(Frames) /\ Len(q) \in Nat \ {0} /\ DOMAIN q = 1..Len(q)
      /\ f = q[1] /\ q[1] \in Frames /\ 1 \in DOMAIN q
      /\ (Tail(q) = <<>> <=> Len(q) = 1)
  <2>1. q \in Seq(Frames)
    BY DEF IsoInv, TypeOK
  <2> QED
    BY <2>1, TailFacts
<1>2. f.t = "FF" /\ f.n = 0 /\ Piece(f) \in Pieces /\ Piece(f).n = 0
  <2>1. f.t = "FF" /\ f.n = 0
    BY <1>1 DEF Assembly, Batched, FirstFrame
  <2> QED
    BY <1>1, <2>1, PieceTypes DEF Piece
<1>3. /\ rx' = [on |-> TRUE, buf |-> <<Piece(f)>>] /\ heard' = heard
      /\ UNCHANGED <<ask, hasty>> /\ (faults' = 0 => faults = 0)
      /\ \/ toHost' = Append(toHost, FlowControl) /\ ~fcPending'
         \/ toHost' = toHost /\ fcPending'
  BY TroubleCounts DEF FirstFrame, tool, IsoInv
<1>4. Batched(toDev')
  BY <1>1, BatchedTail DEF Assembly
<1>5. Kept'
  <2>1. ASSUME Tail(q) # <<>>, Tail(q)[1].t = "CF"
        PROVE  Piece(f).m = Tail(q)[1].m /\ Tail(q)[1].n = 1
    BY <1>1, <1>2, <2>1, SecondFollows DEF Assembly, Piece
  <2>2. /\ Intact(<<Piece(f)>>) /\ Len(<<Piece(f)>>) = 1
        /\ <<Piece(f)>>[1] = Piece(f) /\ <<Piece(f)>> # <<>>
    BY <1>2, SingleIntact
  <2>3. rx'.buf = <<Piece(f)>>
    BY <1>3
  <2> QED
    BY <1>2, <2>1, <2>2, <2>3 DEF Kept, Intact
<1>6. hasty = 0 => /\ Tail(q) = <<>> /\ f = First(Asked) /\ ask.phase = "fc"
                   /\ ~Has(toHost, "FC") /\ ~fcPending /\ Once(toHost, "FC")
  BY <1>1, <1>2 DEF Assembly, Token
<1>7. Ready'
  <2>1. ASSUME ask.phase = "fc" PROVE Req[ask.kind] > 0
    BY <2>1 DEF Assembly, Ready
  <2>2. ASSUME ask.phase = "fc"
        PROVE  IF Tail(q) = <<>> THEN rx'.buf = <<Piece(First(Asked))>>
                                 ELSE Tail(q)[Len(Tail(q))] = First(Asked)
    <3>1. CASE hasty = 0
      BY <1>3, <1>6, <3>1
    <3>2. CASE faults = 0
      <4>1. q[Len(q)] = First(Asked)
        BY <2>2, <3>2 DEF Assembly, Ready
      <4> QED
        BY <1>1, <1>3, <4>1, LastOfTail
    <3> QED
      BY <3>1, <3>2 DEF OneKindOfTrouble
  <2> QED
    BY <1>3, <2>1, <2>2 DEF Ready, Asked
<1>8. Token'
  <2> SUFFICES ASSUME hasty = 0 PROVE Token'
    BY <1>3 DEF Token
  <2>1. /\ toDev' = <<>> /\ ask'.phase = "fc"
        /\ ~Has(toHost, "FC") /\ Once(toHost, "FC")
    BY <1>3, <1>6
  <2>2. CASE toHost' = Append(toHost, FlowControl) /\ ~fcPending'
    <3>1. Once(toHost', "FC")
      BY <2>1, <2>2, OnceAppend DEF IsoInv, TypeOK
    <3> QED
      BY <2>1, <2>2, <3>1 DEF Token, Once
  <2>3. CASE toHost' = toHost /\ fcPending'
    BY <2>1, <2>3 DEF Token, Has, Once
  <2> QED
    BY <1>3, <2>2, <2>3
<1> QED
  BY <1>3, <1>4, <1>5, <1>7, <1>8 DEF Assembly, Batched, Follows, Intact

(* Equal numbers are expected; a number behind by one is not.              *)
LEMMA NextNumber ==
  ASSUME NEW j \in Nat, NEW k \in Nat
  PROVE  j % SnMod = k % SnMod => j # k + 1
<1>1. SnMod \in Nat /\ SnMod > 1
  BY IsoAssumption
<1> SUFFICES ASSUME j = k + 1, j % SnMod = k % SnMod PROVE FALSE
  OBVIOUS
<1> DEFINE r == k % SnMod
           a == k \div SnMod
           d == (j \div SnMod) - a
<1>2. r \in Int /\ a \in Int /\ d \in Int /\ k = SnMod * a + r
  BY <1>1
<1>3. j = SnMod * (a + d) + r
  <2>1. j = SnMod * (j \div SnMod) + (j % SnMod) /\ j \div SnMod \in Int
    BY <1>1
  <2>2. j \div SnMod = a + d
    BY <1>2, <2>1
  <2> QED
    BY <2>1, <2>2
<1> HIDE DEF r, a, d
<1>4. SnMod * d = 1
  <2>1. SnMod * (a + d) = SnMod * a + SnMod * d
    BY <1>1, <1>2
  <2>2. SnMod * a \in Int /\ SnMod * d \in Int
    BY <1>1, <1>2
  <2> QED
    BY <1>2, <1>3, <2>1, <2>2
<1>5. d > 0 => SnMod * d >= SnMod
  BY <1>1, <1>2
<1>6. d <= 0 => SnMod * d <= 0
  BY <1>1, <1>2
<1> QED
  BY <1>1, <1>2, <1>4, <1>5, <1>6

LEMMA ConsecutiveFrameRequest ==
  ASSUME IsoInv, Assembly, toDev # <<>>, toDev' = Tail(toDev),
         ConsecutiveFrame(Head(toDev)), UNCHANGED tool
  PROVE  Assembly'
<1> DEFINE q == toDev
           f == Head(toDev)
           buf == Append(rx.buf, Piece(f))
           fits == rx.on /\ Expected(rx.buf, f)
           len == Len(rx.buf)
<1>1. /\ q \in Seq(Frames) /\ f = q[1] /\ f \in Frames /\ 1 \in DOMAIN q
      /\ f.t = "CF" /\ UNCHANGED <<fcPending, ask, hasty>>
  <2>1. q \in Seq(Frames) /\ f.t = "CF" /\ UNCHANGED <<fcPending, ask, hasty>>
    BY DEF ConsecutiveFrame, tool, IsoInv, TypeOK
  <2> QED
    BY <2>1, TailFacts
<1>2. /\ f.m.v = 0 /\ f.n \in 1..Req[f.m.kind] /\ f.n \in Nat
      /\ Req[f.m.kind] \in Nat /\ f.m \in Messages
  <2>1. f.m.v = 0 /\ f.n \in 1..Req[f.m.kind]
    BY <1>1 DEF Assembly, Batched, Follows
  <2>2. f.m \in Messages /\ f.n \in Nat
    BY <1>1, PieceTypes
  <2>3. f.m.kind \in Kinds
    BY <2>2 DEF Messages
  <2> QED
    BY <2>1, <2>2, <2>3, IsoAssumption
<1>3. rx.buf \in Seq(Pieces) /\ len \in Nat /\ rx \in [on: BOOLEAN, buf: Seq(Pieces)]
  <2>1. rx \in [on: BOOLEAN, buf: Seq(Pieces)]
    BY DEF IsoInv, TypeOK
  <2>2. rx.buf \in Seq(Pieces)
    BY <2>1
  <2> QED
    BY <2>1, <2>2, AppendFacts
<1>4. Piece(f) \in Pieces /\ Piece(f) = [m |-> f.m, n |-> f.n]
  BY <1>1, PieceTypes DEF Piece
<1>5. /\ buf \in Seq(Pieces) /\ buf # <<>> /\ Len(buf) = len + 1
      /\ rx.buf # <<>> => buf[1] = rx.buf[1]
  <2>1. buf \in Seq(Pieces)
    BY <1>3, <1>4
  <2>2. /\ buf # <<>> /\ Len(buf) = len + 1 /\ (rx.buf = <<>> <=> len = 0)
        /\ \A i \in 1..len : buf[i] = rx.buf[i]
    BY <1>3, AppendFacts
  <2>3. len # 0 => 1 \in 1..len
    BY <1>3
  <2> QED
    BY <2>1, <2>2, <2>3
<1>6. rx.on => /\ rx.buf # <<>> /\ rx.buf[1].n = 0 /\ rx.buf[1].m = f.m
               /\ len < f.n \/ (len = f.n /\ Intact(rx.buf))
  BY <1>1 DEF Assembly, Kept
<1>7. fits => f.n # len + 1
  BY <1>2, <1>3, NextNumber DEF Expected
<1>8. rx.on /\ len = f.n => fits
  BY DEF Expected
<1>9. rx.on => (Complete(buf) <=> len = Req[f.m.kind])
  <2>1. rx.on => buf[1].m = f.m /\ Cfs(buf[1].m) = Req[f.m.kind]
    BY <1>2, <1>5, <1>6 DEF Cfs
  <2> QED
    BY <1>2, <1>3, <1>5, <2>1 DEF Complete
<1>10. fits /\ len = f.n => Intact(buf)
  <2>1. fits /\ len = f.n => /\ Piece(f) = [m |-> rx.buf[1].m, n |-> Len(rx.buf)]
                             /\ rx.buf # <<>> /\ Intact(rx.buf)
    BY <1>2, <1>4, <1>6
  <2> QED
    BY <1>3, <2>1, IntactAppend
<1>11. Batched(toDev')
  BY <1>1, BatchedTail DEF Assembly
<1>12. CASE /\ fits /\ Complete(buf)
            /\ rx' = [on |-> FALSE, buf |-> buf]
            /\ Dispatch(buf)
  <2>1. len = f.n
    BY <1>2, <1>3, <1>6, <1>9, <1>12
  <2>2. Intact(buf)
    BY <1>10, <1>12, <2>1
  <2>3. heard' = buf /\ NoNewFc /\ (faults' = 0 => faults = 0)
    BY <1>5, <1>12, DispatchRequest
  <2>4. Ready' /\ Token'
    BY <1>1, <2>3, BehindFront
  <2>5. Kept'
    BY <1>12 DEF Kept
  <2>6. Intact(heard')
    BY <2>2, <2>3
  <2> QED
    BY <1>11, <2>4, <2>5, <2>6 DEF Assembly, Batched, Follows, Intact
<1>13. CASE /\ ~(fits /\ Complete(buf))
            /\ rx' = IF fits THEN [rx EXCEPT !.buf = buf] ELSE rx
            /\ UNCHANGED <<toHost, slot, retries, served, heard, faults>>
  <2>1. NoNewFc
    BY <1>13 DEF NoNewFc
  <2>2. Ready' /\ Token'
    BY <1>1, <1>13, <2>1, BehindFront
  <2>3. rx'.on = rx.on /\ rx'.buf = IF fits THEN buf ELSE rx.buf
    BY <1>3, <1>13
  <2>4. rx'.on => rx'.buf # <<>> /\ rx'.buf[1].n = 0
    BY <1>5, <1>6, <2>3
  <2>5. ASSUME rx.on, Tail(q) # <<>>, Tail(q)[1].t = "CF"
        PROVE  /\ rx'.buf[1].m = Tail(q)[1].m
               /\ \/ Len(rx'.buf) < Tail(q)[1].n
                  \/ Len(rx'.buf) = Tail(q)[1].n /\ Intact(rx'.buf)
    <3> DEFINE next == Tail(q)[1].n
               n == f.n
               last == Req[f.m.kind]
    <3>1. /\ Tail(q)[1].m = f.m /\ next \in Nat
          /\ next = n + 1 \/ (next = n /\ n = last)
      BY <1>1, <2>5, SecondFollows DEF Assembly
    <3>2. rx'.buf[1].m = Tail(q)[1].m
      BY <1>5, <1>6, <2>3, <2>5, <3>1
    <3>3. n \in Nat /\ len \in Nat /\ (len < n \/ len = n)
      BY <1>2, <1>3, <1>6, <2>5
    <3>4. CASE ~fits
      <4>1. len < n
        BY <1>8, <2>5, <3>3, <3>4
      <4>2. Len(rx'.buf) = len
        BY <2>3, <3>4
      <4>3. len < next
        <5> HIDE DEF len, n, next
        <5> QED
          BY ONLY <3>1, <3>3, <4>1
      <4> QED
        BY <3>2, <4>2, <4>3
    <3>5. CASE fits
      <4>1. rx'.buf = buf /\ Len(rx'.buf) = len + 1
        BY <1>5, <2>3, <3>5
      <4>2. len # last
        BY <1>9, <1>13, <2>5, <3>5
      <4>3. n # len + 1
        BY <1>7, <3>5
      <4>4. len + 1 < next \/ (len + 1 = next /\ len = n)
        <5> HIDE DEF len, n, next, last
        <5> QED
          BY ONLY <3>1, <3>3, <4>2, <4>3
      <4>5. len = n => Intact(buf)
        BY <1>10, <3>5
      <4> QED
        BY <3>2, <4>1, <4>4, <4>5
    <3> QED
      BY <3>4, <3>5
  <2>6. Kept'
    BY <2>3, <2>4, <2>5 DEF Kept, Intact
  <2> QED
    BY <1>11, <1>13, <2>2, <2>6 DEF Assembly, Batched, Follows, Intact
<1> QED
  BY <1>12, <1>13 DEF ConsecutiveFrame

LEMMA ReceiveRequest ==
  ASSUME IsoInv, OneKindOfTrouble, Assembly, toDev # <<>>, toDev' = Tail(toDev),
         Receive(Head(toDev)), UNCHANGED tool
  PROVE  Assembly'
BY SingleFrameRequest, FirstFrameRequest, ConsecutiveFrameRequest DEF Receive

LEMMA RxHandlerRequest ==
  ASSUME IsoInv, OneKindOfTrouble, Assembly, RxHandler
  PROVE  Assembly'
<1>1. toDev # <<>> /\ toDev' = Tail(toDev) /\ UNCHANGED tool
      /\ UNCHANGED <<ask, hasty>>
  BY DEF RxHandler, tool
<1>2. CASE Receive(Head(toDev))
  BY <1>1, <1>2, ReceiveRequest
<1>3. CASE /\ Head(toDev).t = "FC"
           /\ UNCHANGED <<rx, fcPending, toHost, slot, retries, served, heard,
                          faults>>
  BY <1>1, <1>3, FrontGone
<1> QED
  BY <1>2, <1>3 DEF RxHandler

LEMMA WaitCtsRequest ==
  ASSUME IsoInv, OneKindOfTrouble, Assembly, WaitCts
  PROVE  Assembly'
<1>1. toDev # <<>> /\ toDev' = Tail(toDev) /\ UNCHANGED tool
      /\ UNCHANGED <<ask, hasty>>
  BY DEF WaitCts, tool
<1>2. CASE Receive(Head(toDev))
  BY <1>1, <1>2, ReceiveRequest
<1>3. CASE /\ Head(toDev).t = "FC"
           /\ UNCHANGED <<rx, fcPending, toHost, slot, retries, served, heard,
                          faults>>
  BY <1>1, <1>3, FrontGone
<1> QED
  BY <1>2, <1>3 DEF WaitCts

-----------------------------------------------------------------------------
(* The counters of the faults and of the early timeouts only grow.         *)
LEMMA TroubleStays ==
  ASSUME IsoInv, [Next]_vars
  PROVE  /\ OneKindOfTrouble' => OneKindOfTrouble
         /\ hasty' = 0 => hasty = 0
<1>1. faults \in Nat /\ hasty \in Nat
  BY IsoAssumption DEF IsoInv, TypeOK
<1>2. faults' = faults \/ faults' = faults + 1
  <2>1. ASSUME NEW a, NEW kept, Respond(a, kept)
        PROVE  faults' = faults \/ faults' = faults + 1
    BY <2>1 DEF Respond, Fault
  <2>2. ASSUME NEW f, Receive(f) PROVE faults' = faults \/ faults' = faults + 1
    BY <2>1, <2>2
       DEF Receive, SingleFrame, FirstFrame, ConsecutiveFrame, Dispatch, Fault
  <2>3. CASE DeviceStep
    BY <2>2, <2>3
       DEF DeviceStep, RxHandler, PollFlowControl, ReceiveTimeout, Flush, WaitCts,
           CtsTimeout, SendConsecutive, Fault
  <2>4. CASE ToolStep
    BY <2>4
       DEF ToolStep, Ask, FlowControlTimeout, AwaitFlowControl, TryReceive,
           AnswerTimeout, Watchdog
  <2> QED
    BY <2>3, <2>4 DEF Next, Lose, Fault, vars
<1>3. hasty' = hasty \/ hasty' = hasty + 1
  <2>1. CASE DeviceStep
    BY <2>1
       DEF DeviceStep, RxHandler, PollFlowControl, ReceiveTimeout, Flush, WaitCts,
           CtsTimeout, SendConsecutive, tool
  <2>2. ASSUME NEW quiet, Patient(quiet) PROVE hasty' = hasty \/ hasty' = hasty + 1
    BY <2>2 DEF Patient
  <2>3. CASE ToolStep
    BY <2>2, <2>3
       DEF ToolStep, Ask, FlowControlTimeout, AwaitFlowControl, TryReceive,
           AnswerTimeout, Watchdog
  <2> QED
    BY <2>1, <2>3 DEF Next, Lose, tool, vars
<1> QED
  BY <1>1, <1>2, <1>3 DEF OneKindOfTrouble

LEMMA RequestInitial == Init => RequestInv
<1> SUFFICES ASSUME Init PROVE IsoInv /\ Assembly
  BY DEF RequestInv
<1>1. IsoInv
  BY IsoInitial
<1>2. /\ ~rx.on /\ ~fcPending /\ heard = <<>> /\ toDev = <<>> /\ toHost = <<>>
      /\ ask.phase = "idle"
  BY DEF Init
<1>3. Batched(toDev) /\ Intact(heard) /\ Once(toHost, "FC") /\ ~Has(toHost, "FC")
  BY <1>2 DEF Batched, Intact, Once, Has
<1>4. Kept /\ Ready
  BY <1>2 DEF Kept, Ready
<1>5. Token
  BY <1>2, <1>3 DEF Token
<1> QED
  BY <1>1, <1>3, <1>4, <1>5 DEF Assembly

LEMMA RequestInductive == RequestInv /\ [Next]_vars => RequestInv'
<1> SUFFICES ASSUME RequestInv, [Next]_vars PROVE RequestInv'
  OBVIOUS
<1>1. IsoInv /\ IsoInv'
  BY IsoInductive DEF RequestInv
<1> SUFFICES ASSUME OneKindOfTrouble' PROVE Assembly'
  BY <1>1 DEF RequestInv
<1>2. OneKindOfTrouble /\ Assembly
  BY <1>1, TroubleStays DEF RequestInv
<1>3. CASE DeviceStep
  BY <1>1, <1>2, <1>3, RxHandlerRequest, PollFlowControlRequest,
     ReceiveTimeoutRequest, FlushRequest, WaitCtsRequest, CtsTimeoutRequest,
     SendConsecutiveRequest DEF DeviceStep
<1>4. CASE ToolStep
  BY <1>1, <1>2, <1>4, AskRequest, FlowControlTimeoutRequest,
     AwaitFlowControlRequest, TryReceiveRequest, AnswerTimeoutRequest,
     WatchdogRequest DEF ToolStep
<1>5. CASE Lose
  BY <1>1, <1>2, <1>5, LoseRequest
<1>6. CASE UNCHANGED vars
  BY <1>1, <1>2, <1>6, StutterRequest
<1> QED
  BY <1>3, <1>4, <1>5, <1>6 DEF Next

(* While frames are lost or timeouts of the tool expire early, but not     *)
(* both, a request the device executes is one request of the tool, from    *)
(* its first piece to its last: however many frames are lost or repeated,  *)
(* whatever the modulus of the sequence number, no buffer is completed     *)
(* with the pieces of another request (isotp_rx_process).                  *)
THEOREM RequestsArriveWhole == Spec => []RequestsIntact
<1>1. RequestInv => RequestsIntact
  BY DEF RequestInv, OneKindOfTrouble, Assembly, RequestsIntact
<1> QED
  BY <1>1, RequestInitial, RequestInductive, PTL DEF Spec

-----------------------------------------------------------------------------
(* Answers are current, for answers short enough that no two of their      *)
(* frames have the same number.                                            *)
ShortAnswers == \A k \in Kinds : Ans[k] <= SnMod

(* The answer to the request the tool sent last.                           *)
Current == [kind |-> ask.kind, re |-> ask.re, v |-> served]

Answering == slot # None \/ \E i \in DOMAIN toHost : toHost[i].t # "FC"

(* As long as an answer is on its way the tool waits for it, and no        *)
(* request is.                                                             *)
Awaited ==
  Answering => /\ ask.phase = "wait" /\ served > 0
               /\ ~rx.on /\ ~Has(toDev, "SF")

OneAnswer ==
  /\ \A i \in DOMAIN toHost : toHost[i].t # "FC" => toHost[i].m = Current
  /\ slot # None => slot = Current
  /\ tx.phase # "idle" => slot # None /\ tx.copy = slot /\ Ans[ask.kind] > 0

(* A request that still can be executed is the one the tool sent last, and *)
(* nothing follows it.                                                     *)
OneRequest ==
  /\ \A i \in DOMAIN toDev :
       toDev[i].t = "SF" =>
         i = Len(toDev) /\ toDev[i].m = Asked /\ ask.phase = "wait"
  /\ rx.on /\ Has(toDev, "CF") =>
       /\ ask.phase = "wait" /\ rx.buf[1].m = Asked
       /\ \A i \in DOMAIN toDev : toDev[i].t = "CF"

(* A short answer, and the last frame of a long one, is the last frame on  *)
(* the bus, and the slot is empty then.                                    *)
LastOut ==
  /\ \A i \in DOMAIN toHost :
       /\ toHost[i].t = "SF" => Len(toHost) = 1 /\ slot = None
       /\ toHost[i].t = "FF" => toHost[i].n = 0 /\ Ans[ask.kind] > 0
       /\ toHost[i].t = "CF" =>
            /\ toHost[i].n \in 1..Ans[ask.kind]
            /\ toHost[i].n = Ans[ask.kind] => i = Len(toHost) /\ slot = None
  /\ tx.phase = "send" => tx.next \in 1..Ans[ask.kind]
  /\ tx.phase = "cts" => tx.next = 1

(* A half-assembled answer lacks at least one piece.                       *)
Unfinished ==
  half # <<>> => half[1].m.v > 0 /\ Len(half) <= Ans[half[1].m.kind]

Turn == Awaited /\ OneAnswer /\ OneRequest /\ LastOut /\ Unfinished

(* Before frame n the half-assembled answer has all of the body so far, or *)
(* too little for frame n to fit.                                          *)
Place(n) ==
  half # <<>> /\ n > 1 =>
    \/ Len(half) < n
    \/ Len(half) = n /\ \A i \in 2..n : half[i] = [m |-> Current, n |-> i - 1]

Caught ==
  /\ toHost # <<>> /\ toHost[1].t = "CF" => Place(toHost[1].n)
  /\ toHost = <<>> /\ tx.phase = "send" => Place(tx.next)

(* While nothing is lost the tool is in step with the device.              *)
InStep ==
  faults = 0 =>
    /\ half # <<>> =>
         /\ ask.phase = "wait" /\ Intact(half) /\ half[1].m = Current
         /\ toHost # <<>> => toHost[1] = Consec(Current, Len(half))
         /\ toHost = <<>> =>
              \/ tx.phase = "send" /\ tx.next = Len(half)
              \/ tx.phase = "cts" /\ Len(half) = 1 /\ Has(toDev, "FC")
    /\ slot # None /\ tx.phase = "idle" => toHost = <<>> /\ ~Has(toDev, "FC")
    /\ \A i \in DOMAIN toHost :
         /\ toHost[i].t = "FF" => /\ tx.phase = "cts" /\ ~Has(toDev, "FC")
                                  /\ i = 1 /\ Len(toHost) = 1
         /\ toHost[i].t = "CF" /\ i = Len(toHost) =>
              toHost[i].n = Ans[ask.kind] \/ tx.phase = "send"

Gotten ==
  got # <<>> =>
    /\ Last(got).m.re = ask.re
    /\ \A i \in 2..Len(got) : got[i] = [m |-> Last(got).m, n |-> i - 1]

Course == faults < 2 => Caught /\ InStep /\ Gotten

AnswerInv == RequestInv /\ (hasty = 0 => Turn /\ Course)

Exchange == IsoInv /\ Assembly /\ hasty = 0 /\ Turn /\ Course

-----------------------------------------------------------------------------
(* What is known while an answer is on its way, and while none is.         *)
LEMMA Answered ==
  ASSUME Exchange, Answering
  PROVE  /\ ask.phase = "wait" /\ served > 0 /\ ~rx.on /\ ~fcPending
         /\ \A i \in DOMAIN toHost : toHost[i].t # "FC" /\ toHost[i].m = Current
         /\ \A i \in DOMAIN toDev : toDev[i].t \notin {"SF", "FF"}
<1>1. ask.phase = "wait" /\ served > 0 /\ ~rx.on /\ ~Has(toDev, "SF")
  BY DEF Exchange, Turn, Awaited
<1>2. ~fcPending /\ ~Has(toHost, "FC") /\ \A i \in DOMAIN toDev : toDev[i].t # "FF"
  BY <1>1 DEF Exchange, Assembly, Token
<1>3. \A i \in DOMAIN toHost : toHost[i].t # "FC"
  BY <1>2 DEF Has
<1> QED
  BY <1>1, <1>2, <1>3 DEF Exchange, Turn, OneAnswer, Has

LEMMA Silent ==
  ASSUME Exchange, ~Answering
  PROVE  /\ slot = None /\ tx.phase = "idle"
         /\ \A i \in DOMAIN toHost : toHost[i].t = "FC"
         /\ faults = 0 => half = <<>>
<1>1. slot = None /\ \A i \in DOMAIN toHost : toHost[i].t = "FC"
  BY DEF Answering
<1>2. tx.phase = "idle"
  BY <1>1 DEF Exchange, Turn, OneAnswer
<1>3. ASSUME faults = 0, half # <<>> PROVE FALSE
  <2>1. InStep
    BY <1>3 DEF Exchange, Course
  <2>2. CASE toHost = <<>>
    BY <1>2, <1>3, <2>1, <2>2 DEF InStep
  <2>3. CASE toHost # <<>>
    <3>1. toHost[1] = Consec(Current, Len(half))
      BY <1>3, <2>1, <2>3 DEF InStep
    <3>2. 1 \in DOMAIN toHost
      BY <2>3, TailFacts DEF Exchange, IsoInv, TypeOK
    <3> QED
      BY <1>1, <3>1, <3>2, FrameFields
  <2> QED
    BY <2>2, <2>3
<1> QED
  BY <1>1, <1>2, <1>3

(* A step to a state without an answer.                                    *)
LEMMA StaysSilent ==
  ASSUME slot' = None, tx'.phase = "idle", toHost' \in Seq(Frames),
         \A i \in DOMAIN toHost' : toHost'[i].t = "FC",
         OneRequest', Unfinished',
         faults' < 2 => Gotten', faults' = 0 => half' = <<>>
  PROVE  Turn' /\ Course'
<1>1. toHost' # <<>> => 1 \in DOMAIN toHost'
  BY TailFacts
<1>2. Awaited'
  BY DEF Awaited, Answering
<1>3. OneAnswer'
  BY DEF OneAnswer
<1>4. LastOut'
  BY DEF LastOut
<1>5. Caught'
  BY <1>1 DEF Caught
<1>6. InStep'
  BY DEF InStep
<1> QED
  BY <1>2, <1>3, <1>4, <1>5, <1>6 DEF Turn, Course

(* The steps without an answer before and after that take nothing from     *)
(* the tool's buffers and leave no request ready at the device.            *)
LEMMA NoRequest ==
  ASSUME Exchange, ask.phase # "wait"
  PROVE  ~Answering /\ ~Has(toDev, "SF") /\ ~(rx.on /\ Has(toDev, "CF"))
BY DEF Exchange, Turn, Awaited, OneRequest, Has

LEMMA SilentStep ==
  ASSUME Exchange, ~Answering,
         UNCHANGED <<slot, tx>>, toHost' \in Seq(Frames),
         \A i \in DOMAIN toHost' : toHost'[i].t = "FC",
         OneRequest', half' = half \/ half' = <<>>,
         got' = <<>> \/ (got' = got /\ ask'.re = ask.re),
         faults' < 2 => faults < 2, faults' = 0 => faults = 0
  PROVE  Turn' /\ Course'
<1>1. slot' = None /\ tx'.phase = "idle" /\ (faults' = 0 => half' = <<>>)
  BY Silent
<1>2. Unfinished'
  BY DEF Exchange, Turn, Unfinished
<1>3. faults' < 2 => Gotten'
  BY DEF Exchange, Course, Gotten, Last
<1> QED
  BY <1>1, <1>2, <1>3, StaysSilent

LEMMA FlowControlsOnly ==
  ASSUME NEW q \in Seq(Frames), \A i \in DOMAIN q : q[i].t = "FC"
  PROVE  /\ Append(q, FlowControl) \in Seq(Frames)
         /\ \A i \in DOMAIN Append(q, FlowControl) :
              Append(q, FlowControl)[i].t = "FC"
<1>1. FlowControl \in Frames /\ FlowControl.t = "FC"
  BY FrameTypes DEF FlowControl
<1> HIDE DEF FlowControl
<1>2. /\ DOMAIN Append(q, FlowControl) = 1..(Len(q) + 1) /\ DOMAIN q = 1..Len(q)
      /\ \A i \in 1..Len(q) : Append(q, FlowControl)[i] = q[i]
      /\ Append(q, FlowControl)[Len(q) + 1] = FlowControl /\ Len(q) \in Nat
  BY AppendFacts
<1> QED
  BY <1>1, <1>2

LEMMA PollFlowControlAnswer ==
  ASSUME Exchange, PollFlowControl
  PROVE  Turn' /\ Course'
<1>1. /\ UNCHANGED <<rx, slot, tx, toDev, ask, half, got>> /\ fcPending
      /\ toHost' = toHost \/ toHost' = Append(toHost, FlowControl)
      /\ faults' = faults \/ Fault
  BY DEF PollFlowControl, tool
<1>2. ask.phase = "fc" /\ ~Answering
  BY <1>1, Answered DEF Exchange, Assembly, Token
<1>3. toHost' \in Seq(Frames) /\ \A i \in DOMAIN toHost' : toHost'[i].t = "FC"
  <2>1. toHost \in Seq(Frames) /\ \A i \in DOMAIN toHost : toHost[i].t = "FC"
    BY <1>2, Silent DEF Exchange, IsoInv, TypeOK
  <2> QED
    BY <1>1, <2>1, FlowControlsOnly
<1>4. OneRequest'
  BY <1>1 DEF Exchange, Turn, OneRequest, Has, Asked
<1>5. (faults' < 2 => faults < 2) /\ (faults' = 0 => faults = 0)
  BY <1>1 DEF Fault, Exchange, IsoInv, TypeOK
<1> QED
  BY <1>1, <1>2, <1>3, <1>4, <1>5, SilentStep

LEMMA ReceiveTimeoutAnswer ==
  ASSUME Exchange, ReceiveTimeout
  PROVE  Turn' /\ Course'
<1>1. /\ UNCHANGED <<slot, tx, toHost, ask, half, got, faults>>
      /\ rx.on /\ toDev = <<>> /\ toDev' = <<>>
  BY DEF ReceiveTimeout, tool
<1>2. ~Answering /\ toHost' \in Seq(Frames)
  BY <1>1, Answered DEF Exchange, IsoInv, TypeOK
<1>3. OneRequest'
  BY <1>1 DEF OneRequest, Has
<1> QED
  BY <1>1, <1>2, <1>3, Silent, SilentStep

LEMMA AskAnswer ==
  ASSUME Exchange, Ask
  PROVE  Turn' /\ Course'
<1>1. /\ UNCHANGED <<rx, slot, tx, toHost, half, faults>> /\ got' = <<>>
      /\ ask.phase = "idle" /\ toDev \in Seq(Frames) /\ toHost \in Seq(Frames)
  BY DEF Ask, device, Exchange, IsoInv, TypeOK
<1>2. ~Answering /\ ~Has(toDev, "SF") /\ ~(rx.on /\ Has(toDev, "CF"))
  BY <1>1, NoRequest
<1>3. PICK f : /\ toDev' = Append(toDev, f)
               /\ \/ f.t = "SF" /\ f.m = Asked' /\ ask'.phase = "wait"
                  \/ f.t = "FF"
  BY DEF Ask, Single, First, Asked
<1>4. /\ DOMAIN toDev' = 1..(Len(toDev) + 1) /\ DOMAIN toDev = 1..Len(toDev)
      /\ Len(toDev') = Len(toDev) + 1 /\ Len(toDev) \in Nat
      /\ \A i \in 1..Len(toDev) : toDev'[i] = toDev[i]
      /\ toDev'[Len(toDev) + 1] = f
  BY <1>1, <1>3, AppendFacts
<1>5. OneRequest'
  <2>1. ASSUME NEW i \in DOMAIN toDev', toDev'[i].t = "SF"
        PROVE  i = Len(toDev') /\ toDev'[i].m = Asked' /\ ask'.phase = "wait"
    <3>1. i \notin 1..Len(toDev)
      BY <1>2, <1>4, <2>1 DEF Has
    <3> QED
      BY <1>3, <1>4, <2>1, <3>1
  <2>2. ~(rx.on /\ Has(toDev', "CF"))
    BY <1>1, <1>2, <1>3, HasAppend
  <2> QED
    BY <1>1, <2>1, <2>2 DEF OneRequest, Asked, Has
<1> QED
  BY <1>1, <1>2, <1>5, Silent, SilentStep

LEMMA FlowControlTimeoutAnswer ==
  ASSUME Exchange, FlowControlTimeout
  PROVE  Turn' /\ Course'
<1>1. /\ UNCHANGED <<rx, slot, tx, toHost, half, got, faults>>
      /\ ask.phase = "fc" /\ toDev \in Seq(Frames) /\ toHost \in Seq(Frames)
      /\ ask'.re = ask.re
  BY DEF FlowControlTimeout, device, Exchange, IsoInv, TypeOK
<1>2. ~Answering /\ ~Has(toDev, "SF") /\ ~(rx.on /\ Has(toDev, "CF"))
  BY <1>1, NoRequest
<1>3. ~Has(toDev', "SF") /\ ~(rx.on /\ Has(toDev', "CF"))
  <2>1. toDev' = toDev \/ toDev' = Append(toDev, First(Asked))
    BY DEF FlowControlTimeout
  <2>2. First(Asked).t # "SF" /\ First(Asked).t # "CF"
    BY FrameFields
  <2>3. CASE toDev' = Append(toDev, First(Asked))
    <3>1. Has(toDev', "SF") <=> Has(toDev, "SF") \/ First(Asked).t = "SF"
      BY <1>1, <2>3, HasAppend
    <3>2. Has(toDev', "CF") <=> Has(toDev, "CF") \/ First(Asked).t = "CF"
      BY <1>1, <2>3, HasAppend
    <3> QED
      BY <1>2, <2>2, <3>1, <3>2
  <2> QED
    BY <1>2, <2>1, <2>3
<1>4. OneRequest'
  BY <1>1, <1>3 DEF OneRequest, Has
<1> QED
  BY <1>1, <1>2, <1>4, Silent, SilentStep

LEMMA AwaitFlowControlAnswer ==
  ASSUME Exchange, AwaitFlowControl
  PROVE  Turn' /\ Course'
<1>1. /\ UNCHANGED <<rx, slot, tx, half, got, faults>>
      /\ ask.phase = "fc" /\ toHost # <<>> /\ toHost' = Tail(toHost)
      /\ toDev \in Seq(Frames) /\ toHost \in Seq(Frames)
  BY DEF AwaitFlowControl, device, Exchange, IsoInv, TypeOK
<1>2. ~Answering
  BY <1>1, NoRequest
<1>3. \A i \in DOMAIN toHost : toHost[i].t = "FC"
  BY <1>2, Silent
<1>4. /\ Head(toHost) = toHost[1] /\ 1 \in DOMAIN toHost
      /\ DOMAIN toHost' = 1..(Len(toHost) - 1) /\ DOMAIN toHost = 1..Len(toHost)
      /\ \A i \in 1..(Len(toHost) - 1) : toHost'[i] = toHost[i + 1]
      /\ toHost' \in Seq(Frames) /\ Len(toHost) \in Nat
  BY <1>1, TailFacts
<1>5. \A i \in DOMAIN toHost' : toHost'[i].t = "FC"
  <2>1. \A i \in 1..(Len(toHost) - 1) : i + 1 \in 1..Len(toHost)
    BY <1>4
  <2> QED
    BY <1>3, <1>4, <2>1
<1>6. /\ toDev = <<>> /\ Head(toHost).t = "FC"
  <2>1. Has(toHost, "FC") /\ Head(toHost).t = "FC"
    BY <1>3, <1>4 DEF Has
  <2> QED
    BY <2>1 DEF Exchange, Assembly, Token
<1>7. /\ Req[ask.kind] \in Nat \ {0}
      /\ rx.on => rx.buf = <<Piece(First(Asked))>>
      /\ Extends(toDev', toDev, Asked)
      /\ ask' = [ask EXCEPT !.phase = "wait"]
  BY <1>6, BatchSent DEF Exchange
<1>8. ask'.phase = "wait" /\ ask'.re = ask.re /\ Asked' = Asked
  BY <1>7 DEF Asked, Exchange, IsoInv, TypeOK
<1>9. \A i \in DOMAIN toDev' : toDev'[i].t = "CF"
  <2>1. Asked.kind = ask.kind /\ Len(toDev) = 0
    BY <1>6 DEF Asked
  <2>2. /\ DOMAIN toDev' = 1..(0 + Req[ask.kind] + 1)
        /\ \A i \in (0 + 1)..(0 + Req[ask.kind]) : toDev'[i] = Consec(Asked, i - 0)
        /\ toDev'[0 + Req[ask.kind] + 1] = Consec(Asked, Req[ask.kind])
    BY <1>7, <2>1 DEF Extends
  <2>3. \A i \in DOMAIN toDev' :
          i \in (0 + 1)..(0 + Req[ask.kind]) \/ i = 0 + Req[ask.kind] + 1
    BY <1>7, <2>2
  <2> QED
    BY <2>2, <2>3, FrameFields
<1>10. OneRequest'
  <2>1. rx.on => rx.buf[1].m = Asked
    <3>1. <<Piece(First(Asked))>>[1] = Piece(First(Asked))
      OBVIOUS
    <3>2. Piece(First(Asked)).m = Asked
      BY FrameFields DEF Piece
    <3> QED
      BY <1>7, <3>1, <3>2
  <2> QED
    BY <1>1, <1>8, <1>9, <2>1 DEF OneRequest
<1> QED
  BY <1>1, <1>2, <1>4, <1>5, <1>8, <1>10, SilentStep

LEMMA AnswerTimeoutAnswer ==
  ASSUME Exchange, AnswerTimeout, hasty' = 0
  PROVE  Turn' /\ Course'
<1>1. /\ UNCHANGED <<rx, slot, tx, half, got, toDev, toHost, faults>>
      /\ ask'.re = ask.re
  BY DEF AnswerTimeout, device, Exchange, IsoInv, TypeOK
<1>2. toDev = <<>> /\ toHost = <<>> /\ tx.phase = "idle" /\ slot = None
  BY TroubleCounts DEF AnswerTimeout, Exchange, IsoInv
<1>3. ~Answering /\ toHost \in Seq(Frames)
  BY <1>2 DEF Answering
<1>4. OneRequest'
  BY <1>1, <1>2 DEF OneRequest, Has
<1> QED
  BY <1>1, <1>3, <1>4, Silent, SilentStep

LEMMA WatchdogAnswer ==
  ASSUME Exchange, Watchdog
  PROVE  Turn' /\ Course'
<1>1. /\ UNCHANGED <<rx, slot, tx, ask, got, toDev, toHost, faults>>
      /\ ask.phase = "idle" /\ half' = <<>> /\ toHost \in Seq(Frames)
  BY DEF Watchdog, device, Exchange, IsoInv, TypeOK
<1>2. ~Answering
  BY <1>1, NoRequest
<1>3. OneRequest'
  BY <1>1 DEF Exchange, Turn, OneRequest, Has, Asked
<1> QED
  BY <1>1, <1>2, <1>3, Silent, SilentStep

LEMMA FirstFrameAnswer ==
  ASSUME Exchange, toDev # <<>>, toDev' = Tail(toDev),
         FirstFrame(Head(toDev)), UNCHANGED <<tool, tx>>
  PROVE  Turn' /\ Course'
<1>1. /\ UNCHANGED <<slot, tx, ask, got, half>>
      /\ toHost' = toHost \/ toHost' = Append(toHost, FlowControl)
      /\ faults' = faults \/ Fault
      /\ toDev \in Seq(Frames) /\ toHost \in Seq(Frames)
  BY DEF FirstFrame, tool, Exchange, IsoInv, TypeOK
<1>2. Head(toDev) = toDev[1] /\ 1 \in DOMAIN toDev /\ toDev[1].t = "FF"
  BY <1>1, TailFacts DEF FirstFrame
<1>3. ~Answering /\ toDev' = <<>>
  <2>1. 1 = Len(toDev) /\ ask.phase = "fc"
    BY <1>2 DEF Exchange, Assembly, Token
  <2> QED
    BY <1>1, <2>1, NoRequest, TailFacts
<1>4. toHost' \in Seq(Frames) /\ \A i \in DOMAIN toHost' : toHost'[i].t = "FC"
  <2>1. \A i \in DOMAIN toHost : toHost[i].t = "FC"
    BY <1>3, Silent
  <2> QED
    BY <1>1, <2>1, FlowControlsOnly
<1>5. OneRequest'
  BY <1>3 DEF OneRequest, Has
<1>6. (faults' < 2 => faults < 2) /\ (faults' = 0 => faults = 0)
  BY <1>1 DEF Fault, Exchange, IsoInv, TypeOK
<1> QED
  BY <1>1, <1>3, <1>4, <1>5, <1>6, SilentStep

-----------------------------------------------------------------------------
(* The device executes the request: there was no answer before.            *)
LEMMA DispatchAnswer ==
  ASSUME Exchange, ~Answering, ask.phase = "wait",
         NEW buf, buf[1].m = Asked, Dispatch(buf),
         ~rx'.on, ~Has(toDev', "SF"), ~Has(toDev', "FC"),
         UNCHANGED <<tx, ask, half, got>>
  PROVE  Turn' /\ Course'
<1> DEFINE a == [Asked EXCEPT !.v = served + 1]
<1>1. toHost = <<>>
  <2>1. ~Has(toHost, "FC") /\ toHost \in Seq(Frames)
    BY DEF Exchange, Assembly, Token, IsoInv, TypeOK
  <2>2. toHost # <<>> => 1 \in DOMAIN toHost
    BY <2>1, TailFacts
  <2> QED
    BY <2>1, <2>2, Silent DEF Has
<1>2. slot = None /\ tx.phase = "idle" /\ (faults = 0 => half = <<>>)
  BY Silent
<1>3. served' = served + 1 /\ Respond(a, None) /\ served' > 0
  <2>1. /\ served' = served + 1
        /\ Respond(a, IF buf[1].m.kind \in Resets THEN None ELSE slot)
    BY DEF Dispatch
  <2>2. served \in Nat
    BY DEF Exchange, IsoInv, TypeOK
  <2> QED
    BY <1>2, <2>1, <2>2
<1>4. a = Current' /\ a \in Messages /\ a # None
  <2>1. a = Current'
    BY <1>3 DEF Current, Asked
  <2>2. ask.kind \in Kinds /\ ask.re \in Nat /\ served' \in Nat
    BY <1>3 DEF Exchange, IsoInv, TypeOK
  <2>3. a.v > 0 /\ a = [kind |-> ask.kind, re |-> ask.re, v |-> served']
    BY <1>3, <2>1 DEF Current
  <2> QED
    BY <2>1, <2>2, <2>3 DEF Messages, None
<1> HIDE DEF a
<1>5. \/ toHost' = <<Single(a)>> /\ slot' = None
      \/ toHost' = <<>> /\ slot' = a
  <2>1. Append(<<>>, Single(a)) = <<Single(a)>>
    OBVIOUS
  <2> QED
    BY <1>1, <1>3, <2>1 DEF Respond
<1>6. faults' = faults \/ Fault
  BY <1>3 DEF Respond
<1>7. \A i \in DOMAIN toHost' : /\ toHost'[i].t = "SF" /\ toHost'[i].m = a
                                /\ Len(toHost') = 1 /\ slot' = None
  <2>1. DOMAIN <<Single(a)>> = {1} /\ <<Single(a)>>[1] = Single(a)
        /\ Len(<<Single(a)>>) = 1
    OBVIOUS
  <2>2. DOMAIN <<>> = {}
    OBVIOUS
  <2>3. Single(a).t = "SF" /\ Single(a).m = a
    BY DEF Single
  <2> QED
    BY <1>5, <2>1, <2>2, <2>3
<1>8. toHost' # <<>> => toHost'[1].t = "SF"
  <2>1. <<Single(a)>>[1] = Single(a) /\ Single(a).t = "SF"
    BY DEF Single
  <2> QED
    BY <1>5, <2>1
<1>9. Awaited'
  BY <1>3 DEF Awaited
<1>10. OneAnswer'
  BY <1>2, <1>4, <1>5, <1>7 DEF OneAnswer
<1>11. OneRequest'
  BY DEF OneRequest, Has
<1>12. LastOut' /\ Unfinished'
  BY <1>2, <1>7 DEF LastOut, Exchange, Turn, Unfinished
<1>13. Course'
  <2> SUFFICES ASSUME faults' < 2 PROVE Course'
    BY DEF Course
  <2>1. faults < 2 /\ (faults' = 0 => faults = 0)
    BY <1>6 DEF Fault, Exchange, IsoInv, TypeOK
  <2>2. Caught'
    BY <1>2, <1>8 DEF Caught
  <2>3. InStep'
    BY <1>2, <1>5, <1>7, <2>1 DEF InStep, Has
  <2>4. Gotten'
    BY <2>1 DEF Exchange, Course, Gotten, Last
  <2> QED
    BY <2>2, <2>3, <2>4 DEF Course
<1> QED
  BY <1>9, <1>10, <1>11, <1>12, <1>13 DEF Turn

LEMMA SingleFrameAnswer ==
  ASSUME Exchange, toDev # <<>>, toDev' = Tail(toDev),
         SingleFrame(Head(toDev)), UNCHANGED <<tool, tx>>
  PROVE  Turn' /\ Course'
<1> DEFINE f == Head(toDev)
           buf == <<Piece(f)>>
<1>1. /\ f = toDev[1] /\ 1 \in DOMAIN toDev /\ f.t = "SF"
      /\ (Tail(toDev) = <<>> <=> Len(toDev) = 1)
  <2>1. toDev \in Seq(Frames) /\ f.t = "SF"
    BY DEF SingleFrame, Exchange, IsoInv, TypeOK
  <2> QED
    BY <2>1, TailFacts
<1>2. ask.phase = "wait" /\ f.m = Asked /\ toDev' = <<>> /\ ~Answering
  <2>1. Has(toDev, "SF")
    BY <1>1 DEF Has
  <2>2. ask.phase = "wait" /\ f.m = Asked /\ 1 = Len(toDev)
    BY <1>1 DEF Exchange, Turn, OneRequest
  <2> QED
    BY <1>1, <2>1, <2>2 DEF Exchange, Turn, Awaited
<1>3. buf[1].m = Asked
  <2>1. buf[1] = Piece(f)
    OBVIOUS
  <2> QED
    BY <1>2, <2>1 DEF Piece
<1>4. Dispatch(buf) /\ ~rx'.on /\ UNCHANGED <<tx, ask, half, got>>
  BY DEF SingleFrame, tool, Exchange, IsoInv, TypeOK
<1>5. ~Has(toDev', "SF") /\ ~Has(toDev', "FC")
  BY <1>2 DEF Has
<1> HIDE DEF buf
<1> QED
  BY <1>2, <1>3, <1>4, <1>5, DispatchAnswer

(* A frame of the tool is gone and the answer on its way is as it was.     *)
LEMMA RequestGone ==
  ASSUME Exchange, toDev # <<>>, toDev' = Tail(toDev),
         UNCHANGED <<slot, tx, served, ask, half, got, toHost>>,
         rx'.on = rx.on, rx.on => rx'.buf[1] = rx.buf[1],
         \/ faults' = faults /\ (Head(toDev).t = "FC" => tx.phase = "idle")
         \/ Fault
  PROVE  Turn' /\ Course'
<1>1. /\ toDev \in Seq(Frames) /\ Len(toDev) \in Nat \ {0} /\ Head(toDev) = toDev[1]
      /\ DOMAIN toDev' = 1..(Len(toDev) - 1) /\ DOMAIN toDev = 1..Len(toDev)
      /\ \A i \in 1..(Len(toDev) - 1) : toDev'[i] = toDev[i + 1]
      /\ Len(toDev') = Len(toDev) - 1
  <2>1. toDev \in Seq(Frames)
    BY DEF Exchange, IsoInv, TypeOK
  <2> QED
    BY <2>1, TailFacts
<1>2. \A t : Has(toDev', t) => Has(toDev, t)
  BY <1>1, HasTail
<1>3. \A i \in DOMAIN toDev' : i + 1 \in DOMAIN toDev /\ toDev'[i] = toDev[i + 1]
  BY <1>1
<1>4. Awaited'
  BY <1>2 DEF Exchange, Turn, Awaited, Answering, Has
<1>5. OneAnswer' /\ LastOut' /\ Unfinished'
  BY DEF Exchange, Turn, OneAnswer, LastOut, Unfinished, Current
<1>6. OneRequest'
  <2>1. ASSUME NEW i \in DOMAIN toDev', toDev'[i].t = "SF"
        PROVE  i = Len(toDev') /\ toDev'[i].m = Asked /\ ask.phase = "wait"
    <3>1. i + 1 = Len(toDev) /\ toDev[i + 1].m = Asked /\ ask.phase = "wait"
      BY <1>3, <2>1 DEF Exchange, Turn, OneRequest
    <3> QED
      BY <1>1, <1>3, <2>1, <3>1
  <2>2. ASSUME rx.on, Has(toDev', "CF")
        PROVE  /\ ask.phase = "wait" /\ rx'.buf[1].m = Asked
               /\ \A i \in DOMAIN toDev' : toDev'[i].t = "CF"
    <3>1. /\ ask.phase = "wait" /\ rx.buf[1].m = Asked
          /\ \A i \in DOMAIN toDev : toDev[i].t = "CF"
      BY <1>2, <2>2 DEF Exchange, Turn, OneRequest
    <3> QED
      BY <1>3, <2>2, <3>1
  <2> QED
    BY <2>1, <2>2 DEF OneRequest, Asked, Has
<1>7. Course'
  <2> SUFFICES ASSUME faults' < 2 PROVE Course'
    BY DEF Course
  <2>1. faults < 2 /\ faults \in Nat /\ (Fault => faults' # 0)
    BY TroubleCounts, IsoAssumption DEF Fault, Exchange, IsoInv, TypeOK
  <2>2. Caught' /\ Gotten'
    BY <2>1 DEF Exchange, Course, Caught, Place, Current, Gotten, Last
  <2>3. InStep'
    <3> SUFFICES ASSUME faults' = 0 PROVE InStep'
      BY DEF InStep
    <3>1. faults = 0 /\ (Head(toDev).t = "FC" => tx.phase = "idle")
      BY <2>1
    <3>2. InStep
      BY <2>1 DEF Exchange, Course
    <3>3. tx.phase # "idle" /\ Has(toDev, "FC") => Has(toDev', "FC")
      <4> SUFFICES ASSUME tx.phase # "idle", Has(toDev, "FC")
                   PROVE  Has(toDev', "FC")
        OBVIOUS
      <4>1. PICK i \in DOMAIN toDev : toDev[i].t = "FC"
        BY DEF Has
      <4>2. i # 1 /\ i \in 1..Len(toDev)
        BY <1>1, <3>1, <4>1
      <4>3. i - 1 \in 1..(Len(toDev) - 1) /\ (i - 1) + 1 = i
        BY <1>1, <4>2
      <4> QED
        BY <1>1, <4>1, <4>3 DEF Has
    <3>4. /\ half # <<>> =>
               /\ ask.phase = "wait" /\ Intact(half) /\ half[1].m = Current
               /\ toHost # <<>> => toHost[1] = Consec(Current, Len(half))
               /\ toHost = <<>> =>
                    \/ tx.phase = "send" /\ tx.next = Len(half)
                    \/ tx.phase = "cts" /\ Len(half) = 1 /\ Has(toDev', "FC")
      BY <3>1, <3>2, <3>3 DEF InStep
    <3>5. slot # None /\ tx.phase = "idle" => toHost = <<>> /\ ~Has(toDev', "FC")
      BY <1>2, <3>1, <3>2 DEF InStep
    <3>6. \A i \in DOMAIN toHost :
            /\ toHost[i].t = "FF" => /\ tx.phase = "cts" /\ ~Has(toDev', "FC")
                                     /\ i = 1 /\ Len(toHost) = 1
            /\ toHost[i].t = "CF" /\ i = Len(toHost) =>
                 toHost[i].n = Ans[ask.kind] \/ tx.phase = "send"
      BY <1>2, <3>1, <3>2 DEF InStep
    <3> QED
      BY <3>4, <3>5, <3>6 DEF InStep, Current, Intact, Has
  <2> QED
    BY <2>2, <2>3 DEF Course
<1> QED
  BY <1>4, <1>5, <1>6, <1>7 DEF Turn

LEMMA ConsecutiveFrameAnswer ==
  ASSUME Exchange, toDev # <<>>, toDev' = Tail(toDev),
         ConsecutiveFrame(Head(toDev)), UNCHANGED <<tool, tx>>
  PROVE  Turn' /\ Course'
<1> DEFINE f == Head(toDev)
           buf == Append(rx.buf, Piece(f))
           fits == rx.on /\ Expected(rx.buf, f)
<1>1. /\ toDev \in Seq(Frames) /\ f = toDev[1] /\ 1 \in DOMAIN toDev /\ f.t = "CF"
      /\ UNCHANGED <<tx, ask, half, got>>
  <2>1. toDev \in Seq(Frames) /\ f.t = "CF" /\ UNCHANGED <<tx, ask, half, got>>
    BY DEF ConsecutiveFrame, tool, Exchange, IsoInv, TypeOK
  <2> QED
    BY <2>1, TailFacts
<1>2. rx \in [on: BOOLEAN, buf: Seq(Pieces)] /\ rx.buf \in Seq(Pieces)
  <2>1. rx \in [on: BOOLEAN, buf: Seq(Pieces)]
    BY DEF Exchange, IsoInv, TypeOK
  <2> QED
    BY <2>1
<1>3. Has(toDev, "CF")
  BY <1>1 DEF Has
<1>4. rx.on => buf[1] = rx.buf[1]
  <2>1. rx.on => rx.buf # <<>>
    BY DEF Exchange, Assembly, Kept
  <2>2. /\ (rx.buf = <<>> <=> Len(rx.buf) = 0) /\ Len(rx.buf) \in Nat
        /\ \A i \in 1..Len(rx.buf) : buf[i] = rx.buf[i]
    BY <1>2, AppendFacts
  <2> HIDE DEF buf
  <2> QED
    BY <2>1, <2>2
<1>5. CASE fits /\ rx' = [on |-> FALSE, buf |-> buf] /\ Dispatch(buf)
  <2>1. /\ ask.phase = "wait" /\ rx.buf[1].m = Asked
        /\ \A i \in DOMAIN toDev : toDev[i].t = "CF"
    BY <1>3, <1>5 DEF Exchange, Turn, OneRequest
  <2>2. ~Answering
    BY <1>5, Answered
  <2>3. ~Has(toDev, "SF") /\ ~Has(toDev, "FC")
    BY <2>1 DEF Has
  <2>4. ~Has(toDev', "SF") /\ ~Has(toDev', "FC")
    BY <1>1, <2>3, HasTail
  <2>5. buf[1].m = Asked /\ ~rx'.on
    BY <1>4, <1>5, <2>1
  <2> HIDE DEF buf
  <2> QED
    BY <1>1, <1>5, <2>1, <2>2, <2>4, <2>5, DispatchAnswer
<1>6. CASE /\ rx' = IF fits THEN [rx EXCEPT !.buf = buf] ELSE rx
           /\ UNCHANGED <<toHost, slot, retries, served, heard, faults>>
  <2>1. rx'.on = rx.on /\ (rx.on => rx'.buf[1] = rx.buf[1])
    BY <1>2, <1>4, <1>6
  <2> QED
    BY <1>1, <1>6, <2>1, RequestGone
<1> QED
  BY <1>5, <1>6 DEF ConsecutiveFrame

LEMMA ReceiveAnswer ==
  ASSUME Exchange, toDev # <<>>, toDev' = Tail(toDev),
         Receive(Head(toDev)), UNCHANGED <<tool, tx>>
  PROVE  Turn' /\ Course'
BY SingleFrameAnswer, FirstFrameAnswer, ConsecutiveFrameAnswer DEF Receive

LEMMA RxHandlerAnswer ==
  ASSUME Exchange, RxHandler
  PROVE  Turn' /\ Course'
<1>1. /\ toDev # <<>> /\ toDev' = Tail(toDev) /\ UNCHANGED <<tool, tx>>
      /\ UNCHANGED <<ask, half, got>> /\ tx.phase = "idle"
  BY DEF RxHandler, tool
<1>2. CASE Receive(Head(toDev))
  BY <1>1, <1>2, ReceiveAnswer
<1>3. CASE UNCHANGED <<rx, fcPending, toHost, slot, retries, served, heard, faults>>
  BY <1>1, <1>3, RequestGone
<1> QED
  BY <1>2, <1>3 DEF RxHandler

(* Nothing is on the bus while the device waits for the flow control, or   *)
(* the first frame is the last of the frames there.                        *)
LEMMA Waiting ==
  ASSUME Exchange, tx.phase = "cts", toHost # <<>>
  PROVE  toHost[Len(toHost)].t = "FF" /\ Len(toHost) \in DOMAIN toHost
<1>1. Answering
  BY DEF Exchange, Turn, OneAnswer, Answering
<1>2. /\ toHost \in Seq(Frames) /\ Len(toHost) \in Nat \ {0}
      /\ DOMAIN toHost = 1..Len(toHost)
  <2>1. toHost \in Seq(Frames)
    BY DEF Exchange, IsoInv, TypeOK
  <2> QED
    BY <2>1, TailFacts
<1>3. Len(toHost) \in DOMAIN toHost /\ toHost[Len(toHost)] \in Frames
      /\ toHost[Len(toHost)].t # "FC"
  BY <1>1, <1>2, Answered
<1>4. toHost[Len(toHost)].t \in {"SF", "FF", "CF"}
  BY <1>3 DEF Frames
<1>5. toHost[Len(toHost)].t # "SF"
  BY <1>3 DEF Exchange, Turn, LastOut, OneAnswer
<1>6. ASSUME toHost[Len(toHost)].t = "CF" PROVE FALSE
  <2>1. EndsIn(toHost, tx.copy, tx.next - 1) /\ tx.next = 1
    BY DEF Exchange, IsoInv, LongInv, Turn, LastOut
  <2>2. \A l \in (Len(toHost) + 1)..Len(toHost) : toHost[l].t \notin Long
    BY <1>2
  <2>3. toHost[Len(toHost)].n = 0
    BY <1>3, <1>6, <2>1, <2>2 DEF EndsIn, Long
  <2>4. toHost[Len(toHost)].n \in 1..Ans[ask.kind]
    BY <1>3, <1>6 DEF Exchange, Turn, LastOut
  <2> QED
    BY <2>3, <2>4
<1> QED
  BY <1>3, <1>4, <1>5, <1>6

LEMMA WaitCtsAnswer ==
  ASSUME Exchange, WaitCts
  PROVE  Turn' /\ Course'
<1>1. /\ toDev # <<>> /\ toDev' = Tail(toDev) /\ UNCHANGED <<ask, half, got, tool>>
      /\ tx.phase = "cts"
  BY DEF WaitCts, tool
<1>2. CASE Receive(Head(toDev)) /\ UNCHANGED tx
  BY <1>1, <1>2, ReceiveAnswer
<1>3. CASE /\ Head(toDev).t = "FC"
           /\ tx' = [tx EXCEPT !.phase = "send"]
           /\ UNCHANGED <<rx, fcPending, toHost, slot, retries, served, heard,
                          faults>>
  <2>1. /\ slot # None /\ tx.copy = slot /\ Ans[ask.kind] > 0 /\ tx.next = 1
        /\ ask.kind \in Kinds
    BY <1>1 DEF Exchange, Turn, OneAnswer, LastOut, IsoInv, TypeOK
  <2>2. tx'.phase = "send" /\ tx'.copy = tx.copy /\ tx'.next = 1
    BY <1>3, <2>1 DEF Exchange, IsoInv, TypeOK
  <2>3. 1 \in 1..Ans[ask.kind]
    BY <2>1, IsoAssumption
  <2>4. Answering
    BY <2>1 DEF Answering
  <2>5. /\ toDev \in Seq(Frames) /\ Head(toDev) = toDev[1] /\ 1 \in DOMAIN toDev
        /\ DOMAIN toDev' = 1..(Len(toDev) - 1) /\ DOMAIN toDev = 1..Len(toDev)
        /\ \A i \in 1..(Len(toDev) - 1) : toDev'[i] = toDev[i + 1]
    <3>1. toDev \in Seq(Frames)
      BY DEF Exchange, IsoInv, TypeOK
    <3> QED
      BY <1>1, <3>1, TailFacts
  <2>6. \A t : Has(toDev', t) => Has(toDev, t)
    BY <1>1, <2>5, HasTail
  <2>7. Awaited'
    BY <1>1, <1>3, <2>4, <2>6 DEF Exchange, Turn, Awaited, Answering, Has
  <2>8. OneAnswer'
    BY <1>1, <1>3, <2>1, <2>2 DEF Exchange, Turn, OneAnswer, Current
  <2>9. OneRequest'
    <3>1. ~rx.on /\ \A i \in DOMAIN toDev : toDev[i].t # "SF"
      BY <2>4, Answered
    <3>2. \A i \in DOMAIN toDev' : toDev'[i].t # "SF"
      BY <2>6, <3>1 DEF Has
    <3> QED
      BY <1>3, <3>1, <3>2 DEF OneRequest
  <2>10. LastOut' /\ Unfinished'
    BY <1>1, <1>3, <2>2, <2>3 DEF Exchange, Turn, LastOut, Unfinished
  <2>11. Course'
    <3> SUFFICES ASSUME faults < 2 PROVE Course'
      BY <1>3 DEF Course
    <3>1. Caught'
      BY <1>1, <1>3, <2>2 DEF Exchange, Course, Caught, Place, Current
    <3>2. Gotten'
      BY <1>1 DEF Exchange, Course, Gotten, Last
    <3>3. InStep'
      <4> SUFFICES ASSUME faults = 0 PROVE InStep'
        BY <1>3 DEF InStep
      <4>1. InStep
        BY DEF Exchange, Course
      <4>2. toHost = <<>>
        <5>1. Has(toDev, "FC")
          BY <1>3, <2>5 DEF Has
        <5> QED
          BY <1>1, <4>1, <5>1, Waiting DEF InStep
      <4>3. half # <<>> => ask.phase = "wait" /\ Intact(half) /\ half[1].m = Current
                           /\ Len(half) = 1
        BY <1>1, <4>1, <4>2 DEF InStep
      <4>4. DOMAIN toHost = {}
        BY <4>2
      <4> QED
        BY <1>1, <1>3, <2>2, <4>2, <4>3, <4>4 DEF InStep, Intact, Current
    <3> QED
      BY <3>1, <3>2, <3>3 DEF Course
  <2> QED
    BY <2>7, <2>8, <2>9, <2>10, <2>11 DEF Turn
<1> QED
  BY <1>2, <1>3 DEF WaitCts

-----------------------------------------------------------------------------
(* The device sends.                                                       *)
LEMMA SendFailedAnswer ==
  ASSUME Exchange, SendFailed,
         UNCHANGED <<rx, served, ask, half, got, toDev, toHost>>,
         \/ Fault
         \/ /\ faults' = faults
            /\ faults = 0 => toHost = <<>> /\ half = <<>> /\ ~Has(toDev, "FC")
  PROVE  Turn' /\ Course'
<1>1. tx'.phase = "idle" /\ (slot' = slot \/ slot' = None)
  <2>1. tx \in Tx
    BY DEF Exchange, IsoInv, TypeOK, Tx
  <2> QED
    BY <2>1 DEF SendFailed, Tx
<1>2. Awaited'
  BY <1>1 DEF Exchange, Turn, Awaited, Answering, Has
<1>3. OneAnswer'
  BY <1>1 DEF Exchange, Turn, OneAnswer, Current
<1>4. OneRequest'
  BY DEF Exchange, Turn, OneRequest, Asked, Has
<1>5. LastOut' /\ Unfinished'
  BY <1>1 DEF Exchange, Turn, LastOut, Unfinished
<1>6. Course'
  <2> SUFFICES ASSUME faults' < 2 PROVE Course'
    BY DEF Course
  <2>1. faults < 2 /\ faults \in Nat /\ (Fault => faults' # 0)
    BY TroubleCounts, IsoAssumption DEF Fault, Exchange, IsoInv, TypeOK
  <2>2. Caught' /\ Gotten'
    BY <1>1, <2>1 DEF Exchange, Course, Caught, Place, Current, Gotten, Last
  <2>3. InStep'
    <3> SUFFICES ASSUME faults' = 0 PROVE InStep'
      BY DEF InStep
    <3>1. toHost = <<>> /\ half = <<>> /\ ~Has(toDev, "FC")
      BY <2>1
    <3>2. DOMAIN toHost = {}
      BY <3>1
    <3> QED
      BY <1>1, <3>1, <3>2 DEF InStep, Has
  <2> QED
    BY <2>2, <2>3 DEF Course
<1> QED
  BY <1>2, <1>3, <1>4, <1>5, <1>6 DEF Turn

LEMMA CtsTimeoutAnswer ==
  ASSUME Exchange, CtsTimeout
  PROVE  Turn' /\ Course'
<1>1. /\ UNCHANGED <<rx, served, ask, half, got, toDev, toHost, faults>>
      /\ SendFailed /\ tx.phase = "cts" /\ ~Has(toDev, "FC")
      /\ ~(ask.phase = "wait" /\ Has(toHost, "FF"))
  BY DEF CtsTimeout, tool
<1>2. Answering
  BY <1>1 DEF Exchange, Turn, OneAnswer, Answering
<1>3. toHost = <<>>
  BY <1>1, <1>2, Answered, Waiting DEF Has
<1>4. faults = 0 => half = <<>>
  BY <1>1, <1>3 DEF Exchange, Course, InStep
<1> QED
  BY <1>1, <1>3, <1>4, SendFailedAnswer

(* The slot holds the answer to the request the tool waits for.            *)
LEMMA FlushAnswer ==
  ASSUME Exchange, Flush
  PROVE  Turn' /\ Course'
<1>1. /\ UNCHANGED <<rx, served, ask, half, got, toDev>>
      /\ slot # None /\ tx.phase = "idle" /\ toHost \in Seq(Frames)
      /\ ask.phase = "wait" /\ served > 0 /\ ~rx.on /\ ~Has(toDev, "SF")
      /\ slot = Current /\ slot.kind = ask.kind
  <2>1. Answering
    BY DEF Flush, Answering
  <2> QED
    BY <2>1 DEF Flush, tool, Exchange, Turn, Awaited, OneAnswer, Current,
                IsoInv, TypeOK
<1>2. Awaited'
  BY <1>1 DEF Awaited, Has
<1>3. OneRequest' /\ Unfinished'
  BY <1>1 DEF Exchange, Turn, OneRequest, Unfinished, Asked, Has
<1>4. faults = 0 => toHost = <<>> /\ ~Has(toDev, "FC") /\ half = <<>>
  <2> SUFFICES ASSUME faults = 0
               PROVE  toHost = <<>> /\ ~Has(toDev, "FC") /\ half = <<>>
    OBVIOUS
  <2>1. InStep
    BY DEF Exchange, Course
  <2> QED
    BY <1>1, <2>1 DEF InStep
<1>5. faults' < 2 => faults < 2
  BY TroubleCounts DEF Flush, Fault, Exchange, IsoInv, TypeOK
<1>6. faults' < 2 => Gotten'
  BY <1>1, <1>5 DEF Exchange, Course, Gotten, Last
<1>7. \A i \in DOMAIN toHost : toHost[i].t # "FC" /\ toHost[i].m = Current
  <2>1. Answering
    BY <1>1 DEF Answering
  <2> QED
    BY <2>1, Answered
<1>8. Current' = Current
  BY <1>1 DEF Current
<1>9. CASE /\ Ans[slot.kind] = 0
           /\ toHost' = Append(toHost, Single(slot))
           /\ slot' = None
           /\ UNCHANGED <<tx, faults>>
  <2>1. toHost = <<>>
    <3> SUFFICES ASSUME toHost # <<>> PROVE FALSE
      OBVIOUS
    <3>1. toHost[1] \in Frames /\ 1 \in DOMAIN toHost
      BY <1>1, TailFacts
    <3>2. toHost[1].t \in {"SF", "FF", "CF"}
      BY <1>7, <3>1 DEF Frames
    <3>3. /\ toHost[1].t = "SF" => slot = None
          /\ toHost[1].t = "FF" => Ans[ask.kind] > 0
          /\ toHost[1].t = "CF" => toHost[1].n \in 1..Ans[ask.kind]
      BY <3>1 DEF Exchange, Turn, LastOut
    <3> QED
      BY <1>1, <1>9, <3>2, <3>3
  <2>2. toHost' = <<Single(slot)>>
    BY <1>9, <2>1
  <2>3. /\ DOMAIN toHost' = {1} /\ toHost'[1] = Single(slot) /\ Len(toHost') = 1
        /\ toHost' # <<>>
    BY <2>2
  <2>4. Single(slot).t = "SF" /\ Single(slot).m = slot
    BY DEF Single
  <2>5. OneAnswer' /\ LastOut'
    BY <1>1, <1>8, <1>9, <2>3, <2>4 DEF OneAnswer, LastOut
  <2>6. Caught'
    BY <2>3, <2>4 DEF Caught
  <2>7. faults' < 2 => InStep'
    BY <1>4, <1>9, <2>3, <2>4, <1>1 DEF InStep
  <2> QED
    BY <1>2, <1>3, <1>6, <2>5, <2>6, <2>7 DEF Turn, Course
<1>10. CASE /\ Ans[slot.kind] > 0
            /\ toHost' = Append(toHost, First(slot))
            /\ tx' = [phase |-> "cts", copy |-> slot, next |-> 1]
            /\ UNCHANGED <<slot, retries, faults>>
  <2>1. /\ First(slot).t = "FF" /\ First(slot).m = slot /\ First(slot).n = 0
        /\ tx'.phase = "cts" /\ tx'.copy = slot /\ tx'.next = 1
    BY <1>10, FrameFields
  <2>2. /\ DOMAIN toHost' = 1..(Len(toHost) + 1) /\ DOMAIN toHost = 1..Len(toHost)
        /\ Len(toHost') = Len(toHost) + 1 /\ Len(toHost) \in Nat
        /\ \A i \in 1..Len(toHost) : toHost'[i] = toHost[i]
        /\ toHost'[Len(toHost) + 1] = First(slot)
        /\ toHost' # <<>> /\ (toHost = <<>> <=> Len(toHost) = 0)
    BY <1>1, <1>10, AppendFacts
  <2>3. \A i \in DOMAIN toHost' : i \in 1..Len(toHost) \/ i = Len(toHost) + 1
    BY <2>2
  <2>4. OneAnswer'
    BY <1>1, <1>7, <1>8, <1>10, <2>1, <2>2, <2>3 DEF OneAnswer
  <2>5. LastOut'
    <3>1. ASSUME NEW i \in DOMAIN toHost'
          PROVE  /\ toHost'[i].t = "SF" => Len(toHost') = 1 /\ slot' = None
                 /\ toHost'[i].t = "FF" => toHost'[i].n = 0 /\ Ans[ask.kind] > 0
                 /\ toHost'[i].t = "CF" =>
                      /\ toHost'[i].n \in 1..Ans[ask.kind]
                      /\ toHost'[i].n = Ans[ask.kind] =>
                           i = Len(toHost') /\ slot' = None
      <4>1. CASE i \in 1..Len(toHost)
        <5>1. /\ toHost[i].t = "SF" => slot = None
              /\ toHost[i].t = "FF" => toHost[i].n = 0 /\ Ans[ask.kind] > 0
              /\ toHost[i].t = "CF" =>
                   /\ toHost[i].n \in 1..Ans[ask.kind]
                   /\ toHost[i].n = Ans[ask.kind] => slot = None
          BY <2>2, <4>1 DEF Exchange, Turn, LastOut
        <5> QED
          BY <1>1, <2>2, <4>1, <5>1
      <4>2. CASE i = Len(toHost) + 1
        BY <1>1, <1>10, <2>1, <2>2, <4>2
      <4> QED
        BY <2>3, <4>1, <4>2
    <3> QED
      BY <1>1, <2>1, <3>1 DEF LastOut
  <2>6. faults' < 2 => Caught'
    <3>1. toHost # <<>> => toHost'[1] = toHost[1]
      BY <2>2
    <3>2. toHost = <<>> => toHost'[1] = First(slot)
      BY <2>2
    <3>3. faults < 2 /\ toHost # <<>> /\ toHost[1].t = "CF" => Place(toHost[1].n)
      BY DEF Exchange, Course, Caught
    <3> QED
      BY <1>1, <1>8, <1>10, <2>1, <2>2, <3>1, <3>2, <3>3 DEF Caught, Place
  <2>7. InStep'
    <3> SUFFICES ASSUME faults' = 0 PROVE InStep'
      BY DEF InStep
    <3>1. toHost = <<>> /\ ~Has(toDev, "FC") /\ half = <<>>
      BY <1>4, <1>10
    <3>2. DOMAIN toHost' = {1} /\ Len(toHost') = 1 /\ toHost'[1] = First(slot)
      BY <2>2, <3>1
    <3> QED
      BY <1>1, <2>1, <3>1, <3>2 DEF InStep, Has
  <2> QED
    BY <1>2, <1>3, <1>6, <2>4, <2>5, <2>6, <2>7 DEF Turn, Course
<1>11. CASE Fault /\ SendFailed /\ UNCHANGED toHost
  BY <1>1, <1>11, SendFailedAnswer
<1> QED
  BY <1>9, <1>10, <1>11 DEF Flush

LEMMA SendConsecutiveAnswer ==
  ASSUME Exchange, SendConsecutive
  PROVE  Turn' /\ Course'
<1> DEFINE c == Consec(tx.copy, tx.next)
<1>1. /\ UNCHANGED <<rx, served, ask, half, got, toDev>>
      /\ tx.phase = "send" /\ toHost \in Seq(Frames) /\ slot # None
      /\ tx.copy = slot /\ tx.next \in 1..Ans[ask.kind] /\ Ans[ask.kind] \in Nat
      /\ ask.phase = "wait" /\ served > 0 /\ ~rx.on /\ ~Has(toDev, "SF")
      /\ slot = Current /\ slot.kind = ask.kind /\ slot.v = served
  <2>1. tx.phase = "send" /\ slot # None
    BY DEF SendConsecutive, Exchange, Turn, OneAnswer
  <2>2. Answering
    BY <2>1 DEF Answering
  <2>3. ask.kind \in Kinds
    BY DEF Exchange, IsoInv, TypeOK
  <2> QED
    BY <2>1, <2>2, <2>3, IsoAssumption
       DEF SendConsecutive, tool, Exchange, Turn, Awaited, OneAnswer, LastOut,
           Current, IsoInv, TypeOK
<1>2. CASE Fault /\ SendFailed /\ UNCHANGED toHost
  BY <1>1, <1>2, SendFailedAnswer
<1>3. CASE /\ toHost' = Append(toHost, c)
           /\ IF tx.next < Cfs(tx.copy)
                THEN /\ tx' = [tx EXCEPT !.next = @ + 1]
                     /\ UNCHANGED <<slot, retries>>
                ELSE /\ tx' = [tx EXCEPT !.phase = "idle"]
                     /\ slot' = None /\ retries' = 0
           /\ UNCHANGED faults
  <2>1. c.t = "CF" /\ c.m = Current /\ c.n = tx.next
    BY <1>1, FrameFields
  <2>2. /\ DOMAIN toHost' = 1..(Len(toHost) + 1) /\ DOMAIN toHost = 1..Len(toHost)
        /\ Len(toHost') = Len(toHost) + 1 /\ Len(toHost) \in Nat
        /\ \A i \in 1..Len(toHost) : toHost'[i] = toHost[i]
        /\ toHost'[Len(toHost) + 1] = c
        /\ toHost' # <<>> /\ (toHost = <<>> <=> Len(toHost) = 0)
    <3> HIDE DEF c
    <3> QED
      BY <1>1, <1>3, AppendFacts
  <2>3. \A i \in DOMAIN toHost' : i \in 1..Len(toHost) \/ i = Len(toHost) + 1
    BY <2>2
  <2>4. Cfs(tx.copy) = Ans[ask.kind]
    BY <1>1 DEF Cfs
  <2>5. \/ /\ tx.next < Ans[ask.kind] /\ slot' = slot
           /\ tx'.phase = "send" /\ tx'.copy = slot /\ tx'.next = tx.next + 1
        \/ /\ tx.next = Ans[ask.kind] /\ slot' = None /\ tx'.phase = "idle"
    <3>1. tx \in Tx
      BY DEF Exchange, IsoInv, TypeOK, Tx
    <3>2. tx.next < Ans[ask.kind] \/ tx.next = Ans[ask.kind]
      BY <1>1
    <3>3. CASE tx.next < Ans[ask.kind]
      BY <1>1, <1>3, <2>4, <3>1, <3>3 DEF Tx
    <3>4. CASE tx.next = Ans[ask.kind]
      BY <1>1, <1>3, <2>4, <3>1, <3>4 DEF Tx
    <3> QED
      BY <3>2, <3>3, <3>4
  <2> HIDE DEF c
  <2>6. c = Consec(Current, tx.next)
    BY <1>1 DEF c
  <2>7. \A i \in DOMAIN toHost : toHost[i].t # "FC" /\ toHost[i].m = Current
    <3>1. Answering
      BY <1>1 DEF Answering
    <3> QED
      BY <3>1, Answered
  <2>8. Current' = Current
    BY <1>1 DEF Current
  <2>9. Awaited'
    BY <1>1 DEF Awaited, Has
  <2>10. OneRequest' /\ Unfinished'
    BY <1>1 DEF Exchange, Turn, OneRequest, Unfinished, Asked, Has
  <2>11. OneAnswer'
    BY <1>1, <2>1, <2>2, <2>3, <2>5, <2>7, <2>8 DEF OneAnswer
  <2>12. LastOut'
    <3>1. ASSUME NEW i \in DOMAIN toHost'
          PROVE  /\ toHost'[i].t = "SF" => Len(toHost') = 1 /\ slot' = None
                 /\ toHost'[i].t = "FF" => toHost'[i].n = 0 /\ Ans[ask.kind] > 0
                 /\ toHost'[i].t = "CF" =>
                      /\ toHost'[i].n \in 1..Ans[ask.kind]
                      /\ toHost'[i].n = Ans[ask.kind] =>
                           i = Len(toHost') /\ slot' = None
      <4>1. CASE i \in 1..Len(toHost)
        <5>1. /\ toHost[i].t = "SF" => slot = None
              /\ toHost[i].t = "FF" => toHost[i].n = 0 /\ Ans[ask.kind] > 0
              /\ toHost[i].t = "CF" =>
                   /\ toHost[i].n \in 1..Ans[ask.kind]
                   /\ toHost[i].n = Ans[ask.kind] => slot = None
          BY <2>2, <4>1 DEF Exchange, Turn, LastOut
        <5> QED
          BY <1>1, <2>2, <4>1, <5>1
      <4>2. CASE i = Len(toHost) + 1
        BY <1>1, <2>1, <2>2, <2>5, <4>2
      <4> QED
        BY <2>3, <4>1, <4>2
    <3>2. tx'.phase = "send" => tx'.next \in 1..Ans[ask.kind]
      BY <1>1, <2>5
    <3> QED
      BY <1>1, <2>5, <3>1, <3>2 DEF LastOut
  <2>13. faults < 2 => Caught'
    <3>1. toHost # <<>> => toHost'[1] = toHost[1]
      BY <2>2
    <3>2. toHost = <<>> => toHost'[1] = c
      BY <2>2
    <3>3. /\ faults < 2 /\ toHost # <<>> /\ toHost[1].t = "CF" => Place(toHost[1].n)
          /\ faults < 2 /\ toHost = <<>> => Place(tx.next)
      BY <1>1 DEF Exchange, Course, Caught
    <3> QED
      BY <1>1, <2>1, <2>2, <2>8, <3>1, <3>2, <3>3 DEF Caught, Place
  <2>14. faults = 0 => InStep'
    <3> SUFFICES ASSUME faults = 0 PROVE InStep'
      OBVIOUS
    <3>1. InStep
      BY DEF Exchange, Course
    <3>2. half # <<>> =>
            /\ ask.phase = "wait" /\ Intact(half) /\ half[1].m = Current
            /\ toHost'[1] = Consec(Current, Len(half))
      BY <1>1, <2>2, <2>6, <3>1 DEF InStep
    <3>3. ~(slot' # None /\ tx'.phase = "idle")
      BY <2>5
    <3>4. \A i \in DOMAIN toHost' :
            /\ toHost'[i].t # "FF"
            /\ toHost'[i].t = "CF" /\ i = Len(toHost') =>
                 toHost'[i].n = Ans[ask.kind] \/ tx'.phase = "send"
      <4>1. \A i \in 1..Len(toHost) : toHost'[i].t # "FF"
        BY <1>1, <2>2, <3>1 DEF InStep
      <4> QED
        BY <2>1, <2>2, <2>3, <2>5, <4>1
    <3> QED
      BY <1>1, <2>2, <2>8, <3>2, <3>3, <3>4 DEF InStep, Intact
  <2>15. faults < 2 => Gotten'
    BY <1>1 DEF Exchange, Course, Gotten, Last
  <2>16. faults' = faults
    BY <1>3
  <2> QED
    BY <2>9, <2>10, <2>11, <2>12, <2>13, <2>14, <2>15, <2>16 DEF Turn, Course, InStep
<1> QED
  BY <1>2, <1>3 DEF SendConsecutive

-----------------------------------------------------------------------------
(* A frame of the answer leaves the bus.                                   *)
LEMMA HostTail ==
  ASSUME Exchange, toHost # <<>>, toHost' = Tail(toHost)
  PROVE  /\ toHost \in Seq(Frames) /\ Len(toHost) \in Nat \ {0}
         /\ Head(toHost) = toHost[1] /\ toHost[1] \in Frames /\ 1 \in DOMAIN toHost
         /\ Len(toHost') = Len(toHost) - 1 /\ toHost' \in Seq(Frames)
         /\ DOMAIN toHost' = 1..(Len(toHost) - 1) /\ DOMAIN toHost = 1..Len(toHost)
         /\ \A i \in 1..(Len(toHost) - 1) : toHost'[i] = toHost[i + 1]
         /\ \A i \in DOMAIN toHost' : i + 1 \in DOMAIN toHost
         /\ (toHost' = <<>> <=> Len(toHost) = 1)
<1>1. toHost \in Seq(Frames)
  BY DEF Exchange, IsoInv, TypeOK
<1>2. /\ toHost \in Seq(Frames) /\ Len(toHost) \in Nat \ {0}
      /\ Head(toHost) = toHost[1] /\ toHost[1] \in Frames
      /\ Len(toHost') = Len(toHost) - 1 /\ toHost' \in Seq(Frames)
      /\ DOMAIN toHost' = 1..(Len(toHost) - 1) /\ DOMAIN toHost = 1..Len(toHost)
      /\ \A i \in 1..(Len(toHost) - 1) : toHost'[i] = toHost[i + 1]
      /\ (toHost' = <<>> <=> Len(toHost) = 1)
  BY <1>1, TailFacts
<1>3. 1 \in DOMAIN toHost /\ \A i \in DOMAIN toHost' : i + 1 \in DOMAIN toHost
  BY <1>2
<1> QED
  BY <1>2, <1>3

LEMMA FrontRead ==
  ASSUME Exchange, toHost # <<>>, toHost' = Tail(toHost),
         UNCHANGED <<rx, slot, tx, served, ask>>,
         Has(toDev', "SF") => Has(toDev, "SF"), OneRequest', Unfinished'
  PROVE  Turn'
<1>1. /\ Len(toHost) \in Nat \ {0} /\ Len(toHost') = Len(toHost) - 1
      /\ DOMAIN toHost' = 1..(Len(toHost) - 1) /\ DOMAIN toHost = 1..Len(toHost)
      /\ \A i \in DOMAIN toHost' : i + 1 \in DOMAIN toHost /\ toHost'[i] = toHost[i + 1]
  BY HostTail
<1>2. Awaited'
  BY <1>1 DEF Exchange, Turn, Awaited, Answering, Has
<1>3. OneAnswer'
  BY <1>1 DEF Exchange, Turn, OneAnswer, Current
<1>4. LastOut'
  <2>1. ASSUME NEW i \in DOMAIN toHost'
        PROVE  /\ toHost'[i].t = "SF" => Len(toHost') = 1 /\ slot' = None
               /\ toHost'[i].t = "FF" => toHost'[i].n = 0 /\ Ans[ask.kind] > 0
               /\ toHost'[i].t = "CF" =>
                    /\ toHost'[i].n \in 1..Ans[ask.kind]
                    /\ toHost'[i].n = Ans[ask.kind] =>
                         i = Len(toHost') /\ slot' = None
    <3>1. i + 1 \in DOMAIN toHost /\ toHost'[i] = toHost[i + 1] /\ i \in 1..(Len(toHost) - 1)
      BY <1>1
    <3>2. /\ toHost[i + 1].t = "SF" => Len(toHost) = 1
          /\ toHost[i + 1].t = "FF" => toHost[i + 1].n = 0 /\ Ans[ask.kind] > 0
          /\ toHost[i + 1].t = "CF" =>
               /\ toHost[i + 1].n \in 1..Ans[ask.kind]
               /\ toHost[i + 1].n = Ans[ask.kind] =>
                    i + 1 = Len(toHost) /\ slot = None
      BY <3>1 DEF Exchange, Turn, LastOut
    <3>3. Len(toHost) # 1 /\ (i + 1 = Len(toHost) => i = Len(toHost'))
      BY <1>1, <3>1
    <3> QED
      BY <3>1, <3>2, <3>3
  <2> QED
    BY <2>1 DEF Exchange, Turn, LastOut
<1> QED
  BY <1>2, <1>3, <1>4 DEF Turn

(* What comes after frame n of a long answer, on the bus or in the device. *)
LEMMA AfterFront ==
  ASSUME Exchange, toHost # <<>>, toHost' = Tail(toHost), toHost[1].t \in Long,
         UNCHANGED tx, NEW n, n = toHost[1].n
  PROVE  /\ toHost' # <<>> /\ toHost'[1].t = "CF" => toHost'[1].n = n + 1
         /\ toHost' = <<>> /\ tx.phase # "idle" => tx.next = n + 1
         /\ Place(n + 1)' => Caught'
<1>1. /\ toHost[1] \in Frames /\ Len(toHost) \in Nat \ {0}
      /\ DOMAIN toHost = 1..Len(toHost) /\ (toHost' = <<>> <=> Len(toHost) = 1)
      /\ \A i \in 1..(Len(toHost) - 1) : toHost'[i] = toHost[i + 1]
  BY HostTail
<1>2. ASSUME toHost' # <<>>, toHost'[1].t = "CF" PROVE toHost'[1].n = n + 1
  <2>1. 1 \in 1..(Len(toHost) - 1) /\ 2 \in DOMAIN toHost /\ 1 \in DOMAIN toHost
        /\ toHost'[1] = toHost[2]
    BY <1>1, <1>2
  <2>2. \A l \in (1 + 1)..(2 - 1) : toHost[l].t \notin Long
    OBVIOUS
  <2> QED
    BY <1>2, <2>1, <2>2 DEF Chained, Exchange, IsoInv, LongInv
<1>3. ASSUME toHost' = <<>>, tx.phase # "idle" PROVE tx.next = n + 1
  <2>1. Len(toHost) = 1 /\ 1 \in DOMAIN toHost
    BY <1>1, <1>3
  <2>2. \A l \in (1 + 1)..Len(toHost) : toHost[l].t \notin Long
    BY <2>1
  <2>3. EndsIn(toHost, tx.copy, tx.next - 1) /\ tx.next \in Nat
    BY <1>3 DEF Exchange, IsoInv, LongInv, TypeOK
  <2>4. n = tx.next - 1
    BY <2>1, <2>2, <2>3 DEF EndsIn
  <2> QED
    BY <2>3, <2>4
<1>4. ASSUME Place(n + 1)' PROVE Caught'
  BY <1>2, <1>3, <1>4 DEF Caught, Place
<1> QED
  BY <1>2, <1>3, <1>4

LEMMA LoseAnswer ==
  ASSUME Exchange, Lose
  PROVE  Turn' /\ Course'
<1>1. /\ UNCHANGED <<rx, slot, tx, served, ask, half, got>> /\ Fault
      /\ (faults' < 2 => faults = 0) /\ (faults' = 0 => FALSE)
  <2>1. UNCHANGED <<rx, slot, tx, served, ask, half, got>> /\ Fault
    BY DEF Lose, device, tool
  <2>2. faults \in Nat
    BY IsoAssumption DEF Exchange, IsoInv, TypeOK
  <2> QED
    BY <2>1, <2>2 DEF Fault
<1>2. CASE toDev # <<>> /\ toDev' = Tail(toDev) /\ UNCHANGED toHost
  BY <1>1, <1>2, RequestGone
<1>3. CASE toHost # <<>> /\ toHost' = Tail(toHost) /\ UNCHANGED toDev
  <2>1. /\ toHost \in Seq(Frames) /\ toHost[1] \in Frames /\ 1 \in DOMAIN toHost
        /\ toHost' \in Seq(Frames) /\ (toHost' = <<>> <=> Len(toHost) = 1)
        /\ \A i \in DOMAIN toHost' : i + 1 \in DOMAIN toHost /\ toHost'[i] = toHost[i + 1]
    BY <1>3, HostTail
  <2>2. OneRequest' /\ Unfinished'
    BY <1>1, <1>3 DEF Exchange, Turn, OneRequest, Unfinished, Asked, Has
  <2>3. CASE ~Answering
    <3>1. \A i \in DOMAIN toHost' : toHost'[i].t = "FC"
      BY <2>1, <2>3, Silent
    <3> QED
      BY <1>1, <2>1, <2>2, <2>3, <3>1, SilentStep
  <2>4. CASE Answering
    <3>1. Turn'
      BY <1>1, <1>3, <2>2, FrontRead DEF Has
    <3>2. faults' < 2 => Gotten' /\ InStep'
      BY <1>1 DEF Exchange, Course, Gotten, Last, InStep
    <3>3. faults' < 2 => Caught'
      <4> SUFFICES ASSUME faults' < 2 PROVE Caught'
        OBVIOUS
      <4>1. InStep
        BY <1>1 DEF Exchange, Course
      <4>2. toHost[1].t \in {"SF", "FF", "CF"} /\ toHost[1].n \in Nat
        BY <2>1, <2>4, Answered DEF Frames
      <4>3. CASE toHost[1].t = "SF"
        <5>1. Len(toHost) = 1 /\ slot = None /\ tx.phase = "idle"
          BY <2>1, <4>3 DEF Exchange, Turn, LastOut, OneAnswer
        <5> QED
          BY <1>1, <2>1, <5>1 DEF Caught
      <4>4. CASE toHost[1].t # "SF"
        <5>1. toHost[1].t \in Long
          BY <4>2, <4>4 DEF Long
        <5>2. PICK n : n = toHost[1].n
          OBVIOUS
        <5>3. half # <<>> => Len(half) = n
          <6>1. half # <<>> => toHost[1] = Consec(Current, Len(half))
            BY <1>1, <1>3, <4>1 DEF InStep
          <6> QED
            BY <5>2, <6>1, FrameFields
        <5>4. n \in Nat /\ (half # <<>> => Len(half) < n + 1)
          BY <4>2, <5>2, <5>3
        <5>5. Place(n + 1)'
          BY <1>1, <5>4 DEF Place
        <5> QED
          BY <1>1, <1>3, <5>1, <5>2, <5>5, AfterFront
      <4> QED
        BY <4>3, <4>4
    <3> QED
      BY <3>1, <3>2, <3>3 DEF Course
  <2> QED
    BY <2>3, <2>4
<1> QED
  BY <1>2, <1>3 DEF Lose

-----------------------------------------------------------------------------
(* The tool reads the answer.                                              *)

(* Numbers that are no larger than the modulus differ as their residues.   *)
LEMMA NearNumbers ==
  ASSUME NEW M \in Nat, M > 1, NEW j \in 1..M, NEW k \in 1..M,
         j % M = k % M
  PROVE  j = k
<1>1. \A i \in 1..M : i < M => i % M = i
  OBVIOUS
<1>2. M % M = 0
  OBVIOUS
<1> QED
  BY <1>1, <1>2

(* A frame fits as the piece that comes next, or as the first one when the *)
(* body starts again.                                                      *)
LEMMA BodyFits ==
  ASSUME ShortAnswers, half \in Seq(Pieces), half # <<>>,
         half[1].m \in Messages, Len(half) <= Ans[half[1].m.kind],
         NEW f, f.n \in 1..SnMod
  PROVE  /\ Body(f) \in Seq(Pieces) /\ Body(f) # <<>> /\ Body(f)[1] = half[1]
         /\ Expected(Body(f), f) =>
              /\ Len(Body(f)) = f.n
              /\ Body(f) = half \/ f.n = 1
         /\ ~Expected(Body(f), f) => f.n > 1 /\ Len(half) # f.n
<1>1. SnMod \in Nat /\ SnMod > 1
  BY IsoAssumption
<1>2. /\ Len(half) \in 1..SnMod /\ half[1] \in Pieces /\ 1 \in 1..SnMod
      /\ Len(half) \in Nat
  <2>1. Ans[half[1].m.kind] <= SnMod /\ Ans[half[1].m.kind] \in Nat
    BY IsoAssumption DEF ShortAnswers, Messages
  <2>2. Len(half) \in Nat \ {0} /\ half[1] \in Pieces
    OBVIOUS
  <2> QED
    BY <1>1, <2>1, <2>2
<1>3. Expected(half, f) => f.n = Len(half)
  BY <1>1, <1>2, NearNumbers DEF Expected
<1>4. f.n % SnMod = 1 => f.n = 1
  <2>1. 1 % SnMod = 1
    BY <1>1
  <2> QED
    BY <1>1, <1>2, <2>1, NearNumbers
<1>5. <<half[1]>> \in Seq(Pieces) /\ <<half[1]>> # <<>> /\ <<half[1]>>[1] = half[1]
      /\ Len(<<half[1]>>) = 1
  BY <1>2
<1>6. CASE f.n % SnMod = 1 /\ ~Expected(half, f)
  <2>1. Body(f) = <<half[1]>>
    BY <1>6 DEF Body
  <2>2. Expected(Body(f), f)
    <3>1. 1 % SnMod = 1
      BY <1>1
    <3> QED
      BY <1>5, <1>6, <2>1, <3>1 DEF Expected
  <2> QED
    BY <1>4, <1>5, <1>6, <2>1, <2>2
<1>7. CASE ~(f.n % SnMod = 1 /\ ~Expected(half, f))
  <2>1. Body(f) = half
    BY <1>7 DEF Body
  <2>2. Expected(half, f) => Len(half) = f.n
    BY <1>3
  <2>3. ASSUME ~Expected(half, f) PROVE f.n > 1 /\ Len(half) # f.n
    <3>1. f.n # 1
      <4>1. 1 % SnMod = 1
        BY <1>1
      <4> QED
        BY <1>7, <2>3, <4>1
    <3>2. Len(half) # f.n
      BY <2>3 DEF Expected
    <3> QED
      BY <1>1, <3>1, <3>2
  <2> QED
    BY <2>1, <2>2, <2>3
<1> QED
  BY <1>6, <1>7

(* What the frame that is read belongs to.                                 *)
LEMMA ReadFacts ==
  ASSUME Exchange, ShortAnswers, ask.phase = "wait",
         toHost # <<>>, toHost' = Tail(toHost)
  PROVE  /\ Answering /\ ~rx.on /\ ~Has(toDev, "SF") /\ served > 0
         /\ Head(toHost) = toHost[1] /\ toHost[1].m = Current
         /\ Current.kind = ask.kind /\ Current.re = ask.re
         /\ Current.v = served /\ Current \in Messages
         /\ toHost[1].t = "SF" => toHost' = <<>> /\ slot = None
         /\ toHost[1].t = "FF" => toHost[1].n = 0 /\ Ans[ask.kind] > 0
         /\ toHost[1].t = "CF" =>
              /\ toHost[1].n \in 1..Ans[ask.kind] /\ toHost[1].n \in 1..SnMod
              /\ toHost[1].n = Ans[ask.kind] => toHost' = <<>> /\ slot = None
         /\ toHost[1].t \in {"SF", "FF", "CF"} /\ Ans[ask.kind] \in Nat
<1>1. /\ Len(toHost) \in Nat \ {0} /\ Head(toHost) = toHost[1]
      /\ toHost[1] \in Frames /\ 1 \in DOMAIN toHost
      /\ (toHost' = <<>> <=> Len(toHost) = 1)
  BY HostTail
<1>2. ~Has(toHost, "FC")
  BY DEF Exchange, Assembly, Token
<1>3. toHost[1].t # "FC" /\ Answering
  BY <1>1, <1>2 DEF Has, Answering
<1>4. ~rx.on /\ ~Has(toDev, "SF") /\ served > 0 /\ toHost[1].m = Current
  BY <1>1, <1>3, Answered DEF Exchange, Turn, Awaited
<1>5. /\ Current.kind = ask.kind /\ Current.re = ask.re /\ Current.v = served
      /\ Current \in Messages /\ ask.kind \in Kinds
  BY DEF Current, Messages, Exchange, IsoInv, TypeOK
<1>6. Ans[ask.kind] \in Nat /\ Ans[ask.kind] <= SnMod /\ SnMod \in Nat
  BY <1>5, IsoAssumption DEF ShortAnswers
<1>7. /\ toHost[1].t = "SF" => Len(toHost) = 1 /\ slot = None
      /\ toHost[1].t = "FF" => toHost[1].n = 0 /\ Ans[ask.kind] > 0
      /\ toHost[1].t = "CF" =>
           /\ toHost[1].n \in 1..Ans[ask.kind]
           /\ toHost[1].n = Ans[ask.kind] => 1 = Len(toHost) /\ slot = None
  BY <1>1 DEF Exchange, Turn, LastOut
<1>8. toHost[1].t \in {"SF", "FF", "CF"}
  BY <1>1, <1>3 DEF Frames
<1> QED
  BY <1>1, <1>3, <1>4, <1>5, <1>6, <1>7, <1>8

(* The answer is complete and the tool waits no more.                      *)
LEMMA AnswerAccepted ==
  ASSUME Exchange, ShortAnswers, ask.phase = "wait",
         toHost # <<>>, toHost' = <<>>, toHost' = Tail(toHost), slot = None,
         UNCHANGED <<device, faults, toDev>>,
         ask' = [ask EXCEPT !.phase = "idle"],
         half' = half \/ half' = <<>>, faults = 0 => half' = <<>>,
         faults < 2 => Last(got').m = Current
                       /\ \A i \in 2..Len(got') : got'[i] = [m |-> Current, n |-> i - 1]
  PROVE  Turn' /\ Course'
<1>1. slot' = None /\ tx'.phase = "idle" /\ rx' = rx /\ faults' = faults
  BY DEF device, Exchange, Turn, OneAnswer
<1>2. ~rx.on /\ ~Has(toDev, "SF") /\ Current.re = ask.re
  BY ReadFacts
<1>3. OneRequest'
  BY <1>1, <1>2 DEF OneRequest, Has
<1>4. Unfinished'
  BY DEF Exchange, Turn, Unfinished
<1>5. ask'.re = ask.re
  BY DEF Exchange, IsoInv, TypeOK
<1>6. faults' < 2 => Gotten'
  BY <1>1, <1>2, <1>5 DEF Gotten, Last
<1>7. toHost' \in Seq(Frames) /\ DOMAIN toHost' = {}
  OBVIOUS
<1> QED
  BY <1>1, <1>3, <1>4, <1>6, <1>7, StaysSilent

LEMMA ReadShort ==
  ASSUME Exchange, ShortAnswers, ask.phase = "wait",
         toHost # <<>>, toHost' = Tail(toHost), toHost[1].t = "SF",
         Accept(<<Piece(toHost[1])>>), UNCHANGED <<half, toDev, device, faults>>
  PROVE  Turn' /\ Course'
<1> DEFINE p == Piece(toHost[1])
<1>1. /\ toHost' = <<>> /\ slot = None /\ toHost[1].m = Current
      /\ Current.kind = ask.kind
  BY ReadFacts
<1>2. p.m = Current
  BY <1>1 DEF Piece
<1>3. <<p>>[1] = p /\ Len(<<p>>) = 1
  OBVIOUS
<1>4. got' = <<p>> /\ ask' = [ask EXCEPT !.phase = "idle"]
  BY <1>1, <1>2, <1>3 DEF Accept
<1>5. Last(got').m = Current /\ 2..Len(got') = {}
  BY <1>2, <1>3, <1>4 DEF Last
<1>6. ASSUME faults = 0, half # <<>> PROVE FALSE
  <2>1. toHost[1] = Consec(Current, Len(half))
    BY <1>6 DEF Exchange, Course, InStep
  <2> QED
    BY <2>1, FrameFields
<1> QED
  BY <1>1, <1>4, <1>5, <1>6, AnswerAccepted

LEMMA TwoFlowControls ==
  ASSUME NEW q \in Seq(Frames), NEW r, r = q \o <<FlowControl, FlowControl>>
  PROVE  /\ Has(r, "FC")
         /\ \A t : t # "FC" /\ Has(r, t) => Has(q, t)
<1>1. FlowControl.t = "FC"
  BY DEF FlowControl
<1> HIDE DEF FlowControl
<1>2. /\ Len(q) \in Nat /\ DOMAIN q = 1..Len(q) /\ DOMAIN r = 1..(Len(q) + 2)
      /\ \A i \in 1..Len(q) : r[i] = q[i]
      /\ r[Len(q) + 1] = FlowControl /\ r[Len(q) + 2] = FlowControl
  OBVIOUS
<1>3. \A i \in DOMAIN r : i \in 1..Len(q) \/ i = Len(q) + 1 \/ i = Len(q) + 2
  BY <1>2
<1>4. Len(q) + 1 \in DOMAIN r
  BY <1>2
<1>5. Has(r, "FC")
  BY <1>1, <1>2, <1>4 DEF Has
<1>6. ASSUME NEW t, t # "FC", Has(r, t) PROVE Has(q, t)
  <2>1. PICK i \in DOMAIN r : r[i].t = t
    BY <1>6 DEF Has
  <2>2. i \in 1..Len(q)
    BY <1>1, <1>2, <1>3, <1>6, <2>1
  <2> QED
    BY <1>2, <2>1, <2>2 DEF Has
<1> QED
  BY <1>5, <1>6

LEMMA ReadFirst ==
  ASSUME Exchange, ShortAnswers, ask.phase = "wait",
         toHost # <<>>, toHost' = Tail(toHost), toHost[1].t = "FF",
         half' = IF half = <<>> THEN <<Piece(toHost[1])>> ELSE half,
         toDev' = toDev \o <<FlowControl, FlowControl>>,
         UNCHANGED <<got, ask, device, faults>>
  PROVE  Turn' /\ Course'
<1> DEFINE p == Piece(toHost[1])
<1>1. /\ ~rx.on /\ ~Has(toDev, "SF") /\ toHost[1].m = Current
      /\ Current.kind = ask.kind /\ Current.v = served /\ served > 0
      /\ toHost[1].n = 0 /\ Ans[ask.kind] > 0 /\ Ans[ask.kind] \in Nat
  BY ReadFacts
<1>2. p.m = Current /\ p.n = 0 /\ <<p>>[1] = p /\ Len(<<p>>) = 1 /\ <<p>> # <<>>
  BY <1>1 DEF Piece
<1>3. UNCHANGED <<rx, slot, tx, served>> /\ toDev \in Seq(Frames)
  BY DEF device, Exchange, IsoInv, TypeOK
<1>4. Has(toDev', "FC") /\ ~Has(toDev', "SF")
  BY <1>1, <1>3, TwoFlowControls
<1>5. OneRequest'
  BY <1>1, <1>3, <1>4 DEF OneRequest, Has
<1>6. Unfinished'
  BY <1>1, <1>2 DEF Exchange, Turn, Unfinished
<1>7. Turn'
  BY <1>3, <1>4, <1>5, <1>6, FrontRead
<1>8. Caught'
  <2>1. PICK n : n = toHost[1].n
    OBVIOUS
  <2>2. Place(n + 1)'
    BY <1>1, <2>1 DEF Place
  <2> QED
    BY <1>3, <2>1, <2>2, AfterFront DEF Long
<1>9. faults < 2 => Gotten'
  BY DEF Exchange, Course, Gotten, Last
<1>10. faults = 0 => InStep'
  <2> SUFFICES ASSUME faults = 0 PROVE InStep'
    OBVIOUS
  <2>1. InStep
    BY DEF Exchange, Course
  <2>2. half = <<>>
    <3>1. half # <<>> => toHost[1] = Consec(Current, Len(half))
      BY <2>1 DEF InStep
    <3> QED
      BY <3>1, FrameFields
  <2>3. 1 \in DOMAIN toHost /\ (toHost' = <<>> <=> Len(toHost) = 1)
    BY HostTail
  <2>4. tx.phase = "cts" /\ toHost' = <<>>
    BY <2>1, <2>3 DEF InStep
  <2>5. half' = <<p>>
    BY <2>2
  <2>6. Intact(<<p>>)
    <3>1. p \in Pieces
      <4>1. Current \in Messages
        BY ReadFacts
      <4> QED
        BY <1>1, <4>1 DEF Piece, Pieces
    <3> QED
      BY <1>2, <3>1, SingleIntact
  <2>7. DOMAIN toHost' = {} /\ Current' = Current
    BY <1>3, <2>4 DEF Current
  <2> HIDE DEF p
  <2> QED
    BY <1>2, <1>3, <1>4, <2>4, <2>5, <2>6, <2>7 DEF InStep, Intact, Has
<1> QED
  BY <1>7, <1>8, <1>9, <1>10 DEF Course, InStep

(* A consecutive frame that fits has the body of the answer in front of it.*)
Grown(buf, f) ==
  /\ buf # <<>> /\ Len(buf) = f.n + 1 /\ buf[1] = half[1]
  /\ Last(buf) = Piece(f) /\ Last(buf).m = Current
  /\ half[1].m.v > 0 /\ f.n <= Ans[half[1].m.kind]
  /\ Ans[half[1].m.kind] \in Nat
  /\ Complete(buf) <=> f.n = Ans[half[1].m.kind]
  /\ faults < 2 =>
       \A i \in 2..(f.n + 1) : buf[i] = [m |-> Current, n |-> i - 1]
  /\ faults = 0 => Intact(buf) /\ half[1].m = Current /\ f.n = Len(half)

LEMMA BodyGrows ==
  ASSUME Exchange, ShortAnswers, ask.phase = "wait",
         toHost # <<>>, toHost' = Tail(toHost), toHost[1].t = "CF", half # <<>>,
         NEW f, f = toHost[1], Expected(Body(f), f),
         NEW buf, buf = Append(Body(f), Piece(f))
  PROVE  Grown(buf, f)
<1>1. /\ f.m = Current /\ f.n \in 1..Ans[ask.kind] /\ f.n \in 1..SnMod
      /\ Ans[ask.kind] \in Nat /\ Current \in Messages
  BY ReadFacts
<1>2. half \in Seq(Pieces) /\ half[1] \in Pieces /\ half[1].m \in Messages
      /\ Len(half) \in Nat \ {0}
  <2>1. half \in Seq(Pieces)
    BY DEF Exchange, IsoInv, TypeOK
  <2>2. half[1] \in Pieces /\ Len(half) \in Nat \ {0}
    BY <2>1
  <2> QED
    BY <2>1, <2>2 DEF Pieces
<1>3. half[1].m.v > 0 /\ Len(half) <= Ans[half[1].m.kind]
      /\ Ans[half[1].m.kind] \in Nat
  <2>1. half[1].m.v > 0 /\ Len(half) <= Ans[half[1].m.kind]
    BY DEF Exchange, Turn, Unfinished
  <2> QED
    BY <1>2, <2>1, IsoAssumption DEF Messages
<1>4. /\ Body(f) \in Seq(Pieces) /\ Body(f) # <<>> /\ Body(f)[1] = half[1]
      /\ Len(Body(f)) = f.n /\ (Body(f) = half \/ f.n = 1)
  BY <1>1, <1>2, <1>3, BodyFits
<1>5. Piece(f) = [m |-> Current, n |-> f.n]
  BY <1>1 DEF Piece
<1>6. /\ Len(buf) = f.n + 1 /\ buf[f.n + 1] = Piece(f) /\ buf # <<>>
      /\ \A i \in 1..f.n : buf[i] = Body(f)[i]
  BY <1>4, AppendFacts
<1>7. buf[1] = half[1]
  BY <1>1, <1>4, <1>6
<1>8. Last(buf) = Piece(f) /\ Last(buf).m = Current
  BY <1>5, <1>6 DEF Last
<1>9. Complete(buf) <=> f.n = Ans[half[1].m.kind]
  <2>1. Cfs(buf[1].m) = Ans[half[1].m.kind]
    BY <1>3, <1>7 DEF Cfs
  <2> QED
    BY <1>1, <1>3, <1>6, <2>1 DEF Complete
<1>10. f.n <= Ans[half[1].m.kind]
  <2>1. f.n = Len(half) \/ f.n = 1
    BY <1>4
  <2> QED
    BY <1>2, <1>3, <2>1
<1>11. ASSUME faults < 2, NEW i \in 2..(f.n + 1)
       PROVE  buf[i] = [m |-> Current, n |-> i - 1]
  <2>1. CASE i = f.n + 1
    <3>1. i - 1 = f.n
      BY <1>1, <2>1
    <3> QED
      BY <1>5, <1>6, <2>1, <3>1
  <2>2. CASE i # f.n + 1
    <3>1. i \in 2..f.n /\ i \in 1..f.n /\ f.n > 1
      BY <1>1, <2>2
    <3>2. Body(f) = half /\ Len(half) = f.n
      BY <1>4, <3>1
    <3>3. Place(f.n)
      BY <1>11 DEF Exchange, Course, Caught
    <3>4. half[i] = [m |-> Current, n |-> i - 1]
      BY <1>1, <3>1, <3>2, <3>3 DEF Place
    <3> QED
      BY <1>6, <3>1, <3>2, <3>4
  <2> QED
    BY <2>1, <2>2
<1>12. ASSUME faults = 0
       PROVE  Intact(buf) /\ half[1].m = Current /\ f.n = Len(half)
  <2>1. Intact(half) /\ half[1].m = Current /\ f = Consec(Current, Len(half))
    BY <1>12 DEF Exchange, Course, InStep
  <2>2. f.n = Len(half)
    BY <2>1, FrameFields
  <2>3. Body(f) = half
    <3>1. Expected(half, f)
      BY <2>2 DEF Expected
    <3> QED
      BY <3>1 DEF Body
  <2>4. Intact(Append(half, Piece(f)))
    BY <1>2, <1>5, <2>1, <2>2, IntactAppend
  <2> QED
    BY <2>1, <2>2, <2>3, <2>4
<1> QED
  BY <1>3, <1>6, <1>7, <1>8, <1>9, <1>10, <1>11, <1>12 DEF Grown

(* The tool goes on waiting.                                               *)
LEMMA ReadsOn ==
  ASSUME Exchange, ShortAnswers, ask.phase = "wait",
         toHost # <<>>, toHost' = Tail(toHost), toHost[1].t = "CF",
         UNCHANGED <<toDev, device, faults, got, ask>>,
         NEW n, n = toHost[1].n, Unfinished', faults < 2 => Place(n + 1)',
         faults = 0 /\ half' # <<>> =>
           /\ Intact(half') /\ half'[1].m = Current /\ Len(half') = n + 1
           /\ n # Ans[ask.kind]
  PROVE  Turn' /\ Course'
<1>1. UNCHANGED <<rx, slot, tx, served>> /\ Current' = Current
  BY DEF device, Current
<1>2. Turn'
  <2>1. OneRequest'
    BY <1>1 DEF Exchange, Turn, OneRequest, Asked, Has
  <2> QED
    BY <1>1, <2>1, FrontRead DEF Has
<1>3. faults < 2 => Caught'
  BY <1>1, AfterFront DEF Long
<1>4. faults < 2 => Gotten'
  BY DEF Exchange, Course, Gotten, Last
<1>5. faults = 0 => InStep'
  <2> SUFFICES ASSUME faults = 0 PROVE InStep'
    OBVIOUS
  <2>1. InStep
    BY DEF Exchange, Course
  <2>2. /\ toHost \in Seq(Frames) /\ Len(toHost) \in Nat \ {0}
        /\ 1 \in DOMAIN toHost /\ Len(toHost') = Len(toHost) - 1
        /\ toHost' \in Seq(Frames)
        /\ DOMAIN toHost' = 1..(Len(toHost) - 1) /\ DOMAIN toHost = 1..Len(toHost)
        /\ \A i \in 1..(Len(toHost) - 1) : toHost'[i] = toHost[i + 1]
        /\ (toHost' = <<>> <=> Len(toHost) = 1)
    BY HostTail
  <2>3. \A i \in DOMAIN toHost' :
          /\ i + 1 \in DOMAIN toHost /\ toHost'[i] = toHost[i + 1]
          /\ i + 1 # 1 /\ (i = Len(toHost') => i + 1 = Len(toHost))
    BY <2>2
  <2>4. Answering
    BY ReadFacts
  <2>5. \A i \in DOMAIN toHost' :
          /\ toHost'[i].t # "FF" /\ toHost'[i].t # "FC" /\ toHost'[i].m = Current
          /\ toHost'[i].t = "CF" /\ i = Len(toHost') =>
               toHost'[i].n = Ans[ask.kind] \/ tx.phase = "send"
    <3>1. \A i \in DOMAIN toHost :
            /\ toHost[i].t = "FF" => i = 1
            /\ toHost[i].t = "CF" /\ i = Len(toHost) =>
                 toHost[i].n = Ans[ask.kind] \/ tx.phase = "send"
      BY <2>1 DEF InStep
    <3>2. \A i \in DOMAIN toHost : toHost[i].t # "FC" /\ toHost[i].m = Current
      BY <2>4, Answered
    <3> QED
      BY <2>3, <3>1, <3>2
  <2>6. ~(slot # None /\ tx.phase = "idle")
    BY <2>1 DEF InStep
  <2>7. ASSUME half' # <<>>, toHost' # <<>>
        PROVE  toHost'[1] = Consec(Current, Len(half'))
    <3>1. 1 \in DOMAIN toHost' /\ toHost'[1] \in Frames
      BY <2>2, <2>7
    <3>2. toHost'[1].t # "SF"
      <4>1. 2 \in DOMAIN toHost /\ toHost'[1] = toHost[2] /\ Len(toHost) # 1
        BY <2>2, <3>1
      <4>2. toHost[2].t = "SF" => Len(toHost) = 1
        BY <4>1 DEF Exchange, Turn, LastOut
      <4> QED
        BY <4>1, <4>2
    <3>3. toHost'[1].t = "CF" /\ toHost'[1].m = Current
      <4>1. toHost'[1].t \in {"SF", "FF", "CF", "FC"}
        BY <3>1 DEF Frames
      <4> QED
        BY <2>5, <3>1, <3>2, <4>1
    <3>4. toHost'[1].n = n + 1
      BY <1>1, <2>7, <3>3, AfterFront DEF Long
    <3>5. toHost'[1] = [t |-> "CF", m |-> Current, n |-> n + 1]
      <4>1. toHost'[1] \in [t: {"SF", "FF", "CF"}, m: Messages, n: Nat]
        BY <3>1, <3>3 DEF Frames
      <4> QED
        BY <3>3, <3>4, <4>1
    <3> QED
      BY <2>7, <3>5 DEF Consec
  <2>8. ASSUME half' # <<>>, toHost' = <<>>
        PROVE  tx.phase = "send" /\ tx.next = Len(half')
    <3>1. Len(toHost) = 1
      BY <2>2, <2>8
    <3>2. tx.phase = "send"
      BY <2>1, <2>2, <2>8, <3>1 DEF InStep
    <3>3. tx.next = n + 1
      BY <1>1, <2>8, <3>2, AfterFront DEF Long
    <3> QED
      BY <2>8, <3>2, <3>3
  <2> QED
    BY <1>1, <2>5, <2>6, <2>7, <2>8 DEF InStep, Intact
<1> QED
  BY <1>2, <1>3, <1>4, <1>5 DEF Course, InStep

LEMMA ReadConsecutive ==
  ASSUME Exchange, ShortAnswers, ask.phase = "wait",
         toHost # <<>>, toHost' = Tail(toHost), toHost[1].t = "CF",
         UNCHANGED <<toDev, device, faults>>,
         NEW f, f = toHost[1], NEW buf, buf = Append(Body(f), Piece(f)),
         NEW fits \in BOOLEAN, fits <=> half # <<>> /\ Expected(Body(f), f),
         \/ fits /\ Complete(buf) /\ half' = <<>> /\ Accept(buf)
         \/ /\ ~(fits /\ Complete(buf)) /\ half' = IF fits THEN buf ELSE half
            /\ UNCHANGED <<got, ask>>
  PROVE  Turn' /\ Course'
<1>1. /\ Current.kind = ask.kind /\ f.n \in 1..Ans[ask.kind] /\ f.n \in 1..SnMod
      /\ f.n = Ans[ask.kind] => toHost' = <<>> /\ slot = None
      /\ Ans[ask.kind] \in Nat
  BY ReadFacts
<1>2. PICK n : n = f.n /\ n \in Nat
  BY <1>1
<1>3. CASE fits
  <2>1. /\ buf # <<>> /\ Len(buf) = n + 1 /\ buf[1] = half[1]
        /\ Last(buf).m = Current
        /\ half[1].m.v > 0 /\ n <= Ans[half[1].m.kind]
        /\ Ans[half[1].m.kind] \in Nat
        /\ Complete(buf) <=> n = Ans[half[1].m.kind]
        /\ faults < 2 =>
             \A i \in 2..(n + 1) : buf[i] = [m |-> Current, n |-> i - 1]
        /\ faults = 0 => Intact(buf) /\ half[1].m = Current /\ n = Len(half)
    <3>1. half # <<>> /\ Expected(Body(f), f)
      BY <1>3
    <3>2. Grown(buf, f)
      BY <3>1, BodyGrows
    <3> QED
      BY <1>2, <3>2 DEF Grown
  <2>2. CASE Complete(buf) /\ half' = <<>> /\ Accept(buf)
    <3>1. CASE half[1].m.kind = ask.kind
      <4>1. got' = buf /\ ask' = [ask EXCEPT !.phase = "idle"]
        BY <2>1, <2>2, <3>1 DEF Accept
      <4>2. toHost' = <<>> /\ slot = None
        BY <1>1, <1>2, <2>1, <2>2, <3>1
      <4> QED
        BY <2>1, <2>2, <4>1, <4>2, AnswerAccepted
    <3>2. CASE half[1].m.kind # ask.kind
      <4>1. UNCHANGED <<got, ask>>
        BY <2>1, <2>2, <3>2 DEF Accept
      <4>2. Unfinished' /\ Place(n + 1)'
        BY <2>2 DEF Unfinished, Place
      <4> QED
        BY <1>2, <2>2, <4>1, <4>2, ReadsOn
    <3> QED
      BY <3>1, <3>2
  <2>3. CASE ~Complete(buf) /\ half' = buf /\ UNCHANGED <<got, ask>>
    <3>1. Unfinished'
      BY <1>2, <2>1, <2>3 DEF Unfinished
    <3>2. UNCHANGED <<served, ask>>
      BY <2>3 DEF device
    <3>3. faults < 2 => Place(n + 1)'
      BY <2>1, <2>3, <3>2 DEF Place, Current
    <3>4. faults = 0 => n # Ans[ask.kind]
      BY <1>1, <2>1, <2>3
    <3> QED
      BY <1>2, <2>1, <2>3, <3>1, <3>3, <3>4, ReadsOn
  <2> QED
    BY <1>3, <2>2, <2>3
<1>4. CASE ~fits
  <2>1. half' = half /\ UNCHANGED <<got, ask>>
    BY <1>4
  <2>2. half # <<>> => n > 1 /\ Len(half) # n
    <3> SUFFICES ASSUME half # <<>> PROVE n > 1 /\ Len(half) # n
      OBVIOUS
    <3>1. half \in Seq(Pieces)
      BY DEF Exchange, IsoInv, TypeOK
    <3>2. half[1] \in Pieces
      BY <3>1
    <3>3. half[1].m \in Messages /\ Len(half) <= Ans[half[1].m.kind]
      BY <3>2 DEF Pieces, Exchange, Turn, Unfinished
    <3> QED
      BY <1>1, <1>2, <1>4, <3>1, <3>3, BodyFits
  <2>3. Unfinished'
    BY <2>1 DEF Exchange, Turn, Unfinished
  <2>4. faults < 2 => Place(n + 1)'
    <3>1. faults < 2 => Place(n)
      BY <1>2 DEF Exchange, Course, Caught
    <3>2. half # <<>> /\ faults < 2 => Len(half) < n
      BY <2>2, <3>1 DEF Place
    <3>3. Len(half) \in Nat
      BY DEF Exchange, IsoInv, TypeOK
    <3> QED
      BY <1>2, <2>1, <3>2, <3>3 DEF Place
  <2>5. faults = 0 => half = <<>>
    <3> SUFFICES ASSUME faults = 0, half # <<>> PROVE FALSE
      OBVIOUS
    <3>1. f = Consec(Current, Len(half))
      BY DEF Exchange, Course, InStep
    <3> QED
      BY <1>2, <2>2, <3>1, FrameFields
  <2> QED
    BY <1>2, <2>1, <2>3, <2>4, <2>5, ReadsOn
<1> QED
  BY <1>3, <1>4

LEMMA TryReceiveAnswer ==
  ASSUME Exchange, ShortAnswers, TryReceive
  PROVE  Turn' /\ Course'
<1> DEFINE f == Head(toHost)
           buf == Append(Body(f), Piece(f))
           fits == half # <<>> /\ Expected(Body(f), f)
<1>1. /\ ask.phase = "wait" /\ toHost # <<>> /\ toHost' = Tail(toHost)
      /\ UNCHANGED <<device, faults>>
  BY DEF TryReceive
<1>2. f = toHost[1] /\ f.t \in {"SF", "FF", "CF"}
  BY <1>1, ReadFacts
<1>3. CASE f.t = "SF" /\ Accept(<<Piece(f)>>) /\ UNCHANGED <<half, toDev>>
  BY <1>1, <1>2, <1>3, ReadShort
<1>4. CASE /\ f.t = "FF"
           /\ half' = IF half = <<>> THEN <<Piece(f)>> ELSE half
           /\ toDev' = toDev \o <<FlowControl, FlowControl>>
           /\ UNCHANGED <<got, ask>>
  BY <1>1, <1>2, <1>4, ReadFirst
<1>5. CASE /\ f.t = "CF" /\ UNCHANGED toDev
           /\ \/ fits /\ Complete(buf) /\ half' = <<>> /\ Accept(buf)
              \/ /\ ~(fits /\ Complete(buf)) /\ half' = IF fits THEN buf ELSE half
                 /\ UNCHANGED <<got, ask>>
  <2>1. PICK g, b, s : /\ g = f /\ b = buf /\ s \in BOOLEAN
                       /\ s <=> half # <<>> /\ Expected(Body(g), g)
    OBVIOUS
  <2>2. \/ s /\ Complete(b) /\ half' = <<>> /\ Accept(b)
        \/ /\ ~(s /\ Complete(b)) /\ half' = IF s THEN b ELSE half
           /\ UNCHANGED <<got, ask>>
    BY <1>5, <2>1
  <2>3. g = toHost[1] /\ toHost[1].t = "CF" /\ b = Append(Body(g), Piece(g))
    BY <1>2, <1>5, <2>1
  <2> HIDE DEF f, buf, fits
  <2> QED
    BY <1>1, <1>5, <2>1, <2>2, <2>3, ReadConsecutive
<1> QED
  BY <1>2, <1>3, <1>4, <1>5 DEF TryReceive

-----------------------------------------------------------------------------
LEMMA StutterAnswer ==
  ASSUME Exchange, UNCHANGED vars
  PROVE  Turn' /\ Course'
<1>1. Turn'
  BY DEF vars, device, tool, Exchange, Turn, Awaited, Answering, OneAnswer,
         OneRequest, LastOut, Unfinished, Current, Asked, Has
<1>2. Course'
  BY DEF vars, device, tool, Exchange, Course, Caught, Place, InStep, Gotten,
         Current, Intact, Has, Last
<1> QED
  BY <1>1, <1>2

LEMMA AnswerInitial == Init => AnswerInv
<1> SUFFICES ASSUME Init PROVE AnswerInv
  OBVIOUS
<1>1. slot = None /\ tx.phase = "idle" /\ toHost = <<>> /\ toDev = <<>>
      /\ half = <<>> /\ got = <<>> /\ ~rx.on
  BY DEF Init
<1>2. DOMAIN toHost = {} /\ DOMAIN toDev = {}
  BY <1>1
<1>3. Turn
  BY <1>1, <1>2 DEF Turn, Awaited, Answering, OneAnswer, OneRequest, LastOut,
                    Unfinished
<1>4. Course
  BY <1>1, <1>2 DEF Course, Caught, Place, InStep, Gotten
<1> QED
  BY <1>3, <1>4, RequestInitial DEF AnswerInv

LEMMA AnswerInductive ==
  ASSUME ShortAnswers PROVE AnswerInv /\ [Next]_vars => AnswerInv'
<1> SUFFICES ASSUME AnswerInv, [Next]_vars, hasty' = 0 PROVE Turn' /\ Course'
  BY RequestInductive DEF AnswerInv
<1>1. hasty = 0
  BY TroubleStays DEF AnswerInv, RequestInv
<1>2. Exchange
  BY <1>1 DEF AnswerInv, RequestInv, OneKindOfTrouble, Exchange
<1>3. CASE DeviceStep
  BY <1>2, <1>3, RxHandlerAnswer, PollFlowControlAnswer, ReceiveTimeoutAnswer,
     FlushAnswer, WaitCtsAnswer, CtsTimeoutAnswer, SendConsecutiveAnswer
     DEF DeviceStep
<1>4. CASE ToolStep
  BY <1>2, <1>4, AskAnswer, FlowControlTimeoutAnswer, AwaitFlowControlAnswer,
     TryReceiveAnswer, AnswerTimeoutAnswer, WatchdogAnswer DEF ToolStep
<1>5. CASE Lose
  BY <1>2, <1>5, LoseAnswer
<1>6. CASE UNCHANGED vars
  BY <1>2, <1>6, StutterAnswer
<1> QED
  BY <1>3, <1>4, <1>5, <1>6 DEF Next

(* The body of an answer the tool accepts is the body of one answer, and   *)
(* that one is to the request it waits for, while no timeout expires early *)
(* and one frame at most is lost: for answers of no more consecutive       *)
(* frames than there are sequence numbers.  In a longer answer two frames  *)
(* have the same number, and the first one, sent again, may be taken for   *)
(* the later one (IsoTpClient.TryReceive).                                 *)
THEOREM AnswersAreCurrent ==
  ASSUME ShortAnswers PROVE Spec => []AnswersCurrent
<1>1. AnswerInv => AnswersCurrent
  BY DEF AnswerInv, Course, Gotten, AnswersCurrent
<1> QED
  BY <1>1, AnswerInitial, AnswerInductive, PTL DEF Spec
=============================================================================

---------------------------- MODULE QiLink_proofs ----------------------------
(***************************************************************************)
(* The link is transparent while nothing disturbs it, and one disturbance  *)
(* costs a bounded number of frames: for every frame limit, every size of  *)
(* the ring, every script of a chip and every noise.                       *)
(*                                                                         *)
(* The proof reads the stream, the bytes in the ring and the one the chip  *)
(* sends next.  In step, the parser is where the bytes of the frame before *)
(* the head of the stream have taken it.  A disturbance leaves one damaged *)
(* byte or one gap in the stream; when the parser has passed it, it is in  *)
(* step or in one of four phases that lead back.                           *)
(***************************************************************************)
EXTENDS QiLink, TLAPS, WellFoundedInduction

Coming == Arriving(Current[sent + 1])

Stream == Append(ring, Coming)

(* The place of a byte in the endless row of frames, and the next one. *)
Place(s, a) == a.turn \in DOMAIN s /\ a.n \in 1..Len(Wires[s][a.turn])

After(s, a) ==
  IF a.n = Len(Wires[s][a.turn])
  THEN [turn |-> NextTurn(s, a.turn), n |-> 1]
  ELSE [turn |-> a.turn, n |-> a.n + 1]

Follows(s, a, b) == b.turn = After(s, a).turn /\ b.n = After(s, a).n

Sound(s, a) == a.v = Wires[s][a.turn][a.n]

(* A disturbance goes to the next byte but one, or to the start of a frame. *)
Gap(s, e, b) == b.n = 1 \/ Follows(s, e, b)

SoundBut(s, q, k) == \A j \in DOMAIN q : j # k => Sound(s, q[j])
LinkedBut(s, q, k) == \A j \in 2..Len(q) : j # k => Follows(s, q[j - 1], q[j])

-----------------------------------------------------------------------------
(* The parser after the first p bytes of frame f. *)
Rx(state, cs, len, cmd, data, seq) ==
  [state |-> state, cs |-> cs, len |-> len, cmd |-> cmd, data |-> data, seq |-> seq]

Reached(f, p) ==
  LET d   == Len(f.data)
      cs  == Sums(Body(f))[p]
      len == LenField(f)
  IN  CASE p = 0                        -> Idle
        [] p = 1                        -> Rx("HEADER2", cs, 0, 0, <<>>, 0)
        [] p = 2                        -> Rx("LENGTH", cs, 0, 0, <<>>, 0)
        [] p = 3                        -> Rx("CMD", cs, len, 0, <<>>, 0)
        [] p \in 4..(3 + d)             -> Rx("DATA", cs, len, f.cmd, SubSeq(f.data, 1, p - 4), 0)
        [] p = 4 + d /\ WithSeq(f.cmd)  -> Rx("SEQ", cs, len, f.cmd, f.data, 0)
        [] p = 4 + d /\ ~WithSeq(f.cmd) -> Rx("CS", cs, len, f.cmd, f.data, 0)
        [] p = 5 + d                    -> Rx("CS", cs, len, f.cmd, f.data, f.seq)

InStep(s, r, a) == r = Reached(s[a.turn], a.n - 1)

Enough(s, m) == (m - Spoilt(s)) * Shortest(s) <= MaxData + 6

-----------------------------------------------------------------------------
(* The phases of a parser out of step: r is the parser, a the next byte,   *)
(* m what has been missed.                                                 *)

(* The bytes that the frame the parser believes in still has. *)
Rest(r) ==
  CASE r.state = "CMD"  -> r.len + 1
    [] r.state = "DATA" -> DataLen(r.len, r.cmd) - Len(r.data)
                           + IF WithSeq(r.cmd) THEN 2 ELSE 1
    [] r.state = "SEQ"  -> 2
    [] r.state = "CS"   -> 1

(* It believes in a frame and takes what comes for a part of it. *)
Covering(s, r, a, m) ==
  /\ r.state \in {"CMD", "DATA", "SEQ", "CS"}
  /\ m * Shortest(s) + a.n + Rest(r) <= MaxData + 8

(* It has missed a byte of the header. *)
Misled(s, r, a, m) ==
  /\ m = 0
  /\ \/ r.state = "HEADER2" /\ a.n \in {1, 3}
     \/ r.state = "LENGTH" /\ a.n \in {1, 4}

(* It looks for a header inside a frame. *)
Skipping(s, r, a, m) ==
  LET w == Wires[s][a.turn]
  IN  /\ a.n > 1
      /\ \/ r = Idle
         \/ r.state = "HEADER2" /\ a.n > 3 /\ w[a.n - 1] = Header1
      /\ \/ m * Shortest(s) <= MaxData + 6
         \/ /\ ~EndsLikeHeader(w)
            /\ Spoilt(s) = 2
            /\ (m - 1) * Shortest(s) <= MaxData + 6

(* It has taken the end of a frame for the start of a header. *)
Stray(s, r, a, m) ==
  /\ a.n = 1
  /\ r.state = "HEADER2"
  /\ (m - 1) * Shortest(s) <= MaxData + 6
  /\ \E k \in DOMAIN s : NextTurn(s, k) = a.turn /\ EndsLikeHeader(Wires[s][k])

Astray(s, r, a, m) ==
  Covering(s, r, a, m) \/ Misled(s, r, a, m) \/ Skipping(s, r, a, m) \/ Stray(s, r, a, m)

-----------------------------------------------------------------------------
Undamaged(s, q) == SoundBut(s, q, 0) /\ LinkedBut(s, q, 0)

(* Nothing is wrong (any more) with the stream q. *)
Aligned(s, r, q) == InStep(s, r, q[1]) /\ Undamaged(s, q)

(* A damaged byte is on its way. *)
Damaged(s, r, q, m) ==
  /\ InStep(s, r, q[1])
  /\ m = 0
  /\ \E k \in 1..(Len(q) - 1) : SoundBut(s, q, k) /\ LinkedBut(s, q, 0)

(* Behind the k-th byte others are missing. *)
Broken(s, r, q, m) ==
  /\ InStep(s, r, q[1])
  /\ m = 0
  /\ \E k \in 1..(Len(q) - 1) :
       /\ SoundBut(s, q, 0)
       /\ LinkedBut(s, q, k + 1)
       /\ Gap(s, After(s, q[k]), q[k + 1])

Lost(s, r, q, m) == Astray(s, r, q[1], m) /\ Undamaged(s, q)

(* One disturbance behind it or still to come. *)
Touched(s, r, q, m) ==
  \/ Aligned(s, r, q) /\ Enough(s, m)
  \/ Damaged(s, r, q, m)
  \/ Broken(s, r, q, m)
  \/ Lost(s, r, q, m)

Items(s) == {a \in [v : Byte, turn : DOMAIN s, n : Nat] : Place(s, a)}

Type ==
  /\ script \in Scripts
  /\ turn \in DOMAIN script
  /\ sent \in 0..(Len(Current) - 1)
  /\ ring \in Seq(Items(script))
  /\ Len(ring) <= RingSize
  /\ missed \in 0..MissCap
  /\ faults \in 0..MaxFaults
  /\ heard \in {"none", "frame", "wrong"}

(* What every state of the parser has in common. *)
States == {"IDLE", "HEADER2", "LENGTH", "CMD", "DATA", "SEQ", "CS"}

RxOK(r) ==
  /\ r \in [state : States,
            cs : Byte, len : 0..(MaxData + 2), cmd : Byte, data : Seq(Byte),
            seq : Byte]
  /\ r.state = "IDLE" => r = Idle
  /\ r.state = "CMD" => r.len > 0
  /\ r.state \in {"HEADER2", "LENGTH", "CMD"} => r.data = <<>>
  /\ r.state = "DATA" => Len(r.data) < DataLen(r.len, r.cmd) /\ DataLen(r.len, r.cmd) <= MaxData
  /\ Len(r.data) <= MaxData

LinkInv ==
  /\ Type
  /\ RxOK(rx)
  /\ faults = 0 => Aligned(script, rx, Stream) /\ missed = 0 /\ heard # "wrong"
  /\ script \in Distinct /\ faults = 1 => Touched(script, rx, Stream, missed)

-----------------------------------------------------------------------------
(* Sums: the recursion of its definition holds. *)

LEMMA Least ==
  ASSUME NEW S, S \subseteq Nat, S # {}
  PROVE  \E x \in S : \A y \in S : x <= y
<1>1. PICK x \in S : \A y \in S : ~ (<<y, x>> \in OpToRel(<, Nat))
  BY NatLessThanWellFounded, WFMin, Zenon
<1>2. \A y \in S : ~(y < x)
  BY <1>1, Zenon DEF OpToRel
<1> QED
  BY <1>2

(* What the definition of Sums asks of a function on the first n bytes. *)
Adds(sum, bytes, n) ==
  sum = [k \in 0..n |-> IF k = 0 THEN 0 ELSE (sum[k - 1] + bytes[k]) % 256]

LEMMA SumsExist ==
  ASSUME NEW bytes, NEW n \in Nat
  PROVE  \E sum : Adds(sum, bytes, n)
<1> DEFINE Bad == {m \in Nat : ~\E sum : Adds(sum, bytes, m)}
<1> SUFFICES ASSUME Bad # {} PROVE FALSE
  OBVIOUS
<1>1. PICK m \in Bad : \A l \in Bad : m <= l
  BY Least
<1>2. CASE m = 0
  <2>1. Adds([k \in 0..0 |-> 0], bytes, 0)
    BY DEF Adds
  <2> QED
    BY <1>2, <2>1
<1>3. CASE m # 0
  <2>1. m - 1 \in Nat /\ m - 1 \notin Bad
    BY <1>1, <1>3
  <2>2. PICK g : Adds(g, bytes, m - 1)
    BY <2>1
  <2> DEFINE h == [k \in 0..m |-> IF k = m THEN (g[m - 1] + bytes[m]) % 256 ELSE g[k]]
  <2>3. ASSUME NEW k \in 0..m
        PROVE  h[k] = IF k = 0 THEN 0 ELSE (h[k - 1] + bytes[k]) % 256
    <3>1. CASE k = m
      <4>1. h[m] = (g[m - 1] + bytes[m]) % 256
        BY <1>1
      <4>2. h[m - 1] = g[m - 1]
        BY <1>1, <1>3
      <4> QED
        BY <4>1, <4>2, <3>1, <1>3
    <3>2. CASE k # m
      <4>1. k \in 0..(m - 1) /\ h[k] = g[k]
        BY <3>2, <2>1
      <4>2. g[k] = IF k = 0 THEN 0 ELSE (g[k - 1] + bytes[k]) % 256
        BY <4>1, <2>2 DEF Adds
      <4>3. k # 0 => h[k - 1] = g[k - 1]
        BY <4>1, <2>1
      <4> QED
        BY <4>1, <4>2, <4>3
    <3> QED
      BY <3>1, <3>2
  <2>4. h = [k \in 0..m |-> h[k]]
    OBVIOUS
  <2>5. Adds(h, bytes, m)
    <3> HIDE DEF h
    <3> QED
      BY <2>3, <2>4 DEF Adds
  <2> QED
    BY <2>5
<1> QED
  BY <1>2, <1>3

LEMMA ByteFacts ==
  /\ \A b \in Byte : b \in Nat /\ b < 256
  /\ \A b \in Nat : b % 256 \in Byte
  BY DEF Byte

LEMMA SumsFacts ==
  ASSUME NEW bytes \in Seq(Byte)
  PROVE  /\ Sums(bytes)[0] = 0
         /\ \A k \in 1..Len(bytes) :
              /\ Sums(bytes)[k] = (Sums(bytes)[k - 1] + bytes[k]) % 256
              /\ Sums(bytes)[k] \in Byte
<1>1. Adds(Sums(bytes), bytes, Len(bytes))
  <2>1. Len(bytes) \in Nat
    OBVIOUS
  <2>2. PICK sum : Adds(sum, bytes, Len(bytes))
    BY <2>1, SumsExist
  <2>3. Sums(bytes) = CHOOSE f : Adds(f, bytes, Len(bytes))
    BY DEF Sums, Adds
  <2> QED
    BY <2>2, <2>3
<1> DEFINE sum == Sums(bytes)
           n == Len(bytes)
<1>2. n \in Nat /\ \A k \in 1..n : bytes[k] \in Byte
  OBVIOUS
<1>3. \A k \in 0..n : sum[k] = IF k = 0 THEN 0 ELSE (sum[k - 1] + bytes[k]) % 256
  <2> HIDE DEF sum
  <2> QED
    BY <1>1 DEF Adds, sum
<1>4. sum[0] = 0
  BY <1>2, <1>3
<1> DEFINE Wrong == {k \in 1..n : sum[k] \notin Byte}
<1>5. Wrong = {}
  <2> SUFFICES ASSUME Wrong # {} PROVE FALSE
    OBVIOUS
  <2> HIDE DEF sum, n
  <2>1. PICK k \in Wrong : \A j \in Wrong : k <= j
    <3>1. Wrong \subseteq Nat
      BY <1>2
    <3> QED
      BY <3>1, Least
  <2>2. k \in 1..n /\ k - 1 \in 0..n /\ k \in 0..n
    BY <2>1, <1>2
  <2>3. sum[k - 1] \in Byte
    <3>1. CASE k = 1
      BY <3>1, <1>4, ByteFacts
    <3>2. CASE k # 1
      <4>1. k - 1 \in 1..n /\ ~(k <= k - 1)
        BY <3>2, <2>2, <1>2
      <4> QED
        BY <4>1, <2>1
    <3> QED
      BY <3>1, <3>2
  <2>4. sum[k - 1] + bytes[k] \in Nat
    <3>1. bytes[k] \in Byte
      BY <2>2, <1>2
    <3> QED
      BY <3>1, <2>3, ByteFacts
  <2>5. sum[k] = (sum[k - 1] + bytes[k]) % 256
    BY <2>2, <1>3
  <2>6. sum[k] \in Byte
    BY <2>4, <2>5, ByteFacts
  <2> QED
    BY <2>1, <2>6
<1>6. \A k \in 1..n : sum[k] = (sum[k - 1] + bytes[k]) % 256
  <2> HIDE DEF sum, n
  <2> QED
    BY <1>2, <1>3
<1> QED
  BY <1>4, <1>5, <1>6

-----------------------------------------------------------------------------
(* A frame on the wire, byte by byte. *)
SeqLen(f) == IF WithSeq(f.cmd) THEN 1 ELSE 0

LEMMA SeqLenFacts ==
  ASSUME NEW f
  PROVE  /\ SeqLen(f) \in 0..1
         /\ WithSeq(f.cmd) <=> SeqLen(f) = 1
         /\ Len(f.data) \in Nat => LenField(f) = Len(f.data) + SeqLen(f) + 1
<1>1. CASE WithSeq(f.cmd)
  <2>1. SeqLen(f) = 1 /\ LenField(f) = Len(f.data) + 2
    BY <1>1 DEF SeqLen, LenField
  <2> QED
    BY <1>1, <2>1
<1>2. CASE ~WithSeq(f.cmd)
  <2>1. SeqLen(f) = 0 /\ LenField(f) = Len(f.data) + 1
    BY <1>2 DEF SeqLen, LenField
  <2> QED
    BY <1>2, <2>1
<1> QED
  BY <1>1, <1>2

LEMMA MaxDataRange == MaxData \in Nat /\ MaxData >= 1 /\ MaxData <= 253
  BY LinkAssumption

Joins(c, s, t) ==
  /\ c \in Seq(Byte)
  /\ Len(c) = Len(s) + Len(t)
  /\ \A k \in 1..Len(s) : c[k] = s[k]
  /\ \A k \in 1..Len(t) : c[Len(s) + k] = t[k]

LEMMA ConcatFacts ==
  ASSUME NEW s \in Seq(Byte), NEW t \in Seq(Byte)
  PROVE  Joins(s \o t, s, t)
  BY DEF Joins

LEMMA FrameFacts ==
  ASSUME NEW f \in Frame
  PROVE  /\ f.cmd \in Byte /\ f.data \in Seq(Byte) /\ f.seq \in Byte
         /\ Len(f.data) \in Nat /\ Len(f.data) <= MaxData
         /\ f = [cmd |-> f.cmd, data |-> f.data, seq |-> f.seq]
         /\ WithSeq(f.cmd) \/ f.seq = 0
         /\ LenField(f) \in 1..(MaxData + 2) /\ LenField(f) \in Byte
<1>1. /\ f.cmd \in Byte /\ f.data \in Seq(Byte) /\ f.seq \in Byte
      /\ Len(f.data) <= MaxData
      /\ f = [cmd |-> f.cmd, data |-> f.data, seq |-> f.seq]
      /\ WithSeq(f.cmd) \/ f.seq = 0
  BY DEF Frame
<1>2. Len(f.data) \in Nat
  BY <1>1
<1>3. LenField(f) \in 1..(MaxData + 2)
  <2> DEFINE d == Len(f.data)
             e == SeqLen(f)
  <2>1. d \in Nat /\ d <= MaxData /\ e \in 0..1 /\ LenField(f) = d + e + 1
    BY <1>1, <1>2, SeqLenFacts
  <2> HIDE DEF d, e
  <2> QED
    BY <2>1, MaxDataRange
<1>4. \A k \in 1..(MaxData + 2) : k \in Byte
  BY LinkAssumption DEF Byte
<1> QED
  BY <1>1, <1>2, <1>3, <1>4

LEMMA BodyFacts ==
  ASSUME NEW f \in Frame
  PROVE  LET d == Len(f.data)
             w == Body(f)
         IN  /\ w \in Seq(Byte)
             /\ Len(w) = 4 + d + SeqLen(f)
             /\ w[1] = Header1 /\ w[2] = Header2 /\ w[3] = LenField(f) /\ w[4] = f.cmd
             /\ \A k \in 1..d : w[4 + k] = f.data[k]
             /\ WithSeq(f.cmd) => w[5 + d] = f.seq
<1> DEFINE d == Len(f.data)
           h == <<Header1, Header2, LenField(f), f.cmd>>
           q == IF WithSeq(f.cmd) THEN <<f.seq>> ELSE <<>>
<1>1. /\ f.cmd \in Byte /\ f.data \in Seq(Byte) /\ f.seq \in Byte
      /\ d \in Nat
      /\ LenField(f) \in Byte
  BY FrameFacts
<1>2. Header1 \in Byte /\ Header2 \in Byte
  BY DEF Byte, Header1, Header2
<1>3. h \in Seq(Byte) /\ Len(h) = 4
  BY <1>1, <1>2
<1>4. q \in Seq(Byte) /\ Len(q) = SeqLen(f) /\ (WithSeq(f.cmd) => q[1] = f.seq)
  BY <1>1 DEF SeqLen
<1>5. h[1] = Header1 /\ h[2] = Header2 /\ h[3] = LenField(f) /\ h[4] = f.cmd
  OBVIOUS
<1>6. Body(f) = (h \o f.data) \o q
  BY DEF Body
<1> HIDE DEF h, q
<1> DEFINE g == h \o f.data
<1>7. /\ g \in Seq(Byte) /\ Len(g) = 4 + d
      /\ \A k \in 1..4 : g[k] = h[k]
      /\ \A k \in 1..d : g[4 + k] = f.data[k]
  <2>1. Joins(g, h, f.data)
    BY <1>1, <1>3, ConcatFacts
  <2> QED
    BY <2>1, <1>3 DEF Joins
<1>8. Body(f) = g \o q
  BY <1>6
<1> HIDE DEF g
<1> DEFINE w == g \o q
<1>9. /\ w \in Seq(Byte)
      /\ Len(w) = 4 + d + SeqLen(f)
      /\ \A k \in 1..(4 + d) : w[k] = g[k]
      /\ \A k \in 1..SeqLen(f) : w[4 + d + k] = q[k]
  <2>1. Joins(w, g, q)
    BY <1>4, <1>7, ConcatFacts
  <2> QED
    BY <2>1, <1>4, <1>7 DEF Joins
<1>10. Body(f) = w
  BY <1>8
<1> HIDE DEF w
<1>11. w[1] = Header1 /\ w[2] = Header2 /\ w[3] = LenField(f) /\ w[4] = f.cmd
  <2>1. \A k \in 1..4 : k \in 1..(4 + d)
    BY <1>1
  <2>2. \A k \in 1..4 : w[k] = h[k]
    BY <2>1, <1>7, <1>9
  <2> QED
    BY <2>2, <1>5
<1>12. \A k \in 1..d : w[4 + k] = f.data[k]
  <2>1. \A k \in 1..d : 4 + k \in 1..(4 + d)
    BY <1>1
  <2> QED
    BY <2>1, <1>7, <1>9
<1>13. ASSUME WithSeq(f.cmd) PROVE w[5 + d] = f.seq
  <2>1. SeqLen(f) = 1
    BY <1>13, SeqLenFacts
  <2>2. w[4 + d + 1] = q[1]
    BY <2>1, <1>9
  <2>3. 4 + d + 1 = 5 + d
    BY <1>1
  <2> QED
    BY <1>13, <2>2, <2>3, <1>4
<1> QED
  BY <1>9, <1>10, <1>11, <1>12, <1>13

LEMMA WireFacts ==
  ASSUME NEW f \in Frame
  PROVE  LET n == Len(Body(f))
             w == Wire(f)
         IN  /\ n = 4 + Len(f.data) + SeqLen(f)
             /\ n = LenField(f) + 3
             /\ n \in 4..(MaxData + 5)
             /\ w \in Seq(Byte)
             /\ Len(w) = n + 1
             /\ \A k \in 1..n : w[k] = Body(f)[k]
             /\ w[n + 1] = Sums(Body(f))[n]
             /\ w[1] = Header1 /\ w[2] = Header2 /\ w[3] = LenField(f) /\ w[4] = f.cmd
             /\ \A k \in 1..Len(f.data) : w[4 + k] = f.data[k]
             /\ WithSeq(f.cmd) => w[5 + Len(f.data)] = f.seq
<1> DEFINE b == Body(f)
           n == Len(b)
           d == Len(f.data)
           w == Wire(f)
<1>1. b \in Seq(Byte) /\ n = 4 + d + SeqLen(f)
  BY BodyFacts
<1>2. d \in Nat /\ d <= MaxData /\ SeqLen(f) \in 0..1 /\ LenField(f) = d + SeqLen(f) + 1
  BY FrameFacts, SeqLenFacts
<1>3. n \in 4..(MaxData + 5) /\ n = LenField(f) + 3
  <2> HIDE DEF d, n
  <2> QED
    BY <1>1, <1>2, LinkAssumption
<1>4. Sums(b)[n] \in Byte
  BY <1>1, <1>3, SumsFacts
<1>5. w = Append(b, Sums(b)[n])
  BY DEF Wire
<1>6. /\ b[1] = Header1 /\ b[2] = Header2 /\ b[3] = LenField(f) /\ b[4] = f.cmd
      /\ \A k \in 1..d : b[4 + k] = f.data[k]
      /\ WithSeq(f.cmd) => b[5 + d] = f.seq
  BY BodyFacts
<1> HIDE DEF b, w
<1>7. /\ w \in Seq(Byte) /\ Len(w) = n + 1 /\ w[n + 1] = Sums(b)[n]
      /\ \A k \in 1..n : w[k] = b[k]
  BY <1>1, <1>4, <1>5
<1>8. /\ 1 \in 1..n /\ 2 \in 1..n /\ 3 \in 1..n /\ 4 \in 1..n
      /\ \A k \in 1..d : 4 + k \in 1..n
  <2> HIDE DEF d, n
  <2> QED
    BY <1>1, <1>2, <1>3
<1>9. WithSeq(f.cmd) => 5 + d \in 1..n
  <2>1. SeqLen(f) = 1 => 5 + d \in 1..n
    <3> HIDE DEF d, n
    <3> QED
      BY <1>1, <1>2
  <2> QED
    BY <2>1, SeqLenFacts
<1>10. /\ w[1] = Header1 /\ w[2] = Header2 /\ w[3] = LenField(f) /\ w[4] = f.cmd
       /\ \A k \in 1..d : w[4 + k] = f.data[k]
       /\ WithSeq(f.cmd) => w[5 + d] = f.seq
  BY <1>6, <1>7, <1>8, <1>9
<1> QED
  BY <1>1, <1>3, <1>7, <1>10 DEF b, w

-----------------------------------------------------------------------------
(* A frame through the parser. *)
LEMMA SubSeqFacts ==
  ASSUME NEW s \in Seq(Byte)
  PROVE  /\ SubSeq(s, 1, 0) = <<>>
         /\ SubSeq(s, 1, Len(s)) = s
         /\ \A n \in 0..Len(s) : /\ SubSeq(s, 1, n) \in Seq(Byte)
                                 /\ Len(SubSeq(s, 1, n)) = n
         /\ \A n \in 0..(Len(s) - 1) :
              SubSeq(s, 1, n + 1) = Append(SubSeq(s, 1, n), s[n + 1])
  OBVIOUS

LEMMA ReachedFacts ==
  ASSUME NEW f \in Frame, NEW p \in 0..Len(Body(f))
  PROVE  LET d   == Len(f.data)
             cs  == Sums(Body(f))[p]
             len == LenField(f)
             r   == Reached(f, p)
         IN  /\ p = 0 => r = Idle
             /\ p = 1 => r = Rx("HEADER2", cs, 0, 0, <<>>, 0)
             /\ p = 2 => r = Rx("LENGTH", cs, 0, 0, <<>>, 0)
             /\ p = 3 => r = Rx("CMD", cs, len, 0, <<>>, 0)
             /\ p >= 4 /\ p < 4 + d
                  => r = Rx("DATA", cs, len, f.cmd, SubSeq(f.data, 1, p - 4), 0)
             /\ p = 4 + d /\ WithSeq(f.cmd) => r = Rx("SEQ", cs, len, f.cmd, f.data, 0)
             /\ p = 4 + d /\ ~WithSeq(f.cmd) => r = Rx("CS", cs, len, f.cmd, f.data, 0)
             /\ p = 5 + d => r = Rx("CS", cs, len, f.cmd, f.data, f.seq) /\ WithSeq(f.cmd)
<1> DEFINE d == Len(f.data)
           cs == Sums(Body(f))[p]
           len == LenField(f)
<1>1. d \in Nat /\ p \in Nat /\ p <= 4 + d + SeqLen(f)
  BY FrameFacts, WireFacts
<1>2. p = 5 + d => WithSeq(f.cmd)
  BY <1>1, SeqLenFacts
<1>3. Reached(f, p) =
      CASE p = 0                        -> Idle
        [] p = 1                        -> Rx("HEADER2", cs, 0, 0, <<>>, 0)
        [] p = 2                        -> Rx("LENGTH", cs, 0, 0, <<>>, 0)
        [] p = 3                        -> Rx("CMD", cs, len, 0, <<>>, 0)
        [] p \in 4..(3 + d)             -> Rx("DATA", cs, len, f.cmd, SubSeq(f.data, 1, p - 4), 0)
        [] p = 4 + d /\ WithSeq(f.cmd)  -> Rx("SEQ", cs, len, f.cmd, f.data, 0)
        [] p = 4 + d /\ ~WithSeq(f.cmd) -> Rx("CS", cs, len, f.cmd, f.data, 0)
        [] p = 5 + d                    -> Rx("CS", cs, len, f.cmd, f.data, f.seq)
  BY DEF Reached
<1> HIDE DEF d, cs, len
<1>4. p >= 4 /\ p < 4 + d => p \in 4..(3 + d)
  BY <1>1
<1> QED
  BY <1>1, <1>2, <1>3, <1>4 DEF d, cs, len

LEMMA SumStep ==
  ASSUME NEW f \in Frame, NEW p \in 0..(Len(Body(f)) - 1)
  PROVE  /\ (Sums(Body(f))[p] + Wire(f)[p + 1]) % 256 = Sums(Body(f))[p + 1]
         /\ Sums(Body(f))[0] = 0
         /\ p + 1 \in 1..Len(Body(f))
<1> DEFINE b == Body(f)
           n == Len(b)
<1>1. b \in Seq(Byte) /\ n \in Nat
  BY BodyFacts
<1>2. p + 1 \in 1..n /\ p + 1 - 1 = p
  BY <1>1
<1>3. Wire(f)[p + 1] = b[p + 1]
  BY <1>2, WireFacts
<1>4. Sums(b)[p + 1] = (Sums(b)[p + 1 - 1] + b[p + 1]) % 256 /\ Sums(b)[0] = 0
  BY <1>1, <1>2, SumsFacts
<1> QED
  BY <1>2, <1>3, <1>4

(* rx_process_byte, state by state. *)
LEMMA ParseIdle ==
  ASSUME NEW b
  PROVE  /\ b = Header1 => Parse(Idle, b) = Rx("HEADER2", (0 + b) % 256, 0, 0, <<>>, 0)
         /\ b # Header1 => Parse(Idle, b) = Idle
  BY DEF Parse, Idle, Rx

LEMMA ParseHeader2 ==
  ASSUME NEW b, NEW cs, NEW len, NEW cmd, NEW data, NEW seq
  PROVE  LET r == Rx("HEADER2", cs, len, cmd, data, seq)
         IN  /\ b = Header2 => Parse(r, b) = Rx("LENGTH", (cs + b) % 256, len, cmd, data, seq)
             /\ b # Header2 => Parse(r, b) = Idle
  BY DEF Parse, Rx

LEMMA ParseLength ==
  ASSUME NEW b, NEW cs, NEW len, NEW cmd, NEW data, NEW seq
  PROVE  LET r == Rx("LENGTH", cs, len, cmd, data, seq)
         IN  /\ LengthOk(b) => Parse(r, b) = Rx("CMD", (cs + b) % 256, b, cmd, data, seq)
             /\ ~LengthOk(b) => Parse(r, b) = Idle
  BY DEF Parse, Rx

LEMMA ParseCmd ==
  ASSUME NEW b, NEW cs, NEW len, NEW cmd, NEW data, NEW seq
  PROVE  LET r == Rx("CMD", cs, len, cmd, data, seq)
             n == DataLen(len, b)
         IN  /\ n < 0 \/ n > MaxData => Parse(r, b) = Idle
             /\ ~(n < 0 \/ n > MaxData) /\ n > 0
                  => Parse(r, b) = Rx("DATA", (cs + b) % 256, len, b, data, seq)
             /\ ~(n < 0 \/ n > MaxData) /\ ~(n > 0)
                  => Parse(r, b) = Rx(AfterData(b), (cs + b) % 256, len, b, data, seq)
<1> DEFINE r == Rx("CMD", cs, len, cmd, data, seq)
           s == Rx("CMD", (cs + b) % 256, len, cmd, data, seq)
<1>1. Parse(r, b) = OnCmd(s, b)
  BY DEF Parse, Rx
<1> DEFINE n == DataLen(len, b)
           off == n < 0 \/ n > MaxData
<1>2. s.len = len
  BY DEF Rx
<1>3. OnCmd(s, b) = IF off THEN Idle
                    ELSE [s EXCEPT !.cmd = b,
                                   !.state = IF n > 0 THEN "DATA" ELSE AfterData(b)]
  BY <1>2 DEF OnCmd
<1>4. ASSUME NEW x
      PROVE  [s EXCEPT !.cmd = b, !.state = x] = Rx(x, (cs + b) % 256, len, b, data, seq)
  <2> DEFINE t == Rx("CMD", (cs + b) % 256, len, b, data, seq)
  <2>1. [s EXCEPT !.cmd = b] = t
    BY DEF Rx
  <2>2. [t EXCEPT !.state = x] = Rx(x, (cs + b) % 256, len, b, data, seq)
    BY DEF Rx
  <2> HIDE DEF s, t
  <2> QED
    BY <2>1, <2>2
<1> HIDE DEF s, r, n, off
<1>5. OnCmd(s, b) = IF off THEN Idle
                    ELSE Rx(IF n > 0 THEN "DATA" ELSE AfterData(b), (cs + b) % 256, len, b, data, seq)
  BY <1>3, <1>4
<1>6. /\ off => OnCmd(s, b) = Idle
      /\ ~off /\ n > 0 => OnCmd(s, b) = Rx("DATA", (cs + b) % 256, len, b, data, seq)
      /\ ~off /\ ~(n > 0) => OnCmd(s, b) = Rx(AfterData(b), (cs + b) % 256, len, b, data, seq)
  BY <1>5
<1> QED
  BY <1>1, <1>6 DEF r, n, off

LEMMA ParseData ==
  ASSUME NEW b, NEW cs, NEW len, NEW cmd, NEW data, NEW seq
  PROVE  LET r == Rx("DATA", cs, len, cmd, data, seq)
             all == Len(data) + 1 >= DataLen(len, cmd)
         IN  Parse(r, b) = Rx(IF all THEN AfterData(cmd) ELSE "DATA", (cs + b) % 256,
                              len, cmd, Append(data, b), seq)
<1> DEFINE r == Rx("DATA", cs, len, cmd, data, seq)
           s == Rx("DATA", (cs + b) % 256, len, cmd, data, seq)
<1>1. Parse(r, b) = OnData(s, b)
  BY DEF Parse, Rx
<1>2. s.len = len /\ s.cmd = cmd /\ s.data = data
  BY DEF Rx
<1> QED
  BY <1>1, <1>2 DEF OnData, Rx

LEMMA ParseSeq ==
  ASSUME NEW b, NEW cs, NEW len, NEW cmd, NEW data, NEW seq
  PROVE  Parse(Rx("SEQ", cs, len, cmd, data, seq), b)
           = Rx("CS", (cs + b) % 256, len, cmd, data, b)
  BY DEF Parse, Rx

LEMMA ParseCs ==
  ASSUME NEW b, NEW cs, NEW len, NEW cmd, NEW data, NEW seq
  PROVE  Parse(Rx("CS", cs, len, cmd, data, seq), b) = Idle
  BY DEF Parse, Rx, AfterMismatch

LEMMA CompletesRx ==
  ASSUME NEW state, NEW cs, NEW len, NEW cmd, NEW data, NEW seq, NEW b
  PROVE  /\ Completes(Rx(state, cs, len, cmd, data, seq), b) <=> state = "CS" /\ cs = b
         /\ ~Completes(Idle, b)
         /\ FrameOf(Rx(state, cs, len, cmd, data, seq))
              = [cmd |-> cmd, data |-> data, seq |-> IF WithSeq(cmd) THEN seq ELSE 0]
  BY DEF Completes, Rx, Idle, FrameOf

LEMMA DataLenFacts ==
  ASSUME NEW f \in Frame
  PROVE  /\ DataLen(LenField(f), f.cmd) = Len(f.data)
         /\ LengthOk(LenField(f))
<1>1. Len(f.data) \in Nat /\ LenField(f) \in 1..(MaxData + 2)
  BY FrameFacts
<1>2. CASE WithSeq(f.cmd)
  BY <1>1, <1>2 DEF DataLen, LenField, LengthOk
<1>3. CASE ~WithSeq(f.cmd)
  BY <1>1, <1>3 DEF DataLen, LenField, LengthOk
<1> QED
  BY <1>2, <1>3

(* In step, the parser takes each byte of a frame for what it is ... *)
LEMMA ParseInStep ==
  ASSUME NEW f \in Frame, NEW p \in 0..(Len(Body(f)) - 1)
  PROVE  /\ Parse(Reached(f, p), Wire(f)[p + 1]) = Reached(f, p + 1)
         /\ ~Completes(Reached(f, p), Wire(f)[p + 1])
<1> DEFINE d == Len(f.data)
           n == Len(Body(f))
           w == Wire(f)
           sum == Sums(Body(f))
           len == LenField(f)
           b == w[p + 1]
<1>1. /\ p \in Nat /\ p < n /\ d \in Nat /\ d <= MaxData
      /\ p \in 0..n /\ p + 1 \in 0..n
      /\ n = 4 + d + SeqLen(f)
  BY WireFacts, FrameFacts
<1>2. (sum[p] + b) % 256 = sum[p + 1] /\ sum[0] = 0
  BY SumStep
<1>3. /\ w[1] = Header1 /\ w[2] = Header2 /\ w[3] = len /\ w[4] = f.cmd
      /\ \A k \in 1..d : w[4 + k] = f.data[k]
      /\ WithSeq(f.cmd) => w[5 + d] = f.seq
  BY WireFacts
<1>4. DataLen(len, f.cmd) = d /\ LengthOk(len)
  BY DataLenFacts
<1>5. AfterData(f.cmd) = IF WithSeq(f.cmd) THEN "SEQ" ELSE "CS"
  BY DEF AfterData
<1> HIDE DEF d, n, w, sum, len, b
<1>6. CASE p = 0
  <2>1. b = Header1 /\ p + 1 = 1
    BY <1>3, <1>6 DEF b
  <2>2. Reached(f, p) = Idle /\ Reached(f, p + 1) = Rx("HEADER2", sum[1], 0, 0, <<>>, 0)
    BY <1>1, <1>6, ReachedFacts DEF n, sum
  <2>3. (0 + b) % 256 = sum[1]
    BY <1>2, <1>6
  <2> QED
    BY <2>1, <2>2, <2>3, ParseIdle, CompletesRx DEF b, w
<1>7. CASE p = 1
  <2>1. b = Header2 /\ p + 1 = 2
    BY <1>3, <1>7 DEF b
  <2>2. /\ Reached(f, p) = Rx("HEADER2", sum[p], 0, 0, <<>>, 0)
        /\ Reached(f, p + 1) = Rx("LENGTH", sum[p + 1], 0, 0, <<>>, 0)
    BY <1>1, <1>7, <2>1, ReachedFacts DEF n, sum
  <2> QED
    BY <1>2, <2>1, <2>2, ParseHeader2, CompletesRx DEF b, w
<1>8. CASE p = 2
  <2>1. b = len /\ p + 1 = 3
    BY <1>3, <1>8 DEF b
  <2>2. /\ Reached(f, p) = Rx("LENGTH", sum[p], 0, 0, <<>>, 0)
        /\ Reached(f, p + 1) = Rx("CMD", sum[p + 1], len, 0, <<>>, 0)
    BY <1>1, <1>8, <2>1, ReachedFacts DEF n, sum, len
  <2> QED
    BY <1>2, <1>4, <2>1, <2>2, ParseLength, CompletesRx DEF b, w
<1>9. CASE p = 3
  <2>1. b = f.cmd /\ p + 1 = 4
    BY <1>3, <1>9 DEF b
  <2>2. Reached(f, p) = Rx("CMD", sum[p], len, 0, <<>>, 0)
    BY <1>1, <1>9, ReachedFacts DEF n, sum, len
  <2>3. ~(d < 0 \/ d > MaxData)
    BY <1>1, MaxDataRange
  <2>4. CASE d > 0
    <3>1. SubSeq(f.data, 1, p + 1 - 4) = <<>>
      BY <2>1, FrameFacts, SubSeqFacts
    <3>2. Reached(f, p + 1) = Rx("DATA", sum[p + 1], len, f.cmd, SubSeq(f.data, 1, p + 1 - 4), 0)
      BY <1>1, <2>1, <2>4, ReachedFacts DEF n, sum, len, d
    <3>3. Parse(Reached(f, p), b) = Rx("DATA", sum[p + 1], len, f.cmd, <<>>, 0)
      BY <1>2, <1>4, <2>1, <2>2, <2>3, <2>4, ParseCmd
    <3>4. Parse(Reached(f, p), b) = Reached(f, p + 1)
      BY <3>1, <3>2, <3>3
    <3> QED
      BY <2>2, <3>4, CompletesRx DEF b, w
  <2>5. CASE ~(d > 0)
    <3>1. f.data = <<>>
      BY <1>1, <2>5, FrameFacts DEF d
    <3>2. Parse(Reached(f, p), b) = Rx(AfterData(f.cmd), sum[p + 1], len, f.cmd, <<>>, 0)
      BY <1>2, <1>4, <2>1, <2>2, <2>3, <2>5, ParseCmd
    <3>3. Reached(f, p + 1) = Rx(AfterData(f.cmd), sum[p + 1], len, f.cmd, f.data, 0)
      <4>1. p + 1 = 4 + d
        BY <1>1, <2>1, <2>5
      <4>2. CASE WithSeq(f.cmd)
        BY <1>1, <1>5, <4>1, <4>2, ReachedFacts DEF n, sum, len, d
      <4>3. CASE ~WithSeq(f.cmd)
        BY <1>1, <1>5, <4>1, <4>3, ReachedFacts DEF n, sum, len, d
      <4> QED
        BY <4>2, <4>3
    <3> QED
      BY <2>2, <3>1, <3>2, <3>3, CompletesRx DEF b, w
  <2> QED
    BY <2>4, <2>5
<1>10. CASE p >= 4 /\ p < 4 + d
  <2> DEFINE done == SubSeq(f.data, 1, p - 4)
  <2>1. p - 4 \in 0..(d - 1) /\ p - 4 \in 0..d /\ p - 3 \in 1..d /\ 4 + (p - 3) = p + 1 /\ p - 4 + 1 = p - 3
        /\ p + 1 - 4 = p - 3
    BY <1>1, <1>10
  <2>2. b = f.data[p - 3]
    BY <1>3, <2>1 DEF b
  <2>3. /\ Len(done) = p - 4
        /\ SubSeq(f.data, 1, p - 3) = Append(done, b)
        /\ SubSeq(f.data, 1, d) = f.data
    <3>1. f.data \in Seq(Byte)
      BY FrameFacts
    <3>2. SubSeq(f.data, 1, p - 4 + 1) = Append(done, f.data[p - 4 + 1])
      BY <2>1, <3>1, SubSeqFacts DEF d
    <3> QED
      BY <2>1, <2>2, <3>1, <3>2, SubSeqFacts DEF d
  <2>4. Reached(f, p) = Rx("DATA", sum[p], len, f.cmd, done, 0)
    BY <1>1, <1>10, ReachedFacts DEF n, sum, len, d
  <2> HIDE DEF done
  <2>5. CASE p + 1 < 4 + d
    <3>1. ~(Len(done) + 1 >= DataLen(len, f.cmd))
      BY <1>1, <1>4, <2>3, <2>5
    <3>2. Parse(Reached(f, p), b) = Rx("DATA", sum[p + 1], len, f.cmd, Append(done, b), 0)
      BY <1>2, <2>4, <3>1, ParseData
    <3>3. Reached(f, p + 1) = Rx("DATA", sum[p + 1], len, f.cmd, SubSeq(f.data, 1, p + 1 - 4), 0)
      BY <1>1, <1>10, <2>5, ReachedFacts DEF n, sum, len, d
    <3>4. p + 1 - 4 = p - 3
      BY <2>1
    <3>5. Parse(Reached(f, p), b) = Reached(f, p + 1)
      BY <2>3, <3>2, <3>3, <3>4
    <3> QED
      BY <2>4, <3>5, CompletesRx DEF b, w
  <2>6. CASE p + 1 = 4 + d
    <3>1. Len(done) + 1 >= DataLen(len, f.cmd)
      BY <1>1, <1>4, <2>3, <2>6
    <3>2. Parse(Reached(f, p), b) = Rx(AfterData(f.cmd), sum[p + 1], len, f.cmd, Append(done, b), 0)
      BY <1>2, <2>4, <3>1, ParseData
    <3>3. Append(done, b) = f.data
      BY <1>1, <2>3, <2>6
    <3>4. Reached(f, p + 1) = Rx(AfterData(f.cmd), sum[p + 1], len, f.cmd, f.data, 0)
      <4>1. CASE WithSeq(f.cmd)
        BY <1>1, <1>5, <2>6, <4>1, ReachedFacts DEF n, sum, len, d
      <4>2. CASE ~WithSeq(f.cmd)
        BY <1>1, <1>5, <2>6, <4>2, ReachedFacts DEF n, sum, len, d
      <4> QED
        BY <4>1, <4>2
    <3> QED
      BY <2>4, <3>2, <3>3, <3>4, CompletesRx DEF b, w
  <2> QED
    BY <1>1, <1>10, <2>5, <2>6
<1>11. CASE p >= 4 + d
  <2>1. p = 4 + d /\ WithSeq(f.cmd)
    BY <1>1, <1>11, SeqLenFacts
  <2>2. b = f.seq /\ p + 1 = 5 + d
    BY <1>1, <1>3, <2>1 DEF b
  <2>3. Reached(f, p) = Rx("SEQ", sum[p], len, f.cmd, f.data, 0)
    BY <1>1, <2>1, ReachedFacts DEF n, sum, len, d
  <2>4. Reached(f, p + 1) = Rx("CS", sum[p + 1], len, f.cmd, f.data, f.seq)
    BY <1>1, <2>2, ReachedFacts DEF n, sum, len, d
  <2> QED
    BY <1>2, <2>2, <2>3, <2>4, ParseSeq, CompletesRx DEF b, w
<1> QED
  BY <1>1, <1>6, <1>7, <1>8, <1>9, <1>10, <1>11

(* ... and its last byte completes the frame that was sent. *)
LEMMA ParseLast ==
  ASSUME NEW f \in Frame
  PROVE  LET n == Len(Body(f))
             r == Reached(f, n)
         IN  /\ \A b : Completes(r, b) <=> b = Wire(f)[n + 1]
             /\ FrameOf(r) = f
             /\ \A b : Parse(r, b) = Idle
<1> DEFINE d == Len(f.data)
           n == Len(Body(f))
           sum == Sums(Body(f))
           r == Reached(f, n)
<1>1. /\ d \in Nat /\ n \in 0..n /\ n = 4 + d + SeqLen(f)
      /\ Wire(f)[n + 1] = sum[n]
  BY WireFacts, FrameFacts
<1>2. f = [cmd |-> f.cmd, data |-> f.data, seq |-> f.seq] /\ (WithSeq(f.cmd) \/ f.seq = 0)
  BY FrameFacts
<1>3. CASE WithSeq(f.cmd)
  <2>1. n = 5 + d
    BY <1>1, <1>3, SeqLenFacts
  <2>2. r = Rx("CS", sum[n], LenField(f), f.cmd, f.data, f.seq)
    BY <1>1, <2>1, ReachedFacts
  <2> HIDE DEF r, n, sum
  <2>3. FrameOf(r) = [cmd |-> f.cmd, data |-> f.data, seq |-> f.seq]
    BY <2>2, <1>3, CompletesRx
  <2>4. \A b : Completes(r, b) <=> b = sum[n]
    BY <2>2, CompletesRx
  <2>5. \A b : Parse(r, b) = Idle
    BY <2>2, ParseCs
  <2> QED
    BY <1>1, <1>2, <2>3, <2>4, <2>5 DEF r, n, sum
<1>4. CASE ~WithSeq(f.cmd)
  <2>1. n = 4 + d
    BY <1>1, <1>4, SeqLenFacts
  <2>2. r = Rx("CS", sum[n], LenField(f), f.cmd, f.data, 0)
    BY <1>1, <1>4, <2>1, ReachedFacts
  <2> HIDE DEF r, n, sum
  <2>3. FrameOf(r) = [cmd |-> f.cmd, data |-> f.data, seq |-> 0]
    BY <2>2, <1>4, CompletesRx
  <2>4. \A b : Completes(r, b) <=> b = sum[n]
    BY <2>2, CompletesRx
  <2>5. \A b : Parse(r, b) = Idle
    BY <2>2, ParseCs
  <2> QED
    BY <1>1, <1>2, <1>4, <2>3, <2>4, <2>5 DEF r, n, sum
<1> QED
  BY <1>3, <1>4

-----------------------------------------------------------------------------
(* What every byte leaves the parser in. *)
LEMMA RxFields ==
  ASSUME NEW r, RxOK(r)
  PROVE  /\ r = Rx(r.state, r.cs, r.len, r.cmd, r.data, r.seq)
         /\ r.state \in States /\ r.cs \in Byte /\ r.len \in 0..(MaxData + 2)
         /\ r.cmd \in Byte /\ r.data \in Seq(Byte) /\ r.seq \in Byte
         /\ Len(r.data) \in Nat
  BY DEF RxOK, Rx

RxParts(state, cs, len, cmd, data, seq) ==
  /\ state \in States /\ state # "IDLE"
  /\ cs \in Byte /\ len \in 0..(MaxData + 2) /\ cmd \in Byte
  /\ data \in Seq(Byte) /\ Len(data) <= MaxData /\ seq \in Byte
  /\ state = "CMD" => len > 0
  /\ state \in {"HEADER2", "LENGTH", "CMD"} => data = <<>>
  /\ state = "DATA" => Len(data) < DataLen(len, cmd) /\ DataLen(len, cmd) <= MaxData

LEMMA RxIsOK ==
  ASSUME NEW state, NEW cs, NEW len, NEW cmd, NEW data, NEW seq,
         RxParts(state, cs, len, cmd, data, seq)
  PROVE  RxOK(Rx(state, cs, len, cmd, data, seq))
  BY DEF RxParts, RxOK, Rx

LEMMA IdleIsOK == RxOK(Idle)
<1>1. 0 \in Byte /\ 0 \in 0..(MaxData + 2) /\ <<>> \in Seq(Byte) /\ Len(<<>>) = 0
  BY MaxDataRange DEF Byte
<1>2. Idle.state = "IDLE" /\ Idle.data = <<>>
  BY DEF Idle
<1>3. Idle \in [state : States, cs : Byte, len : 0..(MaxData + 2), cmd : Byte,
                data : Seq(Byte), seq : Byte]
  BY <1>1 DEF Idle, States
<1>4. Len(Idle.data) <= MaxData
  BY <1>1, <1>2, MaxDataRange
<1> QED
  BY <1>2, <1>3, <1>4 DEF RxOK

LEMMA AddIsByte ==
  ASSUME NEW a \in Byte, NEW b \in Byte
  PROVE  (a + b) % 256 \in Byte
<1>1. a + b \in Nat
  BY ByteFacts
<1> QED
  BY <1>1, ByteFacts

LEMMA DataLenRange ==
  ASSUME NEW len \in 0..(MaxData + 2), NEW cmd
  PROVE  /\ DataLen(len, cmd) \in Int
         /\ WithSeq(cmd) => DataLen(len, cmd) = len - 2
         /\ ~WithSeq(cmd) => DataLen(len, cmd) = len - 1
<1>1. len \in Int
  OBVIOUS
<1>2. CASE WithSeq(cmd)
  BY <1>1, <1>2 DEF DataLen
<1>3. CASE ~WithSeq(cmd)
  BY <1>1, <1>3 DEF DataLen
<1> QED
  BY <1>2, <1>3

LEMMA RxOKStep ==
  ASSUME NEW r, RxOK(r), NEW b \in Byte
  PROVE  RxOK(Parse(r, b))
<1> DEFINE cs == (r.cs + b) % 256
<1>1. /\ r = Rx(r.state, r.cs, r.len, r.cmd, r.data, r.seq)
      /\ r.state \in States /\ r.cs \in Byte /\ r.len \in 0..(MaxData + 2)
      /\ r.cmd \in Byte /\ r.data \in Seq(Byte) /\ r.seq \in Byte
      /\ Len(r.data) \in Nat
  BY RxFields
<1>2. cs \in Byte /\ RxOK(Idle)
  BY <1>1, AddIsByte, IdleIsOK
<1>3. /\ r.state = "IDLE" => r = Idle
      /\ r.state = "CMD" => r.len > 0
      /\ r.state \in {"HEADER2", "LENGTH", "CMD"} => r.data = <<>>
      /\ r.state = "DATA" => Len(r.data) < DataLen(r.len, r.cmd) /\ DataLen(r.len, r.cmd) <= MaxData
      /\ Len(r.data) <= MaxData
  BY DEF RxOK
<1>4. \A cmd : AfterData(cmd) \in {"SEQ", "CS"}
  BY DEF AfterData
<1>5. {"IDLE", "HEADER2", "LENGTH", "CMD", "DATA", "SEQ", "CS"} = States
  BY DEF States
<1>6. CASE r.state = "IDLE"
  <2>1. /\ (0 + b) % 256 \in Byte /\ 0 \in Byte /\ 0 \in 0..(MaxData + 2)
        /\ <<>> \in Seq(Byte) /\ Len(<<>>) <= MaxData
    <3>1. 0 \in Byte
      BY DEF Byte
    <3> QED
      BY <3>1, AddIsByte, MaxDataRange
  <2>2. RxOK(Rx("HEADER2", (0 + b) % 256, 0, 0, <<>>, 0))
    BY <2>1, <1>5, RxIsOK DEF RxParts, States
  <2> QED
    BY <1>2, <1>3, <1>6, <2>2, ParseIdle
<1>7. CASE r.state = "HEADER2"
  <2>1. RxOK(Rx("LENGTH", cs, r.len, r.cmd, r.data, r.seq))
    BY <1>1, <1>2, <1>3, <1>5, <1>7, RxIsOK DEF RxParts, States
  <2>2. r = Rx("HEADER2", r.cs, r.len, r.cmd, r.data, r.seq)
    BY <1>1, <1>7
  <2> QED
    BY <1>2, <2>1, <2>2, ParseHeader2
<1>8. CASE r.state = "LENGTH"
  <2>1. ASSUME LengthOk(b) PROVE RxOK(Rx("CMD", cs, b, r.cmd, r.data, r.seq))
    <3>1. b \in 0..(MaxData + 2) /\ b > 0
      BY <2>1, MaxDataRange DEF LengthOk
    <3> QED
      BY <1>1, <1>2, <1>3, <1>5, <1>8, <3>1, RxIsOK DEF RxParts, States
  <2>2. r = Rx("LENGTH", r.cs, r.len, r.cmd, r.data, r.seq)
    BY <1>1, <1>8
  <2> QED
    BY <1>2, <2>1, <2>2, ParseLength
<1>9. CASE r.state = "CMD"
  <2> DEFINE n == DataLen(r.len, b)
  <2>1. r = Rx("CMD", r.cs, r.len, r.cmd, r.data, r.seq)
    BY <1>1, <1>9
  <2>2. n \in Int /\ Len(r.data) = 0
    BY <1>1, <1>3, <1>9, DataLenRange
  <2>3. ASSUME n > 0, n <= MaxData PROVE RxOK(Rx("DATA", cs, r.len, b, r.data, r.seq))
    <3>1. Len(r.data) < n
      BY <2>2, <2>3
    <3> QED
      BY <1>1, <1>2, <1>3, <1>5, <2>3, <3>1, RxIsOK DEF RxParts, States
  <2>4. RxOK(Rx(AfterData(b), cs, r.len, b, r.data, r.seq))
    BY <1>1, <1>2, <1>3, <1>4, <1>5, RxIsOK DEF RxParts, States
  <2> HIDE DEF n, cs
  <2>5. CASE n < 0 \/ n > MaxData
    BY <1>2, <2>1, <2>5, ParseCmd DEF n
  <2>6. CASE ~(n < 0 \/ n > MaxData) /\ n > 0
    <3>1. Parse(r, b) = Rx("DATA", cs, r.len, b, r.data, r.seq)
      BY <2>1, <2>6, ParseCmd DEF n, cs
    <3>2. n <= MaxData
      BY <2>2, <2>6, MaxDataRange
    <3> QED
      BY <2>3, <2>6, <3>1, <3>2
  <2>7. CASE ~(n < 0 \/ n > MaxData) /\ ~(n > 0)
    <3>1. Parse(r, b) = Rx(AfterData(b), cs, r.len, b, r.data, r.seq)
      BY <2>1, <2>7, ParseCmd DEF n, cs
    <3> QED
      BY <2>4, <3>1
  <2> QED
    BY <2>5, <2>6, <2>7
<1>10. CASE r.state = "DATA"
  <2> DEFINE n == DataLen(r.len, r.cmd)
             data == Append(r.data, b)
             all == Len(r.data) + 1 >= n
             state == IF all THEN AfterData(r.cmd) ELSE "DATA"
  <2>1. r = Rx("DATA", r.cs, r.len, r.cmd, r.data, r.seq)
    BY <1>1, <1>10
  <2>2. n \in Int /\ Len(r.data) < n /\ n <= MaxData
    BY <1>1, <1>3, <1>10, DataLenRange
  <2>3. data \in Seq(Byte) /\ Len(data) = Len(r.data) + 1
    BY <1>1
  <2>4. Len(data) <= MaxData
    BY <1>1, <2>2, <2>3, MaxDataRange
  <2>5. state \in States /\ state # "IDLE" /\ state \notin {"HEADER2", "LENGTH", "CMD"}
    BY <1>4, <1>5
  <2>6. state = "DATA" => Len(data) < n /\ n <= MaxData
    BY <1>1, <1>4, <2>2, <2>3
  <2>7. RxOK(Rx(state, cs, r.len, r.cmd, data, r.seq))
    <3> HIDE DEF state, data, n
    <3> QED
      BY <1>1, <1>2, <2>3, <2>4, <2>5, <2>6, RxIsOK DEF RxParts, States, n
  <2> QED
    BY <2>1, <2>7, ParseData
<1>11. CASE r.state = "SEQ"
  <2>1. r = Rx("SEQ", r.cs, r.len, r.cmd, r.data, r.seq)
    BY <1>1, <1>11
  <2>2. RxOK(Rx("CS", cs, r.len, r.cmd, r.data, b))
    BY <1>1, <1>2, <1>3, <1>5, RxIsOK DEF RxParts, States
  <2> QED
    BY <2>1, <2>2, ParseSeq
<1>12. CASE r.state = "CS"
  <2>1. r = Rx("CS", r.cs, r.len, r.cmd, r.data, r.seq)
    BY <1>1, <1>12
  <2> QED
    BY <1>2, <2>1, ParseCs
<1> QED
  BY <1>1, <1>5, <1>6, <1>7, <1>8, <1>9, <1>10, <1>11, <1>12

-----------------------------------------------------------------------------
(* Scripts, places and how long frames are. *)
LEMMA ScriptFacts ==
  ASSUME NEW s \in Scripts
  PROVE  /\ s \in Seq(Frame) /\ Len(s) \in Nat /\ Len(s) >= 1 /\ DOMAIN s = 1..Len(s)
         /\ \A k \in DOMAIN s :
              /\ s[k] \in Frame
              /\ Wires[s][k] = Wire(s[k])
              /\ NextTurn(s, k) \in DOMAIN s
<1>1. s \in Seq(Frame) /\ s # <<>>
  BY LinkAssumption
<1>2. Len(s) \in Nat /\ Len(s) >= 1 /\ DOMAIN s = 1..Len(s)
  BY <1>1
<1>3. \A k \in DOMAIN s : s[k] \in Frame
  BY <1>1, <1>2
<1>4. \A k \in DOMAIN s : Wires[s][k] = Wire(s[k])
  BY DEF Wires
<1>5. \A k \in DOMAIN s : NextTurn(s, k) \in DOMAIN s
  BY <1>2 DEF NextTurn
<1> QED
  BY <1>1, <1>2, <1>3, <1>4, <1>5

LEMMA LengthFacts ==
  ASSUME NEW s \in Scripts, NEW k \in DOMAIN s
  PROVE  LET w == Wires[s][k]
         IN  /\ Len(w) \in Nat /\ Len(w) >= 5 /\ Len(w) <= MaxData + 6
             /\ Len(w) = Len(Body(s[k])) + 1
             /\ \A n \in 1..Len(w) : w[n] \in Byte
             /\ w[1] = Header1 /\ w[2] = Header2
             /\ LengthOk(w[3])
<1> DEFINE f == s[k]
           n == Len(Body(f))
<1>1. f \in Frame /\ Wires[s][k] = Wire(f)
  BY ScriptFacts
<1>2. /\ n \in 4..(MaxData + 5) /\ Wire(f) \in Seq(Byte) /\ Len(Wire(f)) = n + 1
      /\ Wire(f)[1] = Header1 /\ Wire(f)[2] = Header2 /\ Wire(f)[3] = LenField(f)
  BY <1>1, WireFacts
<1>3. \A i \in 1..Len(Wire(f)) : Wire(f)[i] \in Byte
  BY <1>2
<1>4. n \in Nat /\ n >= 4 /\ n <= MaxData + 5
  BY <1>2, MaxDataRange
<1> QED
  BY <1>1, <1>2, <1>3, <1>4, DataLenFacts, MaxDataRange

LEMMA ShortestFacts ==
  ASSUME NEW s \in Scripts
  PROVE  /\ Shortest(s) \in Nat /\ Shortest(s) >= 5
         /\ \A k \in DOMAIN s : Shortest(s) <= Len(Wires[s][k])
<1> DEFINE S == {Len(Wires[s][k]) : k \in DOMAIN s}
<1>1. S \subseteq Nat /\ S # {} /\ \A x \in S : x >= 5
  <2>1. 1 \in DOMAIN s
    BY ScriptFacts
  <2>2. \A k \in DOMAIN s : Len(Wires[s][k]) \in Nat /\ Len(Wires[s][k]) >= 5
    BY LengthFacts
  <2> QED
    BY <2>1, <2>2
<1>2. PICK x \in S : \A y \in S : x <= y
  BY <1>1, Least
<1>3. Min(S) \in S /\ \A y \in S : Min(S) <= y
  BY <1>2 DEF Min
<1>4. Shortest(s) = Min(S)
  BY DEF Shortest
<1> QED
  BY <1>1, <1>3, <1>4

LEMMA SpoiltFacts ==
  ASSUME NEW s
  PROVE  /\ Spoilt(s) \in {1, 2}
         /\ \A k \in DOMAIN s : EndsLikeHeader(Wires[s][k]) => Spoilt(s) = 2
  BY DEF Spoilt

LEMMA TimesGrows ==
  ASSUME NEW x \in Int, NEW y \in Int, NEW t \in Nat, x <= y
  PROVE  /\ x * t \in Int
         /\ x * t <= y * t
         /\ (y + 1) * t = y * t + t
         /\ 0 * t = 0
<1>1. (y - x) * t >= 0
  OBVIOUS
<1> QED
  BY <1>1

(* Fewer misses are never too many. *)
LEMMA EnoughIf ==
  ASSUME NEW s \in Scripts, NEW m \in Nat, NEW m1 \in Nat,
         \/ m1 <= m + 1 /\ m * Shortest(s) <= MaxData + 6
         \/ m1 <= m + 1 /\ Spoilt(s) = 2 /\ (m - 1) * Shortest(s) <= MaxData + 6
  PROVE  Enough(s, m1)
<1> DEFINE t == Shortest(s)
           B == MaxData + 6
<1>1. t \in Nat /\ B \in Int
  BY ShortestFacts, MaxDataRange
<1>2. Enough(s, m1) <=> (m1 - Spoilt(s)) * t <= B
  BY DEF Enough
<1> HIDE DEF t
<1>3. CASE m1 <= m + 1 /\ m * t <= B
  <2>1. m1 - Spoilt(s) \in Int /\ m1 - Spoilt(s) <= m
    BY <1>3, SpoiltFacts
  <2>2. (m1 - Spoilt(s)) * t <= m * t /\ (m1 - Spoilt(s)) * t \in Int /\ m * t \in Int
    BY <2>1, <1>1, TimesGrows
  <2> QED
    BY <2>2, <1>1, <1>2, <1>3
<1>4. CASE m1 <= m + 1 /\ Spoilt(s) = 2 /\ (m - 1) * t <= B
  <2>1. m1 - Spoilt(s) \in Int /\ m1 - Spoilt(s) <= m - 1 /\ m - 1 \in Int
    BY <1>4
  <2>2. /\ (m1 - Spoilt(s)) * t <= (m - 1) * t
        /\ (m1 - Spoilt(s)) * t \in Int /\ (m - 1) * t \in Int
    BY <2>1, <1>1, TimesGrows
  <2> QED
    BY <2>2, <1>1, <1>2, <1>4
<1> QED
  BY <1>3, <1>4 DEF t

LEMMA PlaceFacts ==
  ASSUME NEW s \in Scripts, NEW a, Place(s, a)
  PROVE  LET w == Wires[s][a.turn]
             b == After(s, a)
         IN  /\ a.turn \in DOMAIN s /\ a.n \in Nat /\ a.n >= 1 /\ a.n <= Len(w)
             /\ Place(s, b)
             /\ a.n = Len(w) => b.turn = NextTurn(s, a.turn) /\ b.n = 1
             /\ a.n # Len(w) => b.turn = a.turn /\ b.n = a.n + 1
<1> DEFINE w == Wires[s][a.turn]
           b == After(s, a)
<1>1. a.turn \in DOMAIN s /\ a.n \in 1..Len(w)
  BY DEF Place
<1>2. Len(w) \in Nat
  BY <1>1, LengthFacts
<1>3. a.n \in Nat /\ a.n >= 1 /\ a.n <= Len(w)
  BY <1>1, <1>2
<1>4. /\ a.n = Len(w) => b.turn = NextTurn(s, a.turn) /\ b.n = 1
      /\ a.n # Len(w) => b.turn = a.turn /\ b.n = a.n + 1
  BY DEF After
<1>5. Place(s, b)
  <2>1. CASE a.n = Len(w)
    <3>1. b.turn \in DOMAIN s /\ b.n = 1
      BY <1>1, <1>4, <2>1, ScriptFacts
    <3>2. 1 \in 1..Len(Wires[s][b.turn])
      BY <3>1, LengthFacts
    <3> QED
      BY <3>1, <3>2 DEF Place
  <2>2. CASE a.n # Len(w)
    <3>1. a.n + 1 \in 1..Len(w)
      BY <1>2, <1>3, <2>2
    <3> QED
      BY <1>1, <1>4, <2>2, <3>1 DEF Place
  <2> QED
    BY <2>1, <2>2
<1> QED
  BY <1>1, <1>3, <1>4, <1>5

-----------------------------------------------------------------------------
(* One more byte for a parser out of step. *)
Busy == {"CMD", "DATA", "SEQ", "CS"}

LEMMA RestFacts ==
  ASSUME NEW r, RxOK(r), r.state \in Busy, NEW b
  PROVE  /\ Rest(r) \in Nat /\ Rest(r) >= 1
         /\ \/ Parse(r, b) = Idle
            \/ Parse(r, b).state \in Busy /\ Rest(Parse(r, b)) = Rest(r) - 1
<1> DEFINE cs == (r.cs + b) % 256
           q == Parse(r, b)
<1>1. /\ r = Rx(r.state, r.cs, r.len, r.cmd, r.data, r.seq)
      /\ r.len \in 0..(MaxData + 2) /\ Len(r.data) \in Nat /\ r.data \in Seq(Byte)
  BY RxFields
<1>2. /\ r.state = "CMD" => r.len > 0 /\ r.data = <<>>
      /\ r.state = "DATA" => Len(r.data) < DataLen(r.len, r.cmd)
  BY DEF RxOK
<1>3. r.len \in Nat
  BY <1>1
<1>4. \A state, c, len, cmd, data, seq :
        LET x == Rx(state, c, len, cmd, data, seq)
        IN  x.state = state /\ x.len = len /\ x.cmd = cmd /\ x.data = data
  BY DEF Rx
<1>5. CASE r.state = "CMD"
  <2> DEFINE n == DataLen(r.len, b)
  <2>1. Rest(r) = r.len + 1
    BY <1>5 DEF Rest
  <2>2. r = Rx("CMD", r.cs, r.len, r.cmd, r.data, r.seq) /\ Len(r.data) = 0
    BY <1>1, <1>2, <1>5
  <2>3. n \in Int /\ (WithSeq(b) => n = r.len - 2) /\ (~WithSeq(b) => n = r.len - 1)
    BY <1>1, DataLenRange
  <2> HIDE DEF n
  <2>4. CASE n < 0 \/ n > MaxData
    BY <1>2, <1>3, <1>5, <2>1, <2>2, <2>4, ParseCmd DEF n
  <2>5. CASE ~(n < 0 \/ n > MaxData) /\ n > 0
    <3>1. q = Rx("DATA", cs, r.len, b, r.data, r.seq)
      BY <2>2, <2>5, ParseCmd DEF n
    <3>2. q.state = "DATA" /\ q.len = r.len /\ q.cmd = b /\ q.data = r.data
      BY <3>1, <1>4
    <3> HIDE DEF q
    <3>3. Rest(q) = n - 0 + IF WithSeq(b) THEN 2 ELSE 1
      BY <3>2, <2>2 DEF Rest, n
    <3>4. CASE WithSeq(b)
      BY <1>3, <2>1, <2>3, <3>2, <3>3, <3>4 DEF q, Busy
    <3>5. CASE ~WithSeq(b)
      BY <1>3, <2>1, <2>3, <3>2, <3>3, <3>5 DEF q, Busy
    <3> QED
      BY <3>4, <3>5
  <2>6. CASE ~(n < 0 \/ n > MaxData) /\ ~(n > 0)
    <3>1. q = Rx(AfterData(b), cs, r.len, b, r.data, r.seq)
      BY <2>2, <2>6, ParseCmd DEF n
    <3>2. q.state = AfterData(b)
      BY <3>1, <1>4
    <3>3. n = 0
      BY <2>3, <2>6
    <3> HIDE DEF q
    <3>4. CASE WithSeq(b)
      <4>1. q.state = "SEQ"
        BY <3>2, <3>4 DEF AfterData
      <4>2. Rest(q) = 2
        BY <4>1 DEF Rest
      <4> QED
        BY <1>3, <2>1, <2>3, <3>3, <3>4, <4>1, <4>2 DEF q, Busy
    <3>5. CASE ~WithSeq(b)
      <4>1. q.state = "CS"
        BY <3>2, <3>5 DEF AfterData
      <4>2. Rest(q) = 1
        BY <4>1 DEF Rest
      <4> QED
        BY <1>3, <2>1, <2>3, <3>3, <3>5, <4>1, <4>2 DEF q, Busy
    <3> QED
      BY <3>4, <3>5
  <2> QED
    BY <2>4, <2>5, <2>6
<1>6. CASE r.state = "DATA"
  <2> DEFINE n == DataLen(r.len, r.cmd)
             data == Append(r.data, b)
             e == IF WithSeq(r.cmd) THEN 2 ELSE 1
  <2>1. n \in Int /\ Len(r.data) < n
    BY <1>1, <1>2, <1>6, DataLenRange
  <2>2. Rest(r) = n - Len(r.data) + e
    BY <1>6 DEF Rest
  <2>3. Len(data) = Len(r.data) + 1
    BY <1>1
  <2>4. r = Rx("DATA", r.cs, r.len, r.cmd, r.data, r.seq)
    BY <1>1, <1>6
  <2>5. e \in 1..2 /\ (WithSeq(r.cmd) => e = 2) /\ (~WithSeq(r.cmd) => e = 1)
    OBVIOUS
  <2> HIDE DEF n, data, e
  <2>6. CASE Len(r.data) + 1 >= n
    <3>1. q = Rx(AfterData(r.cmd), cs, r.len, r.cmd, data, r.seq)
      BY <2>4, <2>6, ParseData DEF n, data
    <3>2. q.state = AfterData(r.cmd)
      BY <3>1, <1>4
    <3>3. Rest(r) = 1 + e
      <4>1. ASSUME NEW l \in Nat, NEW k \in Int, NEW x \in 1..2, l < k, l + 1 >= k
            PROVE  k - l + x = 1 + x
        BY <4>1
      <4> QED
        BY <1>1, <2>1, <2>2, <2>5, <2>6, <4>1
    <3> HIDE DEF q
    <3>4. CASE WithSeq(r.cmd)
      <4>1. q.state = "SEQ"
        BY <3>2, <3>4 DEF AfterData
      <4>2. Rest(q) = 2
        BY <4>1 DEF Rest
      <4> QED
        BY <2>5, <3>3, <3>4, <4>1, <4>2 DEF q, Busy
    <3>5. CASE ~WithSeq(r.cmd)
      <4>1. q.state = "CS"
        BY <3>2, <3>5 DEF AfterData
      <4>2. Rest(q) = 1
        BY <4>1 DEF Rest
      <4> QED
        BY <2>5, <3>3, <3>5, <4>1, <4>2 DEF q, Busy
    <3> QED
      BY <3>4, <3>5
  <2>7. CASE ~(Len(r.data) + 1 >= n)
    <3>1. q = Rx("DATA", cs, r.len, r.cmd, data, r.seq)
      BY <2>4, <2>7, ParseData DEF n, data
    <3>2. q.state = "DATA" /\ q.len = r.len /\ q.cmd = r.cmd /\ q.data = data
      BY <3>1, <1>4
    <3> HIDE DEF q
    <3>3. Rest(q) = n - Len(data) + e
      BY <3>2 DEF Rest, n, e
    <3> QED
      BY <1>1, <2>1, <2>2, <2>3, <2>5, <3>2, <3>3 DEF q, Busy
  <2> QED
    BY <2>6, <2>7
<1>7. CASE r.state = "SEQ"
  <2>1. Rest(r) = 2
    BY <1>7 DEF Rest
  <2>2. r = Rx("SEQ", r.cs, r.len, r.cmd, r.data, r.seq)
    BY <1>1, <1>7
  <2>3. q = Rx("CS", cs, r.len, r.cmd, r.data, b)
    BY <2>2, ParseSeq
  <2>4. q.state = "CS"
    BY <2>3, <1>4
  <2> HIDE DEF q
  <2>5. Rest(q) = 1
    BY <2>4 DEF Rest
  <2> QED
    BY <2>1, <2>4, <2>5 DEF q, Busy
<1>8. CASE r.state = "CS"
  <2>1. Rest(r) = 1
    BY <1>8 DEF Rest
  <2>2. r = Rx("CS", r.cs, r.len, r.cmd, r.data, r.seq)
    BY <1>1, <1>8
  <2> QED
    BY <2>1, <2>2, ParseCs
<1> QED
  BY <1>5, <1>6, <1>7, <1>8 DEF Busy

(* The frames missed after a byte at the place a, of m before it. *)
Misses(s, a, m, m1) ==
  /\ m \in Nat /\ m1 \in Nat
  /\ m1 <= m \/ (a.n = Len(Wires[s][a.turn]) /\ m1 <= m + 1)

(* What the parser comes to: in step, or out of step but not for long. *)
Lands(s, r, b, m) ==
  Astray(s, r, b, m) \/ (InStep(s, r, b) /\ Enough(s, m))

LEMMA IdleInStep ==
  ASSUME NEW s \in Scripts, NEW b, b.n = 1, b.turn \in DOMAIN s
  PROVE  InStep(s, Idle, b)
<1>1. s[b.turn] \in Frame
  BY ScriptFacts
<1>2. 0 \in 0..Len(Body(s[b.turn]))
  BY <1>1, WireFacts, MaxDataRange
<1>3. Reached(s[b.turn], 0) = Idle
  BY <1>1, <1>2, ReachedFacts
<1> QED
  BY <1>3 DEF InStep

LEMMA CoveringLands ==
  ASSUME NEW s \in Scripts, NEW a, Place(s, a), NEW r, RxOK(r), NEW m, NEW m1,
         Covering(s, r, a, m), Misses(s, a, m, m1)
  PROVE  Lands(s, Parse(r, a.v), After(s, a), m1)
<1> DEFINE t == Shortest(s)
           q == Parse(r, a.v)
           b == After(s, a)
           L == Len(Wires[s][a.turn])
           R == Rest(r)
           D == MaxData
<1>1. /\ a.turn \in DOMAIN s /\ a.n \in Nat /\ a.n >= 1 /\ a.n <= L
      /\ a.n = L => b.turn = NextTurn(s, a.turn) /\ b.n = 1
      /\ a.n # L => b.turn = a.turn /\ b.n = a.n + 1
  BY PlaceFacts
<1>2. t \in Nat /\ t <= L /\ L \in Nat /\ D \in Nat
  BY <1>1, ShortestFacts, LengthFacts, MaxDataRange
<1>3. r.state \in Busy /\ m * t + a.n + R <= D + 8
  BY DEF Covering, Busy
<1>4. /\ R \in Nat /\ R >= 1
      /\ q = Idle \/ (q.state \in Busy /\ Rest(q) = R - 1)
  BY <1>3, RestFacts
<1>5. m \in Nat /\ m1 \in Nat /\ (m1 <= m \/ (a.n = L /\ m1 <= m + 1))
  BY DEF Misses
<1>6. Covering(s, q, b, m1) <=> q.state \in Busy /\ m1 * t + b.n + Rest(q) <= D + 8
  BY DEF Covering, Busy
<1>7. NextTurn(s, a.turn) \in DOMAIN s
  BY <1>1, ScriptFacts
<1> HIDE DEF t, q, b, L, R, D
<1>8. m * t \in Int /\ m1 * t \in Int /\ (m + 1) * t = m * t + t
  BY <1>2, <1>5, TimesGrows
<1>9. CASE a.n = L
  <2>1. b.n = 1 /\ b.turn \in DOMAIN s
    BY <1>1, <1>7, <1>9
  <2>2. m1 * t <= m * t + t
    BY <1>2, <1>5, <1>8, TimesGrows
  <2>3. CASE q = Idle
    <3>1. m * t <= D + 6
      BY <1>1, <1>2, <1>3, <1>4, <1>8, <1>9, ShortestFacts DEF t
    <3>2. Enough(s, m1)
      BY <1>5, <3>1, EnoughIf DEF t, D
    <3>3. InStep(s, q, b)
      BY <2>1, <2>3, IdleInStep
    <3> QED
      BY <3>2, <3>3 DEF Lands, q, b
  <2>4. CASE q.state \in Busy /\ Rest(q) = R - 1
    <3>1. m1 * t + 1 + (R - 1) <= D + 8
      BY <1>1, <1>2, <1>3, <1>4, <1>8, <1>9, <2>2
    <3> QED
      BY <1>6, <2>1, <2>4, <3>1 DEF Lands, Astray, q, b
  <2> QED
    BY <1>4, <2>3, <2>4
<1>10. CASE a.n # L
  <2>1. b.n = a.n + 1 /\ m1 <= m
    BY <1>1, <1>5, <1>10
  <2>2. m1 * t <= m * t
    BY <1>2, <1>5, <2>1, TimesGrows
  <2>3. CASE q = Idle
    <3>1. m1 * t <= D + 6 /\ b.n > 1
      BY <1>1, <1>2, <1>3, <1>4, <1>8, <2>1, <2>2
    <3>2. Skipping(s, q, b, m1)
      BY <2>3, <3>1 DEF Skipping, t, D
    <3> QED
      BY <3>2 DEF Lands, Astray, q, b
  <2>4. CASE q.state \in Busy /\ Rest(q) = R - 1
    <3>1. m1 * t + (a.n + 1) + (R - 1) <= D + 8
      BY <1>1, <1>2, <1>3, <1>4, <1>8, <2>2
    <3> QED
      BY <1>6, <2>1, <2>4, <3>1 DEF Lands, Astray, q, b
  <2> QED
    BY <1>4, <2>3, <2>4
<1> QED
  BY <1>9, <1>10

LEMMA SkipsFromHere ==
  ASSUME NEW s \in Scripts, NEW b, b.n \in Nat, b.n > 1
  PROVE  Lands(s, Idle, b, 0)
<1>1. 0 * Shortest(s) <= MaxData + 6
  BY ShortestFacts, TimesGrows, MaxDataRange
<1> QED
  BY <1>1 DEF Lands, Astray, Skipping

(* A length is taken, at the right place or one behind it. *)
LEMMA LengthLands ==
  ASSUME NEW s \in Scripts, NEW b, b.n \in Nat, b.n > 1, b.n <= 5,
         NEW r, RxOK(r), r.state = "LENGTH", NEW v
  PROVE  Lands(s, Parse(r, v), b, 0)
<1>1. r = Rx("LENGTH", r.cs, r.len, r.cmd, r.data, r.seq)
  BY RxFields
<1>2. CASE LengthOk(v)
  <2> DEFINE q == Parse(r, v)
  <2>1. q = Rx("CMD", (r.cs + v) % 256, v, r.cmd, r.data, r.seq)
    BY <1>1, <1>2, ParseLength
  <2>2. q.state = "CMD" /\ q.len = v
    BY <2>1 DEF Rx
  <2> HIDE DEF q
  <2>3. Rest(q) = v + 1
    BY <2>2 DEF Rest
  <2>4. v \in Nat /\ v <= MaxData + 2
    BY <1>2, MaxDataRange DEF LengthOk
  <2>5. 0 * Shortest(s) = 0
    BY ShortestFacts, TimesGrows
  <2>6. 0 * Shortest(s) + b.n + Rest(q) <= MaxData + 8
    BY <2>3, <2>4, <2>5, MaxDataRange
  <2> QED
    BY <2>2, <2>6 DEF Lands, Astray, Covering, q
<1>3. CASE ~LengthOk(v)
  <2>1. Parse(r, v) = Idle
    BY <1>1, <1>3, ParseLength
  <2> QED
    BY <2>1, SkipsFromHere
<1> QED
  BY <1>2, <1>3

LEMMA MisledLands ==
  ASSUME NEW s \in Scripts, NEW a, Place(s, a), Sound(s, a), NEW r, RxOK(r), NEW m, NEW m1,
         Misled(s, r, a, m), Misses(s, a, m, m1)
  PROVE  Lands(s, Parse(r, a.v), After(s, a), m1)
<1> DEFINE b == After(s, a)
           w == Wires[s][a.turn]
<1>1. /\ a.turn \in DOMAIN s /\ a.n \in Nat
      /\ a.n # Len(w) => b.n = a.n + 1
  BY PlaceFacts
<1>2. Len(w) \in Nat /\ Len(w) >= 5 /\ w[1] = Header1
  BY <1>1, LengthFacts
<1>3. a.v = w[a.n]
  BY DEF Sound
<1>4. /\ m = 0
      /\ \/ r.state = "HEADER2" /\ a.n \in {1, 3}
         \/ r.state = "LENGTH" /\ a.n \in {1, 4}
  BY DEF Misled
<1>5. a.n # Len(w) /\ b.n = a.n + 1
  BY <1>1, <1>2, <1>4
<1>6. m1 = 0
  BY <1>4, <1>5 DEF Misses
<1>7. r.state = "HEADER2" => r = Rx("HEADER2", r.cs, r.len, r.cmd, r.data, r.seq)
  BY RxFields
<1> HIDE DEF b, w
<1>8. CASE r.state = "HEADER2" /\ a.n = 1
  <2>1. a.v # Header2
    BY <1>2, <1>3, <1>8 DEF Header1, Header2
  <2>2. Parse(r, a.v) = Idle
    BY <1>7, <1>8, <2>1, ParseHeader2
  <2>3. b.n \in Nat /\ b.n > 1
    BY <1>5, <1>8
  <2> QED
    BY <1>6, <2>2, <2>3, SkipsFromHere DEF b
<1>9. CASE r.state = "HEADER2" /\ a.n = 3
  <2>1. b.n = 4
    BY <1>5, <1>9
  <2>2. CASE a.v = Header2
    <3>1. Parse(r, a.v) = Rx("LENGTH", (r.cs + a.v) % 256, r.len, r.cmd, r.data, r.seq)
      BY <1>7, <1>9, <2>2, ParseHeader2
    <3>2. Parse(r, a.v).state = "LENGTH"
      BY <3>1 DEF Rx
    <3> QED
      BY <1>6, <2>1, <3>2 DEF Lands, Astray, Misled, b
  <2>3. CASE a.v # Header2
    <3>1. Parse(r, a.v) = Idle
      BY <1>7, <1>9, <2>3, ParseHeader2
    <3> QED
      BY <1>6, <2>1, <3>1, SkipsFromHere DEF b
  <2> QED
    BY <2>2, <2>3
<1>10. CASE r.state = "LENGTH"
  <2>1. b.n \in Nat /\ b.n > 1 /\ b.n <= 5
    BY <1>4, <1>5, <1>10
  <2> QED
    BY <1>6, <1>10, <2>1, LengthLands DEF b
<1> QED
  BY <1>4, <1>8, <1>9, <1>10

LEMMA SkippingLands ==
  ASSUME NEW s \in Distinct, NEW a, Place(s, a), Sound(s, a), NEW r, RxOK(r), NEW m, NEW m1,
         Skipping(s, r, a, m), Misses(s, a, m, m1)
  PROVE  Lands(s, Parse(r, a.v), After(s, a), m1)
<1> DEFINE t == Shortest(s)
           q == Parse(r, a.v)
           b == After(s, a)
           w == Wires[s][a.turn]
           L == Len(w)
           B == MaxData + 6
           free == ~EndsLikeHeader(w) /\ Spoilt(s) = 2 /\ (m - 1) * t <= B
<1>1. s \in Scripts /\ \A k \in DOMAIN s : ~HeaderInside(Wires[s][k])
  BY DEF Distinct
<1>2. /\ a.turn \in DOMAIN s /\ a.n \in Nat /\ a.n >= 1 /\ a.n <= L
      /\ a.n = L => b.turn = NextTurn(s, a.turn) /\ b.n = 1
      /\ a.n # L => b.turn = a.turn /\ b.n = a.n + 1
  BY <1>1, PlaceFacts
<1>3. t \in Nat /\ L \in Nat /\ L >= 5 /\ w[2] = Header2
  BY <1>1, <1>2, ShortestFacts, LengthFacts
<1>4. /\ a.n > 1
      /\ r = Idle \/ (r.state = "HEADER2" /\ a.n > 3 /\ w[a.n - 1] = Header1)
      /\ m * t <= B \/ free
  BY DEF Skipping
<1>5. m \in Nat /\ m1 \in Nat /\ (m1 <= m \/ (a.n = L /\ m1 <= m + 1))
  BY DEF Misses
<1>6. a.v = w[a.n]
  BY DEF Sound
<1>7. NextTurn(s, a.turn) \in DOMAIN s
  BY <1>1, <1>2, ScriptFacts
<1>8. \/ q = Idle
      \/ q.state = "HEADER2" /\ w[a.n] = Header1 /\ a.n > 2
  <2>1. CASE r = Idle
    <3>1. CASE a.v = Header1
      <4>1. a.n # 2
        <5>1. w[2] # Header1
          BY <1>3 DEF Header1, Header2
        <5> QED
          BY <1>6, <3>1, <5>1
      <4>2. q.state = "HEADER2"
        BY <2>1, <3>1, ParseIdle DEF Rx
      <4> QED
        BY <1>2, <1>4, <1>6, <3>1, <4>1, <4>2
    <3>2. CASE a.v # Header1
      BY <2>1, <3>2, ParseIdle
    <3> QED
      BY <3>1, <3>2
  <2>2. CASE r.state = "HEADER2" /\ a.n > 3 /\ w[a.n - 1] = Header1
    <3>1. r = Rx("HEADER2", r.cs, r.len, r.cmd, r.data, r.seq)
      BY <2>2, RxFields
    <3>2. a.n - 1 \in 3..(L - 1) /\ a.n - 1 + 1 = a.n
      BY <1>2, <1>3, <2>2
    <3>3. ~(w[a.n - 1] = Header1 /\ w[a.n - 1 + 1] = Header2)
      BY <1>1, <1>2, <3>2 DEF HeaderInside
    <3>4. a.v # Header2
      BY <1>6, <2>2, <3>2, <3>3
    <3> QED
      BY <3>1, <3>4, ParseHeader2
  <2> QED
    BY <1>4, <2>1, <2>2
<1>9. EndsLikeHeader(w) <=> w[L] = Header1
  BY DEF EndsLikeHeader, Last
<1>10. B \in Nat
  BY MaxDataRange
<1> HIDE DEF t, q, b, w, L
<1>11. CASE a.n = L
  <2>1. b.n = 1 /\ b.turn \in DOMAIN s /\ b.turn = NextTurn(s, a.turn) /\ m1 <= m + 1
    BY <1>2, <1>5, <1>7, <1>11
  <2>2. CASE q = Idle
    <3>1. InStep(s, q, b)
      BY <1>1, <2>1, <2>2, IdleInStep
    <3>2. Enough(s, m1)
      BY <1>1, <1>4, <1>5, <2>1, EnoughIf DEF t
    <3> QED
      BY <3>1, <3>2 DEF Lands, q, b
  <2>3. CASE q.state = "HEADER2" /\ w[a.n] = Header1
    <3>1. EndsLikeHeader(w)
      BY <1>9, <1>11, <2>3
    <3>2. m * t <= B
      BY <1>4, <3>1
    <3>3. m1 - 1 \in Int /\ m1 - 1 <= m /\ m \in Int
      BY <1>5, <2>1
    <3>4. (m1 - 1) * t <= m * t /\ (m1 - 1) * t \in Int /\ m * t \in Int
      BY <1>3, <3>3, TimesGrows
    <3>5. (m1 - 1) * t <= B
      BY <1>10, <3>2, <3>4
    <3>6. \E k \in DOMAIN s : NextTurn(s, k) = b.turn /\ EndsLikeHeader(Wires[s][k])
      BY <1>2, <2>1, <3>1 DEF w
    <3>7. Stray(s, q, b, m1)
      BY <2>1, <2>3, <3>5, <3>6 DEF Stray, t
    <3> QED
      BY <3>7 DEF Lands, Astray, q, b
  <2> QED
    BY <1>8, <2>2, <2>3
<1>12. CASE a.n # L
  <2>1. b.n = a.n + 1 /\ b.turn = a.turn /\ m1 <= m
    BY <1>2, <1>5, <1>12
  <2>2. b.n > 1 /\ (a.n > 2 => b.n > 3) /\ b.n - 1 = a.n
    BY <1>2, <2>1
  <2>3. m1 * t <= B \/ (~EndsLikeHeader(w) /\ Spoilt(s) = 2 /\ (m1 - 1) * t <= B)
    <3>1. m1 * t <= m * t /\ m1 * t \in Int /\ m * t \in Int
      BY <1>3, <1>5, <2>1, TimesGrows
    <3>2. (m1 - 1) * t <= (m - 1) * t /\ (m1 - 1) * t \in Int /\ (m - 1) * t \in Int
      <4>1. m1 - 1 \in Int /\ m - 1 \in Int /\ m1 - 1 <= m - 1
        BY <1>5, <2>1
      <4> QED
        BY <1>3, <4>1, TimesGrows
    <3>3. CASE m * t <= B
      BY <1>10, <3>1, <3>3
    <3>4. CASE free
      BY <1>10, <3>2, <3>4
    <3> QED
      BY <1>4, <3>3, <3>4
  <2>4. w = Wires[s][b.turn]
    BY <2>1 DEF w
  <2>5. q = Idle \/ (q.state = "HEADER2" /\ b.n > 3 /\ w[b.n - 1] = Header1)
    BY <1>8, <2>2
  <2>6. Skipping(s, q, b, m1)
    BY <2>2, <2>3, <2>4, <2>5 DEF Skipping, t
  <2> QED
    BY <2>6 DEF Lands, Astray, q, b
<1> QED
  BY <1>11, <1>12

LEMMA StrayLands ==
  ASSUME NEW s \in Distinct, NEW a, Place(s, a), Sound(s, a), NEW r, RxOK(r), NEW m, NEW m1,
         Stray(s, r, a, m), Misses(s, a, m, m1)
  PROVE  Lands(s, Parse(r, a.v), After(s, a), m1)
<1> DEFINE t == Shortest(s)
           b == After(s, a)
           w == Wires[s][a.turn]
           B == MaxData + 6
<1>1. s \in Scripts
  BY DEF Distinct
<1>2. a.turn \in DOMAIN s /\ a.n \in Nat /\ (a.n # Len(w) => b.turn = a.turn /\ b.n = a.n + 1)
  BY <1>1, PlaceFacts
<1>3. Len(w) \in Nat /\ Len(w) >= 5 /\ w[1] = Header1 /\ t \in Nat /\ B \in Nat
  BY <1>1, <1>2, LengthFacts, ShortestFacts, MaxDataRange
<1>4. a.n = 1 /\ r.state = "HEADER2" /\ (m - 1) * t <= B
  BY DEF Stray
<1>5. PICK k \in DOMAIN s : NextTurn(s, k) = a.turn /\ EndsLikeHeader(Wires[s][k])
  BY DEF Stray
<1>6. ~EndsLikeHeader(w)
  BY <1>5 DEF Distinct
<1>7. Spoilt(s) = 2
  BY <1>5, SpoiltFacts
<1>8. a.n # Len(w) /\ a.n + 1 = 2
  <2>1. a.n \in Nat /\ a.n = 1
    BY <1>2, <1>4
  <2> DEFINE L == Len(w)
  <2>2. L \in Nat /\ L >= 5
    BY <1>3
  <2> HIDE DEF L
  <2>3. a.n # L /\ a.n + 1 = 2
    BY <2>1, <2>2
  <2> QED
    BY <2>3 DEF L
<1>9. m \in Nat /\ m1 \in Nat /\ m1 <= m
  BY <1>8 DEF Misses
<1>10. Parse(r, a.v) = Idle
  <2>1. r = Rx("HEADER2", r.cs, r.len, r.cmd, r.data, r.seq)
    BY <1>4, RxFields
  <2>2. a.v # Header2
    BY <1>3, <1>4 DEF Sound, Header1, Header2
  <2> QED
    BY <2>1, <2>2, ParseHeader2
<1>11. (m1 - 1) * t <= B
  <2>1. t \in Nat /\ m1 - 1 \in Int /\ m - 1 \in Int /\ m1 - 1 <= m - 1
    BY <1>3, <1>9
  <2> HIDE DEF t, B
  <2>2. (m1 - 1) * t <= (m - 1) * t /\ (m1 - 1) * t \in Int /\ (m - 1) * t \in Int
    BY <2>1, TimesGrows
  <2> QED
    BY <1>3, <1>4, <2>2
<1>12. b.n = 2 /\ b.turn = a.turn
  BY <1>2, <1>8
<1>13. Skipping(s, Idle, b, m1)
  BY <1>6, <1>7, <1>11, <1>12 DEF Skipping
<1> QED
  BY <1>10, <1>13 DEF Lands, Astray

LEMMA AstrayLands ==
  ASSUME NEW s \in Distinct, NEW a, Place(s, a), Sound(s, a), NEW r, RxOK(r), NEW m, NEW m1,
         Astray(s, r, a, m), Misses(s, a, m, m1)
  PROVE  Lands(s, Parse(r, a.v), After(s, a), m1)
<1>1. s \in Scripts
  BY DEF Distinct
<1> QED
  BY <1>1, CoveringLands, MisledLands, SkippingLands, StrayLands DEF Astray

-----------------------------------------------------------------------------
(* A parser in step, and what throws it out of step. *)
LEMMA FrameAt ==
  ASSUME NEW s \in Scripts, NEW a, Place(s, a)
  PROVE  LET f == s[a.turn]
             w == Wires[s][a.turn]
             n == Len(Body(f))
         IN  /\ f \in Frame /\ w = Wire(f)
             /\ n \in Nat /\ Len(w) = n + 1 /\ Len(w) <= MaxData + 6 /\ n >= 4
             /\ n = 4 + Len(f.data) + SeqLen(f)
             /\ a.n - 1 \in 0..n /\ a.n - 1 + 1 = a.n
             /\ a.n = Len(w) => a.n - 1 = n
             /\ a.n # Len(w) => a.n - 1 \in 0..(n - 1)
<1> DEFINE f == s[a.turn]
           w == Wires[s][a.turn]
           n == Len(Body(f))
           L == Len(w)
<1>1. a.turn \in DOMAIN s /\ a.n \in Nat /\ a.n >= 1 /\ a.n <= L
  BY PlaceFacts
<1>2. f \in Frame /\ w = Wire(f)
  BY <1>1, ScriptFacts
<1>3. L \in Nat /\ L >= 5 /\ L <= MaxData + 6 /\ L = n + 1
  BY <1>1, LengthFacts
<1>4. n = 4 + Len(f.data) + SeqLen(f) /\ n \in 4..(MaxData + 5)
  BY <1>2, WireFacts
<1>5. n \in Nat /\ n >= 4
  BY <1>4, MaxDataRange
<1> HIDE DEF f, n, L, w
<1>6. /\ a.n - 1 \in 0..n /\ a.n - 1 + 1 = a.n
      /\ a.n = L => a.n - 1 = n
      /\ a.n # L => a.n - 1 \in 0..(n - 1)
  BY <1>1, <1>3, <1>5
<1> QED
  BY <1>2, <1>3, <1>4, <1>5, <1>6 DEF f, n, L, w

LEMMA StaysInStep ==
  ASSUME NEW s \in Scripts, NEW a, Place(s, a), Sound(s, a), NEW r, InStep(s, r, a)
  PROVE  /\ InStep(s, Parse(r, a.v), After(s, a))
         /\ Completes(r, a.v) <=> a.n = Len(Wires[s][a.turn])
         /\ Completes(r, a.v) => FrameOf(r) = s[a.turn]
<1> DEFINE f == s[a.turn]
           w == Wires[s][a.turn]
           n == Len(Body(f))
           b == After(s, a)
<1>1. /\ f \in Frame /\ w = Wire(f) /\ Len(w) = n + 1
      /\ a.n - 1 + 1 = a.n
      /\ a.n = Len(w) => a.n - 1 = n
      /\ a.n # Len(w) => a.n - 1 \in 0..(n - 1)
  BY FrameAt
<1>2. r = Reached(f, a.n - 1) /\ a.v = w[a.n]
  BY DEF InStep, Sound
<1>3. /\ Place(s, b)
      /\ a.n = Len(w) => b.n = 1
      /\ a.n # Len(w) => b.turn = a.turn /\ b.n = a.n + 1
  BY PlaceFacts
<1>4. CASE a.n = Len(w)
  <2>1. r = Reached(f, n) /\ a.v = Wire(f)[n + 1]
    BY <1>1, <1>2, <1>4
  <2>2. Completes(r, a.v) /\ FrameOf(r) = f /\ Parse(r, a.v) = Idle
    BY <1>1, <2>1, ParseLast
  <2>3. b.n = 1 /\ b.turn \in DOMAIN s
    BY <1>3, <1>4 DEF Place
  <2>4. InStep(s, Idle, b)
    BY <2>3, IdleInStep
  <2> QED
    BY <1>4, <2>2, <2>4
<1>5. CASE a.n # Len(w)
  <2>1. a.n - 1 \in 0..(n - 1) /\ a.v = Wire(f)[a.n - 1 + 1]
    BY <1>1, <1>2, <1>5
  <2>2. Parse(r, a.v) = Reached(f, a.n - 1 + 1) /\ ~Completes(r, a.v)
    BY <1>1, <1>2, <2>1, ParseInStep
  <2>3. b.turn = a.turn /\ b.n - 1 = a.n - 1 + 1
    <3>1. a.n \in Nat
      BY PlaceFacts
    <3> QED
      BY <1>3, <1>5, <3>1
  <2>4. InStep(s, Parse(r, a.v), b)
    BY <2>2, <2>3 DEF InStep
  <2> QED
    BY <1>5, <2>2, <2>4
<1> QED
  BY <1>4, <1>5

LEMMA InStepStates ==
  ASSUME NEW s \in Scripts, NEW a, Place(s, a), NEW r, InStep(s, r, a)
  PROVE  /\ a.n = 1 => r = Idle
         /\ a.n = 2 => \E cs : r = Rx("HEADER2", cs, 0, 0, <<>>, 0)
         /\ a.n = 3 => r.state = "LENGTH"
         /\ a.n > 3 => r.state \in Busy /\ Rest(r) + a.n = Len(Wires[s][a.turn]) + 1
<1> DEFINE f == s[a.turn]
           p == a.n - 1
           n == Len(Body(f))
           d == Len(f.data)
           e == SeqLen(f)
           sum == Sums(Body(f))
           L == Len(Wires[s][a.turn])
           R == Rest(r)
<1>1. /\ f \in Frame /\ L = n + 1 /\ n = 4 + d + e
      /\ p \in 0..n /\ a.n = p + 1
  <2>1. a.n \in Nat
    BY PlaceFacts
  <2> QED
    BY <2>1, FrameAt
<1>2. r = Reached(f, p)
  BY DEF InStep
<1>3. d \in Nat /\ e \in 0..1 /\ (WithSeq(f.cmd) <=> e = 1) /\ LenField(f) = d + e + 1
  BY <1>1, FrameFacts, SeqLenFacts
<1>4. DataLen(LenField(f), f.cmd) = d
  BY <1>1, DataLenFacts
<1>5. \A state, c, len, cmd, data, seq :
        LET x == Rx(state, c, len, cmd, data, seq)
        IN  x.state = state /\ x.len = len /\ x.cmd = cmd /\ x.data = data
  BY DEF Rx
<1>6. /\ p = 0 => r = Idle
      /\ p = 1 => r = Rx("HEADER2", sum[p], 0, 0, <<>>, 0)
      /\ p = 2 => r = Rx("LENGTH", sum[p], 0, 0, <<>>, 0)
      /\ p = 3 => r = Rx("CMD", sum[p], LenField(f), 0, <<>>, 0)
      /\ p >= 4 /\ p < 4 + d
           => r = Rx("DATA", sum[p], LenField(f), f.cmd, SubSeq(f.data, 1, p - 4), 0)
      /\ p = 4 + d /\ WithSeq(f.cmd) => r = Rx("SEQ", sum[p], LenField(f), f.cmd, f.data, 0)
      /\ p = 4 + d /\ ~WithSeq(f.cmd) => r = Rx("CS", sum[p], LenField(f), f.cmd, f.data, 0)
      /\ p = 5 + d => r = Rx("CS", sum[p], LenField(f), f.cmd, f.data, f.seq) /\ WithSeq(f.cmd)
  BY <1>1, <1>2, ReachedFacts
<1> HIDE DEF p, n, d, e, sum, L, f
<1>7. /\ p \in Nat /\ n \in Nat /\ d \in Nat /\ e \in Nat /\ e <= 1
      /\ n = 4 + d + e /\ p <= n /\ a.n = p + 1
  BY <1>1, <1>3
<1>8. a.n = 1 => r = Idle
  BY <1>6, <1>7
<1>9. a.n = 2 => r = Rx("HEADER2", sum[p], 0, 0, <<>>, 0)
  BY <1>6, <1>7
<1>10. a.n = 3 => r.state = "LENGTH"
  BY <1>5, <1>6, <1>7
<1>11. ASSUME a.n > 3 PROVE r.state \in Busy /\ R = n + 1 - p
  <2>1. CASE p = 3
    <3>1. r.state = "CMD" /\ r.len = LenField(f)
      BY <1>5, <1>6, <2>1
    <3>2. R = LenField(f) + 1
      BY <3>1 DEF Rest
    <3>3. R = n + 1 - p
      BY <1>3, <1>7, <2>1, <3>2
    <3> QED
      BY <3>1, <3>3 DEF Busy
  <2>2. CASE p >= 4 /\ p < 4 + d
    <3>1. r = Rx("DATA", sum[p], LenField(f), f.cmd, SubSeq(f.data, 1, p - 4), 0)
      BY <1>6, <2>2
    <3>2. /\ r.state = "DATA" /\ r.len = LenField(f) /\ r.cmd = f.cmd
          /\ r.data = SubSeq(f.data, 1, p - 4)
      BY <3>1 DEF Rx
    <3>3. Len(r.data) = p - 4
      <4>1. f.data \in Seq(Byte) /\ p - 4 \in 0..d
        BY <1>1, <1>7, <2>2, FrameFacts
      <4> QED
        BY <3>2, <4>1, SubSeqFacts DEF d
    <3>4. R = d - (p - 4) + IF WithSeq(f.cmd) THEN 2 ELSE 1
      BY <1>4, <3>2, <3>3 DEF Rest
    <3>5. CASE WithSeq(f.cmd)
      <4>1. e = 1 /\ R = d - (p - 4) + 2
        BY <1>3, <3>4, <3>5
      <4>2. R = n + 1 - p
        BY <1>7, <4>1
      <4> QED
        BY <3>2, <4>2 DEF Busy
    <3>6. CASE ~WithSeq(f.cmd)
      <4>1. e = 0 /\ R = d - (p - 4) + 1
        BY <1>3, <1>7, <3>4, <3>6
      <4>2. R = n + 1 - p
        BY <1>7, <4>1
      <4> QED
        BY <3>2, <4>2 DEF Busy
    <3> QED
      BY <3>5, <3>6
  <2>3. CASE p = 4 + d /\ WithSeq(f.cmd)
    <3>1. r.state = "SEQ" /\ e = 1
      BY <1>3, <1>5, <1>6, <2>3
    <3>2. R = 2 /\ n + 1 - p = 2
      BY <1>7, <2>3, <3>1 DEF Rest
    <3> QED
      BY <3>1, <3>2 DEF Busy
  <2>4. CASE p = 4 + d /\ ~WithSeq(f.cmd)
    <3>1. r.state = "CS" /\ e = 0
      BY <1>3, <1>5, <1>6, <1>7, <2>4
    <3>2. R = 1 /\ n + 1 - p = 1
      BY <1>7, <2>4, <3>1 DEF Rest
    <3> QED
      BY <3>1, <3>2 DEF Busy
  <2>5. CASE p = 5 + d
    <3>1. r.state = "CS" /\ e = 1
      BY <1>3, <1>5, <1>6, <2>5
    <3>2. R = 1 /\ n + 1 - p = 1
      BY <1>7, <2>5, <3>1 DEF Rest
    <3> QED
      BY <3>1, <3>2 DEF Busy
  <2>6. p = 3 \/ (p >= 4 /\ p < 4 + d) \/ p = 4 + d \/ p = 5 + d
    BY <1>7, <1>11
  <2> QED
    BY <2>1, <2>2, <2>3, <2>4, <2>5, <2>6
<1>12. a.n > 3 => r.state \in Busy /\ R + a.n = L + 1
  BY <1>1, <1>7, <1>11
<1> QED
  BY <1>8, <1>9, <1>10, <1>12 DEF L

LEMMA NothingMissed ==
  ASSUME NEW s \in Scripts, NEW m1 \in Nat, m1 <= 1
  PROVE  Enough(s, m1) /\ 0 * Shortest(s) = 0
<1>1. 0 * Shortest(s) = 0
  BY ShortestFacts, TimesGrows
<1>2. 0 * Shortest(s) <= MaxData + 6
  BY <1>1, MaxDataRange
<1>3. Enough(s, m1)
  BY <1>2, EnoughIf
<1> QED
  BY <1>1, <1>3

(* A damaged byte. *)
LEMMA DamageLands ==
  ASSUME NEW s \in Scripts, NEW a, Place(s, a), NEW r, RxOK(r), InStep(s, r, a),
         NEW m1, Misses(s, a, 0, m1)
  PROVE  Lands(s, Parse(r, a.v), After(s, a), m1)
<1> DEFINE b == After(s, a)
           L == Len(Wires[s][a.turn])
<1>1. /\ a.turn \in DOMAIN s /\ a.n \in Nat /\ a.n >= 1 /\ a.n <= L
      /\ a.n # L => b.turn = a.turn /\ b.n = a.n + 1
  BY PlaceFacts
<1>2. L \in Nat /\ L >= 5 /\ L <= MaxData + 6
  BY <1>1, LengthFacts
<1>3. m1 \in Nat /\ m1 <= 1 /\ (a.n # L => m1 = 0)
  BY DEF Misses
<1>4. /\ a.n = 1 => r = Idle
      /\ a.n = 2 => \E cs : r = Rx("HEADER2", cs, 0, 0, <<>>, 0)
      /\ a.n = 3 => r.state = "LENGTH"
      /\ a.n > 3 => r.state \in Busy /\ Rest(r) + a.n = L + 1
  BY InStepStates
<1>5. CASE Sound(s, a)
  BY <1>3, <1>5, StaysInStep, NothingMissed DEF Lands
<1>6. CASE ~Sound(s, a) /\ a.n < 4
  <2>1. a.n # L /\ m1 = 0 /\ b.n = a.n + 1 /\ b.n \in Nat /\ b.n > 1 /\ b.n <= 5
    <3> HIDE DEF L, b
    <3> QED
      BY <1>1, <1>2, <1>3, <1>6
  <2>2. Wires[s][a.turn][1] = Header1 /\ Wires[s][a.turn][2] = Header2
    BY <1>1, LengthFacts
  <2>3. a.n = 1 \/ a.n = 2 \/ a.n = 3
    BY <1>1, <1>6
  <2>4. CASE a.n = 1
    <3>1. a.v # Header1
      BY <1>6, <2>2, <2>4 DEF Sound
    <3>2. Parse(r, a.v) = Idle
      BY <1>4, <2>4, <3>1, ParseIdle
    <3> QED
      BY <2>1, <3>2, SkipsFromHere
  <2>5. CASE a.n = 2
    <3>1. a.v # Header2
      BY <1>6, <2>2, <2>5 DEF Sound
    <3>2. Parse(r, a.v) = Idle
      BY <1>4, <2>5, <3>1, ParseHeader2
    <3> QED
      BY <2>1, <3>2, SkipsFromHere
  <2>6. CASE a.n = 3
    BY <1>4, <2>1, <2>6, LengthLands
  <2> QED
    BY <2>3, <2>4, <2>5, <2>6
<1>7. CASE a.n >= 4
  <2>1. r.state \in Busy /\ Rest(r) + a.n = L + 1 /\ Rest(r) \in Nat
    BY <1>1, <1>4, <1>7, RestFacts
  <2>2. 0 * Shortest(s) + a.n + Rest(r) <= MaxData + 8
    <3>1. 0 * Shortest(s) = 0
      BY NothingMissed
    <3> HIDE DEF L
    <3> QED
      BY <1>1, <1>2, <2>1, <3>1, MaxDataRange
  <2>3. Covering(s, r, a, 0)
    BY <2>1, <2>2 DEF Covering, Busy
  <2> QED
    BY <2>3, CoveringLands
<1> QED
  BY <1>1, <1>5, <1>6, <1>7

(* Bytes that are missing: b comes where e was expected. *)
LEMMA GapLands ==
  ASSUME NEW s \in Scripts, NEW e, Place(s, e), NEW b, Place(s, b), Gap(s, e, b),
         NEW r, RxOK(r), InStep(s, r, e)
  PROVE  Lands(s, r, b, 0)
<1> DEFINE L == Len(Wires[s][e.turn])
           c == After(s, e)
<1>1. /\ e.turn \in DOMAIN s /\ e.n \in Nat /\ e.n >= 1 /\ e.n <= L
      /\ e.n = L => c.n = 1
      /\ e.n # L => c.n = e.n + 1
  BY PlaceFacts
<1>2. L \in Nat /\ L >= 5 /\ L <= MaxData + 6
  BY <1>1, LengthFacts
<1>3. /\ e.n = 1 => r = Idle
      /\ e.n = 2 => \E cs : r = Rx("HEADER2", cs, 0, 0, <<>>, 0)
      /\ e.n = 3 => r.state = "LENGTH"
      /\ e.n > 3 => r.state \in Busy /\ Rest(r) + e.n = L + 1
  BY InStepStates
<1>4. b.n = 1 \/ b.n = c.n
  BY DEF Gap, Follows
<1>5. 0 * Shortest(s) = 0 /\ Enough(s, 0)
  BY NothingMissed
<1>6. b.turn \in DOMAIN s
  BY DEF Place
<1> HIDE DEF L, c
<1>7. b.n = 1 \/ (e.n # L /\ b.n = e.n + 1)
  BY <1>1, <1>4
<1>8. CASE e.n = 1
  <2>1. CASE b.n = 1
    BY <1>3, <1>5, <1>6, <1>8, <2>1, IdleInStep DEF Lands
  <2>2. CASE b.n = e.n + 1
    <3>1. b.n \in Nat /\ b.n > 1
      BY <1>1, <1>8, <2>2
    <3> QED
      BY <1>3, <1>8, <3>1, SkipsFromHere
  <2> QED
    BY <1>7, <2>1, <2>2
<1>9. CASE e.n = 2
  <2>1. r.state = "HEADER2"
    BY <1>3, <1>9 DEF Rx
  <2>2. b.n \in {1, 3}
    BY <1>1, <1>7, <1>9
  <2> QED
    BY <2>1, <2>2 DEF Lands, Astray, Misled
<1>10. CASE e.n = 3
  <2>1. b.n \in {1, 4}
    BY <1>1, <1>7, <1>10
  <2> QED
    BY <1>3, <1>10, <2>1 DEF Lands, Astray, Misled
<1>11. CASE e.n > 3
  <2>1. r.state \in Busy /\ Rest(r) + e.n = L + 1 /\ Rest(r) \in Nat
    BY <1>3, <1>11, RestFacts
  <2>2. 0 * Shortest(s) + b.n + Rest(r) <= MaxData + 8
    BY <1>1, <1>2, <1>5, <1>7, <2>1, <1>11, MaxDataRange
  <2> QED
    BY <2>1, <2>2 DEF Lands, Astray, Covering, Busy
<1> QED
  BY <1>1, <1>8, <1>9, <1>10, <1>11

(* A flush. *)
LEMMA FlushLands ==
  ASSUME NEW s \in Scripts, NEW b, Place(s, b)
  PROVE  Lands(s, Idle, b, 0)
<1>1. b.turn \in DOMAIN s /\ b.n \in Nat /\ b.n >= 1
  BY PlaceFacts
<1>2. CASE b.n = 1
  BY <1>1, <1>2, IdleInStep, NothingMissed DEF Lands
<1>3. CASE b.n # 1
  BY <1>1, <1>3, SkipsFromHere
<1> QED
  BY <1>2, <1>3

-----------------------------------------------------------------------------
(* The stream as bytes are sent and read. *)
LEMMA SamePlace ==
  ASSUME NEW s, NEW b, NEW c, b.turn = c.turn, b.n = c.n
  PROVE  /\ After(s, b) = After(s, c)
         /\ \A d : Follows(s, b, d) <=> Follows(s, c, d)
         /\ \A d : Follows(s, d, b) <=> Follows(s, d, c)
         /\ \A d : Gap(s, b, d) <=> Gap(s, c, d)
         /\ \A r : InStep(s, r, b) <=> InStep(s, r, c)
         /\ \A r, m : Lands(s, r, b, m) <=> Lands(s, r, c, m)
<1>1. After(s, b) = After(s, c)
  BY DEF After
<1>2. /\ \A d : Follows(s, b, d) <=> Follows(s, c, d)
      /\ \A d : Follows(s, d, b) <=> Follows(s, d, c)
  BY <1>1 DEF Follows
<1>3. \A d : Gap(s, b, d) <=> Gap(s, c, d)
  BY <1>2 DEF Gap
<1>4. \A r : InStep(s, r, b) <=> InStep(s, r, c)
  BY DEF InStep
<1>5. ASSUME NEW r, NEW m PROVE Lands(s, r, b, m) <=> Lands(s, r, c, m)
  <2>1. Covering(s, r, b, m) <=> Covering(s, r, c, m)
    BY DEF Covering
  <2>2. Misled(s, r, b, m) <=> Misled(s, r, c, m)
    BY DEF Misled
  <2>3. Skipping(s, r, b, m) <=> Skipping(s, r, c, m)
    BY DEF Skipping
  <2>4. Stray(s, r, b, m) <=> Stray(s, r, c, m)
    BY DEF Stray
  <2> QED
    BY <1>4, <2>1, <2>2, <2>3, <2>4 DEF Lands, Astray
<1> QED
  BY <1>1, <1>2, <1>3, <1>4, <1>5

LEMMA ItemFacts ==
  ASSUME NEW s, NEW a \in Items(s)
  PROVE  Place(s, a) /\ a.v \in Byte /\ a.turn \in DOMAIN s /\ a.n \in Nat
  BY DEF Items

LEMMA GrownStream ==
  ASSUME NEW s, NEW q \in Seq(Items(s)), Len(q) >= 1, NEW y \in Items(s),
         Sound(s, y), Follows(s, q[Len(q)], y)
  PROVE  /\ \A k : SoundBut(s, q, k) => SoundBut(s, Append(q, y), k)
         /\ \A k : LinkedBut(s, q, k) => LinkedBut(s, Append(q, y), k)
<1> DEFINE g == Append(q, y)
           L == Len(q)
<1>1. /\ L \in Nat /\ Len(g) = L + 1 /\ DOMAIN q = 1..L /\ DOMAIN g = 1..(L + 1)
      /\ \A j \in 1..L : g[j] = q[j]
      /\ g[L + 1] = y
  OBVIOUS
<1>2. q[L] = g[L] /\ L >= 1
  BY <1>1
<1>3. Follows(s, q[L], y)
  OBVIOUS
<1> HIDE DEF g, L
<1>4. ASSUME NEW k, SoundBut(s, q, k), NEW j \in DOMAIN g, j # k PROVE Sound(s, g[j])
  <2>1. CASE j = L + 1
    BY <1>1, <2>1
  <2>2. CASE j # L + 1
    <3>1. j \in 1..L
      BY <1>1, <1>4, <2>2
    <3> QED
      BY <1>1, <1>4, <3>1 DEF SoundBut
  <2> QED
    BY <2>1, <2>2
<1>5. ASSUME NEW k, LinkedBut(s, q, k), NEW j \in 2..Len(g), j # k
      PROVE  Follows(s, g[j - 1], g[j])
  <2>1. CASE j = L + 1
    <3>1. j - 1 = L /\ g[j] = y
      BY <1>1, <2>1
    <3> QED
      BY <1>2, <1>3, <3>1
  <2>2. CASE j # L + 1
    <3>1. j \in 2..L /\ j \in 1..L /\ j - 1 \in 1..L
      BY <1>1, <1>5, <2>2
    <3>2. Follows(s, q[j - 1], q[j])
      BY <1>5, <3>1 DEF LinkedBut, L
    <3> QED
      BY <1>1, <3>1, <3>2
  <2> QED
    BY <2>1, <2>2
<1>6. \A k : SoundBut(s, q, k) => SoundBut(s, g, k)
  BY <1>4 DEF SoundBut
<1>7. \A k : LinkedBut(s, q, k) => LinkedBut(s, g, k)
  BY <1>5 DEF LinkedBut
<1> QED
  BY <1>6, <1>7 DEF g

(* The byte at the head is read. *)
LEMMA ReadStream ==
  ASSUME NEW s, NEW q \in Seq(Items(s)), Len(q) >= 2
  PROVE  /\ Tail(q) \in Seq(Items(s)) /\ Len(Tail(q)) = Len(q) - 1
         /\ \A j \in 1..(Len(q) - 1) : Tail(q)[j] = q[j + 1]
         /\ \A k \in Int : SoundBut(s, q, k) => SoundBut(s, Tail(q), k - 1)
         /\ \A k \in Int : LinkedBut(s, q, k) => LinkedBut(s, Tail(q), k - 1)
<1> DEFINE t == Tail(q)
           L == Len(q)
<1>1. /\ t \in Seq(Items(s)) /\ L \in Nat /\ L >= 2 /\ Len(t) = L - 1
      /\ DOMAIN t = 1..(L - 1) /\ DOMAIN q = 1..L
      /\ \A j \in 1..(L - 1) : t[j] = q[j + 1]
  OBVIOUS
<1> HIDE DEF t, L
<1>2. ASSUME NEW k \in Int, SoundBut(s, q, k), NEW j \in DOMAIN t, j # k - 1
      PROVE  Sound(s, t[j])
  <2>1. j \in 1..(L - 1) /\ j + 1 \in DOMAIN q /\ j + 1 # k
    BY <1>1, <1>2
  <2> QED
    BY <1>1, <1>2, <2>1 DEF SoundBut
<1>3. ASSUME NEW k \in Int, LinkedBut(s, q, k), NEW j \in 2..Len(t), j # k - 1
      PROVE  Follows(s, t[j - 1], t[j])
  <2>1. j \in 1..(L - 1) /\ j - 1 \in 1..(L - 1) /\ j + 1 \in 2..L /\ j + 1 # k
        /\ j - 1 + 1 = j /\ j + 1 - 1 = j
    BY <1>1, <1>3
  <2>2. Follows(s, q[j + 1 - 1], q[j + 1])
    BY <1>3, <2>1 DEF LinkedBut, L
  <2>3. t[j - 1] = q[j] /\ t[j] = q[j + 1]
    BY <1>1, <2>1
  <2> QED
    BY <2>1, <2>2, <2>3
<1>4. \A k \in Int : SoundBut(s, q, k) => SoundBut(s, t, k - 1)
  BY <1>2 DEF SoundBut
<1>5. \A k \in Int : LinkedBut(s, q, k) => LinkedBut(s, t, k - 1)
  BY <1>3 DEF LinkedBut
<1> QED
  BY <1>1, <1>4, <1>5 DEF t, L

(* A place before the stream is none in it. *)
LEMMA ButNothing ==
  ASSUME NEW s, NEW q \in Seq(Items(s)), NEW k \in Int
  PROVE  /\ k < 1 /\ SoundBut(s, q, k) => SoundBut(s, q, 0)
         /\ k < 2 /\ LinkedBut(s, q, k) => LinkedBut(s, q, 0)
  BY DEF SoundBut, LinkedBut

-----------------------------------------------------------------------------
(* The stream grows by a byte that nothing disturbs. *)
LEMMA GrowsAligned ==
  ASSUME NEW s, NEW r, NEW q \in Seq(Items(s)), Len(q) >= 1, NEW y \in Items(s),
         Sound(s, y), Follows(s, q[Len(q)], y), Aligned(s, r, q)
  PROVE  Aligned(s, r, Append(q, y))
<1>1. Append(q, y)[1] = q[1]
  OBVIOUS
<1>2. Undamaged(s, Append(q, y))
  BY GrownStream DEF Aligned, Undamaged
<1> QED
  BY <1>1, <1>2 DEF Aligned

LEMMA GrowsTouched ==
  ASSUME NEW s, NEW r, NEW m, NEW q \in Seq(Items(s)), Len(q) >= 1, NEW y \in Items(s),
         Sound(s, y), Follows(s, q[Len(q)], y), Touched(s, r, q, m)
  PROVE  Touched(s, r, Append(q, y), m)
<1> DEFINE g == Append(q, y)
           L == Len(q)
<1>1. /\ L \in Nat /\ L >= 1 /\ Len(g) = L + 1 /\ g[1] = q[1]
      /\ \A j \in 1..L : g[j] = q[j]
  OBVIOUS
<1>2. /\ \A k : SoundBut(s, q, k) => SoundBut(s, g, k)
      /\ \A k : LinkedBut(s, q, k) => LinkedBut(s, g, k)
  BY GrownStream
<1>3. Aligned(s, r, q) => Aligned(s, r, g)
  BY GrowsAligned
<1> HIDE DEF g
<1>4. \A k \in 1..(Len(q) - 1) : /\ k \in 1..(Len(g) - 1)
                                 /\ g[k] = q[k] /\ g[k + 1] = q[k + 1]
  <2> SUFFICES ASSUME NEW k \in 1..(L - 1)
               PROVE  k \in 1..(L + 1 - 1) /\ k \in 1..L /\ k + 1 \in 1..L
    BY <1>1
  <2> HIDE DEF L
  <2> QED
    BY <1>1
<1>5. Damaged(s, r, q, m) => Damaged(s, r, g, m)
  BY <1>1, <1>2, <1>4 DEF Damaged
<1>6. ASSUME Broken(s, r, q, m) PROVE Broken(s, r, g, m)
  <2>1. PICK k \in 1..(Len(q) - 1) : /\ SoundBut(s, q, 0)
                                     /\ LinkedBut(s, q, k + 1)
                                     /\ Gap(s, After(s, q[k]), q[k + 1])
    BY <1>6 DEF Broken
  <2>2. /\ SoundBut(s, g, 0) /\ LinkedBut(s, g, k + 1)
        /\ Gap(s, After(s, g[k]), g[k + 1])
    BY <1>2, <1>4, <2>1
  <2>3. InStep(s, r, g[1]) /\ m = 0 /\ k \in 1..(Len(g) - 1)
    BY <1>1, <1>4, <1>6 DEF Broken
  <2> QED
    BY <2>2, <2>3 DEF Broken
<1>7. Lost(s, r, q, m) => Lost(s, r, g, m)
  BY <1>1, <1>2 DEF Lost, Undamaged
<1> QED
  BY <1>3, <1>5, <1>6, <1>7 DEF Touched, g

(* The parser takes the byte at the head of a stream it is in step with. *)
LEMMA ReadAligned ==
  ASSUME NEW s \in Scripts, NEW r, NEW q \in Seq(Items(s)), Len(q) >= 2,
         Aligned(s, r, q)
  PROVE  /\ Aligned(s, Parse(r, q[1].v), Tail(q))
         /\ Completes(r, q[1].v) <=> q[1].n = Len(Wires[s][q[1].turn])
         /\ Completes(r, q[1].v) => FrameOf(r) = s[q[1].turn]
<1> DEFINE t == Tail(q)
           p == Parse(r, q[1].v)
<1>1. q[1] \in Items(s) /\ 1 \in DOMAIN q /\ 2 \in 2..Len(q) /\ q[2 - 1] = q[1]
  OBVIOUS
<1>2. Place(s, q[1]) /\ Sound(s, q[1]) /\ Follows(s, q[1], q[2])
  <2>1. Place(s, q[1])
    BY <1>1, ItemFacts
  <2>2. Sound(s, q[1])
    BY <1>1 DEF Aligned, Undamaged, SoundBut
  <2>3. Follows(s, q[2 - 1], q[2])
    BY <1>1 DEF Aligned, Undamaged, LinkedBut
  <2> QED
    BY <1>1, <2>1, <2>2, <2>3
<1>3. InStep(s, r, q[1])
  BY DEF Aligned
<1>4. /\ InStep(s, p, After(s, q[1]))
      /\ Completes(r, q[1].v) <=> q[1].n = Len(Wires[s][q[1].turn])
      /\ Completes(r, q[1].v) => FrameOf(r) = s[q[1].turn]
  BY <1>2, <1>3, StaysInStep
<1>5. t[1] = q[2]
  <2>1. 1 \in 1..(Len(q) - 1) /\ 1 + 1 = 2
    OBVIOUS
  <2> QED
    BY <2>1, ReadStream
<1>6. InStep(s, p, t[1])
  <2>1. q[2].turn = After(s, q[1]).turn /\ q[2].n = After(s, q[1]).n
    BY <1>2 DEF Follows
  <2> QED
    BY <1>4, <1>5, <2>1, SamePlace
<1>7. SoundBut(s, t, 0 - 1) /\ LinkedBut(s, t, 0 - 1)
  BY ReadStream DEF Aligned, Undamaged
<1>8. Undamaged(s, t)
  <2>1. t \in Seq(Items(s)) /\ 0 - 1 \in Int /\ 0 - 1 < 1 /\ 0 - 1 < 2
    BY ReadStream
  <2> QED
    BY <1>7, <2>1, ButNothing DEF Undamaged
<1> QED
  BY <1>4, <1>6, <1>8 DEF Aligned


(* What reading the byte a does to the count of missed frames. *)
Counted(s, r, a, m, m1) ==
  /\ Misses(s, a, m, m1)
  /\ Completes(r, a.v) /\ a.n = Len(Wires[s][a.turn]) /\ FrameOf(r) = s[a.turn] => m1 = 0

LEMMA ReadEnough ==
  ASSUME NEW s \in Scripts, NEW r, NEW q \in Seq(Items(s)), Len(q) >= 2,
         Aligned(s, r, q), NEW m, NEW m1, Enough(s, m), Counted(s, r, q[1], m, m1)
  PROVE  Enough(s, m1)
<1>1. /\ Completes(r, q[1].v) <=> q[1].n = Len(Wires[s][q[1].turn])
      /\ Completes(r, q[1].v) => FrameOf(r) = s[q[1].turn]
  BY ReadAligned
<1>2. m \in Nat /\ m1 \in Nat
  BY DEF Counted, Misses
<1>3. CASE q[1].n = Len(Wires[s][q[1].turn])
  <2>1. m1 = 0
    BY <1>1, <1>3 DEF Counted
  <2> QED
    BY <1>2, <2>1, NothingMissed
<1>4. CASE q[1].n # Len(Wires[s][q[1].turn])
  <2>1. m1 <= m
    BY <1>4 DEF Counted, Misses
  <2> DEFINE x == m - Spoilt(s)
             x1 == m1 - Spoilt(s)
             t == Shortest(s)
  <2>2. x \in Int /\ x1 \in Int /\ x1 <= x /\ t \in Nat
    BY <1>2, <2>1, SpoiltFacts, ShortestFacts
  <2>3. x * t <= MaxData + 6
    BY DEF Enough
  <2> HIDE DEF x, x1, t
  <2>4. x * t \in Int /\ x1 * t \in Int /\ x1 * t <= x * t
    BY <2>2, TimesGrows
  <2>5. x1 * t <= MaxData + 6
    BY <2>3, <2>4, MaxDataRange
  <2> QED
    BY <2>5 DEF Enough, x1, t
<1> QED
  BY <1>3, <1>4

LEMMA ReadTouched ==
  ASSUME NEW s \in Distinct, NEW r, RxOK(r), NEW q \in Seq(Items(s)), Len(q) >= 2,
         NEW m, NEW m1, Touched(s, r, q, m), Counted(s, r, q[1], m, m1)
  PROVE  Touched(s, Parse(r, q[1].v), Tail(q), m1)
<1> DEFINE t == Tail(q)
           p == Parse(r, q[1].v)
           a == q[1]
           L == Len(q)
<1>1. s \in Scripts
  BY DEF Distinct
<1>2. /\ L \in Nat /\ L >= 2 /\ Len(t) = L - 1 /\ t \in Seq(Items(s))
      /\ \A j \in 1..(L - 1) : t[j] = q[j + 1]
      /\ \A k \in Int : SoundBut(s, q, k) => SoundBut(s, t, k - 1)
      /\ \A k \in Int : LinkedBut(s, q, k) => LinkedBut(s, t, k - 1)
  BY ReadStream
<1>3. a \in Items(s) /\ q[2] \in Items(s) /\ 1 \in DOMAIN q /\ 2 \in 2..L /\ q[2 - 1] = a
  OBVIOUS
<1>4. Place(s, a)
  BY <1>3, ItemFacts
<1>5. Misses(s, a, m, m1) /\ m \in Nat /\ m1 \in Nat
  BY DEF Counted, Misses
<1>6. t[1] = q[2]
  <2>1. 1 \in 1..(L - 1) /\ 1 + 1 = 2
    BY <1>2
  <2> QED
    BY <1>2, <2>1
<1>7. \A k \in Int : /\ k < 2 /\ SoundBut(s, q, k) => SoundBut(s, t, 0)
                     /\ k < 3 /\ LinkedBut(s, q, k) => LinkedBut(s, t, 0)
  <2> SUFFICES ASSUME NEW k \in Int
               PROVE  /\ k < 2 /\ SoundBut(s, q, k) => SoundBut(s, t, 0)
                      /\ k < 3 /\ LinkedBut(s, q, k) => LinkedBut(s, t, 0)
    OBVIOUS
  <2>1. k - 1 \in Int /\ (k < 2 => k - 1 < 1) /\ (k < 3 => k - 1 < 2)
    OBVIOUS
  <2> QED
    BY <1>2, <2>1, ButNothing
<1> SUFFICES Touched(s, p, t, m1)
  OBVIOUS
<1> HIDE DEF t, L, p, a
(* Where the second byte follows the first, the landing is that of the stream. *)
<1>8. ASSUME Lands(s, p, After(s, a), m1), Follows(s, a, q[2]), Undamaged(s, t)
      PROVE  Touched(s, p, t, m1)
  <2>1. Lands(s, p, q[2], m1)
    <3>1. q[2].turn = After(s, a).turn /\ q[2].n = After(s, a).n
      BY <1>8 DEF Follows
    <3> QED
      BY <1>8, <3>1, SamePlace
  <2> QED
    BY <1>6, <1>8, <2>1 DEF Lands, Touched, Aligned, Lost
<1>9. CASE Aligned(s, r, q) /\ Enough(s, m)
  <2>1. Aligned(s, p, t)
    BY <1>1, <1>9, ReadAligned DEF p, t
  <2>2. Enough(s, m1)
    BY <1>1, <1>9, ReadEnough
  <2> QED
    BY <2>1, <2>2 DEF Touched
<1>10. CASE Lost(s, r, q, m)
  <2>1. Undamaged(s, q) /\ Astray(s, r, a, m)
    BY <1>10 DEF Lost, a
  <2>2. Undamaged(s, t)
    BY <1>7, <2>1 DEF Undamaged
  <2>3. Sound(s, a) /\ Follows(s, a, q[2])
    <3>1. Sound(s, a)
      BY <1>3, <2>1 DEF Undamaged, SoundBut, a
    <3>2. Follows(s, q[2 - 1], q[2])
      BY <1>3, <2>1 DEF Undamaged, LinkedBut, L
    <3> QED
      BY <1>3, <3>1, <3>2
  <2>4. Lands(s, p, After(s, a), m1)
    BY <1>4, <1>5, <2>1, <2>3, AstrayLands DEF p, a
  <2> QED
    BY <1>8, <2>2, <2>3, <2>4
<1>11. CASE Damaged(s, r, q, m)
  <2>1. PICK k \in 1..(L - 1) : SoundBut(s, q, k) /\ LinkedBut(s, q, 0)
    BY <1>11 DEF Damaged, L
  <2>2. InStep(s, r, a) /\ m = 0 /\ k \in Int
    BY <1>11, <1>2 DEF Damaged, a
  <2>3. Follows(s, a, q[2])
    <3>1. Follows(s, q[2 - 1], q[2])
      BY <1>3, <2>1 DEF LinkedBut, L
    <3> QED
      BY <1>3, <3>1
  <2>4. LinkedBut(s, t, 0)
    BY <1>7, <2>1
  <2>5. CASE k = 1
    <3>1. Lands(s, p, After(s, a), m1)
      BY <1>1, <1>4, <1>5, <2>2, DamageLands DEF p, a
    <3>2. Undamaged(s, t)
      BY <1>7, <2>1, <2>2, <2>4, <2>5 DEF Undamaged
    <3> QED
      BY <1>8, <2>3, <3>1, <3>2
  <2>6. CASE k # 1
    <3>1. k - 1 \in 1..(Len(t) - 1)
      BY <1>2, <2>1, <2>6
    <3>2. Sound(s, a)
      BY <1>3, <2>1, <2>6 DEF SoundBut, a
    <3>3. /\ InStep(s, p, After(s, a))
          /\ Completes(r, a.v) <=> a.n = Len(Wires[s][a.turn])
          /\ Completes(r, a.v) => FrameOf(r) = s[a.turn]
      BY <1>1, <1>4, <2>2, <3>2, StaysInStep DEF p, a
    <3>4. m1 = 0
      <4>1. CASE a.n = Len(Wires[s][a.turn])
        BY <3>3, <4>1 DEF Counted, a
      <4>2. CASE a.n # Len(Wires[s][a.turn])
        BY <1>5, <2>2, <4>2 DEF Misses
      <4> QED
        BY <4>1, <4>2
    <3>5. InStep(s, p, t[1])
      <4>1. q[2].turn = After(s, a).turn /\ q[2].n = After(s, a).n
        BY <2>3 DEF Follows
      <4> QED
        BY <1>6, <3>3, <4>1, SamePlace
    <3>6. SoundBut(s, t, k - 1)
      BY <1>2, <2>1, <2>2
    <3> QED
      BY <2>4, <3>1, <3>4, <3>5, <3>6 DEF Damaged, Touched
  <2> QED
    BY <2>5, <2>6
<1>12. CASE Broken(s, r, q, m)
  <2>1. PICK k \in 1..(L - 1) : /\ SoundBut(s, q, 0)
                                /\ LinkedBut(s, q, k + 1)
                                /\ Gap(s, After(s, q[k]), q[k + 1])
    BY <1>12 DEF Broken, L
  <2>2. InStep(s, r, a) /\ m = 0 /\ k \in Int
    BY <1>12, <1>2 DEF Broken, a
  <2>3. Sound(s, a)
    BY <1>3, <2>1 DEF SoundBut, a
  <2>4. /\ InStep(s, p, After(s, a))
        /\ Completes(r, a.v) <=> a.n = Len(Wires[s][a.turn])
        /\ Completes(r, a.v) => FrameOf(r) = s[a.turn]
    BY <1>1, <1>4, <2>2, <2>3, StaysInStep DEF p, a
  <2>5. m1 = 0
    <3>1. CASE a.n = Len(Wires[s][a.turn])
      BY <2>4, <3>1 DEF Counted, a
    <3>2. CASE a.n # Len(Wires[s][a.turn])
      BY <1>5, <2>2, <3>2 DEF Misses
    <3> QED
      BY <3>1, <3>2
  <2>6. SoundBut(s, t, 0)
    BY <1>7, <2>1
  <2>7. CASE k = 1
    <3>1. Gap(s, After(s, a), q[2])
      <4>1. k + 1 = 2 /\ q[k] = a
        BY <2>7 DEF a
      <4> QED
        BY <2>1, <4>1
    <3>2. Place(s, After(s, a)) /\ Place(s, q[2])
      BY <1>1, <1>3, <1>4, PlaceFacts, ItemFacts
    <3>3. RxOK(p)
      <4>1. a.v \in Byte
        BY <1>3, ItemFacts
      <4> QED
        BY <4>1, RxOKStep DEF p, a
    <3>4. Lands(s, p, q[2], 0)
      BY <1>1, <2>4, <3>1, <3>2, <3>3, GapLands
    <3>5. Undamaged(s, t)
      <4>1. k + 1 \in Int /\ k + 1 < 3
        BY <2>7
      <4> QED
        BY <1>7, <2>1, <2>6, <4>1 DEF Undamaged
    <3> QED
      BY <1>6, <2>5, <3>4, <3>5 DEF Lands, Touched, Aligned, Lost
  <2>8. CASE k # 1
    <3>1. k - 1 \in 1..(Len(t) - 1) /\ k - 1 \in 1..(L - 1) /\ k \in 1..(L - 1)
          /\ k - 1 + 1 = k /\ k + 1 \in Int /\ k + 1 - 1 = k
      BY <1>2, <2>1, <2>8
    <3>2. t[k - 1] = q[k] /\ t[k] = q[k + 1]
      BY <1>2, <3>1
    <3>3. InStep(s, p, t[1])
      <4>1. 2 # k + 1
        BY <2>1, <2>8
      <4>2. Follows(s, q[2 - 1], q[2])
        BY <1>3, <2>1, <4>1 DEF LinkedBut, L
      <4>3. q[2].turn = After(s, a).turn /\ q[2].n = After(s, a).n
        BY <1>3, <4>2 DEF Follows
      <4> QED
        BY <1>6, <2>4, <4>3, SamePlace
    <3>4. LinkedBut(s, t, k + 1 - 1)
      BY <1>2, <2>1, <3>1
    <3>5. /\ LinkedBut(s, t, k - 1 + 1)
          /\ Gap(s, After(s, t[k - 1]), t[k - 1 + 1])
      BY <2>1, <3>1, <3>2, <3>4
    <3> QED
      BY <2>5, <2>6, <3>1, <3>3, <3>5 DEF Broken, Touched
  <2> QED
    BY <2>7, <2>8
<1> QED
  BY <1>9, <1>10, <1>11, <1>12 DEF Touched


LEMMA ShorterStream ==
  ASSUME NEW s, NEW r, NEW p \in Seq(Items(s)), Len(p) >= 1, NEW x \in Items(s),
         NEW y \in Items(s), Sound(s, y), Aligned(s, r, Append(p, x))
  PROVE  LET g == Append(p, y)
             L == Len(p)
         IN  /\ InStep(s, r, g[1])
             /\ Len(g) = L + 1 /\ L \in 1..(Len(g) - 1)
             /\ g[L] = p[L] /\ g[L + 1] = y
             /\ Place(s, p[L]) /\ Sound(s, p[L])
             /\ Follows(s, p[L], x)
             /\ SoundBut(s, p, 0) /\ LinkedBut(s, p, 0)
             /\ SoundBut(s, g, 0)
             /\ LinkedBut(s, g, L + 1)
<1> DEFINE g == Append(p, y)
           q == Append(p, x)
           L == Len(p)
<1>1. /\ L \in Nat /\ L >= 1 /\ Len(g) = L + 1 /\ Len(q) = L + 1
      /\ DOMAIN p = 1..L /\ DOMAIN g = 1..(L + 1) /\ DOMAIN q = 1..(L + 1)
      /\ \A j \in 1..L : g[j] = p[j] /\ q[j] = p[j] /\ p[j] \in Items(s)
      /\ g[L + 1] = y /\ q[L + 1] = x
  OBVIOUS
<1>2. InStep(s, r, q[1]) /\ SoundBut(s, q, 0) /\ LinkedBut(s, q, 0)
  BY DEF Aligned, Undamaged
<1> SUFFICES /\ InStep(s, r, g[1])
             /\ Len(g) = L + 1 /\ L \in 1..(Len(g) - 1)
             /\ g[L] = p[L] /\ g[L + 1] = y
             /\ Place(s, p[L]) /\ Sound(s, p[L])
             /\ Follows(s, p[L], x)
             /\ SoundBut(s, p, 0) /\ LinkedBut(s, p, 0)
             /\ SoundBut(s, g, 0)
             /\ LinkedBut(s, g, L + 1)
  OBVIOUS
<1>3. Len(p) = L
  OBVIOUS
<1> HIDE DEF g, q, L
<1>4. \A j \in 1..L : Sound(s, p[j])
  <2> SUFFICES ASSUME NEW j \in 1..L PROVE Sound(s, p[j])
    OBVIOUS
  <2>1. j \in DOMAIN q /\ j # 0
    BY <1>1
  <2> QED
    BY <1>1, <1>2, <2>1 DEF SoundBut
<1>5. \A j \in 2..(L + 1) : Follows(s, q[j - 1], q[j])
  <2> SUFFICES ASSUME NEW j \in 2..(L + 1) PROVE Follows(s, q[j - 1], q[j])
    OBVIOUS
  <2>1. j \in 2..Len(q) /\ j # 0
    BY <1>1
  <2> QED
    BY <1>2, <2>1 DEF LinkedBut
<1>6. \A j \in 2..L : Follows(s, p[j - 1], p[j])
  <2> SUFFICES ASSUME NEW j \in 2..L PROVE Follows(s, p[j - 1], p[j])
    OBVIOUS
  <2>1. j \in 2..(L + 1) /\ j \in 1..L /\ j - 1 \in 1..L
    BY <1>1
  <2> QED
    BY <1>1, <1>5, <2>1
<1>7. Follows(s, p[L], x)
  <2>1. L + 1 \in 2..(L + 1) /\ L + 1 - 1 = L /\ L \in 1..L
    BY <1>1
  <2> QED
    BY <1>1, <1>5, <2>1
<1>8. SoundBut(s, p, 0) /\ LinkedBut(s, p, 0)
  BY <1>1, <1>3, <1>4, <1>6 DEF SoundBut, LinkedBut
<1>9. SoundBut(s, g, 0)
  <2> SUFFICES ASSUME NEW j \in 1..(L + 1) PROVE Sound(s, g[j])
    BY <1>1 DEF SoundBut
  <2>1. CASE j = L + 1
    BY <1>1, <2>1
  <2>2. CASE j # L + 1
    <3>1. j \in 1..L
      BY <1>1, <2>2
    <3> QED
      BY <1>1, <1>4, <3>1
  <2> QED
    BY <2>1, <2>2
<1>10. LinkedBut(s, g, L + 1)
  <2> SUFFICES ASSUME NEW j \in 2..(L + 1), j # L + 1 PROVE Follows(s, g[j - 1], g[j])
    BY <1>1 DEF LinkedBut
  <2>1. j \in 2..L /\ j \in 1..L /\ j - 1 \in 1..L
    BY <1>1
  <2> QED
    BY <1>1, <1>6, <2>1
<1>11. L \in 1..L /\ 1 \in 1..L /\ L \in 1..(Len(g) - 1)
  BY <1>1
<1>12. InStep(s, r, g[1]) /\ g[L] = p[L] /\ Place(s, p[L]) /\ Sound(s, p[L])
  <2>1. g[1] = p[1] /\ q[1] = p[1] /\ p[L] \in Items(s)
    BY <1>1, <1>11
  <2> QED
    BY <1>1, <1>2, <1>4, <1>11, <2>1, ItemFacts
<1> QED
  BY <1>1, <1>7, <1>8, <1>9, <1>10, <1>11, <1>12

(* The byte x does not get into the ring, or the chip starts anew instead. *)
LEMMA LosesTouched ==
  ASSUME NEW s \in Scripts, NEW r, RxOK(r), NEW p \in Seq(Items(s)), NEW x \in Items(s),
         NEW y \in Items(s), Sound(s, y), Gap(s, x, y), Aligned(s, r, Append(p, x))
  PROVE  Touched(s, r, Append(p, y), 0)
<1> DEFINE g == Append(p, y)
           L == Len(p)
<1>1. L \in Nat
  OBVIOUS
<1>2. CASE L = 0
  <2>1. p = <<>> /\ g = <<y>> /\ Append(p, x) = <<x>>
    BY <1>2
  <2>2. g[1] = y /\ Len(g) = 1 /\ DOMAIN g = 1..1
    BY <2>1
  <2>3. InStep(s, r, x)
    BY <2>1 DEF Aligned
  <2>4. Lands(s, r, y, 0)
    BY <2>3, ItemFacts, GapLands
  <2>5. Undamaged(s, g)
    <3> HIDE DEF g
    <3>1. SoundBut(s, g, 0)
      BY <2>2 DEF SoundBut
    <3>2. LinkedBut(s, g, 0)
      BY <2>2 DEF LinkedBut
    <3> QED
      BY <3>1, <3>2 DEF Undamaged
  <2> HIDE DEF g
  <2>6. Touched(s, r, g, 0)
    BY <2>2, <2>4, <2>5 DEF Lands, Touched, Aligned, Lost
  <2> QED
    BY <2>6 DEF g
<1>3. CASE L # 0
  <2>1. L >= 1
    BY <1>1, <1>3
  <2>2. /\ InStep(s, r, g[1])
        /\ L \in 1..(Len(g) - 1)
        /\ g[L] = p[L] /\ g[L + 1] = y
        /\ Follows(s, p[L], x)
        /\ SoundBut(s, g, 0)
        /\ LinkedBut(s, g, L + 1)
    BY <2>1, ShorterStream
  <2> HIDE DEF g, L
  <2>3. Gap(s, After(s, g[L]), g[L + 1])
    <3>1. x.turn = After(s, p[L]).turn /\ x.n = After(s, p[L]).n
      BY <2>2 DEF Follows
    <3>2. Gap(s, x, y) <=> Gap(s, After(s, p[L]), y)
      BY <3>1, SamePlace
    <3> QED
      BY <2>2, <3>2
  <2>4. Touched(s, r, g, 0)
    BY <2>2, <2>3 DEF Touched, Broken
  <2> QED
    BY <2>4 DEF g
<1> QED
  BY <1>2, <1>3

(* The byte x gets into the ring as z. *)
LEMMA DamagesTouched ==
  ASSUME NEW s \in Scripts, NEW r, NEW p \in Seq(Items(s)), NEW x \in Items(s),
         NEW z \in Items(s), z.turn = x.turn, z.n = x.n,
         NEW y \in Items(s), Sound(s, y), Follows(s, x, y), Aligned(s, r, Append(p, x))
  PROVE  Touched(s, r, Append(Append(p, z), y), 0)
<1> DEFINE q == Append(p, x)
           h == Append(p, z)
           g == Append(h, y)
           L == Len(p)
<1>1. /\ L \in Nat /\ Len(q) = L + 1 /\ Len(h) = L + 1 /\ Len(g) = L + 2
      /\ h \in Seq(Items(s))
      /\ DOMAIN q = 1..(L + 1) /\ DOMAIN g = 1..(L + 2)
      /\ \A j \in 1..L : g[j] = p[j] /\ q[j] = p[j]
      /\ q[L + 1] = x /\ g[L + 1] = z /\ g[L + 2] = y
  <2>1. /\ L \in Nat /\ Len(q) = L + 1 /\ Len(h) = L + 1 /\ h \in Seq(Items(s))
        /\ DOMAIN q = 1..(L + 1)
        /\ \A j \in 1..L : h[j] = p[j] /\ q[j] = p[j]
        /\ q[L + 1] = x /\ h[L + 1] = z
    OBVIOUS
  <2>2. /\ Len(g) = Len(h) + 1 /\ DOMAIN g = 1..(Len(h) + 1)
        /\ \A j \in 1..Len(h) : g[j] = h[j]
        /\ g[Len(h) + 1] = y
    BY <2>1
  <2> HIDE DEF q, h, g, L
  <2>3. L + 1 + 1 = L + 2 /\ L + 1 \in 1..(L + 1) /\ 1..L \subseteq 1..(L + 1)
    BY <2>1
  <2> QED
    BY <2>1, <2>2, <2>3
<1>2. InStep(s, r, q[1]) /\ SoundBut(s, q, 0) /\ LinkedBut(s, q, 0)
  BY DEF Aligned, Undamaged
<1> SUFFICES Touched(s, r, g, 0)
  OBVIOUS
<1> HIDE DEF g, h, q, L
<1>3. InStep(s, r, g[1])
  <2>1. CASE L = 0
    <3>1. q[1] = x /\ g[1] = z
      BY <1>1, <2>1
    <3> QED
      BY <1>2, <3>1, SamePlace
  <2>2. CASE L # 0
    <3>1. 1 \in 1..L
      BY <1>1, <2>2
    <3> QED
      BY <1>1, <1>2, <3>1
  <2> QED
    BY <2>1, <2>2
<1>4. SoundBut(s, g, L + 1)
  <2> SUFFICES ASSUME NEW j \in 1..(L + 2), j # L + 1 PROVE Sound(s, g[j])
    BY <1>1 DEF SoundBut
  <2>1. CASE j = L + 2
    BY <1>1, <2>1
  <2>2. CASE j # L + 2
    <3>1. j \in 1..L /\ j \in 1..(L + 1) /\ j # 0
      BY <1>1, <2>2
    <3> QED
      BY <1>1, <1>2, <3>1 DEF SoundBut
  <2> QED
    BY <2>1, <2>2
<1>5. LinkedBut(s, g, 0)
  <2> SUFFICES ASSUME NEW j \in 2..(L + 2) PROVE Follows(s, g[j - 1], g[j])
    BY <1>1 DEF LinkedBut
  <2>1. \A i \in 2..(L + 1) : Follows(s, q[i - 1], q[i])
    <3> SUFFICES ASSUME NEW i \in 2..(L + 1) PROVE Follows(s, q[i - 1], q[i])
      OBVIOUS
    <3>1. i \in 2..Len(q) /\ i # 0
      BY <1>1
    <3> QED
      BY <1>2, <3>1 DEF LinkedBut
  <2>2. CASE j = L + 2
    <3>1. j - 1 = L + 1
      BY <1>1, <2>2
    <3>2. g[j - 1] = z /\ g[j] = y
      BY <1>1, <2>2, <3>1
    <3> QED
      BY <3>2, SamePlace
  <2>3. CASE j = L + 1
    <3>1. j - 1 = L /\ L \in 1..L /\ j \in 2..(L + 1)
      BY <1>1, <2>3
    <3>2. g[j - 1] = q[j - 1] /\ g[j] = z /\ q[j] = x
      BY <1>1, <2>3, <3>1
    <3> QED
      BY <2>1, <3>1, <3>2, SamePlace
  <2>4. CASE j # L + 2 /\ j # L + 1
    <3>1. j - 1 \in 1..L /\ j \in 1..L /\ j \in 2..(L + 1)
      BY <1>1, <2>4
    <3> QED
      BY <1>1, <2>1, <3>1
  <2> QED
    BY <2>2, <2>3, <2>4
<1>6. L + 1 \in 1..(Len(g) - 1)
  BY <1>1
<1> QED
  BY <1>3, <1>4, <1>5, <1>6 DEF Touched, Damaged

(* Nothing is in the ring. *)
LEMMA FlushTouched ==
  ASSUME NEW s \in Scripts, NEW y \in Items(s), Sound(s, y)
  PROVE  /\ Touched(s, Idle, Append(<<>>, y), 0)
         /\ y.n = 1 => Aligned(s, Idle, Append(<<>>, y))
<1> DEFINE g == Append(<<>>, y)
<1>1. g[1] = y /\ Len(g) = 1 /\ DOMAIN g = 1..1
  OBVIOUS
<1> HIDE DEF g
<1>2. Undamaged(s, g)
  <2>1. SoundBut(s, g, 0)
    BY <1>1 DEF SoundBut
  <2>2. LinkedBut(s, g, 0)
    BY <1>1 DEF LinkedBut
  <2> QED
    BY <2>1, <2>2 DEF Undamaged
<1>3. Lands(s, Idle, y, 0)
  BY ItemFacts, FlushLands
<1>4. Touched(s, Idle, g, 0)
  BY <1>1, <1>2, <1>3 DEF Lands, Touched, Aligned, Lost
<1>5. y.n = 1 => Aligned(s, Idle, g)
  BY <1>1, <1>2, ItemFacts, IdleInStep DEF Aligned
<1> QED
  BY <1>4, <1>5 DEF g


-----------------------------------------------------------------------------
(* The byte the chip sends next. *)
At(s, t, n) == [v |-> Wires[s][t][n + 1], turn |-> t, n |-> n + 1]

LEMMA AtFacts ==
  ASSUME NEW s \in Scripts, NEW t \in DOMAIN s, NEW n \in 0..(Len(Wires[s][t]) - 1)
  PROVE  /\ At(s, t, n) \in Items(s) /\ Sound(s, At(s, t, n))
         /\ At(s, t, n).turn = t /\ At(s, t, n).n = n + 1
<1> DEFINE a == At(s, t, n)
           L == Len(Wires[s][t])
<1>1. L \in Nat /\ L >= 5 /\ \A k \in 1..L : Wires[s][t][k] \in Byte
  BY LengthFacts
<1>2. n + 1 \in 1..L /\ n + 1 \in Nat
  <2> n \in 0..(L - 1)
    OBVIOUS
  <2> HIDE DEF L
  <2> QED
    BY <1>1
<1>3. a.v = Wires[s][t][n + 1] /\ a.turn = t /\ a.n = n + 1
  BY DEF At
<1>4. a.v \in Byte
  BY <1>1, <1>2, <1>3
<1>5. a \in [v : Byte, turn : DOMAIN s, n : Nat]
  BY <1>2, <1>3, <1>4 DEF At
<1>6. Place(s, a) /\ Sound(s, a)
  BY <1>2, <1>3 DEF Place, Sound
<1> QED
  BY <1>3, <1>5, <1>6 DEF Items

LEMMA NextAt ==
  ASSUME NEW s \in Scripts, NEW t \in DOMAIN s, NEW n \in 0..(Len(Wires[s][t]) - 1),
         NEW t1, NEW n1,
         IF n + 1 = Len(Wires[s][t]) THEN t1 = NextTurn(s, t) /\ n1 = 0
         ELSE t1 = t /\ n1 = n + 1
  PROVE  /\ t1 \in DOMAIN s /\ n1 \in 0..(Len(Wires[s][t1]) - 1)
         /\ Follows(s, At(s, t, n), At(s, t1, n1))
<1> DEFINE a == At(s, t, n)
           b == At(s, t1, n1)
           L == Len(Wires[s][t])
           L1 == Len(Wires[s][t1])
<1>1. Place(s, a) /\ a.turn = t /\ a.n = n + 1
  BY AtFacts, ItemFacts
<1>2. b.turn = t1 /\ b.n = n1 + 1
  BY DEF At
<1>3. /\ n + 1 = L => After(s, a).turn = NextTurn(s, t) /\ After(s, a).n = 1
      /\ n + 1 # L => After(s, a).turn = t /\ After(s, a).n = n + 1 + 1
  BY <1>1, PlaceFacts
<1>4. n \in 0..(L - 1) /\ L \in Nat /\ L >= 5
  BY LengthFacts
<1>5. NextTurn(s, t) \in DOMAIN s
  BY ScriptFacts
<1>6. CASE n + 1 = L
  <2>1. t1 = NextTurn(s, t) /\ n1 = 0
    BY <1>6
  <2>2. L1 \in Nat /\ L1 >= 5
    BY <1>5, <2>1, LengthFacts
  <2>3. 0 \in 0..(L1 - 1)
    <3> HIDE DEF L1
    <3> QED
      BY <2>2
  <2> QED
    BY <1>2, <1>3, <1>5, <1>6, <2>1, <2>3 DEF Follows
<1>7. CASE n + 1 # L
  <2>1. t1 = t /\ n1 = n + 1
    BY <1>7
  <2>2. n + 1 \in 0..(L - 1)
    <3> HIDE DEF L
    <3> QED
      BY <1>4, <1>7
  <2> QED
    BY <1>2, <1>3, <1>7, <2>1, <2>2 DEF Follows
<1> QED
  BY <1>6, <1>7

LEMMA ComingFacts ==
  ASSUME Type
  PROVE  /\ Coming = At(script, turn, sent)
         /\ Coming \in Items(script) /\ Sound(script, Coming)
         /\ \A b : /\ Arriving(b).v = b
                   /\ Arriving(b).turn = Coming.turn /\ Arriving(b).n = Coming.n
         /\ \A b \in Byte : Arriving(b) \in Items(script)
         /\ Arriving(Current[sent + 1]) = Coming
<1>1. Coming = At(script, turn, sent)
  BY DEF Coming, Arriving, Current, At
<1>2. script \in Scripts /\ turn \in DOMAIN script
      /\ sent \in 0..(Len(Wires[script][turn]) - 1)
  BY DEF Type, Current
<1>3. /\ Coming \in Items(script) /\ Sound(script, Coming)
      /\ Coming.turn = turn /\ Coming.n = sent + 1
  BY <1>1, <1>2, AtFacts
<1>4. \A b : /\ Arriving(b).v = b
             /\ Arriving(b).turn = Coming.turn /\ Arriving(b).n = Coming.n
  BY <1>3 DEF Arriving
<1>5. ASSUME NEW b \in Byte PROVE Arriving(b) \in Items(script)
  <2>1. Place(script, Coming) /\ Coming.turn \in DOMAIN script /\ Coming.n \in Nat
    BY <1>3, ItemFacts
  <2>2. Arriving(b) \in [v : Byte, turn : DOMAIN script, n : Nat]
    BY <1>3, <2>1 DEF Arriving
  <2>3. Place(script, Arriving(b))
    BY <1>4, <2>1 DEF Place
  <2> QED
    BY <2>2, <2>3 DEF Items
<1> QED
  BY <1>1, <1>3, <1>4, <1>5 DEF Coming

(* Where the chip is, after a step that changes no byte of its script. *)
LEMMA ComingPrime ==
  ASSUME script' = script, script \in Scripts, turn' \in DOMAIN script,
         sent' \in 0..(Len(Wires[script][turn']) - 1)
  PROVE  /\ Coming' = At(script, turn', sent')
         /\ Coming' \in Items(script) /\ Sound(script, Coming')
         /\ Coming'.n = sent' + 1
         /\ turn' \in DOMAIN script' /\ sent' \in 0..(Len(Current) - 1)'
         /\ Items(script') = Items(script)
<1>1. Coming' = At(script, turn', sent')
  BY DEF Coming, Arriving, Current, At, Wires
<1> QED
  BY <1>1, AtFacts DEF Current, Wires

LEMMA NextByteFacts ==
  ASSUME Type, NextByte
  PROVE  /\ script' = script /\ turn' \in DOMAIN script
         /\ sent' \in 0..(Len(Wires[script][turn']) - 1)
         /\ rx' = rx /\ heard' = heard
         /\ Coming' \in Items(script) /\ Sound(script, Coming')
         /\ Follows(script, Coming, Coming')
<1>1. script \in Scripts /\ turn \in DOMAIN script
      /\ sent \in 0..(Len(Wires[script][turn]) - 1)
  BY DEF Type, Current
<1>2. /\ script' = script /\ rx' = rx /\ heard' = heard
      /\ IF sent + 1 = Len(Wires[script][turn])
         THEN turn' = NextTurn(script, turn) /\ sent' = 0
         ELSE turn' = turn /\ sent' = sent + 1
  BY DEF NextByte, Current
<1>3. /\ turn' \in DOMAIN script /\ sent' \in 0..(Len(Wires[script][turn']) - 1)
      /\ Follows(script, At(script, turn, sent), At(script, turn', sent'))
  BY <1>1, <1>2, NextAt
<1> QED
  BY <1>1, <1>2, <1>3, ComingFacts, ComingPrime


-----------------------------------------------------------------------------
(* The steps keep the invariant. *)
LEMMA BoundFacts == RingSize \in Nat /\ RingSize >= 1 /\ MaxFaults \in Nat /\ MissCap \in Nat
<1>1. RingSize \in Nat /\ RingSize # 0 /\ MaxFaults \in Nat
  BY LinkAssumption
<1> QED
  BY <1>1, MaxDataRange DEF MissCap

(* What a step leaves of Type. *)
Settled ==
  /\ script' = script /\ turn' \in DOMAIN script
  /\ sent' \in 0..(Len(Wires[script][turn']) - 1)
  /\ ring' \in Seq(Items(script)) /\ Len(ring') <= RingSize
  /\ RxOK(rx')
  /\ heard' \in {"none", "frame", "wrong"}

LEMMA SettledType ==
  ASSUME Type, Settled, missed' \in 0..MissCap, faults' \in 0..MaxFaults
  PROVE  Type' /\ RxOK(rx)' /\ Stream' = Append(ring', Coming')
<1>1. script' = script /\ script \in Scripts
  BY DEF Type, Settled
<1>2. /\ turn' \in DOMAIN script' /\ sent' \in 0..(Len(Current) - 1)'
      /\ Items(script') = Items(script)
  BY <1>1, ComingPrime DEF Settled
<1>3. RxOK(rx)'
  BY DEF Settled, RxOK, Idle, States
<1>4. Stream' = Append(ring', Coming')
  BY DEF Stream
<1>5. Type'
  BY <1>1, <1>2 DEF Type, Settled, Items, Place, MissCap
<1> QED
  BY <1>3, <1>4, <1>5

LEMMA DisturbedInv ==
  ASSUME LinkInv, Disturbed, Settled,
         faults = 0 => Touched(script, rx', Append(ring', Coming'), 0)
  PROVE  LinkInv'
<1>1. Type /\ script' = script
  BY DEF LinkInv, Settled
<1>2. faults \in 0..MaxFaults /\ faults < MaxFaults /\ faults' = faults + 1 /\ missed' = 0
  BY <1>1 DEF Type, Disturbed
<1>3. /\ faults' \in 0..MaxFaults /\ faults' # 0 /\ (faults' = 1 => faults = 0)
      /\ 0 \in 0..MissCap
  BY <1>2, BoundFacts
<1>4. Type' /\ RxOK(rx)' /\ Stream' = Append(ring', Coming')
  BY <1>1, <1>2, <1>3, SettledType
<1>5. faults' = 1 => Touched(script', rx', Stream', missed')
  BY <1>1, <1>2, <1>3, <1>4
<1> QED
  BY <1>3, <1>4, <1>5 DEF LinkInv

LEMMA UndisturbedInv ==
  ASSUME LinkInv, faults' = faults, missed' \in 0..MissCap, Settled,
         faults = 0 => /\ Aligned(script, rx', Append(ring', Coming'))
                       /\ missed' = 0 /\ heard' # "wrong",
         script \in Distinct /\ faults = 1
           => Touched(script, rx', Append(ring', Coming'), missed')
  PROVE  LinkInv'
<1>1. Type /\ script' = script
  BY DEF LinkInv, Settled
<1>2. faults' \in 0..MaxFaults
  BY <1>1 DEF Type
<1>3. Type' /\ RxOK(rx)' /\ Stream' = Append(ring', Coming')
  BY <1>1, <1>2, SettledType
<1>4. faults' = 0 => Aligned(script', rx', Stream') /\ missed' = 0 /\ heard' # "wrong"
  BY <1>1, <1>3
<1>5. script' \in Distinct /\ faults' = 1 => Touched(script', rx', Stream', missed')
  BY <1>1, <1>3
<1>6. Distinct' = Distinct
  BY DEF Distinct, Wires, HeaderInside, EndsLikeHeader
<1> QED
  BY <1>3, <1>4, <1>5, <1>6 DEF LinkInv

LEMMA StreamFacts ==
  ASSUME Type
  PROVE  /\ ring \in Seq(Items(script)) /\ Len(ring) \in Nat
         /\ Stream \in Seq(Items(script)) /\ Len(Stream) = Len(ring) + 1
         /\ Len(Stream) >= 1 /\ Stream[Len(Stream)] = Coming
<1>1. ring \in Seq(Items(script)) /\ Coming \in Items(script)
  BY ComingFacts DEF Type
<1> QED
  BY <1>1 DEF Stream

LEMMA ReceiveInv ==
  ASSUME LinkInv, Receive
  PROVE  LinkInv'
<1>1. Type /\ RxOK(rx)
  BY DEF LinkInv
<1>2. NextByte
  BY DEF Receive
<1>3. /\ script' = script /\ turn' \in DOMAIN script
      /\ sent' \in 0..(Len(Wires[script][turn']) - 1)
      /\ rx' = rx /\ heard' = heard
      /\ Coming' \in Items(script) /\ Sound(script, Coming')
      /\ Follows(script, Coming, Coming')
  BY <1>1, <1>2, NextByteFacts
<1>4. /\ ring \in Seq(Items(script)) /\ Len(ring) \in Nat /\ Len(ring) <= RingSize
      /\ Stream \in Seq(Items(script)) /\ Len(Stream) >= 1 /\ Stream[Len(Stream)] = Coming
      /\ script \in Scripts /\ heard \in {"none", "frame", "wrong"}
  BY <1>1, StreamFacts DEF Type
<1>5. CASE Len(ring) < RingSize /\ ring' = Append(ring, Arriving(Current[sent + 1]))
           /\ Undisturbed
  <2>1. ring' = Stream
    BY <1>1, <1>5, ComingFacts DEF Stream
  <2>2. Len(ring') <= RingSize
    BY <1>4, <1>5, BoundFacts
  <2>3. Settled
    BY <1>1, <1>3, <1>4, <2>1, <2>2 DEF Settled
  <2>4. faults' = faults /\ missed' = missed /\ missed \in 0..MissCap
    BY <1>1, <1>5 DEF Undisturbed, Type
  <2>5. faults = 0 => /\ Aligned(script, rx', Append(ring', Coming'))
                      /\ missed' = 0 /\ heard' # "wrong"
    BY <1>3, <1>4, <2>1, <2>4, GrowsAligned DEF LinkInv
  <2>6. script \in Distinct /\ faults = 1
          => Touched(script, rx', Append(ring', Coming'), missed')
    BY <1>3, <1>4, <2>1, <2>4, GrowsTouched DEF LinkInv
  <2> QED
    BY <2>3, <2>4, <2>5, <2>6, UndisturbedInv
<1>6. CASE ring' = ring /\ Disturbed
  <2>1. Settled
    BY <1>1, <1>3, <1>4, <1>6 DEF Settled
  <2>2. faults = 0 => Touched(script, rx', Append(ring', Coming'), 0)
    <3> SUFFICES ASSUME faults = 0 PROVE Touched(script, rx, Append(ring, Coming'), 0)
      BY <1>3, <1>6
    <3>1. Aligned(script, rx, Append(ring, Coming))
      BY DEF LinkInv, Stream
    <3>2. Gap(script, Coming, Coming')
      BY <1>3 DEF Gap
    <3> QED
      BY <1>1, <1>3, <1>4, <3>1, <3>2, ComingFacts, LosesTouched
  <2> QED
    BY <1>6, <2>1, <2>2, DisturbedInv
<1> QED
  BY <1>5, <1>6 DEF Receive

LEMMA DamageInv ==
  ASSUME LinkInv, Damage
  PROVE  LinkInv'
<1>1. Type /\ RxOK(rx)
  BY DEF LinkInv
<1>2. NextByte /\ Disturbed /\ Len(ring) < RingSize
  BY DEF Damage
<1>3. /\ script' = script /\ turn' \in DOMAIN script
      /\ sent' \in 0..(Len(Wires[script][turn']) - 1)
      /\ rx' = rx /\ heard' = heard
      /\ Coming' \in Items(script) /\ Sound(script, Coming')
      /\ Follows(script, Coming, Coming')
  BY <1>1, <1>2, NextByteFacts
<1>4. /\ ring \in Seq(Items(script)) /\ Len(ring) \in Nat /\ Len(ring) <= RingSize
      /\ script \in Scripts /\ heard \in {"none", "frame", "wrong"}
  BY <1>1, StreamFacts DEF Type
<1>5. faults = 0 => Aligned(script, rx, Append(ring, Coming))
  BY DEF LinkInv, Stream
<1>6. CASE ring' = ring
  <2>1. Settled
    BY <1>1, <1>3, <1>4, <1>6 DEF Settled
  <2>2. faults = 0 => Touched(script, rx', Append(ring', Coming'), 0)
    <3> SUFFICES ASSUME faults = 0 PROVE Touched(script, rx, Append(ring, Coming'), 0)
      BY <1>3, <1>6
    <3>1. Gap(script, Coming, Coming')
      BY <1>3 DEF Gap
    <3> QED
      BY <1>1, <1>3, <1>4, <1>5, <3>1, ComingFacts, LosesTouched
  <2> QED
    BY <1>2, <2>1, <2>2, DisturbedInv
<1>7. ASSUME NEW b \in Noise, ring' = Append(ring, Arriving(b))
      PROVE  LinkInv'
  <2>1. b \in Byte
    BY LinkAssumption
  <2>2. /\ Arriving(b) \in Items(script)
        /\ Arriving(b).turn = Coming.turn /\ Arriving(b).n = Coming.n
    BY <1>1, <2>1, ComingFacts
  <2>3. ring' \in Seq(Items(script)) /\ Len(ring') <= RingSize
    BY <1>2, <1>4, <1>7, <2>2, BoundFacts
  <2>4. Settled
    BY <1>1, <1>3, <1>4, <2>3 DEF Settled
  <2>5. faults = 0 => Touched(script, rx', Append(ring', Coming'), 0)
    <3> SUFFICES ASSUME faults = 0
                 PROVE  Touched(script, rx, Append(Append(ring, Arriving(b)), Coming'), 0)
      BY <1>3, <1>7
    <3> QED
      BY <1>1, <1>3, <1>4, <1>5, <2>2, ComingFacts, DamagesTouched
  <2> QED
    BY <1>2, <2>4, <2>5, DisturbedInv
<1> QED
  BY <1>6, <1>7 DEF Damage


LEMMA CutSupplyInv ==
  ASSUME LinkInv, CutSupply
  PROVE  LinkInv'
<1>1. Type /\ RxOK(rx)
  BY DEF LinkInv
<1>2. /\ turn' = 1 /\ sent' = 0 /\ Disturbed
      /\ script' = script /\ ring' = ring /\ rx' = rx /\ heard' = heard
  BY DEF CutSupply
<1>3. /\ ring \in Seq(Items(script)) /\ Len(ring) \in Nat /\ Len(ring) <= RingSize
      /\ script \in Scripts /\ heard \in {"none", "frame", "wrong"}
  BY <1>1, StreamFacts DEF Type
<1>4. turn' \in DOMAIN script /\ sent' \in 0..(Len(Wires[script][turn']) - 1)
  <2>1. 1 \in DOMAIN script
    BY <1>3, ScriptFacts
  <2> DEFINE L == Len(Wires[script][1])
  <2>2. L \in Nat /\ L >= 5
    BY <1>3, <2>1, LengthFacts
  <2>3. 0 \in 0..(L - 1)
    <3> HIDE DEF L
    <3> QED
      BY <2>2
  <2> QED
    BY <1>2, <2>1, <2>3
<1>5. Coming' \in Items(script) /\ Sound(script, Coming') /\ Coming'.n = 1
  <2>1. Coming'.n = sent' + 1
    BY <1>2, <1>3, <1>4, ComingPrime
  <2> QED
    BY <1>2, <1>3, <1>4, <2>1, ComingPrime
<1>6. Settled
  BY <1>1, <1>2, <1>3, <1>4 DEF Settled
<1>7. faults = 0 => Touched(script, rx', Append(ring', Coming'), 0)
  <2> SUFFICES ASSUME faults = 0 PROVE Touched(script, rx, Append(ring, Coming'), 0)
    BY <1>2
  <2>1. Aligned(script, rx, Append(ring, Coming))
    BY DEF LinkInv, Stream
  <2>2. Gap(script, Coming, Coming')
    BY <1>5 DEF Gap
  <2> QED
    BY <1>1, <1>3, <1>5, <2>1, <2>2, ComingFacts, LosesTouched
<1> QED
  BY <1>2, <1>6, <1>7, DisturbedInv

LEMMA FlushInv ==
  ASSUME LinkInv, Flush
  PROVE  LinkInv'
<1>1. Type
  BY DEF LinkInv
<1>2. /\ rx' = Idle /\ ring' = <<>> /\ Disturbed
      /\ script' = script /\ turn' = turn /\ sent' = sent /\ heard' = heard
  BY DEF Flush
<1>3. /\ script \in Scripts /\ heard \in {"none", "frame", "wrong"}
      /\ turn' \in DOMAIN script /\ sent' \in 0..(Len(Wires[script][turn']) - 1)
  BY <1>1, <1>2 DEF Type, Current
<1>4. Coming' \in Items(script) /\ Sound(script, Coming')
  BY <1>2, <1>3, ComingPrime
<1>5. ring' \in Seq(Items(script)) /\ Len(ring') <= RingSize
  BY <1>2, BoundFacts
<1>6. Settled
  BY <1>2, <1>3, <1>5, IdleIsOK DEF Settled
<1>7. Touched(script, rx', Append(ring', Coming'), 0)
  BY <1>2, <1>3, <1>4, FlushTouched
<1> QED
  BY <1>2, <1>6, <1>7, DisturbedInv

LEMMA GivenFacts ==
  ASSUME NEW a
  PROVE  /\ Given(a) \in {"none", "frame", "wrong"}
         /\ Given(a) = "frame" <=> /\ Completes(rx, a.v)
                                   /\ a.n = Len(Wires[script][a.turn])
                                   /\ FrameOf(rx) = script[a.turn]
         /\ Given(a) = "none" <=> ~Completes(rx, a.v)
  BY DEF Given, EndsFrame

LEMMA ReadInv ==
  ASSUME LinkInv, Read
  PROVE  LinkInv'
<1> DEFINE a == Head(ring)
           p == Parse(rx, a.v)
           m1 == IF Given(a) = "frame" THEN 0
                 ELSE IF EndsFrame(a) /\ missed < MissCap THEN missed + 1
                 ELSE missed
<1>1. Type /\ RxOK(rx)
  BY DEF LinkInv
<1>2. /\ ring # <<>> /\ rx' = p /\ heard' = Given(a) /\ missed' = m1 /\ ring' = Tail(ring)
      /\ script' = script /\ turn' = turn /\ sent' = sent /\ faults' = faults
  BY DEF Read
<1>3. /\ ring \in Seq(Items(script)) /\ Len(ring) \in Nat /\ Len(ring) <= RingSize
      /\ script \in Scripts /\ missed \in 0..MissCap
      /\ turn' \in DOMAIN script /\ sent' \in 0..(Len(Wires[script][turn']) - 1)
      /\ Coming \in Items(script)
  BY <1>1, <1>2, ComingFacts, StreamFacts DEF Type, Current
<1>4. Coming' = Coming
  BY <1>1, <1>2, <1>3, ComingFacts, ComingPrime
<1>5. /\ Stream \in Seq(Items(script)) /\ Len(Stream) >= 2 /\ Stream[1] = a
      /\ Tail(Stream) = Append(ring', Coming')
      /\ ring' \in Seq(Items(script)) /\ Len(ring') <= RingSize
      /\ a \in Items(script)
  <2>1. Len(ring) >= 1
    BY <1>2, <1>3
  <2>2. ring' \in Seq(Items(script)) /\ Len(ring') = Len(ring) - 1 /\ a \in Items(script)
    BY <1>2, <1>3, <2>1
  <2>3. Stream \in Seq(Items(script)) /\ Len(Stream) >= 2 /\ Stream[1] = a
    BY <1>3, <2>1 DEF Stream
  <2>4. Tail(Append(ring, Coming)) = Append(Tail(ring), Coming)
    BY <1>2, <1>3
  <2>5. Len(ring') <= RingSize
    BY <1>3, <2>2, BoundFacts
  <2> QED
    BY <1>2, <1>4, <2>2, <2>3, <2>4, <2>5 DEF Stream
<1>6. RxOK(p)
  BY <1>1, <1>5, ItemFacts, RxOKStep
<1>7. Given(a) \in {"none", "frame", "wrong"}
  BY GivenFacts
<1>8. Settled
  BY <1>2, <1>3, <1>5, <1>6, <1>7 DEF Settled
<1>9. m1 \in 0..MissCap
  BY <1>3, BoundFacts
<1>10. Counted(script, rx, a, missed, m1)
  <2>1. Misses(script, a, missed, m1)
    <3>1. CASE Given(a) = "frame"
      BY <1>3, <3>1, BoundFacts DEF Misses
    <3>2. CASE Given(a) # "frame" /\ EndsFrame(a)
      BY <1>3, <3>2, BoundFacts DEF Misses, EndsFrame
    <3>3. CASE Given(a) # "frame" /\ ~EndsFrame(a)
      BY <1>3, <3>3, BoundFacts DEF Misses, EndsFrame
    <3> QED
      BY <3>1, <3>2, <3>3
  <2>2. Given(a) = "frame" => m1 = 0
    OBVIOUS
  <2> HIDE DEF m1, a
  <2> QED
    BY <2>1, <2>2, GivenFacts DEF Counted
<1>11. ASSUME faults = 0
       PROVE  /\ Aligned(script, rx', Append(ring', Coming'))
              /\ missed' = 0 /\ heard' # "wrong"
  <2>1. Aligned(script, rx, Stream) /\ missed = 0
    BY <1>11 DEF LinkInv
  <2>2. /\ Aligned(script, Parse(rx, Stream[1].v), Tail(Stream))
        /\ Completes(rx, Stream[1].v)
             <=> Stream[1].n = Len(Wires[script][Stream[1].turn])
        /\ Completes(rx, Stream[1].v) => FrameOf(rx) = script[Stream[1].turn]
    BY <1>3, <1>5, <2>1, ReadAligned
  <2>3. Aligned(script, rx', Append(ring', Coming'))
    BY <1>2, <1>5, <2>2
  <2>4. EndsFrame(a) <=> Given(a) = "frame"
    BY <1>5, <2>2, GivenFacts DEF EndsFrame
  <2>5. Given(a) # "wrong"
    BY <1>5, <2>2, <2>4, GivenFacts DEF EndsFrame
  <2>6. m1 = 0
    BY <2>1, <2>4
  <2> QED
    BY <1>2, <2>3, <2>5, <2>6
<1>12. ASSUME script \in Distinct, faults = 1
       PROVE  Touched(script, rx', Append(ring', Coming'), missed')
  <2>1. Touched(script, rx, Stream, missed)
    BY <1>12 DEF LinkInv
  <2>2. Touched(script, Parse(rx, Stream[1].v), Tail(Stream), m1)
    <3>1. Counted(script, rx, Stream[1], missed, m1)
      BY <1>5, <1>10
    <3> HIDE DEF m1
    <3> QED
      BY <1>1, <1>5, <1>12, <2>1, <3>1, ReadTouched
  <2> QED
    BY <1>2, <1>5, <2>2
<1>13. faults' = faults /\ missed' \in 0..MissCap
  BY <1>2, <1>9
<1> QED
  BY <1>8, <1>11, <1>12, <1>13, UndisturbedInv

LEMMA InitInv ==
  ASSUME Init
  PROVE  LinkInv
<1>1. /\ script \in Scripts /\ turn = 1 /\ sent = 0 /\ ring = <<>> /\ rx = Idle
      /\ heard = "none" /\ missed = 0 /\ faults = 0
  BY DEF Init
<1>2. Type
  <2>1. 1 \in DOMAIN script
    BY <1>1, ScriptFacts
  <2> DEFINE L == Len(Wires[script][1])
  <2>2. L \in Nat /\ L >= 5
    BY <1>1, <2>1, LengthFacts
  <2>3. 0 \in 0..(L - 1)
    <3> HIDE DEF L
    <3> QED
      BY <2>2
  <2>4. sent \in 0..(Len(Current) - 1)
    BY <1>1, <2>3 DEF Current
  <2>5. missed \in 0..MissCap /\ faults \in 0..MaxFaults /\ Len(ring) <= RingSize
    BY <1>1, BoundFacts
  <2> QED
    BY <1>1, <2>1, <2>4, <2>5 DEF Type
<1>3. Coming \in Items(script) /\ Sound(script, Coming) /\ Coming.n = 1
  <2>1. turn \in DOMAIN script /\ sent \in 0..(Len(Wires[script][turn]) - 1)
    BY <1>2 DEF Type, Current
  <2>2. At(script, turn, sent).n = sent + 1
    BY <1>1, <2>1, AtFacts
  <2> QED
    BY <1>1, <1>2, <2>2, ComingFacts
<1>4. Aligned(script, rx, Stream)
  BY <1>1, <1>3, FlushTouched DEF Stream
<1>5. RxOK(rx)
  BY <1>1, IdleIsOK
<1> QED
  BY <1>1, <1>2, <1>4, <1>5 DEF LinkInv

LEMMA NextInv == LinkInv /\ [Next]_vars => LinkInv'
<1> SUFFICES ASSUME LinkInv, [Next]_vars PROVE LinkInv'
  OBVIOUS
<1>1. CASE Receive
  BY <1>1, ReceiveInv
<1>2. CASE Damage
  BY <1>2, DamageInv
<1>3. CASE CutSupply
  BY <1>3, CutSupplyInv
<1>4. CASE Flush
  BY <1>4, FlushInv
<1>5. CASE Read
  BY <1>5, ReadInv
<1>6. CASE UNCHANGED vars
  <2>1. /\ script' = script /\ turn' = turn /\ sent' = sent /\ ring' = ring /\ rx' = rx
        /\ heard' = heard /\ missed' = missed /\ faults' = faults
    BY <1>6 DEF vars
  <2>2. Type /\ RxOK(rx)
    BY DEF LinkInv
  <2>3. /\ script \in Scripts /\ turn' \in DOMAIN script
        /\ sent' \in 0..(Len(Wires[script][turn']) - 1)
        /\ missed' \in 0..MissCap
    BY <2>1, <2>2 DEF Type, Current
  <2>4. Coming' = Coming
    BY <2>1, <2>2, <2>3, ComingFacts, ComingPrime
  <2>5. Settled
    BY <2>1, <2>2, <2>3 DEF Settled, Type
  <2>6. Append(ring', Coming') = Stream
    BY <2>1, <2>4 DEF Stream
  <2> QED
    BY <2>1, <2>3, <2>5, <2>6, UndisturbedInv DEF LinkInv
<1> QED
  BY <1>1, <1>2, <1>3, <1>4, <1>5, <1>6 DEF Next

LEMMA Invariance == Spec => []LinkInv
<1>1. Init => LinkInv
  BY InitInv
<1>2. LinkInv /\ [Next]_vars => LinkInv'
  BY NextInv
<1> QED
  BY <1>1, <1>2, PTL DEF Spec


-----------------------------------------------------------------------------
(* The variables stay in their ranges, and so do the bytes in the ring and *)
(* what the parser has gathered of a frame (qi_uart.c, qi_protocol.c).     *)
THEOREM LinkTypeCorrect == Spec => []TypeOK
<1>1. LinkInv => TypeOK
  <2> SUFFICES ASSUME LinkInv PROVE TypeOK
    OBVIOUS
  <2>1. Type /\ RxOK(rx)
    BY DEF LinkInv
  <2>2. \A k \in DOMAIN ring : ring[k].v \in Byte
    <3> SUFFICES ASSUME NEW k \in DOMAIN ring PROVE ring[k].v \in Byte
      OBVIOUS
    <3>1. ring[k] \in Items(script)
      BY <2>1 DEF Type
    <3> QED
      BY <3>1, ItemFacts
  <2>3. rx.state \in States /\ rx.cs \in Byte /\ Len(rx.data) <= MaxData
    BY <2>1, RxFields DEF RxOK
  <2> QED
    BY <2>1, <2>2, <2>3 DEF TypeOK, Type, States
<1> QED
  BY <1>1, Invariance, PTL

(* Left alone, the link hands on every frame, once and unchanged, whatever *)
(* its bytes are: the parser of qi_protocol.c never takes a byte inside a  *)
(* frame for another place of it, for any frames of any chip.              *)
THEOREM LinkTransparent == Spec => []Transparent
<1>1. LinkInv => Transparent
  BY DEF LinkInv, Transparent
<1> QED
  BY <1>1, Invariance, PTL

LEMMA AstrayEnough ==
  ASSUME NEW s \in Scripts, NEW r, RxOK(r), NEW a, Place(s, a), NEW m \in Nat,
         Astray(s, r, a, m)
  PROVE  Enough(s, m)
<1> DEFINE t == Shortest(s)
<1>1. t \in Nat /\ m * t \in Int /\ (m - 1) * t \in Int
  BY ShortestFacts, TimesGrows
<1>2. a.n \in Nat /\ a.n >= 1
  BY PlaceFacts
<1>3. CASE Covering(s, r, a, m)
  <2>1. r.state \in Busy
    BY <1>3 DEF Covering, Busy
  <2>2. Rest(r) \in Nat /\ Rest(r) >= 1
    BY <2>1, RestFacts
  <2>3. m * t + a.n + Rest(r) <= MaxData + 8
    BY <1>3 DEF Covering
  <2>4. m * t <= MaxData + 6
    <3> HIDE DEF t
    <3> QED
      BY <1>1, <1>2, <2>2, <2>3, MaxDataRange
  <2> QED
    BY <2>4, EnoughIf
<1>4. CASE Misled(s, r, a, m)
  BY <1>4, NothingMissed DEF Misled
<1>5. CASE Skipping(s, r, a, m)
  BY <1>5, EnoughIf DEF Skipping
<1>6. CASE Stray(s, r, a, m)
  <2>1. Spoilt(s) = 2 /\ (m - 1) * t <= MaxData + 6
    BY <1>6, SpoiltFacts DEF Stray
  <2> QED
    BY <2>1, EnoughIf
<1> QED
  BY <1>3, <1>4, <1>5, <1>6 DEF Astray

(* One disturbance of a link in step, be it a byte lost, damaged or        *)
(* dropped from a full ring, a flush or a cut of the supply, costs the     *)
(* frames it spoils and what fits into the longest frame, although the     *)
(* parser of qi_protocol.c knows no time and gives up nothing it began:    *)
(* for every frame limit, every ring, every noise and all chips whose      *)
(* frames a parser out of step cannot mistake.                             *)
THEOREM LinkLossBounded == Spec => []LossBounded
<1>1. LinkInv => LossBounded
  <2> SUFFICES ASSUME LinkInv, script \in Distinct, faults < 2
               PROVE  Enough(script, missed)
    BY DEF LossBounded, Enough
  <2>1. /\ Type /\ RxOK(rx) /\ script \in Scripts /\ missed \in Nat
        /\ faults = 0 \/ faults = 1
    BY BoundFacts DEF LinkInv, Type
  <2>2. CASE faults = 0
    BY <2>1, <2>2, NothingMissed DEF LinkInv
  <2>3. CASE faults = 1
    <3>1. Touched(script, rx, Stream, missed)
      BY <2>3 DEF LinkInv
    <3>2. CASE missed = 0
      BY <2>1, <3>2, NothingMissed
    <3>3. CASE Lost(script, rx, Stream, missed)
      <4>1. Stream[1] \in Items(script)
        BY <2>1, StreamFacts
      <4> QED
        BY <2>1, <3>3, <4>1, ItemFacts, AstrayEnough DEF Lost
    <3> QED
      BY <3>1, <3>2, <3>3 DEF Touched, Damaged, Broken
  <2> QED
    BY <2>1, <2>2, <2>3
<1> QED
  BY <1>1, Invariance, PTL
=============================================================================

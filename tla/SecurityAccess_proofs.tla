------------------------ MODULE SecurityAccess_proofs ------------------------
(***************************************************************************)
(* Theorems about SecurityAccess, for signatures of any length, any number *)
(* of failures before a lockout, any number of attempts and of faults.     *)
(***************************************************************************)
EXTENDS SecurityAccess, TLAPS

(* The strengthening: the lockout timer runs only while the failures stand *)
(* at their limit, and a seed is given out only below it.                  *)
LockInv ==
  /\ locked => fails = MaxFails
  /\ seedOn => fails < MaxFails
  /\ locked => ~security_unlocked

IInv == TypeOK /\ LockInv

(* What queues are made of and give back.                                  *)
LEMMA QueueFacts ==
  ASSUME NEW S, NEW q \in Seq(S)
  PROVE  /\ <<>> \in Seq(S)
         /\ \A x \in S : Append(q, x) \in Seq(S) /\ <<x>> \in Seq(S)
         /\ q # <<>> => Head(q) \in S /\ Tail(q) \in Seq(S)
OBVIOUS

(* The answers of the device keep their type.                              *)
LEMMA SendType ==
  ASSUME TypeOK, NEW sub \in {1, 2, 3}, NEW nrc \in {"none", "lock", "other"}
  PROVE  /\ Send(Positive(sub)) => toHost' \in Seq(Answers)
         /\ Send(Negative(sub, nrc)) => toHost' \in Seq(Answers)
<1>1. Positive(sub) \in Answers /\ Negative(sub, nrc) \in Answers
  BY DEF Positive, Negative, Answers
<1> QED BY <1>1, QueueFacts DEF Send, TypeOK

(* The device's part of the invariant, which the tool leaves alone.        *)
DeviceType ==
  /\ awake \in BOOLEAN
  /\ security_unlocked \in BOOLEAN
  /\ seedOn \in BOOLEAN
  /\ seed \in Nat
  /\ sig \in Seq(Chunks)
  /\ block \in 0..SeqMax
  /\ fails \in 0..MaxFails
  /\ locked \in BOOLEAN
  /\ slot \in Nat \union {NoAnswer}
  /\ toHost \in Seq(Answers)

DeviceInv == DeviceType /\ LockInv

(* 27 01: a new seed is given out only after the failures are forgotten.   *)
LEMMA SeedStep == IInv /\ RequestSeed => DeviceInv'
<1> SUFFICES ASSUME IInv, RequestSeed PROVE DeviceInv'
  OBVIOUS
<1> USE SecurityAssumption DEF IInv
<1>1. CASE LockedOut /\ Send(Negative(1, "lock")) /\ UNCHANGED device
  BY <1>1, SendType DEF device, TypeOK, DeviceInv, DeviceType, LockInv
<1>2. CASE /\ ~LockedOut
           /\ fails' = FailsLeft
           /\ security_unlocked
           /\ SendLong(0)
           /\ UNCHANGED <<seedOn, seed, sig, block>>
           /\ UNCHANGED <<awake, security_unlocked, locked, toHost>>
  BY <1>2 DEF LockedOut, FailsLeft, SendLong, TypeOK, DeviceInv, DeviceType,
              LockInv, NoAnswer
<1>3. CASE /\ ~LockedOut
           /\ fails' = FailsLeft
           /\ seedOn' = TRUE /\ seed' = Drawn
           /\ sig' = <<>> /\ block' = 0
           /\ SendLong(Drawn)
           /\ UNCHANGED <<awake, security_unlocked, locked, toHost>>
  BY <1>3 DEF LockedOut, FailsLeft, SendLong, Drawn, TypeOK, DeviceInv,
              DeviceType, LockInv, NoAnswer
<1> QED BY <1>1, <1>2, <1>3 DEF RequestSeed

(* 27 03 touches the signature only.                                       *)
LEMMA ChunkStep ==
  ASSUME IInv, NEW r \in Requests, r.sub = 3, SendChunk(r)
  PROVE  DeviceInv'
<1> USE SecurityAssumption DEF IInv
<1> DEFINE b == IF r.n = 1 THEN 0 ELSE block
           c == [seed |-> r.seed, n |-> r.n]
<1>1. c \in Chunks
  BY DEF Requests, Chunks
<1>2. b \in 0..SeqMax /\ NextBlock(b) \in 0..SeqMax
  BY DEF NextBlock, TypeOK
<1>3. Stored(c) \in Seq(Chunks) /\ <<c>> \in Seq(Chunks) /\ <<>> \in Seq(Chunks)
  BY <1>1, QueueFacts DEF Stored, TypeOK
<1>4. /\ UNCHANGED <<awake, security_unlocked, seedOn, seed, fails, locked, slot>>
      /\ sig' \in {sig, <<>>, <<c>>, Stored(c)}
      /\ block' \in {block, NextBlock(b)}
      /\ Send(Negative(3, "other")) \/ Send(Positive(3))
  BY DEF SendChunk, RepeatedKept
<1>5. toHost' \in Seq(Answers)
  BY <1>4, SendType
<1>6. sig' \in Seq(Chunks) /\ block' \in 0..SeqMax
  <2> HIDE DEF b, c
  <2> QED BY <1>2, <1>3, <1>4 DEF TypeOK
<1>7. UNCHANGED <<awake, security_unlocked, seedOn, seed, fails, locked, slot>>
  BY <1>4
<1> HIDE DEF b, c
<1> QED BY <1>5, <1>6, <1>7 DEF TypeOK, DeviceInv, DeviceType, LockInv

(* 27 02: a failure is counted and takes the seed away.                    *)
LEMMA KeyStep == IInv /\ SendKey => DeviceInv'
<1> SUFFICES ASSUME IInv, SendKey PROVE DeviceInv'
  OBVIOUS
<1> USE SecurityAssumption DEF IInv
<1>1. CASE Send(Negative(2, "other")) /\ UNCHANGED device
  BY <1>1, SendType DEF device, TypeOK, DeviceInv, DeviceType, LockInv
<1>2. ASSUME seedOn, AcceptKey, UNCHANGED <<awake, seed, block, slot>>
      PROVE  DeviceInv'
  <2>1. toHost' \in Seq(Answers)
    BY <1>2, SendType DEF AcceptKey
  <2>2. ~locked /\ locked' = locked
    BY <1>2 DEF AcceptKey, TypeOK, LockInv
  <2>3. fails' = 0 /\ 0 \in 0..MaxFails /\ 0 < MaxFails
    BY <1>2 DEF AcceptKey
  <2>4. DeviceType'
    BY <1>2, <2>1, <2>3 DEF AcceptKey, TypeOK, DeviceType
  <2>5. LockInv'
    BY <1>2, <2>2, <2>3 DEF AcceptKey, LockInv
  <2> QED BY <2>4, <2>5 DEF DeviceInv
<1>3. ASSUME seedOn, RefuseKey, UNCHANGED <<awake, seed, block, slot>>
      PROVE  DeviceInv'
  <2>1. toHost' \in Seq(Answers)
    BY <1>3, SendType DEF RefuseKey
  <2>2. fails' \in 0..MaxFails /\ ~locked
    BY <1>3 DEF RefuseKey, TypeOK, LockInv
  <2>3. locked' \in BOOLEAN /\ (locked' => fails' = MaxFails)
    BY <1>3, <2>2 DEF RefuseKey
  <2>4. sig' \in Seq(Chunks) /\ ~seedOn' /\ ~security_unlocked'
    BY <1>3 DEF RefuseKey, SeedAfterFailure
  <2>5. DeviceType'
    BY <1>3, <2>1, <2>2, <2>3, <2>4
       DEF RefuseKey, SeedAfterFailure, TypeOK, DeviceType
  <2>6. LockInv'
    BY <2>2, <2>3, <2>4 DEF LockInv
  <2> QED BY <2>5, <2>6 DEF DeviceInv
<1> QED BY <1>1, <1>2, <1>3 DEF SendKey

LEMMA FreshType ==
  /\ Fresh \in Tools
  /\ [Fresh EXCEPT !.phase = "seed"] \in Tools
<1>1. 1 \in 1..Attempts /\ 1 \in 1..NChunks /\ 1 \in 1..Tries
  BY SecurityAssumption
<1> QED BY <1>1 DEF Fresh, Tools, Idle, Working

LEMMA InitStep == Init => IInv
<1> SUFFICES ASSUME Init PROVE IInv
  OBVIOUS
<1>1. tool \in Tools
  BY FreshType DEF Init
<1>2. sig \in Seq(Chunks) /\ toDev \in Seq(Requests) /\ toHost \in Seq(Answers)
  BY DEF Init
<1>3. /\ 0 \in Nat /\ 0 \in 0..SeqMax /\ 0 \in 0..MaxFails
      /\ 0 \in 0..MaxStarts /\ 0 \in 0..MaxHasty
  BY SecurityAssumption
<1>4. TypeOK
  BY ONLY <1>1, <1>2, <1>3, Init, Zenon DEF Init, TypeOK
<1>5. LockInv
  BY SecurityAssumption DEF Init, LockInv
<1> QED BY <1>4, <1>5 DEF IInv

LEMMA ServeStep == IInv /\ DeviceServe => IInv'
<1> SUFFICES ASSUME IInv, DeviceServe PROVE IInv'
  OBVIOUS
<1>1. Head(toDev) \in Requests /\ toDev' \in Seq(Requests)
  BY QueueFacts DEF IInv, TypeOK, DeviceServe
<1>2. Head(toDev).sub \in {1, 2, 3}
  BY <1>1 DEF Requests
<1>3. CASE awake /\ Head(toDev).sub = 1
  <2>1. RequestSeed
    BY <1>3 DEF DeviceServe, Serve
  <2> QED BY <1>1, <2>1, SeedStep
          DEF DeviceServe, fixed, lost, IInv, TypeOK, DeviceInv, DeviceType
<1>4. CASE awake /\ Head(toDev).sub = 3
  <2>1. SendChunk(Head(toDev))
    BY <1>4 DEF DeviceServe, Serve
  <2>2. DeviceInv'
    BY <1>1, <1>4, <2>1, ChunkStep
  <2> QED BY <1>1, <2>2
          DEF DeviceServe, fixed, lost, IInv, TypeOK, DeviceInv, DeviceType
<1>5. CASE awake /\ Head(toDev).sub = 2
  <2>1. SendKey
    BY <1>5 DEF DeviceServe, Serve
  <2> QED BY <1>1, <2>1, KeyStep
          DEF DeviceServe, fixed, lost, IInv, TypeOK, DeviceInv, DeviceType
<1>6. CASE ~awake
  BY <1>1, <1>6 DEF DeviceServe, WakeUp, fixed, lost, IInv, TypeOK, LockInv
<1> QED BY <1>2, <1>3, <1>4, <1>5, <1>6

(* The tool's state keeps its type, whatever an attempt comes to.          *)
LEMMA ToolFacts ==
  ASSUME TypeOK
  PROVE  /\ Fresh \in Tools
         /\ [Fresh EXCEPT !.phase = "seed"] \in Tools
         /\ NextAttempt \in Tools /\ Unlocked \in Tools
         /\ \A lock \in BOOLEAN : Failed(lock) \in Tools
         /\ \A a \in Answers : Succeeded(a) \in Tools
         /\ \A t \in Tools : [t EXCEPT !.waiting = FALSE] \in Tools
         /\ [tool EXCEPT !.waiting = TRUE] \in Tools
<1> USE SecurityAssumption
<1>1. tool \in Tools
  BY DEF TypeOK
<1>2. Fresh \in Tools /\ [Fresh EXCEPT !.phase = "seed"] \in Tools
  BY FreshType
<1>3. NextAttempt \in Tools
  <2>1. /\ Attempts \in 1..Attempts
        /\ tool.attempt # Attempts => tool.attempt + 1 \in 1..Attempts
    BY <1>1 DEF Tools
  <2>2. \A k \in 1..Attempts :
          /\ [Fresh EXCEPT !.phase = "failed", !.attempt = k] \in Tools
          /\ [Fresh EXCEPT !.phase = "seed", !.attempt = k] \in Tools
    BY <1>2 DEF Tools, Idle, Working
  <2> QED BY <2>1, <2>2 DEF NextAttempt
<1>4. Unlocked \in Tools
  <2>1. tool.attempt \in 1..Attempts
    BY <1>1 DEF Tools
  <2> QED BY <1>2, <2>1 DEF Unlocked, Tools, Idle
<1>5. ASSUME NEW lock \in BOOLEAN PROVE Failed(lock) \in Tools
  <2>1. [tool EXCEPT !.phase = "wait"] \in Tools
    BY <1>1 DEF Tools
  <2>2. tool.tries < Tries => [tool EXCEPT !.tries = @ + 1] \in Tools
    BY <1>1 DEF Tools
  <2> QED BY <1>3, <2>1, <2>2 DEF Failed
<1>6. ASSUME NEW a \in Answers PROVE Succeeded(a) \in Tools
  <2>1. a.seed \in Nat
    BY DEF Answers
  <2>2. [tool EXCEPT !.phase = "chunk", !.seed = a.seed] \in Tools
    BY <1>1, <2>1 DEF Tools, Working
  <2>3. tool.chunk < NChunks => [tool EXCEPT !.chunk = @ + 1, !.tries = 1] \in Tools
    <3>1. 1 \in 1..Tries
      OBVIOUS
    <3>2. tool.chunk < NChunks => tool.chunk + 1 \in 1..NChunks
      BY <1>1 DEF Tools
    <3> QED BY <1>1, <3>1, <3>2 DEF Tools
  <2>4. [tool EXCEPT !.phase = "key"] \in Tools
    BY <1>1 DEF Tools, Working
  <2> QED BY <1>4, <2>2, <2>3, <2>4 DEF Succeeded
<1>7. ASSUME NEW t \in Tools PROVE [t EXCEPT !.waiting = FALSE] \in Tools
  BY DEF Tools
<1>8. [tool EXCEPT !.waiting = TRUE] \in Tools
  BY <1>1 DEF Tools
<1> QED BY <1>2, <1>3, <1>4, <1>5, <1>6, <1>7, <1>8

LEMMA NextStep == IInv /\ [Next]_vars => IInv'
<1> SUFFICES ASSUME IInv, [Next]_vars PROVE IInv'
  OBVIOUS
<1> USE SecurityAssumption DEF IInv
<1> TypeOK
  OBVIOUS
<1>1. CASE DeviceServe
  BY <1>1, ServeStep
<1>2. CASE DeviceFlush
  <2>1. [Positive(1) EXCEPT !.seed = slot] \in Answers
    BY <1>2 DEF DeviceFlush, Positive, Answers, TypeOK
  <2>2. toHost' \in Seq(Answers)
    BY <1>2, <2>1, QueueFacts DEF DeviceFlush, Send, TypeOK
  <2> QED BY <1>2, <2>2 DEF DeviceFlush, fixed, lost, TypeOK, LockInv
<1>3. CASE LockoutOver
  BY <1>3 DEF LockoutOver, fixed, lost, TypeOK, LockInv
<1>4. CASE FallAsleep
  <2>1. tool' \in Tools
    BY <1>4, ToolFacts DEF FallAsleep, TypeOK
  <2>2. sig' \in Seq(Chunks)
    BY <1>4 DEF FallAsleep
  <2>3. /\ awake' = FALSE /\ security_unlocked' = FALSE /\ seedOn' = FALSE
        /\ block' = 0 /\ fails' = 0 /\ locked' = FALSE
        /\ UNCHANGED <<goodKey, charging, seed, slot, toDev, toHost, starts,
                       lostChunks, lostOther, hasty>>
    BY <1>4 DEF FallAsleep, fixed, lost
  <2>4. TypeOK'
    <3>1. 0 \in 0..SeqMax /\ 0 \in 0..MaxFails
      OBVIOUS
    <3> QED BY <2>1, <2>2, <2>3, <3>1, Zenon DEF TypeOK
  <2>5. LockInv'
    BY <2>3 DEF LockInv
  <2> QED BY <2>4, <2>5
<1>5. CASE EndSession
  BY <1>5, ToolFacts DEF EndSession, fixed, lost, TypeOK, LockInv
<1>6. CASE Start
  <2>1. toHost' \in Seq(Answers)
    BY <1>6 DEF Start
  <2>2. tool' \in Tools
    BY <1>6, ToolFacts DEF Start
  <2>3. /\ awake' = TRUE
        /\ security_unlocked' \in {security_unlocked, FALSE}
        /\ UNCHANGED <<goodKey, charging, seedOn, seed, sig, block, fails,
                       locked, slot, toDev, lostChunks, lostOther, hasty>>
    BY <1>6 DEF Start, fixed, lost
  <2>4. security_unlocked' \in BOOLEAN /\ (security_unlocked' => security_unlocked)
    <3>1. CASE security_unlocked' = security_unlocked
      BY <3>1, Zenon DEF TypeOK
    <3>2. CASE security_unlocked' = FALSE
      BY <3>2, Zenon
    <3> QED BY <2>3, <3>1, <3>2, Zenon
  <2>5. starts' \in 0..MaxStarts
    BY <1>6 DEF Start, TypeOK
  <2>6. LockInv'
    BY <2>3, <2>4 DEF LockInv
  <2>7. TypeOK'
    BY <2>1, <2>2, <2>3, <2>4, <2>5 DEF TypeOK
  <2> QED BY <2>6, <2>7
<1>7. CASE ToolSend
  <2>1. Request \in Requests
    <3>1. tool.seed \in Nat /\ tool.chunk \in 1..NChunks
      BY DEF TypeOK, Tools
    <3>2. CASE tool.phase = "chunk"
      BY <3>1, <3>2 DEF Request, Requests, SubOf
    <3>3. CASE tool.phase = "seed"
      BY <3>3 DEF Request, Requests, SubOf
    <3>4. CASE tool.phase = "key"
      BY <3>4 DEF Request, Requests, SubOf
    <3> QED BY <1>7, <3>2, <3>3, <3>4 DEF ToolSend, Working
  <2>2. toDev' \in Seq(Requests)
    BY <1>7, <2>1, QueueFacts DEF ToolSend, TypeOK
  <2>3. tool' \in Tools
    BY <1>7, ToolFacts DEF ToolSend
  <2> QED BY <1>7, <2>2, <2>3 DEF ToolSend, fixed, device, lost, TypeOK, LockInv
<1>8. CASE ToolTake
  <2>1. Head(toHost) \in Answers /\ toHost' \in Seq(Answers)
    BY <1>8, QueueFacts DEF ToolTake, TypeOK
  <2>2. tool' \in Tools
    BY <1>8, <2>1, ToolFacts DEF ToolTake, TypeOK
  <2> QED BY <1>8, <2>1, <2>2 DEF ToolTake, fixed, device, lost, TypeOK, LockInv
<1>9. CASE ToolTimeout
  <2>1. tool' \in Tools
    BY <1>9, ToolFacts DEF ToolTimeout
  <2>2. hasty' \in 0..MaxHasty
    BY <1>9 DEF ToolTimeout, TypeOK
  <2> QED BY <1>9, <2>1, <2>2 DEF ToolTimeout, fixed, device, lost, TypeOK, LockInv
<1>10. CASE EndWait
  BY <1>10, ToolFacts DEF EndWait, fixed, device, lost, TypeOK, LockInv
<1>11. CASE Lose
  <2>1. toDev' \in Seq(Requests) /\ toHost' \in Seq(Answers)
    BY <1>11, QueueFacts DEF Lose, TypeOK
  <2>2. lostChunks' \in Nat /\ lostOther' \in Nat
    BY <1>11 DEF Lose, Count, TypeOK
  <2> QED BY <1>11, <2>1, <2>2 DEF Lose, fixed, device, TypeOK, LockInv
<1>12. CASE UNCHANGED vars
  BY <1>12 DEF vars, fixed, device, lost, TypeOK, LockInv
<1> QED BY <1>1, <1>2, <1>3, <1>4, <1>5, <1>6, <1>7, <1>8, <1>9, <1>10, <1>11,
           <1>12 DEF Next

(* The variables keep their types: in particular the failures never exceed *)
(* the limit, though the device counts them without looking at it.         *)
THEOREM SaTypeCorrect == Spec => []TypeOK
<1>1. IInv => TypeOK
  BY DEF IInv
<1> QED BY <1>1, InitStep, NextStep, PTL DEF Spec

(* While the lockout runs there is no seed and the device is not unlocked, *)
(* although 27 02 looks at no timer (handle_security_access).              *)
THEOREM SaNoSeedInLockout == Spec => []NoSeedInLockout
<1>1. IInv => NoSeedInLockout
  BY SecurityAssumption DEF IInv, TypeOK, LockInv, NoSeedInLockout
<1> QED BY <1>1, InitStep, NextStep, PTL DEF Spec

-----------------------------------------------------------------------------
(* As long as no timeout expires early the two take turns.  The invariant  *)
(* says whose turn it is and what it is about, in seven parts.             *)

(* A request, its answer in the slot and its answer on the way exclude     *)
(* each other, and the tool waits as long as there is one of them.         *)
InTurn ==
  /\ tool.waiting => tool.phase \in Working
  /\ ~tool.waiting => Quiet
  /\ toDev # <<>> => toDev = <<Request>> /\ toHost = <<>> /\ slot = NoAnswer
  /\ toHost # <<>> => toHost = <<Head(toHost)>> /\ slot = NoAnswer
  /\ toHost # <<>> /\ Head(toHost).ok => Head(toHost).sub = Request.sub
  /\ slot # NoAnswer => tool.phase = "seed"

(* A seed offered to the tool is the device's, with no chunk signed yet.   *)
Offered(s) ==
  /\ s = 0 => security_unlocked
  /\ s # 0 => awake /\ seedOn /\ s = seed /\ sig = <<>> /\ block = 0

SeedTold ==
  /\ slot # NoAnswer => Offered(slot)
  /\ tool.phase = "seed" /\ toHost # <<>> /\ Head(toHost).ok =>
       Offered(Head(toHost).seed)
  /\ tool.phase = "seed" => tool.chunk = 1 /\ tool.tries = 1

(* The first k chunks of the signature of the device's seed.               *)
Signed(k) == [n \in 1..k |-> [seed |-> seed, n |-> n]]

(* The device holds the chunks before the tool's, or that one as well.     *)
ChunkTold ==
  tool.phase = "chunk" =>
    /\ awake /\ seedOn /\ tool.seed = seed
    /\ sig = Signed(block)
    /\ block \in {tool.chunk - 1, tool.chunk}
    /\ toHost # <<>> => Head(toHost).ok /\ block = tool.chunk

(* When 27 02 comes the signature is whole, and 67 02 is the truth.        *)
KeyTold ==
  /\ tool.phase = "key" /\ (tool.waiting => toDev # <<>>) =>
       awake /\ seedOn /\ sig = Signed(NChunks)
  /\ tool.phase = "key" /\ toHost # <<>> /\ Head(toHost).ok =>
       security_unlocked
  /\ tool.phase = "unlocked" => security_unlocked

(* A tool with the right key is refused nothing.                           *)
Believed ==
  goodKey =>
    /\ fails = 0
    /\ toHost # <<>> => Head(toHost).ok
    /\ tool.phase # "wait"

(* Every further try of a chunk has been paid for by a chunk lost.         *)
Again ==
  tool.phase = "chunk" =>
    /\ tool.tries <= lostChunks + 1
    /\ tool.waiting /\ Quiet => tool.tries <= lostChunks

(* Every further attempt has been paid for by another message lost, which  *)
(* pays for two when it sends the device to sleep.                         *)
Spent ==
  goodKey /\ lostChunks < Tries =>
    /\ tool.attempt <= Spoils + 1
    /\ tool.phase \in {"seed", "key"} /\ ~awake => tool.attempt <= Spoils
    /\ tool.phase \in {"seed", "key"} /\ tool.waiting /\ Quiet =>
         tool.attempt <= Spoils
    /\ tool.phase = "seed" /\ tool.waiting /\ Quiet /\ ~awake =>
         tool.attempt + 1 <= Spoils
    /\ tool.phase = "key" /\ tool.waiting /\ Quiet /\ ~charging =>
         tool.attempt + 1 <= Spoils
    /\ tool.phase = "failed" => Attempts <= Spoils

Course ==
  /\ InTurn /\ SeedTold /\ ChunkTold /\ KeyTold
  /\ Believed /\ Again /\ Spent

PoweredInv == charging => awake

SInv == IInv /\ PoweredInv /\ (hasty = 0 => Course)

(* Queues of one message.                                                  *)
LEMMA OneElement ==
  /\ \A x : /\ Append(<<>>, x) = <<x>> /\ <<x>> # <<>>
            /\ Head(<<x>>) = x /\ Tail(<<x>>) = <<>>
  /\ \A x, y : <<x>> = <<y>> => x = y
OBVIOUS

(* One more chunk of the signature.                                        *)
LEMMA SignedNext ==
  ASSUME NEW k \in Nat, seed \in Nat, NEW c, c = [seed |-> seed, n |-> k + 1]
  PROVE  /\ Append(Signed(k), c) = Signed(k + 1)
         /\ Len(Signed(k)) = k
         /\ Signed(0) = <<>>
         /\ k = 0 => Signed(1) = <<c>>
<1> DEFINE D == [seed : Nat, n : Nat]
<1>1. \A j \in Nat : Signed(j) \in Seq(D) /\ Len(Signed(j)) = j
  BY DEF Signed
<1>2. c \in D
  OBVIOUS
<1>3. Append(Signed(k), c) = Signed(k + 1)
  <2>1. Append(Signed(k), c) \in Seq(D) /\ Len(Append(Signed(k), c)) = k + 1
    BY <1>1, <1>2
  <2>2. \A i \in 1..(k + 1) : Append(Signed(k), c)[i] = [seed |-> seed, n |-> i]
    <3>1. \A i \in 1..k : Append(Signed(k), c)[i] = Signed(k)[i]
      BY <1>1, <1>2
    <3>2. Append(Signed(k), c)[k + 1] = c
      BY <1>1, <1>2
    <3> QED BY <3>1, <3>2 DEF Signed
  <2> HIDE DEF D
  <2>3. Append(Signed(k), c) = [i \in 1..(k + 1) |-> Append(Signed(k), c)[i]]
    BY <2>1
  <2> QED BY <2>2, <2>3 DEF Signed
<1>4. Signed(0) = <<>>
  BY <1>1
<1>5. ASSUME k = 0 PROVE Signed(1) = <<c>>
  <2>1. k + 1 = 1
    BY <1>5
  <2>2. Append(<<>>, c) = Signed(1)
    BY <1>3, <1>4, <1>5, <2>1
  <2> QED BY <2>2, OneElement
<1> QED BY <1>1, <1>3, <1>4, <1>5

(* What a request finds: it is the tool's, and nothing else is under way.  *)
LEMMA Alone ==
  ASSUME IInv, Course, toDev # <<>>
  PROVE  /\ toDev = <<Request>> /\ Head(toDev) = Request /\ Tail(toDev) = <<>>
         /\ toHost = <<>> /\ slot = NoAnswer
         /\ tool.waiting /\ tool.phase \in Working
<1>1. toDev = <<Request>> /\ toHost = <<>> /\ slot = NoAnswer
  BY DEF Course, InTurn
<1>2. tool.waiting /\ tool.phase \in Working
  BY DEF Course, InTurn, Quiet
<1> QED BY <1>1, <1>2, OneElement

(* The request that wakes the device is lost, and can only be 27 01.       *)
LEMMA CourseWakeUp ==
  ASSUME IInv, PoweredInv, Course, DeviceServe, ~awake
  PROVE  Course'
<1>1. /\ toDev # <<>> /\ toDev' = <<>>
      /\ toHost = <<>> /\ slot = NoAnswer
      /\ tool.waiting /\ tool.phase \in Working
  BY Alone DEF DeviceServe
<1>2. /\ awake' = TRUE
      /\ UNCHANGED <<security_unlocked, seedOn, seed, sig, block, fails, slot,
                     toHost, goodKey, charging, tool, lostChunks, lostOther>>
  BY DEF DeviceServe, WakeUp, fixed, lost
<1>3. tool.phase = "seed"
  BY <1>1 DEF Working, Course, ChunkTold, KeyTold
<1>4. tool'.phase = "seed" /\ tool'.waiting /\ toHost' = <<>> /\ slot' = NoAnswer
  BY <1>1, <1>2, <1>3
<1>5. InTurn'
  BY <1>1, <1>4 DEF InTurn, Working
<1>6. SeedTold'
  BY <1>2, <1>4 DEF Course, SeedTold
<1>7. ChunkTold' /\ KeyTold' /\ Again'
  BY <1>4 DEF ChunkTold, KeyTold, Again
<1>8. Believed'
  BY <1>2, <1>4 DEF Course, Believed
<1>9. Spent'
  BY <1>2, <1>3 DEF Course, Spent, Spoils
<1> QED BY <1>5, <1>6, <1>7, <1>8, <1>9 DEF Course

(* What an answer of the device changes neither: the tool has not moved,   *)
(* and something is under way as before.                                   *)
LEMMA CourseAnswered ==
  ASSUME IInv, Course, awake, awake',
         UNCHANGED <<goodKey, charging, tool, lostChunks, lostOther>>,
         toHost' # <<>> \/ slot' # NoAnswer
  PROVE  Again' /\ Spent'
<1>1. ~Quiet'
  BY DEF Quiet
<1>2. Again'
  BY <1>1 DEF Course, Again
<1>3. Spent'
  <2>1. Spoils' = Spoils /\ tool' = tool /\ (goodKey' <=> goodKey)
        /\ lostChunks' = lostChunks
    BY DEF Spoils
  <2> QED BY <1>1, <2>1 DEF Course, Spent
<1> QED BY <1>2, <1>3

(* 27 01 is answered with a seed, or with a lockout the tool has earned.   *)
LEMMA CourseSeed ==
  ASSUME IInv, PoweredInv, Course, DeviceServe, awake, tool.phase = "seed"
  PROVE  Course'
<1> USE SecurityAssumption
<1>1. /\ toDev # <<>> /\ toDev' = <<>> /\ Head(toDev) = Request
      /\ toHost = <<>> /\ slot = NoAnswer
      /\ tool.waiting /\ tool.phase \in Working
  BY Alone DEF DeviceServe
<1>2. RequestSeed
  BY <1>1 DEF DeviceServe, Serve, Request, SubOf
<1>3. /\ UNCHANGED <<goodKey, charging, tool, lostChunks, lostOther>>
      /\ tool'.phase = "seed" /\ tool'.waiting
  BY <1>1 DEF DeviceServe, fixed, lost
<1>4. Request'.sub = 1
  BY <1>3 DEF Request, SubOf
<1>5. ChunkTold'
  BY <1>3 DEF ChunkTold
<1>6. CASE LockedOut /\ Send(Negative(1, "lock")) /\ UNCHANGED device
  <2>1. toHost' = <<Negative(1, "lock")>> /\ ~Head(toHost').ok /\ toHost' # <<>>
    BY <1>1, <1>6, OneElement DEF Send, Negative
  <2>2. /\ toHost' = <<Head(toHost')>>
        /\ UNCHANGED <<awake, slot, fails, security_unlocked>>
    BY <1>6, <2>1, OneElement DEF device
  <2>3. ~goodKey
    BY <1>6 DEF Course, Believed, LockedOut
  <2>4. InTurn'
    BY <1>1, <1>3, <2>1, <2>2 DEF InTurn, Working
  <2>5. SeedTold'
    BY <1>1, <1>3, <2>1, <2>2 DEF Course, SeedTold
  <2>6. KeyTold' /\ Believed'
    BY <1>3, <2>3 DEF KeyTold, Believed
  <2>7. Again' /\ Spent'
    BY <1>3, <2>1, <2>2, CourseAnswered
  <2> QED BY <1>5, <2>4, <2>5, <2>6, <2>7 DEF Course
<1>7. ASSUME ~LockedOut, fails' = FailsLeft,
             UNCHANGED <<awake, security_unlocked, toHost>>,
             slot' # NoAnswer, Offered(slot)'
      PROVE  Course'
  <2>1. InTurn'
    BY <1>1, <1>3, <1>7 DEF InTurn, Working
  <2>2. SeedTold'
    BY <1>1, <1>3, <1>7 DEF Course, SeedTold
  <2>3. KeyTold'
    BY <1>3 DEF KeyTold
  <2>4. Believed'
    BY <1>1, <1>3, <1>7 DEF Course, Believed, FailsLeft
  <2>5. Again' /\ Spent'
    BY <1>3, <1>7, CourseAnswered
  <2> QED BY <1>5, <2>1, <2>2, <2>3, <2>4, <2>5 DEF Course
<1>8. CASE /\ ~LockedOut /\ fails' = FailsLeft
           /\ security_unlocked /\ SendLong(0)
           /\ UNCHANGED <<awake, security_unlocked, toHost>>
  <2>1. slot' = 0 /\ slot' # NoAnswer
    BY <1>1, <1>8 DEF SendLong, NoAnswer
  <2>2. Offered(slot)'
    BY <1>8, <2>1 DEF Offered
  <2> QED BY <1>7, <1>8, <2>1, <2>2
<1>9. CASE /\ ~LockedOut /\ fails' = FailsLeft
           /\ seedOn' = TRUE /\ seed' = Drawn
           /\ sig' = <<>> /\ block' = 0
           /\ SendLong(Drawn)
           /\ UNCHANGED <<awake, security_unlocked, toHost>>
  <2>1. seed \in Nat
    BY DEF IInv, TypeOK
  <2>2. Drawn # 0 /\ Drawn # NoAnswer
    BY <2>1 DEF Drawn, NoAnswer
  <2>3. slot' = Drawn
    BY <1>1, <1>9 DEF SendLong
  <2>4. Offered(slot)'
    BY <1>9, <2>2, <2>3 DEF Offered
  <2> QED BY <1>7, <1>9, <2>2, <2>3, <2>4
<1> QED BY <1>2, <1>6, <1>8, <1>9 DEF RequestSeed

(* 27 03 is answered, and the signature holds the chunk.                   *)
LEMMA CourseChunk ==
  ASSUME IInv, PoweredInv, Course, DeviceServe, awake, tool.phase = "chunk"
  PROVE  Course'
<1> USE SecurityAssumption
<1> DEFINE n == tool.chunk
           b == IF n = 1 THEN 0 ELSE block
           c == [seed |-> tool.seed, n |-> n]
<1>1. /\ toDev # <<>> /\ toDev' = <<>> /\ Head(toDev) = Request
      /\ toHost = <<>> /\ slot = NoAnswer
      /\ tool.waiting /\ tool.phase \in Working
  BY Alone DEF DeviceServe
<1>2. Request.sub = 3 /\ Request.seed = tool.seed /\ Request.n = n
  BY DEF Request, SubOf
<1>3. SendChunk(Request)
  BY <1>1, <1>2 DEF DeviceServe, Serve
<1>4. /\ UNCHANGED <<goodKey, charging, tool, lostChunks, lostOther>>
      /\ tool'.phase = "chunk" /\ tool'.waiting
  BY <1>1 DEF DeviceServe, fixed, lost
<1>5. Request'.sub = 3
  BY <1>4 DEF Request, SubOf
<1>6. /\ seedOn /\ tool.seed = seed /\ sig = Signed(block)
      /\ block \in {n - 1, n}
  BY DEF Course, ChunkTold
<1>7. /\ n \in 1..NChunks /\ seed \in Nat /\ block \in Nat
  BY DEF IInv, TypeOK, Tools
<1>8. UNCHANGED <<awake, security_unlocked, seedOn, seed, fails, slot>>
  BY <1>3 DEF SendChunk
<1>9. /\ block' = n /\ sig' = Signed(n)
      /\ Send(Positive(3))
  <2>1. CASE Repeated(n, b) /\ Send(Positive(3)) /\ sig' = sig /\ block' = block
    <3>1. block = n
      BY <1>7, <2>1 DEF Repeated
    <3> QED BY <1>6, <2>1, <3>1
  <2>2. CASE /\ ~Repeated(n, b)
             /\ block' = NextBlock(b)
             /\ IF n = NextBlock(b)
                  THEN /\ sig' = IF n = 1 THEN <<c>> ELSE Stored(c)
                       /\ Send(Positive(3))
                  ELSE /\ sig' = <<>>
                       /\ Send(Negative(3, "other"))
    <3>1. b = n - 1
      BY <1>6, <1>7, <2>2 DEF Repeated
    <3>2. NextBlock(b) = n
      BY <1>7, <3>1 DEF NextBlock
    <3>3. c = [seed |-> seed, n |-> (n - 1) + 1] /\ n - 1 \in Nat /\ (n - 1) + 1 = n
      BY <1>6, <1>7
    <3>4. Append(Signed(n - 1), c) = Signed(n) /\ Len(Signed(n - 1)) = n - 1
      <4> HIDE DEF c, n
      <4> QED BY <1>7, <3>3, SignedNext
    <3>5. n = 1 => Signed(1) = <<c>>
      <4> HIDE DEF c, n
      <4> QED BY <1>7, <3>3, SignedNext
    <3>6. n # 1 => Stored(c) = Signed(n)
      <4>1. ASSUME n # 1 PROVE sig = Signed(n - 1) /\ n - 1 < NChunks
        BY <1>6, <1>7, <3>1, <4>1
      <4> QED BY <3>4, <4>1 DEF Stored
    <3>7. sig' = Signed(n) /\ block' = n /\ Send(Positive(3))
      <4> HIDE DEF c, n
      <4> QED BY <2>2, <3>2, <3>5, <3>6
    <3> QED BY <3>7
  <2> QED BY <1>2, <1>3, <1>6, <2>1, <2>2 DEF SendChunk, RepeatedKept
<1>10. toHost' = <<Positive(3)>> /\ Positive(3).ok /\ Positive(3).sub = 3
  BY <1>1, <1>9, OneElement DEF Send, Positive
<1>11. /\ toHost' # <<>> /\ Head(toHost') = Positive(3)
       /\ Head(toHost').ok /\ Head(toHost').sub = 3
       /\ toHost' = <<Head(toHost')>>
  BY <1>10, OneElement
<1> HIDE DEF n
<1>12. InTurn'
  BY <1>1, <1>4, <1>5, <1>8, <1>11 DEF InTurn, Working
<1>13. SeedTold' /\ KeyTold'
  BY <1>1, <1>4, <1>8 DEF SeedTold, KeyTold
<1>14. ChunkTold'
  <2>1. sig' = Signed(block)'
    BY <1>8, <1>9 DEF Signed
  <2>2. tool'.chunk = n
    BY <1>4 DEF n
  <2> QED BY <1>4, <1>6, <1>7, <1>8, <1>9, <1>11, <2>1, <2>2 DEF ChunkTold
<1>15. Believed'
  BY <1>4, <1>8, <1>11 DEF Course, Believed
<1>16. Again' /\ Spent'
  BY <1>4, <1>8, <1>11, CourseAnswered
<1> QED BY <1>12, <1>13, <1>14, <1>15, <1>16 DEF Course

(* 27 02 is answered with the truth: to the right key with 67 02.          *)
LEMMA CourseKey ==
  ASSUME IInv, PoweredInv, Course, DeviceServe, awake, tool.phase = "key"
  PROVE  Course'
<1> USE SecurityAssumption
<1>1. /\ toDev # <<>> /\ toDev' = <<>> /\ Head(toDev) = Request
      /\ toHost = <<>> /\ slot = NoAnswer
      /\ tool.waiting /\ tool.phase \in Working
  BY Alone DEF DeviceServe
<1>2. Request.sub = 2
  BY DEF Request, SubOf
<1>3. SendKey
  BY <1>1, <1>2 DEF DeviceServe, Serve
<1>4. /\ UNCHANGED <<goodKey, charging, tool, lostChunks, lostOther>>
      /\ tool'.phase = "key" /\ tool'.waiting
  BY <1>1 DEF DeviceServe, fixed, lost
<1>5. Request'.sub = 2
  BY <1>4 DEF Request, SubOf
<1>6. seedOn /\ sig = Signed(NChunks) /\ seed \in Nat
  BY <1>1 DEF Course, KeyTold, IInv, TypeOK
<1>7. Len(sig) = NChunks
  <2> DEFINE c == [seed |-> seed, n |-> NChunks + 1]
  <2>1. c = [seed |-> seed, n |-> NChunks + 1] /\ NChunks \in Nat
    OBVIOUS
  <2> HIDE DEF c
  <2> QED BY <1>6, <2>1, SignedNext
<1>8. goodKey => Verified
  BY <1>6 DEF Verified, Signed
<1>9. (AcceptKey \/ RefuseKey) /\ UNCHANGED <<awake, seed, block, slot>>
  <2>1. seedOn /\ ~(Len(sig) < NChunks)
    BY <1>6, <1>7
  <2> QED BY <1>3, <2>1, Zenon DEF SendKey
<1>10. /\ toHost' # <<>> /\ toHost' = <<Head(toHost')>>
       /\ Head(toHost').ok => Head(toHost').sub = 2 /\ security_unlocked'
       /\ goodKey => Head(toHost').ok /\ fails' = 0
  <2>1. CASE AcceptKey
    <3>1. toHost' = <<Positive(2)>> /\ security_unlocked' = TRUE /\ fails' = 0
      BY <1>1, <2>1, OneElement DEF AcceptKey, Send
    <3>2. Positive(2).ok /\ Positive(2).sub = 2
      BY DEF Positive
    <3> QED BY <3>1, <3>2, OneElement
  <2>2. CASE RefuseKey
    <3> DEFINE w == IF fails' = MaxFails THEN "lock" ELSE "other"
    <3>1. toHost' = <<Negative(2, w)>> /\ ~goodKey
      BY <1>1, <1>8, <2>2, OneElement DEF RefuseKey, Send
    <3>2. ~Negative(2, w).ok
      BY DEF Negative
    <3> QED BY <3>1, <3>2, OneElement
  <2> QED BY <1>9, <2>1, <2>2
<1>11. InTurn'
  BY <1>1, <1>4, <1>5, <1>9, <1>10 DEF InTurn, Working
<1>12. SeedTold' /\ ChunkTold'
  BY <1>1, <1>4, <1>9 DEF SeedTold, ChunkTold
<1>13. KeyTold'
  BY <1>1, <1>4, <1>10 DEF KeyTold
<1>14. Believed'
  BY <1>4, <1>10 DEF Believed
<1>15. Again' /\ Spent'
  BY <1>4, <1>9, <1>10, CourseAnswered
<1> QED BY <1>11, <1>12, <1>13, <1>14, <1>15 DEF Course

LEMMA CourseServe ==
  ASSUME IInv, PoweredInv, Course, DeviceServe
  PROVE  Course'
<1>1. tool.phase \in {"seed", "chunk", "key"}
  BY Alone DEF DeviceServe, Working
<1>2. awake \in BOOLEAN
  BY DEF IInv, TypeOK
<1> QED BY <1>1, <1>2, CourseWakeUp, CourseSeed, CourseChunk, CourseKey

(* The long answer leaves its slot.                                        *)
LEMMA CourseFlush ==
  ASSUME IInv, PoweredInv, Course, DeviceFlush
  PROVE  Course'
<1> DEFINE a == [Positive(1) EXCEPT !.seed = slot]
<1>1. /\ tool.phase = "seed" /\ tool.waiting /\ toHost = <<>> /\ toDev = <<>>
      /\ Offered(slot)
  BY DEF DeviceFlush, Course, InTurn, SeedTold, Quiet
<1>2. a.ok /\ a.sub = 1 /\ a.seed = slot
  BY DEF Positive
<1>3. toHost' = <<a>>
  BY <1>1, OneElement DEF DeviceFlush, Send
<1>4. /\ toHost' # <<>> /\ toHost' = <<Head(toHost')>>
      /\ Head(toHost').ok /\ Head(toHost').sub = 1 /\ Head(toHost').seed = slot
  <2> HIDE DEF a
  <2> QED BY <1>2, <1>3, OneElement
<1>5. /\ UNCHANGED <<goodKey, charging, awake, security_unlocked, seedOn, seed,
                     sig, block, fails, tool, toDev, lostChunks, lostOther>>
      /\ slot' = NoAnswer
  BY DEF DeviceFlush, fixed, lost
<1>6. Request'.sub = 1
  BY <1>1, <1>5 DEF Request, SubOf
<1>7. InTurn'
  BY <1>1, <1>4, <1>5, <1>6 DEF InTurn, Working
<1>8. SeedTold'
  <2>1. Offered(Head(toHost).seed)'
    BY <1>1, <1>4, <1>5 DEF Offered
  <2> QED BY <1>1, <1>5, <2>1 DEF Course, SeedTold
<1>9. ChunkTold' /\ KeyTold' /\ Again'
  BY <1>1, <1>5 DEF ChunkTold, KeyTold, Again
<1>10. Believed'
  BY <1>4, <1>5 DEF Course, Believed
<1>11. Spent'
  <2>1. ~Quiet' /\ Spoils' = Spoils
    BY <1>4, <1>5 DEF Quiet, Spoils
  <2> QED BY <1>1, <1>5, <2>1 DEF Course, Spent
<1> QED BY <1>7, <1>8, <1>9, <1>10, <1>11 DEF Course

(* A step that leaves alone all that Course is about.                      *)
courseVars == <<goodKey, charging, awake, security_unlocked, seedOn, seed, sig,
                block, fails, slot, tool, toDev, toHost, lostChunks, lostOther>>

LEMMA CourseSame ==
  ASSUME Course, UNCHANGED courseVars
  PROVE  Course'
<1> USE DEF courseVars
<1>1. InTurn' BY DEF Course, InTurn, Quiet, Request
<1>2. SeedTold' BY DEF Course, SeedTold, Offered
<1>3. ChunkTold' BY DEF Course, ChunkTold, Signed
<1>4. KeyTold' BY DEF Course, KeyTold, Signed
<1>5. Believed' BY DEF Course, Believed
<1>6. Again' BY DEF Course, Again, Quiet
<1>7. Spent' BY DEF Course, Spent, Spoils, Quiet
<1> QED BY <1>1, <1>2, <1>3, <1>4, <1>5, <1>6, <1>7 DEF Course

(* Only a tool that has lost its 27 02, or has nothing to do, lets the     *)
(* device fall asleep.                                                     *)
LEMMA CourseAsleep ==
  ASSUME IInv, PoweredInv, Course, FallAsleep
  PROVE  Course'
<1>1. /\ awake /\ ~charging /\ toDev = <<>> /\ toHost = <<>> /\ slot = NoAnswer
      /\ awake' = FALSE /\ fails' = 0
      /\ UNCHANGED <<goodKey, charging, slot, toDev, toHost, lostChunks,
                     lostOther>>
  BY DEF FallAsleep, Quiet, fixed, lost
<1>2. CASE tool.phase \in Idle
  <2>1. tool' = Fresh
    BY <1>2 DEF FallAsleep
  <2>2. /\ tool'.phase = "idle" /\ ~tool'.waiting /\ tool'.attempt = 1
    BY <2>1 DEF Fresh
  <2>3. InTurn'
    BY <1>1, <2>2 DEF InTurn, Quiet
  <2>4. SeedTold' /\ ChunkTold' /\ KeyTold' /\ Again'
    BY <1>1, <2>2 DEF SeedTold, ChunkTold, KeyTold, Again
  <2>5. Believed'
    BY <1>1, <2>2 DEF Believed
  <2>6. Spent'
    BY <1>1, <2>2 DEF Spent, Spoils, IInv, TypeOK
  <2> QED BY <2>3, <2>4, <2>5, <2>6 DEF Course
<1>3. CASE tool.phase = "key" /\ tool.waiting
  <2>1. tool' = tool
    BY <1>3 DEF FallAsleep, Idle
  <2>2. InTurn'
    BY <1>1, <1>3, <2>1 DEF InTurn, Working
  <2>3. SeedTold' /\ ChunkTold' /\ KeyTold' /\ Again'
    BY <1>1, <1>3, <2>1 DEF SeedTold, ChunkTold, KeyTold, Again
  <2>4. Believed'
    BY <1>1, <1>3, <2>1 DEF Believed
  <2>5. Spent'
    <3>1. Quiet /\ Quiet' /\ Spoils' = Spoils
      BY <1>1 DEF Quiet, Spoils
    <3> QED BY <1>1, <1>3, <2>1, <3>1 DEF Course, Spent
  <2> QED BY <2>2, <2>3, <2>4, <2>5 DEF Course
<1> QED BY <1>2, <1>3 DEF FallAsleep

(* Two operations begin and end with nothing under way.                    *)
LEMMA CourseEndSession ==
  ASSUME IInv, PoweredInv, Course, EndSession
  PROVE  Course'
<1>1. /\ toDev = <<>> /\ toHost = <<>>
      /\ slot' = NoAnswer
      /\ UNCHANGED <<goodKey, charging, awake, fails, toDev, toHost, lostChunks,
                     lostOther>>
  BY DEF EndSession, fixed, lost, Course, InTurn, Quiet, Idle, Working
<1>2. /\ tool'.phase = "idle" /\ ~tool'.waiting /\ tool'.attempt = 1
  BY DEF EndSession, Fresh
<1>3. InTurn'
  BY <1>1, <1>2 DEF InTurn, Quiet
<1>4. SeedTold' /\ ChunkTold' /\ KeyTold' /\ Again'
  BY <1>1, <1>2 DEF SeedTold, ChunkTold, KeyTold, Again
<1>5. Believed'
  BY <1>1, <1>2 DEF Course, Believed
<1>6. Spent'
  BY <1>1, <1>2 DEF Spent, Spoils, IInv, TypeOK
<1> QED BY <1>3, <1>4, <1>5, <1>6 DEF Course

LEMMA CourseStart ==
  ASSUME IInv, PoweredInv, Course, Start
  PROVE  Course'
<1>1. /\ toDev = <<>> /\ toHost' = <<>> /\ slot = NoAnswer /\ awake' = TRUE
      /\ UNCHANGED <<goodKey, charging, fails, slot, toDev, lostChunks,
                     lostOther>>
  BY DEF Start, fixed, lost, Course, InTurn, Quiet, Idle, Working
<1>2. /\ tool'.phase = "seed" /\ ~tool'.waiting /\ tool'.attempt = 1
      /\ tool'.chunk = 1 /\ tool'.tries = 1
  BY DEF Start, Fresh
<1>3. InTurn'
  BY <1>1, <1>2 DEF InTurn, Quiet
<1>4. SeedTold' /\ ChunkTold' /\ KeyTold' /\ Again'
  BY <1>1, <1>2 DEF SeedTold, ChunkTold, KeyTold, Again
<1>5. Believed'
  BY <1>1, <1>2 DEF Course, Believed
<1>6. Spent'
  BY <1>1, <1>2 DEF Spent, Spoils, IInv, TypeOK
<1> QED BY <1>3, <1>4, <1>5, <1>6 DEF Course

LEMMA CourseSend ==
  ASSUME IInv, PoweredInv, Course, ToolSend
  PROVE  Course'
<1>1. /\ tool.phase \in Working /\ ~tool.waiting
      /\ toDev = <<>> /\ toHost = <<>> /\ slot = NoAnswer
      /\ UNCHANGED <<goodKey, charging, awake, security_unlocked, seedOn, seed,
                     sig, block, fails, slot, toHost, lostChunks, lostOther>>
  BY DEF ToolSend, fixed, device, lost, Course, InTurn, Quiet
<1>2. /\ tool'.waiting
      /\ UNCHANGED <<tool.phase, tool.attempt, tool.seed, tool.chunk, tool.tries>>
  BY DEF ToolSend, IInv, TypeOK, Tools
<1>3. toDev' = <<Request>> /\ toDev' # <<>>
  BY <1>1, OneElement DEF ToolSend
<1>4. Request' = Request
  BY <1>2 DEF Request
<1>5. InTurn'
  BY <1>1, <1>2, <1>3, <1>4 DEF InTurn
<1>6. SeedTold'
  BY <1>1, <1>2 DEF Course, SeedTold
<1>7. ChunkTold'
  BY <1>1, <1>2 DEF Course, ChunkTold, Signed
<1>8. KeyTold'
  BY <1>1, <1>2 DEF Course, KeyTold, Signed
<1>9. Believed'
  BY <1>1, <1>2 DEF Course, Believed
<1>10. ~Quiet' /\ Spoils' = Spoils
  BY <1>1, <1>3 DEF Quiet, Spoils
<1>11. Again' /\ Spent'
  BY <1>1, <1>2, <1>10 DEF Course, Again, Spent
<1> QED BY <1>5, <1>6, <1>7, <1>8, <1>9, <1>11 DEF Course

(* A further attempt, which the messages lost have paid for.               *)
LEMMA CourseNextAttempt ==
  ASSUME IInv, PoweredInv, Course, Quiet',
         UNCHANGED <<goodKey, charging, awake, security_unlocked, seedOn, seed,
                     sig, block, fails, slot, lostChunks, lostOther>>,
         tool' \in {NextAttempt, [NextAttempt EXCEPT !.waiting = FALSE]},
         goodKey /\ lostChunks < Tries =>
           tool.attempt <= Spoils /\ (~awake => tool.attempt + 1 <= Spoils)
  PROVE  Course'
<1>1. tool.attempt \in 1..Attempts /\ Attempts \in Nat
  BY SecurityAssumption DEF IInv, TypeOK, Tools
<1>2. /\ ~tool'.waiting /\ tool'.tries = 1 /\ tool'.chunk = 1
      /\ \/ tool'.phase = "failed" /\ tool.attempt = Attempts /\ tool'.attempt = Attempts
         \/ tool'.phase = "seed" /\ tool'.attempt = tool.attempt + 1
  BY DEF NextAttempt, Fresh
<1>3. toDev' = <<>> /\ toHost' = <<>> /\ slot' = NoAnswer
  BY DEF Quiet
<1>4. InTurn'
  BY <1>2, <1>3 DEF InTurn, Quiet
<1>5. SeedTold' /\ ChunkTold' /\ KeyTold' /\ Again'
  BY <1>2, <1>3 DEF SeedTold, ChunkTold, KeyTold, Again
<1>6. Believed'
  BY <1>2, <1>3 DEF Course, Believed
<1>7. Spent'
  <2>1. Spoils' = Spoils /\ Spoils \in Nat
    BY DEF Spoils, IInv, TypeOK
  <2> QED BY <1>1, <1>2, <2>1 DEF Course, Spent
<1> QED BY <1>4, <1>5, <1>6, <1>7 DEF Course

(* The answer that the tool takes is the one to its request.               *)
LEMMA CourseTake ==
  ASSUME IInv, PoweredInv, Course, ToolTake
  PROVE  Course'
<1> USE SecurityAssumption
<1> DEFINE a == Head(toHost)
           next == IF a.ok THEN Succeeded(a) ELSE Failed(a.nrc = "lock")
<1>1. /\ toHost = <<a>> /\ toHost' = <<>>
      /\ toDev = <<>> /\ slot = NoAnswer /\ tool.waiting
      /\ tool.phase \in Working
  <2>1. toHost # <<>> /\ toHost = <<a>> /\ toDev = <<>> /\ slot = NoAnswer
    BY DEF ToolTake, Course, InTurn
  <2>2. tool.waiting /\ tool.phase \in Working
    BY <2>1 DEF Course, InTurn, Quiet
  <2>3. toHost' = <<>>
    BY <2>1, OneElement DEF ToolTake
  <2> QED BY <2>1, <2>2, <2>3
<1>2. toHost # <<>> /\ a \in Answers
  BY QueueFacts DEF ToolTake, IInv, TypeOK
<1>3. Matches(a)
  BY <1>1, <1>2 DEF Course, InTurn, Matches
<1>4. tool' = [next EXCEPT !.waiting = FALSE]
  BY <1>3 DEF ToolTake
<1>5. /\ UNCHANGED <<goodKey, charging, awake, security_unlocked, seedOn, seed,
                     sig, block, fails, slot, toDev, lostChunks, lostOther>>
      /\ Quiet'
  BY <1>1 DEF ToolTake, fixed, device, lost, Quiet
<1>6. tool \in Tools /\ a.seed \in Nat /\ seed \in Nat
  BY <1>2 DEF IInv, TypeOK, Answers
<1> HIDE DEF next
<1>7. ASSUME ~tool'.waiting, tool'.phase \notin {"seed", "wait"}
      PROVE  InTurn' /\ SeedTold' /\ Believed'
  <2>1. InTurn' /\ SeedTold'
    BY <1>1, <1>5, <1>7 DEF InTurn, SeedTold
  <2>2. Believed'
    BY <1>1, <1>5, <1>7 DEF Course, Believed
  <2> QED BY <2>1, <2>2
<1>8. ASSUME ~tool'.waiting, tool'.attempt = tool.attempt,
             tool'.phase \in {"unlocked", "chunk", "key", "wait"},
             tool'.phase = "key" => awake
      PROVE  Spent'
  BY <1>5, <1>8 DEF Course, Spent, Spoils
<1>9. CASE a.ok /\ tool.phase = "seed"
  <2>1. Offered(a.seed) /\ tool.chunk = 1 /\ tool.tries = 1
    BY <1>2, <1>9 DEF Course, SeedTold
  <2>2. CASE a.seed = 0
    <3>1. /\ ~tool'.waiting /\ tool'.phase = "unlocked"
          /\ tool'.attempt = tool.attempt
      BY <1>4, <1>9, <2>2 DEF next, Succeeded, Unlocked, Fresh
    <3>2. security_unlocked'
      BY <1>5, <2>1, <2>2 DEF Offered
    <3>3. ChunkTold' /\ KeyTold' /\ Again'
      BY <3>1, <3>2 DEF ChunkTold, KeyTold, Again
    <3> QED BY <1>7, <1>8, <3>1, <3>3 DEF Course
  <2>3. CASE a.seed # 0
    <3>1. next = [tool EXCEPT !.phase = "chunk", !.seed = a.seed]
      BY <1>9, <2>3 DEF next, Succeeded
    <3>2. /\ ~tool'.waiting /\ tool'.phase = "chunk" /\ tool'.seed = a.seed
          /\ tool'.attempt = tool.attempt /\ tool'.chunk = 1 /\ tool'.tries = 1
      BY <1>4, <1>6, <2>1, <3>1 DEF Tools
    <3>3. /\ awake' /\ seedOn' /\ a.seed = seed' /\ sig' = <<>> /\ block' = 0
      BY <1>5, <2>1, <2>3 DEF Offered
    <3>4. sig' = Signed(block)'
      BY <3>3 DEF Signed
    <3>5. ChunkTold'
      BY <1>1, <3>2, <3>3, <3>4 DEF ChunkTold
    <3>6. KeyTold' /\ Again'
      BY <1>5, <3>2 DEF KeyTold, Again, IInv, TypeOK
    <3> QED BY <1>7, <1>8, <3>2, <3>5, <3>6 DEF Course
  <2> QED BY <2>2, <2>3
<1>10. CASE a.ok /\ tool.phase = "chunk"
  <2>1. /\ awake /\ seedOn /\ tool.seed = seed /\ sig = Signed(block)
        /\ block = tool.chunk
    BY <1>2, <1>10 DEF Course, ChunkTold
  <2>2. tool.chunk \in 1..NChunks
    BY <1>6 DEF Tools
  <2>3. CASE tool.chunk < NChunks
    <3>1. next = [tool EXCEPT !.chunk = @ + 1, !.tries = 1]
      <4>1. tool.phase # "seed" /\ ~(tool.chunk >= NChunks)
        BY <1>10, <2>2, <2>3
      <4> QED BY <1>10, <2>3, <4>1, Zenon DEF next, Succeeded
    <3>2. /\ ~tool'.waiting /\ tool'.phase = "chunk" /\ tool'.seed = tool.seed
          /\ tool'.attempt = tool.attempt /\ tool'.chunk = tool.chunk + 1
          /\ tool'.tries = 1
      BY <1>4, <1>6, <1>10, <3>1 DEF Tools
    <3>3. sig' = Signed(block)'
      BY <1>5, <2>1 DEF Signed
    <3>4. block' = tool'.chunk - 1
      BY <1>5, <2>1, <2>2, <3>2
    <3>5. ChunkTold'
      BY <1>1, <1>5, <2>1, <3>2, <3>3, <3>4 DEF ChunkTold
    <3>6. KeyTold' /\ Again'
      BY <1>5, <3>2 DEF KeyTold, Again, IInv, TypeOK
    <3> QED BY <1>7, <1>8, <3>2, <3>5, <3>6 DEF Course
  <2>4. CASE tool.chunk = NChunks
    <3>1. next = [tool EXCEPT !.phase = "key"]
      BY <1>10, <2>4 DEF next, Succeeded
    <3>2. ~tool'.waiting /\ tool'.phase = "key" /\ tool'.attempt = tool.attempt
      BY <1>4, <1>6, <3>1 DEF Tools
    <3>3. sig' = Signed(NChunks)'
      BY <1>5, <2>1, <2>4 DEF Signed
    <3>4. KeyTold'
      BY <1>1, <1>5, <2>1, <3>2, <3>3 DEF KeyTold
    <3>5. ChunkTold' /\ Again'
      BY <3>2 DEF ChunkTold, Again
    <3> QED BY <1>7, <1>8, <2>1, <3>2, <3>4, <3>5 DEF Course
  <2> QED BY <2>2, <2>3, <2>4
<1>11. CASE a.ok /\ tool.phase = "key"
  <2>1. /\ ~tool'.waiting /\ tool'.phase = "unlocked"
        /\ tool'.attempt = tool.attempt
    BY <1>4, <1>11 DEF next, Succeeded, Unlocked, Fresh
  <2>2. security_unlocked'
    BY <1>2, <1>5, <1>11 DEF Course, KeyTold
  <2>3. ChunkTold' /\ KeyTold' /\ Again'
    BY <2>1, <2>2 DEF ChunkTold, KeyTold, Again
  <2> QED BY <1>7, <1>8, <2>1, <2>3 DEF Course
<1>12. CASE ~a.ok
  <2>1. ~goodKey /\ tool.phase # "chunk"
    BY <1>2, <1>12 DEF Course, Believed, ChunkTold
  <2>2. CASE a.nrc = "lock"
    <3>1. next = [tool EXCEPT !.phase = "wait"]
      BY <1>12, <2>1, <2>2 DEF next, Failed
    <3>2. ~tool'.waiting /\ tool'.phase = "wait" /\ tool'.attempt = tool.attempt
      BY <1>4, <1>6, <3>1 DEF Tools
    <3>3. InTurn' /\ SeedTold' /\ ChunkTold' /\ KeyTold' /\ Again'
      BY <1>1, <1>5, <3>2 DEF InTurn, SeedTold, ChunkTold, KeyTold, Again
    <3>4. Believed' /\ Spent'
      BY <1>5, <2>1 DEF Believed, Spent
    <3> QED BY <3>3, <3>4 DEF Course
  <2>3. CASE a.nrc # "lock"
    <3>1. next = NextAttempt
      BY <1>12, <2>1, <2>3 DEF next, Failed
    <3> QED BY <1>4, <1>5, <2>1, <3>1, CourseNextAttempt
  <2> QED BY <2>2, <2>3
<1>13. a.ok \in BOOLEAN
  BY <1>2 DEF Answers
<1> QED BY <1>1, <1>9, <1>10, <1>11, <1>12, <1>13 DEF Working

(* A timeout that does not expire early finds nothing under way.           *)
LEMMA CourseTimeout ==
  ASSUME IInv, PoweredInv, Course, ToolTimeout, Quiet
  PROVE  Course'
<1> USE SecurityAssumption
<1>1. /\ tool.waiting /\ tool.phase \in Working
      /\ tool' = [Failed(FALSE) EXCEPT !.waiting = FALSE]
      /\ UNCHANGED <<goodKey, charging, awake, security_unlocked, seedOn, seed,
                     sig, block, fails, slot, lostChunks, lostOther>>
      /\ Quiet'
  BY DEF ToolTimeout, fixed, device, lost, Quiet, Course, InTurn
<1>2. /\ tool \in Tools /\ lostChunks \in Nat /\ tool.tries \in 1..Tries
      /\ tool.attempt \in 1..Attempts
  BY DEF IInv, TypeOK, Tools
<1>3. CASE tool.phase = "chunk" /\ tool.tries < Tries
  <2>1. tool' = [[tool EXCEPT !.tries = @ + 1] EXCEPT !.waiting = FALSE]
    BY <1>1, <1>3 DEF Failed
  <2>2. /\ ~tool'.waiting /\ tool'.phase = "chunk" /\ tool'.seed = tool.seed
        /\ tool'.attempt = tool.attempt /\ tool'.chunk = tool.chunk
        /\ tool'.tries = tool.tries + 1
    BY <1>2, <1>3, <2>1 DEF Tools
  <2>3. toHost' = <<>>
    BY <1>1 DEF Quiet
  <2>4. InTurn'
    BY <1>1, <2>2 DEF InTurn, Quiet
  <2>5. SeedTold' /\ KeyTold'
    BY <1>1, <2>2 DEF SeedTold, KeyTold, Quiet
  <2>6. ChunkTold'
    BY <1>1, <1>3, <2>2, <2>3 DEF Course, ChunkTold, Signed
  <2>7. Believed'
    BY <1>1, <2>2, <2>3 DEF Course, Believed
  <2>8. Again'
    <3>1. tool.tries <= lostChunks
      BY <1>1, <1>3 DEF Course, Again
    <3>2. tool'.tries <= lostChunks' + 1
      <4>1. lostChunks' = lostChunks
        BY <1>1, Zenon
      <4>2. tool.tries \in Nat /\ lostChunks \in Nat
        BY <1>2
      <4>3. tool'.tries = tool.tries + 1
        BY <2>2, Zenon
      <4> QED BY ONLY <3>1, <4>1, <4>2, <4>3
    <3> QED BY <2>2, <3>2 DEF Again
  <2>9. Spent'
    BY <1>1, <1>3, <2>2 DEF Course, Spent, Spoils
  <2> QED BY <2>4, <2>5, <2>6, <2>7, <2>8, <2>9 DEF Course
<1>4. CASE tool.phase = "chunk" /\ ~(tool.tries < Tries)
  <2>1. tool' = [NextAttempt EXCEPT !.waiting = FALSE]
    BY <1>1, <1>4 DEF Failed
  <2>2. ~(lostChunks < Tries)
    BY <1>1, <1>2, <1>4 DEF Course, Again
  <2> QED BY <1>1, <2>1, <2>2, CourseNextAttempt
<1>5. CASE tool.phase \in {"seed", "key"}
  <2>1. tool' = [NextAttempt EXCEPT !.waiting = FALSE]
    BY <1>1, <1>5 DEF Failed
  <2>2. goodKey /\ lostChunks < Tries =>
          tool.attempt <= Spoils /\ (~awake => tool.attempt + 1 <= Spoils)
    BY <1>1, <1>5 DEF Course, Spent, PoweredInv
  <2> QED BY <1>1, <2>1, <2>2, CourseNextAttempt
<1> QED BY <1>1, <1>3, <1>4, <1>5 DEF Working

LEMMA CourseEndWait ==
  ASSUME IInv, PoweredInv, Course, EndWait
  PROVE  Course'
<1>1. tool.phase = "wait" /\ ~tool.waiting /\ ~goodKey
  BY DEF EndWait, Course, InTurn, Believed, Working
<1>2. /\ UNCHANGED <<goodKey, charging, awake, security_unlocked, seedOn, seed,
                     sig, block, fails, slot, lostChunks, lostOther>>
      /\ Quiet'
  BY <1>1 DEF EndWait, fixed, device, lost, Quiet, Course, InTurn
<1>3. tool' = NextAttempt
  BY DEF EndWait
<1> QED BY <1>1, <1>2, <1>3, CourseNextAttempt

(* What is lost is a chunk or its answer, or pays for an attempt.          *)
LEMMA CourseLose ==
  ASSUME IInv, PoweredInv, Course, Lose
  PROVE  Course'
<1>1. PICK m : /\ Count(m) /\ toDev' = <<>> /\ toHost' = <<>> /\ slot = NoAnswer
               /\ tool.waiting /\ tool.phase \in Working
               /\ goodKey \/ tool.phase = "chunk" => m.sub = Request.sub
  <2>1. CASE toDev # <<>> /\ Count(Head(toDev)) /\ toDev' = Tail(toDev) /\ UNCHANGED toHost
    <3> WITNESS Head(toDev)
    <3> QED BY <2>1, Alone
  <2>2. CASE toHost # <<>> /\ Count(Head(toHost)) /\ toHost' = Tail(toHost) /\ UNCHANGED toDev
    <3>1. toDev = <<>> /\ slot = NoAnswer /\ toHost = <<Head(toHost)>>
      BY <2>2 DEF Course, InTurn
    <3>2. tool.waiting /\ tool.phase \in Working
      BY <2>2 DEF Course, InTurn, Quiet
    <3>3. toHost' = <<>>
      BY <2>2, <3>1, OneElement
    <3>4. goodKey \/ tool.phase = "chunk" => Head(toHost).ok
      BY <2>2 DEF Course, Believed, ChunkTold
    <3>5. goodKey \/ tool.phase = "chunk" => Head(toHost).sub = Request.sub
      BY <2>2, <3>4 DEF Course, InTurn
    <3> WITNESS Head(toHost)
    <3> QED BY <2>2, <3>1, <3>2, <3>3, <3>5
  <2> QED BY <2>1, <2>2 DEF Lose
<1>2. UNCHANGED <<goodKey, charging, awake, security_unlocked, seedOn, seed,
                  sig, block, fails, slot, tool>>
  BY DEF Lose, fixed, device
<1>3. Quiet'
  BY <1>1, <1>2 DEF Quiet
<1>4. lostChunks \in Nat /\ lostOther \in Nat
  BY DEF IInv, TypeOK
<1>5. /\ tool.phase = "chunk" => lostChunks' = lostChunks + 1
      /\ goodKey /\ tool.phase # "chunk" =>
           lostOther' = lostOther + 1 /\ lostChunks' = lostChunks
      /\ lostOther' >= lostOther /\ lostChunks' >= lostChunks
      /\ lostOther' \in Nat /\ lostChunks' \in Nat
  BY <1>1, <1>4 DEF Count, Request, SubOf, Working
<1>6. InTurn'
  BY <1>1, <1>2 DEF InTurn
<1>7. SeedTold'
  BY <1>1, <1>2 DEF Course, SeedTold
<1>8. ChunkTold'
  BY <1>1, <1>2 DEF Course, ChunkTold, Signed
<1>9. KeyTold'
  BY <1>1, <1>2 DEF KeyTold, Working
<1>10. Believed'
  BY <1>1, <1>2 DEF Course, Believed
<1>11. Again'
  BY <1>2, <1>4, <1>5 DEF Course, Again, IInv, TypeOK, Tools
<1>12. Spent'
  <2>1. tool.attempt \in Nat /\ tool.phase # "failed"
    BY <1>1 DEF IInv, TypeOK, Tools, Working
  <2>2. SUFFICES ASSUME goodKey', lostChunks' < Tries
                 PROVE  Spent'
    BY DEF Spent
  <2>3. /\ goodKey /\ lostChunks < Tries /\ Spoils \in Nat
        /\ (charging' <=> charging) /\ (awake' <=> awake) /\ tool' = tool
    BY <1>2, <1>4, <1>5, <2>2, SecurityAssumption DEF Spoils
  <2>4. /\ tool.attempt <= Spoils + 1
        /\ tool.phase \in {"seed", "key"} /\ ~awake => tool.attempt <= Spoils
    BY <2>3 DEF Course, Spent
  <2>5. CASE tool.phase = "chunk"
    <3>1. Spoils' >= Spoils /\ Spoils' \in Nat
      <4>1. charging => Spoils' = lostOther' /\ Spoils = lostOther
        BY <2>3 DEF Spoils
      <4>2. ~charging => Spoils' = 2 * lostOther' /\ Spoils = 2 * lostOther
        BY <2>3 DEF Spoils
      <4> QED BY <1>4, <1>5, <4>1, <4>2
    <3> QED BY <2>1, <2>3, <2>4, <2>5, <3>1 DEF Spent
  <2>6. CASE tool.phase \in {"seed", "key"}
    <3>1. /\ Spoils' \in Nat
          /\ charging => Spoils' = Spoils + 1
          /\ ~charging => Spoils' = Spoils + 2
      <4>1. charging => Spoils' = lostOther' /\ Spoils = lostOther
        BY <2>3 DEF Spoils
      <4>2. ~charging => Spoils' = 2 * lostOther' /\ Spoils = 2 * lostOther
        BY <2>3 DEF Spoils
      <4>3. lostOther' = lostOther + 1
        BY <1>5, <2>3, <2>6
      <4> QED BY <1>4, <4>1, <4>2, <4>3
    <3>2. ~awake => ~charging
      BY DEF PoweredInv
    <3>3. /\ tool.attempt <= Spoils'
          /\ ~charging => tool.attempt + 1 <= Spoils'
      BY <2>1, <2>3, <2>4, <3>1
    <3> QED BY <2>1, <2>3, <2>6, <3>1, <3>2, <3>3 DEF Spent
  <2> QED BY <1>1, <2>5, <2>6 DEF Working
<1> QED BY <1>6, <1>7, <1>8, <1>9, <1>10, <1>11, <1>12 DEF Course

LEMMA InitCourse == Init => SInv
<1> SUFFICES ASSUME Init PROVE SInv
  OBVIOUS
<1>1. /\ awake = TRUE /\ toDev = <<>> /\ toHost = <<>> /\ slot = NoAnswer
      /\ fails = 0 /\ lostOther = 0
  BY DEF Init
<1>2. tool.phase = "idle" /\ ~tool.waiting /\ tool.attempt = 1
  BY DEF Init, Fresh
<1>3. InTurn /\ SeedTold /\ ChunkTold /\ KeyTold /\ Believed /\ Again
  BY <1>1, <1>2 DEF InTurn, Quiet, SeedTold, ChunkTold, KeyTold, Believed, Again
<1>4. Spent
  BY <1>1, <1>2 DEF Spent, Spoils
<1> QED BY <1>1, <1>3, <1>4, InitStep DEF SInv, PoweredInv, Course

(* A phone that is charging keeps the device awake.                        *)
LEMMA PoweredStep == SInv /\ [Next]_vars => PoweredInv'
<1> SUFFICES ASSUME SInv, [Next]_vars, charging' PROVE awake'
  BY DEF PoweredInv
<1>1. charging' = charging
  BY DEF Next, DeviceServe, DeviceFlush, LockoutOver, FallAsleep, EndSession,
         Start, ToolSend, ToolTake, ToolTimeout, EndWait, Lose, vars, fixed
<1>2. charging /\ awake
  BY <1>1 DEF SInv, PoweredInv
<1>3. CASE DeviceServe
  <2>1. CASE RequestSeed
    BY <1>2, <2>1 DEF RequestSeed, device
  <2>2. CASE SendChunk(Head(toDev))
    BY <1>2, <2>2 DEF SendChunk
  <2>3. CASE SendKey
    BY <1>2, <2>3 DEF SendKey, device
  <2>4. Head(toDev).sub \in {1, 2, 3}
    BY <1>3, QueueFacts DEF DeviceServe, SInv, IInv, TypeOK, Requests
  <2> QED BY <1>2, <1>3, <2>1, <2>2, <2>3, <2>4 DEF DeviceServe, Serve
<1>4. CASE ~DeviceServe /\ ~FallAsleep
  BY <1>2, <1>4 DEF Next, DeviceFlush, LockoutOver, EndSession, Start, ToolSend,
                    ToolTake, ToolTimeout, EndWait, Lose, vars, device
<1>5. CASE FallAsleep
  BY <1>2, <1>5 DEF FallAsleep
<1> QED BY <1>3, <1>4, <1>5

LEMMA CourseStep == SInv /\ [Next]_vars => SInv'
<1> SUFFICES ASSUME SInv, [Next]_vars PROVE SInv'
  OBVIOUS
<1> USE DEF SInv
<1>1. IInv' /\ PoweredInv'
  BY NextStep, PoweredStep
<1>2. SUFFICES ASSUME hasty' = 0 PROVE Course'
  BY <1>1
<1>3. ~ToolTimeout => hasty = 0
  BY <1>2 DEF Next, DeviceServe, DeviceFlush, LockoutOver, FallAsleep,
              EndSession, Start, ToolSend, ToolTake, EndWait, Lose, vars
<1>4. CASE ToolTimeout
  <2>1. hasty = 0 /\ Quiet
    BY <1>2, <1>4 DEF ToolTimeout, IInv, TypeOK
  <2> QED BY <1>4, <2>1, CourseTimeout
<1>5. CASE ~ToolTimeout
  <2> Course /\ IInv /\ PoweredInv
    BY <1>3, <1>5
  <2>1. CASE LockoutOver
    BY <2>1, CourseSame DEF LockoutOver, courseVars, fixed, lost
  <2>2. CASE UNCHANGED vars
    BY <2>2, CourseSame DEF vars, courseVars, fixed, device, lost
  <2> QED BY <1>5, <2>1, <2>2, CourseServe, CourseFlush, CourseAsleep,
             CourseEndSession, CourseStart, CourseSend, CourseTake,
             CourseEndWait, CourseLose, Zenon DEF Next
<1> QED BY <1>4, <1>5

(* A tool with the right key has no signature refused, however many        *)
(* messages are lost and whenever the device falls asleep, as long as no   *)
(* timeout expires early (27 01 and 27 03 against 27 02).                  *)
THEOREM SaHonestNeverRefused == Spec => []HonestNeverRefused
<1>1. SInv => HonestNeverRefused
  BY DEF SInv, Course, Believed, HonestNeverRefused
<1> QED BY <1>1, InitCourse, CourseStep, PTL DEF Spec

(* Fewer lost chunks than a chunk has tries never cost the tool an         *)
(* attempt (the repetition of 27 03 in UnlockCoreAsync).                   *)
THEOREM SaChunkLossAbsorbed == Spec => []ChunkLossAbsorbed
<1>1. SInv => ChunkLossAbsorbed
  BY DEF SInv, IInv, TypeOK, Tools, Course, Spent, Spoils, ChunkLossAbsorbed
<1> QED BY <1>1, InitCourse, CourseStep, PTL DEF Spec

(* The unlock survives any number of lost messages that spoil fewer than   *)
(* its attempts, two each if the device may fall asleep.                   *)
THEOREM SaLossesSurvived == Spec => []LossesSurvived
<1>1. SInv => LossesSurvived
  <2> SUFFICES ASSUME SInv, goodKey, hasty = 0, lostChunks < Tries,
                      Spoils < Attempts
               PROVE  tool.phase # "failed"
    BY DEF LossesSurvived
  <2>1. tool.phase = "failed" => Attempts <= Spoils
    BY DEF SInv, Course, Spent
  <2>2. Spoils \in Nat /\ Attempts \in Nat
    BY SecurityAssumption DEF SInv, IInv, TypeOK, Spoils
  <2> QED BY <2>1, <2>2
<1> QED BY <1>1, InitCourse, CourseStep, PTL DEF Spec

(* A tool that believes the device to be unlocked is right, whatever the   *)
(* key, the losses and the sleep, unless a timeout has expired early.      *)
THEOREM SaUnlockIsTrue == Spec => []UnlockIsTrue
<1>1. SInv => UnlockIsTrue
  BY DEF SInv, Course, KeyTold, UnlockIsTrue
<1> QED BY <1>1, InitCourse, CourseStep, PTL DEF Spec
=============================================================================

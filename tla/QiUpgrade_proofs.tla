-------------------------- MODULE QiUpgrade_proofs --------------------------
(***************************************************************************)
(* Theorems about QiUpgrade, for firmware of any size, any number of       *)
(* faults, retries and upgrades, and both kinds of host.                   *)
(***************************************************************************)
EXTENDS QiUpgrade, TLAPS

(* Block numbers stay below the modulus, and chunk 0 exists.               *)
LEMMA NumberFacts ==
  /\ 0 \in Bsc
  /\ \A n \in Nat : (n + 1) % SeqMod \in Bsc
  /\ 0 \in Chunks
  /\ Chunks \subseteq Nat
  /\ Bsc \subseteq Nat
BY QiAssumption DEF Bsc, Chunks

(* What queues are made of and give back.                                  *)
LEMMA QueueFacts ==
  ASSUME NEW S, NEW q \in Seq(S)
  PROVE  /\ \A x \in S : Append(q, x) \in Seq(S)
         /\ q # <<>> => Head(q) \in S /\ Tail(q) \in Seq(S)
OBVIOUS

(* The queues of the device keep their types.                              *)
LEMMA SendType ==
  ASSUME DeviceTypeOK, NEW sid \in Sids, NEW ok \in BOOLEAN, NEW bsc \in Bsc,
         Send(Answer(sid, ok, bsc))
  PROVE  answers' \in Seq(Answers)
<1>1. Answer(sid, ok, bsc) \in Answers
  BY DEF Answer, Answers
<1> QED BY <1>1, QueueFacts DEF Send, DeviceTypeOK

LEMMA CommandType ==
  ASSUME DeviceTypeOK, NEW c \in {"PREPARE", "DATA"}, NEW a \in Nat, NEW k \in Chunks,
         toChip' = Append(toChip, [cmd |-> c, addr |-> a, chunk |-> k])
  PROVE  toChip' \in Seq(Commands)
<1>1. [cmd |-> c, addr |-> a, chunk |-> k] \in Commands
  BY DEF Commands
<1> QED BY <1>1, QueueFacts DEF DeviceTypeOK

LEMMA ResetType ==
  DeviceTypeOK => Reset \in IapStates /\ NoDownload \in Downloads
BY NumberFacts DEF Reset, NoDownload, DeviceTypeOK, IapStates, Downloads, States

LEMMA RefuseType ==
  ASSUME DeviceTypeOK, NEW sid \in Sids, NEW bsc \in Bsc, Refuse(sid, bsc),
         dl' \in Downloads
  PROVE  DeviceTypeOK'
BY SendType DEF Refuse, uart, DeviceTypeOK

(* The handlers of the device keep its types.                              *)
LEMMA EraseType == DeviceTypeOK /\ Erase => DeviceTypeOK'
<1> SUFFICES ASSUME DeviceTypeOK, Erase PROVE DeviceTypeOK'
  OBVIOUS
<1> "31" \in Sids
  BY DEF Sids
<1>1. CASE Refuse("31", 0) /\ UNCHANGED dl
  BY <1>1, RefuseType, NumberFacts DEF DeviceTypeOK
<1>2. CASE ~(Refuse("31", 0) /\ UNCHANGED dl)
  <2>1. dl' \in Downloads
    BY <1>2, ResetType DEF Erase, Downloads
  <2>2. iap' \in IapStates /\ hold' \in BOOLEAN
    BY <1>2, ResetType DEF Erase, AbortIap
  <2>3. answers' \in Seq(Answers)
    BY <1>2, SendType, NumberFacts DEF Erase
  <2> QED BY <1>2, <2>1, <2>2, <2>3 DEF Erase, uart, DeviceTypeOK
<1> QED BY <1>1, <1>2

LEMMA DownloadType == DeviceTypeOK /\ RequestDownload => DeviceTypeOK'
<1> SUFFICES ASSUME DeviceTypeOK, RequestDownload PROVE DeviceTypeOK'
  OBVIOUS
<1> "34" \in Sids
  BY DEF Sids
<1>1. CASE Refuse("34", 0) /\ UNCHANGED dl
  BY <1>1, RefuseType, NumberFacts DEF DeviceTypeOK
<1>2. CASE ~(Refuse("34", 0) /\ UNCHANGED dl)
  <2>1. dl' \in Downloads
    BY <1>2, NumberFacts DEF RequestDownload, DeviceTypeOK, Downloads
  <2>2. iap' \in IapStates /\ hold' \in BOOLEAN
    <3>1. iap \in IapStates /\ NChunks \in Nat /\ 0 \in Nat
      BY QiAssumption DEF DeviceTypeOK
    <3>2. [iap EXCEPT !.state = "WAIT_ACK", !.resp = "RDB", !.pending = 0,
                      !.total = NChunks, !.sent = 0] \in IapStates
      BY <3>1 DEF IapStates, States
    <3> QED BY <1>2, <3>2 DEF RequestDownload, Prepare
  <2>3. toChip' \in Seq(Commands)
    BY <1>2, CommandType, NumberFacts DEF RequestDownload, Prepare
  <2>4. fromChip' \in Seq(Frames)
    <3>1. << >> \in Seq(Frames)
      OBVIOUS
    <3> QED BY <1>2, <3>1 DEF RequestDownload, Prepare, Refuse
  <2> QED BY <1>2, <2>1, <2>2, <2>3, <2>4
      DEF RequestDownload, Prepare, DeviceTypeOK
<1> QED BY <1>1, <1>2

LEMMA DataType ==
  ASSUME DeviceTypeOK, NEW bsc \in Bsc, NEW chunk \in Chunks,
         TransferData(bsc, chunk)
  PROVE  DeviceTypeOK'
<1> "36" \in Sids
  BY DEF Sids
<1>1. CASE Refuse("36", bsc) /\ UNCHANGED dl
  BY <1>1, RefuseType DEF DeviceTypeOK
<1>2. CASE RepeatBlock(bsc, chunk)
  <2>1. iap' \in IapStates
    BY <1>2 DEF RepeatBlock, Cancelled, DeviceTypeOK, IapStates
  <2>2. answers' \in Seq(Answers)
    BY <1>2, SendType DEF RepeatBlock
  <2> QED BY <1>2, <2>1, <2>2 DEF RepeatBlock, uart, DeviceTypeOK
<1>3. CASE RejectBlock(bsc)
  <2>1. dl' \in Downloads
    BY <1>3, NumberFacts DEF RejectBlock, NextBsc, DeviceTypeOK, Downloads
  <2> QED BY <1>3, <2>1, RefuseType DEF RejectBlock
<1>4. CASE AcceptBlock(bsc, chunk)
  <2>1. dl \in Downloads /\ dl.written \in Nat /\ dl.written + 1 \in Nat
    BY DEF DeviceTypeOK, Downloads
  <2>2. dl' \in Downloads
    BY <1>4, <2>1 DEF AcceptBlock, Downloads
  <2>3. iap' \in IapStates
    BY <1>4 DEF AcceptBlock, Forward, DeviceTypeOK, IapStates, States
  <2>4. toChip' \in Seq(Commands)
    BY <1>4, <2>1, CommandType DEF AcceptBlock, Forward
  <2> QED BY <1>4, <2>2, <2>3, <2>4 DEF AcceptBlock, Forward, DeviceTypeOK
<1> QED BY <1>1, <1>2, <1>3, <1>4 DEF TransferData

LEMMA ExitType == DeviceTypeOK /\ TransferExit => DeviceTypeOK'
<1> SUFFICES ASSUME DeviceTypeOK, TransferExit PROVE DeviceTypeOK'
  OBVIOUS
<1> "37" \in Sids
  BY DEF Sids
<1>1. (gate /\ dl.ready) \in BOOLEAN
  OBVIOUS
<1>2. answers' \in Seq(Answers)
  BY <1>1, SendType, NumberFacts DEF TransferExit
<1>3. dl' \in Downloads
  BY DEF TransferExit, dvars, DeviceTypeOK, Downloads
<1>4. iap' \in IapStates /\ hold' \in BOOLEAN
  BY ResetType DEF TransferExit, AbortIap, dvars, DeviceTypeOK
<1> QED BY <1>2, <1>3, <1>4 DEF TransferExit, dvars, uart, DeviceTypeOK

LEMMA ServeType ==
  ASSUME DeviceTypeOK, NEW r \in Requests, Serve(r)
  PROVE  DeviceTypeOK'
<1>1. r.bsc \in Bsc /\ r.chunk \in Chunks
  BY DEF Requests
<1> QED BY <1>1, EraseType, DownloadType, DataType, ExitType DEF Serve

(* So do its polls.                                                        *)
LEMMA PollType ==
  ASSUME DeviceTypeOK, Poll
  PROVE  DeviceTypeOK'
<1>1. CASE PollFrame
  <2>1. Head(fromChip) \in Frames /\ Tail(fromChip) \in Seq(Frames)
    BY <1>1, QueueFacts DEF PollFrame, DeviceTypeOK
  <2>2. \A n \in {0, 1} : Acked(n) \in IapStates
    <3>1. iap.sent \in Nat /\ iap \in IapStates
      BY DEF DeviceTypeOK, IapStates
    <3>2. \A n \in {0, 1} : iap.sent + n \in Nat
      BY <3>1
    <3> QED BY <3>1, <3>2 DEF Acked, IapStates
  <2>3. iap.pending \in {0, 1}
    BY DEF DeviceTypeOK, IapStates
  <2>4. Acked(iap.pending) \in IapStates
    BY <2>2, <2>3
  <2>5. Applied(Head(fromChip)) \in IapStates
    BY <2>4 DEF Applied, States, DeviceTypeOK, IapStates
  <2> QED BY <1>1, <2>1, <2>5 DEF PollFrame, DeviceTypeOK
<1>2. CASE AckPoll
  <2>1. iap' \in IapStates
    BY <1>2 DEF AckPoll, DeviceTypeOK, IapStates, States
  <2>2. PICK ok \in BOOLEAN : Send(Deferred(ok))
    BY <1>2 DEF AckPoll
  <2>3. iap.bsc \in Bsc
    BY DEF DeviceTypeOK, IapStates
  <2>4. Deferred(ok) \in Answers
    BY <2>3, NumberFacts DEF Deferred, Answer, Answers, Sids
  <2>5. answers' \in Seq(Answers)
    BY <2>2, <2>4, QueueFacts DEF Send, DeviceTypeOK
  <2> QED BY <1>2, <2>1, <2>5 DEF AckPoll, uart, DeviceTypeOK
<1>3. CASE AutoComplete
  <2>1. iap' \in IapStates
    BY <1>3 DEF AutoComplete, DeviceTypeOK, IapStates, States
  <2> QED BY <1>3, <2>1 DEF AutoComplete, uart, DeviceTypeOK
<1> QED BY <1>1, <1>2, <1>3 DEF Poll

(* And the chip.                                                           *)
LEMMA ChipType ==
  ASSUME DeviceTypeOK, Chip
  PROVE  DeviceTypeOK'
<1>1. CASE ChipTakes
  <2>1. Head(toChip) \in Commands /\ Tail(toChip) \in Seq(Commands)
    BY <1>1, QueueFacts DEF ChipTakes, DeviceTypeOK
  <2>2. image' \subseteq Nat \X Chunks
    BY <1>1, <2>1 DEF ChipTakes, Written, Commands, DeviceTypeOK
  <2>3. PICK f \in GoodFrames \cup {LastFrame} :
          \/ fromChip' = Append(fromChip, f) /\ noise' = noise
          \/ fromChip' = fromChip /\ noise < MaxNoise /\ noise' = noise + 1
    BY <1>1 DEF ChipTakes
  <2>4. f \in Frames
    BY DEF GoodFrames, LastFrame, Frames
  <2>5. fromChip' \in Seq(Frames)
    BY <2>3, <2>4, QueueFacts DEF DeviceTypeOK
  <2>6. noise' \in 0..MaxNoise
    BY <2>3, QiAssumption DEF DeviceTypeOK
  <2>7. prepared' \in BOOLEAN /\ toChip' \in Seq(Commands)
    BY <1>1, <2>1 DEF ChipTakes
  <2> QED BY <1>1, <2>2, <2>5, <2>6, <2>7 DEF ChipTakes, dvars, DeviceTypeOK
<1>2. CASE ChipRefuses
  <2>1. BadFrames \subseteq Frames
    BY DEF BadFrames, Frames
  <2>2. fromChip' \in Seq(Frames)
    BY <1>2, <2>1, QueueFacts DEF ChipRefuses, DeviceTypeOK
  <2>3. toChip' \in Seq(Commands)
    BY <1>2, QueueFacts DEF ChipRefuses, DeviceTypeOK
  <2>4. noise' \in 0..MaxNoise
    BY <1>2, QiAssumption DEF ChipRefuses, DeviceTypeOK
  <2> QED BY <1>2, <2>2, <2>3, <2>4 DEF ChipRefuses, dvars, DeviceTypeOK
<1>3. CASE ChipOff
  <2>1. << >> \in Seq(Commands)
    OBVIOUS
  <2> QED BY <1>3, <2>1 DEF ChipOff, dvars, DeviceTypeOK
<1> QED BY <1>1, <1>2, <1>3 DEF Chip

(* A request the host builds is well formed.                               *)
LEMMA RequestType ==
  ASSUME TypeOK, host.phase \in Working
  PROVE  Request \in Requests
<1>1. SidOf[host.phase] \in Sids
  BY DEF SidOf, Working, Sids
<1>2. host.blk \in Chunks
  BY DEF TypeOK, Hosts
<1>3. BscOf(host.blk) \in Bsc
  BY <1>2, NumberFacts DEF BscOf
<1> QED BY <1>1, <1>2, <1>3, NumberFacts DEF Request, Requests

LEMMA InitType == Init => TypeOK
<1> SUFFICES ASSUME Init PROVE TypeOK
  OBVIOUS
<1>1. dl \in Downloads /\ iap \in IapStates
  BY NumberFacts DEF Init, DeviceInit, Downloads, IapStates, States
<1>2. answers \in Seq(Answers) /\ toChip \in Seq(Commands) /\ fromChip \in Seq(Frames)
  BY DEF Init, DeviceInit
<1>3. DeviceTypeOK
  <2>1. 0 \in 0..MaxNoise /\ {} \subseteq Nat \X Chunks
    BY QiAssumption
  <2> QED BY <1>1, <1>2, <2>1 DEF Init, DeviceInit, DeviceTypeOK
<1>4. host \in Hosts /\ lost \in 0..kind.losses
  BY HostAssumption, NumberFacts DEF Init, Hosts
<1>5. requests \in Seq(Requests)
  BY DEF Init
<1> QED BY <1>3, <1>4, <1>5, HostAssumption DEF Init, TypeOK

LEMMA HostType ==
  ASSUME TypeOK
  PROVE  /\ Advance \in Hosts
         /\ GiveUp \in Hosts
<1>1. host \in Hosts
  BY DEF TypeOK
<1>2. Working = {"erase", "download", "data", "exit"}
  BY DEF Working, SidOf
<1>3. ASSUME host.blk < NChunks - 1 PROVE host.blk + 1 \in Chunks
  BY <1>1, <1>3, QiAssumption DEF Hosts, Chunks
<1> QED BY <1>1, <1>2, <1>3 DEF Advance, GiveUp, Hosts

(* The bounds of a host are natural numbers.                               *)
LEMMA KindType ==
  ASSUME TypeOK
  PROVE  /\ kind.retries \in Nat /\ kind.losses \in Nat
         /\ 0 \in 0..kind.retries
<1>1. kind.retries \in Nat /\ kind.losses \in Nat
  BY HostAssumption DEF TypeOK
<1> QED BY <1>1

(* No step changes the host's kind.                                        *)
LEMMA SameKind ==
  ASSUME TypeOK, [Next]_vars
  PROVE  /\ kind' = kind
         /\ Hosts' = Hosts
<1>1. kind' = kind
  BY DEF Next, HostStart, HostSend, HostTake, HostTimeout, DeviceServe,
         DevicePoll, S3Timeout, ChipStep, Lose, Finished, vars
<1> QED BY <1>1 DEF Hosts

LEMMA StepType == TypeOK /\ [Next]_vars => TypeOK'
<1> SUFFICES ASSUME TypeOK, [Next]_vars PROVE TypeOK'
  OBVIOUS
<1>0. kind' = kind /\ Hosts' = Hosts
  BY SameKind
<1>1. CASE HostStart
  <2>1. host' \in Hosts
    BY <1>1, NumberFacts, KindType DEF HostStart, Hosts, Working, SidOf
  <2>2. DeviceTypeOK'
    BY <1>1 DEF HostStart, EnterProgramming, uart, TypeOK, DeviceTypeOK
  <2>3. attempts' \in 0..MaxAttempts
    BY <1>1, HostAssumption DEF HostStart, TypeOK
  <2> QED BY <1>0, <1>1, <2>1, <2>2, <2>3 DEF HostStart, TypeOK
<1>2. CASE HostSend
  <2>1. requests' \in Seq(Requests)
    BY <1>2, RequestType, QueueFacts DEF HostSend, TypeOK
  <2>2. host' \in Hosts
    BY <1>2 DEF HostSend, TypeOK, Hosts
  <2> QED BY <1>0, <1>2, <2>1, <2>2 DEF HostSend, TypeOK, DeviceTypeOK, qvars, dvars, uart
<1>3. CASE HostTake
  <2>1. \A h \in Hosts : [h EXCEPT !.waiting = FALSE, !.tries = 0] \in Hosts
    BY KindType DEF Hosts
  <2>2. host' \in Hosts
    BY <1>3, <2>1, HostType DEF HostTake, TypeOK
  <2>3. answers' \in Seq(Answers)
    BY <1>3, QueueFacts DEF HostTake, TypeOK, DeviceTypeOK
  <2> QED BY <1>0, <1>3, <2>2, <2>3 DEF HostTake, TypeOK, DeviceTypeOK, dvars, uart
<1>4. CASE HostTimeout
  <2>1. [GiveUp EXCEPT !.waiting = FALSE, !.tries = 0] \in Hosts
    BY HostType, KindType DEF Hosts
  <2>2. ASSUME host.tries < kind.retries
        PROVE  [host EXCEPT !.waiting = FALSE, !.tries = @ + 1] \in Hosts
    <3>1. host \in Hosts /\ host.tries \in 0..kind.retries
      BY DEF TypeOK, Hosts
    <3>2. host.tries + 1 \in 0..kind.retries
      BY <3>1, <2>2, KindType
    <3> QED BY <3>1, <3>2 DEF Hosts
  <2>3. host' \in Hosts
    BY <1>4, <2>1, <2>2 DEF HostTimeout
  <2> QED BY <1>0, <1>4, <2>3 DEF HostTimeout, TypeOK, DeviceTypeOK, qvars, dvars, uart
<1>5. CASE DeviceServe
  <2>1. Head(requests) \in Requests /\ Tail(requests) \in Seq(Requests)
    BY <1>5, QueueFacts DEF DeviceServe, TypeOK
  <2>2. DeviceTypeOK'
    BY <1>5, <2>1, ServeType DEF DeviceServe, TypeOK
  <2> QED BY <1>0, <1>5, <2>1, <2>2 DEF DeviceServe, TypeOK
<1>6. CASE DevicePoll
  BY <1>0, <1>6, PollType DEF DevicePoll, TypeOK
<1>7. CASE S3Timeout
  <2>1. DeviceTypeOK'
    BY <1>7, ResetType DEF S3Timeout, SessionLost, AbortIap, uart, TypeOK, DeviceTypeOK
  <2> QED BY <1>0, <1>7, <2>1 DEF S3Timeout, TypeOK
<1>8. CASE ChipStep
  BY <1>0, <1>8, ChipType DEF ChipStep, TypeOK
<1>9. CASE Lose
  <2>1. CASE LoseRequest
    <3>1. requests' \in Seq(Requests)
      BY <2>1, QueueFacts DEF LoseRequest, TypeOK
    <3> QED BY <1>0, <1>9, <2>1, <3>1, KindType
        DEF Lose, LoseRequest, qvars, dvars, uart, TypeOK, DeviceTypeOK
  <2>2. CASE LoseAnswer
    <3>1. answers' \in Seq(Answers)
      BY <2>2, QueueFacts DEF LoseAnswer, TypeOK, DeviceTypeOK
    <3> QED BY <1>0, <1>9, <2>2, <3>1, KindType
        DEF Lose, LoseAnswer, dvars, uart, TypeOK, DeviceTypeOK
  <2> QED BY <1>0, <1>9, <2>1, <2>2 DEF Lose
<1>10. CASE UNCHANGED vars
  BY <1>0, <1>10 DEF vars, qvars, dvars, uart, TypeOK, DeviceTypeOK
<1> QED
  BY <1>1, <1>2, <1>3, <1>4, <1>5, <1>6, <1>7, <1>8, <1>9, <1>10
  DEF Next, Finished

(* Type correctness of the whole upgrade.                                  *)
THEOREM QiTypeCorrect == Spec => []TypeOK
BY InitType, StepType, PTL DEF Spec

-----------------------------------------------------------------------------
LEMMA ServePower ==
  ASSUME dl \in Downloads, iap \in IapStates, PowerHeld, NEW r, Serve(r)
  PROVE  PowerHeld'
<1> USE DEF PowerHeld, Owed
<1>1. Reset.resp = "NONE" /\ ~NoDownload.active
  BY DEF Reset, NoDownload, IapStates
<1>2. CASE Erase
  <2>1. CASE UNCHANGED <<dl, iap, hold>>
    BY <2>1
  <2>2. CASE AbortIap /\ dl' = [NoDownload EXCEPT !.erased = TRUE, !.ready = FALSE]
    BY <1>1, <2>2 DEF AbortIap, NoDownload
  <2> QED BY <1>2, <2>1, <2>2 DEF Erase, Refuse
<1>3. CASE RequestDownload
  BY <1>3 DEF RequestDownload, Refuse, Prepare
<1>4. CASE TransferData(r.bsc, r.chunk)
  <2>1. CASE UNCHANGED <<dl, iap, hold>>
    BY <2>1
  <2>2. CASE RepeatBlock(r.bsc, r.chunk)
    <3>1. Cancelled.resp \in {iap.resp, "NONE"}
      BY DEF Cancelled, IapStates
    <3> QED BY <2>2, <3>1 DEF RepeatBlock
  <2>3. CASE RejectBlock(r.bsc)
    <3>1. ~dl'.active
      BY <2>3 DEF RejectBlock, Downloads
    <3> QED BY <2>3, <3>1 DEF RejectBlock, Refuse
  <2>4. CASE dl.active /\ AcceptBlock(r.bsc, r.chunk)
    BY <2>4 DEF AcceptBlock, Forward
  <2> QED BY <1>4, <2>1, <2>2, <2>3, <2>4 DEF TransferData, Refuse
<1>5. CASE TransferExit
  <2>1. CASE UNCHANGED dvars
    BY <2>1 DEF dvars
  <2>2. CASE AbortIap
             /\ dl' = [dl EXCEPT !.active = FALSE, !.erased = FALSE, !.ready = TRUE]
    <3>1. ~dl'.active
      BY <2>2 DEF Downloads
    <3> QED BY <1>1, <2>2, <3>1 DEF AbortIap
  <2> QED BY <1>5, <2>1, <2>2 DEF TransferExit
<1> QED BY <1>2, <1>3, <1>4, <1>5 DEF Serve

LEMMA StepPower == TypeOK /\ PowerHeld /\ [Next]_vars => PowerHeld'
<1> SUFFICES ASSUME TypeOK, PowerHeld, [Next]_vars PROVE PowerHeld'
  OBVIOUS
<1>1. dl \in Downloads /\ iap \in IapStates
  BY DEF TypeOK, DeviceTypeOK
<1>2. CASE UNCHANGED <<dl, iap, hold>>
  BY <1>2 DEF PowerHeld, Owed
<1>3. CASE DeviceServe
  BY <1>1, <1>3, ServePower DEF DeviceServe
<1>4. CASE DevicePoll
  <2>1. CASE PollFrame
    <3>1. Applied(Head(fromChip)).resp = iap.resp
      BY <1>1 DEF Applied, Acked, IapStates
    <3> QED BY <2>1, <3>1 DEF PollFrame, PowerHeld, Owed
  <2>2. CASE AckPoll
    <3>1. iap'.resp = "NONE"
      BY <1>1, <2>2 DEF AckPoll, IapStates
    <3> QED BY <2>2, <3>1 DEF AckPoll, PowerHeld, Owed
  <2>3. CASE AutoComplete
    <3>1. iap'.resp = iap.resp
      BY <1>1, <2>3 DEF AutoComplete, IapStates
    <3> QED BY <2>3, <3>1 DEF AutoComplete, PowerHeld, Owed
  <2> QED BY <1>4, <2>1, <2>2, <2>3 DEF DevicePoll, Poll
<1>5. CASE S3Timeout
  <2>1. Reset.resp = "NONE" /\ ~NoDownload.active
    BY <1>1 DEF Reset, NoDownload, IapStates
  <2> QED BY <1>5, <2>1 DEF S3Timeout, SessionLost, AbortIap, PowerHeld, Owed
<1>6. CASE HostStart \/ HostSend \/ HostTake \/ HostTimeout \/ Lose \/ ChipStep
           \/ Finished \/ UNCHANGED vars
  BY <1>2, <1>6
  DEF HostStart, EnterProgramming, HostSend, HostTake, HostTimeout, Lose,
      LoseRequest, LoseAnswer, ChipStep, Chip, ChipTakes, ChipRefuses, ChipOff,
      Finished, vars, qvars, dvars
<1> QED BY <1>3, <1>4, <1>5, <1>6 DEF Next

(* The chip keeps its supply for as long as a download is active or an     *)
(* answer is owed: no order of requests, losses, refusals, timeouts and    *)
(* session ends releases it earlier.                                       *)
THEOREM QiPowerHeld == Spec => []PowerHeld
<1>1. Init => PowerHeld
  BY DEF Init, DeviceInit, PowerHeld, Owed
<1>2. TypeOK /\ PowerHeld /\ [Next]_vars => PowerHeld'
  BY StepPower
<1> QED BY <1>1, <1>2, QiTypeCorrect, PTL DEF Spec

-----------------------------------------------------------------------------
(* The numbers of two blocks in a row differ, and one follows the other.   *)
LEMMA Division ==
  ASSUME NEW m \in Nat \ {0}, NEW a \in Int, NEW b \in Int,
         NEW r \in 0..(m - 1), NEW s \in 0..(m - 1), m * a + r = m * b + s
  PROVE  r = s
<1>1. ASSUME NEW x \in Int, NEW y \in Int, x < y PROVE m * x + m <= m * y
  <2>1. m * (y - x) >= m
    BY <1>1
  <2> QED BY <2>1
<1>2. ~(a < b) /\ ~(b < a)
  BY <1>1
<1>3. a = b
  BY <1>2
<1> QED BY <1>3

LEMMA Remainder ==
  ASSUME NEW m \in Nat \ {0}, NEW q \in Int, NEW r \in 0..(m - 1)
  PROVE  (m * q + r) % m = r
<1> DEFINE n == m * q + r
<1>1. n \in Int /\ n % m \in 0..(m - 1) /\ n \div m \in Int
  OBVIOUS
<1>2. n = m * (n \div m) + (n % m)
  OBVIOUS
<1> HIDE DEF n
<1>3. m * q + r = m * (n \div m) + (n % m)
  BY <1>2 DEF n
<1>4. n % m = r
  BY <1>1, <1>3, Division
<1> QED BY <1>4 DEF n

LEMMA NextNumber ==
  ASSUME NEW m \in Nat, m > 2, NEW n \in Nat
  PROVE  /\ (n + 1) % m # n % m
         /\ ((n % m) + 1) % m = (n + 1) % m
         /\ 0 % m = 0
<1> DEFINE r == n % m
           q == n \div m
<1>1. r \in 0..(m - 1) /\ q \in Int /\ n = m * q + r
  OBVIOUS
<1> HIDE DEF r, q
<1>2. CASE r + 1 < m
  <2>1. r + 1 \in 0..(m - 1) /\ n + 1 = m * q + (r + 1)
    BY <1>1, <1>2
  <2>2. (n + 1) % m = r + 1
    BY <1>1, <2>1, Remainder
  <2>3. (r + 1) % m = r + 1
    BY <2>1
  <2> QED BY <1>1, <2>2, <2>3 DEF r
<1>3. CASE r = m - 1
  <2>1. m * (q + 1) = m * q + m
    BY <1>1
  <2>2. n + 1 = m * (q + 1) + 0 /\ q + 1 \in Int /\ 0 \in 0..(m - 1)
    BY <1>1, <1>3, <2>1
  <2>3. (n + 1) % m = 0
    BY <2>2, Remainder
  <2>4. (r + 1) % m = 0
    BY <1>3
  <2> QED BY <1>3, <2>3, <2>4 DEF r
<1> QED BY <1>1, <1>2, <1>3

LEMMA OneElement ==
  /\ \A x : /\ Append(<<>>, x) = <<x>> /\ <<x>> # <<>>
            /\ Head(<<x>>) = x /\ Tail(<<x>>) = <<>>
  /\ \A x, y : <<x>> = <<y>> => x = y
OBVIOUS

-----------------------------------------------------------------------------
(* The tool waits longer than the device may take, so of each request, its *)
(* answer, and the debt between them one exists at a time, and it is about *)
(* the step the tool is at.                                                *)
Patient == ~kind.eager

OneAtATime ==
  /\ host.waiting => host.phase \in Working
  /\ requests # <<>> =>
       host.waiting /\ ~Owed /\ answers = <<>> /\ requests = <<Request>>
  /\ answers # <<>> =>
       /\ host.waiting /\ ~Owed /\ requests = <<>>
       /\ \E ok \in BOOLEAN : answers = <<Answer(Request.sid, ok, Request.bsc)>>
  /\ Owed =>
       /\ host.waiting
       /\ IF iap.resp = "RDB" THEN host.phase = "download"
                              ELSE host.phase = "data" /\ iap.bsc = Request.bsc

(* The UART carries one command or one frame, while its answer is owed.    *)
InOrder ==
  /\ iap.state = "WAIT_ACK" => Owed
  /\ toChip # <<>> =>
       /\ iap.state = "WAIT_ACK" /\ fromChip = <<>> /\ Tail(toChip) = <<>>
       /\ Head(toChip).cmd = "DATA" =>
            /\ host.phase = "data"
            /\ Head(toChip).addr = host.blk /\ Head(toChip).chunk = host.blk
  /\ fromChip # <<>> => iap.state = "WAIT_ACK" /\ Tail(fromChip) = <<>>

(* The device has taken the request the host is waiting about.             *)
Granted == Owed \/ answers = <<Answer(Request.sid, TRUE, Request.bsc)>>

(* The device is at the host's block, or one past it.                      *)
Counted ==
  /\ host.phase \in {"erase", "download"} => host.blk = 0
  /\ host.phase = "download" /\ Granted =>
       gate /\ dl.active /\ dl.written = 0 /\ dl.seq = 0
  /\ host.phase = "data" =>
       /\ gate /\ dl.active
       /\ dl.seq = dl.written % SeqMod
       /\ dl.written \in {host.blk, host.blk + 1}
       /\ Granted => dl.written = host.blk + 1

InStep == OneAtATime /\ InOrder /\ Counted /\ ChunksInPlace

(* A host that waits for nothing has left nothing behind.                  *)
LEMMA NothingPending ==
  ASSUME TypeOK, InStep, ~host.waiting \/ requests # <<>>
  PROVE  /\ ~Owed /\ iap.state # "WAIT_ACK" /\ toChip = <<>> /\ fromChip = <<>>
         /\ answers = <<>>
         /\ ~host.waiting => requests = <<>>
BY DEF InStep, OneAtATime, InOrder

LEMMA RequestOf ==
  ASSUME TypeOK
  PROVE  /\ host.phase = "erase" =>
              Request = [sid |-> "31", chunk |-> host.blk, bsc |-> 0]
         /\ host.phase = "download" =>
              Request = [sid |-> "34", chunk |-> host.blk, bsc |-> 0]
         /\ host.phase = "data" =>
              Request = [sid |-> "36", chunk |-> host.blk, bsc |-> BscOf(host.blk)]
         /\ host.phase = "exit" =>
              Request = [sid |-> "37", chunk |-> host.blk, bsc |-> 0]
         /\ Working = {"erase", "download", "data", "exit"}
BY DEF Request, SidOf, Working

LEMMA StartInStep ==
  ASSUME TypeOK, InStep, HostStart
  PROVE  InStep'
<1>1. ~host.waiting
  BY DEF InStep, OneAtATime, HostStart, Working, SidOf
<1>2. /\ ~Owed /\ iap.state # "WAIT_ACK" /\ toChip = <<>> /\ fromChip = <<>>
      /\ answers = <<>> /\ requests = <<>>
  BY <1>1, NothingPending
<1>3. /\ UNCHANGED <<iap, toChip, fromChip, answers, requests, image>>
      /\ host'.phase = "erase" /\ host'.blk = 0 /\ ~host'.waiting
  BY DEF HostStart, EnterProgramming, uart
<1>4. OneAtATime'
  BY <1>2, <1>3 DEF OneAtATime, Owed
<1>5. InOrder'
  BY <1>2, <1>3 DEF InOrder, Owed
<1>6. Counted'
  BY <1>3 DEF Counted
<1>7. ChunksInPlace'
  BY <1>3 DEF InStep, ChunksInPlace
<1> QED BY <1>4, <1>5, <1>6, <1>7 DEF InStep

LEMMA SendInStep ==
  ASSUME TypeOK, InStep, HostSend
  PROVE  InStep'
<1>1. /\ ~Owed /\ iap.state # "WAIT_ACK" /\ toChip = <<>> /\ fromChip = <<>>
      /\ answers = <<>> /\ requests = <<>>
  BY NothingPending DEF HostSend
<1>2. /\ UNCHANGED <<gate, dl, iap, toChip, fromChip, answers, image>>
      /\ host'.phase = host.phase /\ host'.blk = host.blk /\ host'.waiting
      /\ host.phase \in Working
  BY DEF HostSend, qvars, dvars, uart, TypeOK, Hosts
<1>3. Request' = Request
  BY <1>2 DEF Request
<1>4. requests' = <<Request'>>
  BY <1>1, <1>3, OneElement DEF HostSend
<1>5. ~Owed' /\ answers' = <<>>
  BY <1>1, <1>2 DEF Owed
<1>6. OneAtATime'
  BY <1>2, <1>4, <1>5 DEF OneAtATime
<1>7. InOrder'
  BY <1>1, <1>2 DEF InOrder, Owed
<1>8. Counted'
  BY <1>2, <1>5 DEF InStep, Counted, Granted
<1>9. ChunksInPlace'
  BY <1>2 DEF InStep, ChunksInPlace
<1> QED BY <1>6, <1>7, <1>8, <1>9 DEF InStep

(* The host moves on: nothing is left, and the next block is one further.  *)
LEMMA AdvanceFacts ==
  ASSUME TypeOK
  PROVE  /\ host.phase = "erase" =>
              Advance.phase = "download" /\ Advance.blk = host.blk
         /\ host.phase = "download" =>
              Advance.phase = "data" /\ Advance.blk = host.blk
         /\ host.phase = "data" /\ host.blk < NChunks - 1 =>
              Advance.phase = "data" /\ Advance.blk = host.blk + 1
         /\ host.phase = "data" /\ ~(host.blk < NChunks - 1) =>
              Advance.phase = "exit"
         /\ host.phase = "exit" => Advance.phase = "passed"
<1>0. host.blk \in Nat /\ NChunks \in Nat
  BY NumberFacts, QiAssumption DEF TypeOK, Hosts
<1>1. CASE host.phase = "erase"
  <2>1. Advance = [host EXCEPT !.phase = "download"]
    BY <1>1 DEF Advance
  <2> QED BY <1>1, <2>1 DEF TypeOK, Hosts
<1>2. CASE host.phase = "download"
  <2>1. Advance = [host EXCEPT !.phase = "data"]
    BY <1>2 DEF Advance
  <2> QED BY <1>2, <2>1 DEF TypeOK, Hosts
<1>3. CASE host.phase = "data" /\ host.blk < NChunks - 1
  <2>1. Advance = [host EXCEPT !.blk = @ + 1]
    BY <1>0, <1>3 DEF Advance
  <2> QED BY <1>3, <2>1 DEF TypeOK, Hosts
<1>4. CASE host.phase = "data" /\ ~(host.blk < NChunks - 1)
  <2>1. Advance = [host EXCEPT !.phase = "exit"]
    BY <1>0, <1>4 DEF Advance
  <2> QED BY <1>4, <2>1 DEF TypeOK, Hosts
<1>5. CASE host.phase \notin {"erase", "download", "data"}
  <2>1. Advance = [host EXCEPT !.phase = "passed"]
    BY <1>5 DEF Advance
  <2> QED BY <1>5, <2>1 DEF TypeOK, Hosts
<1> QED BY <1>1, <1>2, <1>3, <1>4, <1>5

LEMMA GiveUpFacts ==
  ASSUME TypeOK
  PROVE  /\ host.phase = "exit" => GiveUp.phase = "passed"
         /\ host.phase # "exit" => GiveUp.phase = "failed"
BY DEF GiveUp, TypeOK, Hosts

LEMMA TakeInStep ==
  ASSUME TypeOK, InStep, HostTake
  PROVE  InStep'
<1>1. /\ host.waiting /\ ~Owed /\ requests = <<>>
      /\ host.phase \in Working
  BY DEF InStep, OneAtATime, HostTake
<1>2. PICK ok \in BOOLEAN : answers = <<Answer(Request.sid, ok, Request.bsc)>>
  BY DEF InStep, OneAtATime, HostTake
<1>3. iap.state # "WAIT_ACK" /\ toChip = <<>> /\ fromChip = <<>>
  BY <1>1 DEF InStep, InOrder
<1>4. /\ UNCHANGED <<gate, dl, iap, toChip, fromChip, requests, image>>
      /\ answers' = <<>>
  BY <1>2, OneElement DEF HostTake, dvars, uart
<1>5. LET a == Head(answers) IN a.ok = ok /\ Matches(a)
  BY <1>1, <1>2, OneElement DEF Matches, Answer
<1>6. host' = [(IF ok THEN Advance ELSE GiveUp) EXCEPT !.waiting = FALSE, !.tries = 0]
  BY <1>5 DEF HostTake
<1>7. Advance \in Hosts /\ GiveUp \in Hosts
  BY HostType
<1>8. /\ ~host'.waiting
      /\ host'.phase = (IF ok THEN Advance ELSE GiveUp).phase
      /\ host'.blk = (IF ok THEN Advance ELSE GiveUp).blk
  BY <1>6, <1>7 DEF Hosts
<1>9. OneAtATime'
  BY <1>1, <1>4, <1>8 DEF OneAtATime, Owed
<1>10. InOrder'
  BY <1>3, <1>4 DEF InOrder, Owed
<1>11. ~Granted'
  BY <1>1, <1>4, OneElement DEF Granted, Owed
<1>12. Counted'
  <2>1. CASE ~ok
    <3>1. host'.phase \in {"passed", "failed"}
      BY <1>8, <2>1, GiveUpFacts
    <3> QED BY <3>1 DEF Counted
  <2>2. CASE ok
    <3>1. Granted
      BY <1>2, <2>2 DEF Granted
    <3>2. host.phase \in {"erase", "download", "data", "exit"}
      BY <1>1, RequestOf
    <3>3. CASE host.phase = "erase"
      BY <1>8, <1>11, <2>2, <3>3, AdvanceFacts DEF InStep, Counted
    <3>4. CASE host.phase = "download"
      BY <1>4, <1>8, <1>11, <2>2, <3>1, <3>4, AdvanceFacts, NextNumber, QiAssumption
      DEF InStep, Counted
    <3>5. CASE host.phase = "data"
      BY <1>4, <1>8, <1>11, <2>2, <3>1, <3>5, AdvanceFacts DEF InStep, Counted
    <3>6. CASE host.phase = "exit"
      BY <1>8, <2>2, <3>6, AdvanceFacts DEF Counted
    <3> QED BY <3>2, <3>3, <3>4, <3>5, <3>6
  <2> QED BY <2>1, <2>2
<1>13. ChunksInPlace'
  BY <1>4 DEF InStep, ChunksInPlace
<1> QED BY <1>9, <1>10, <1>12, <1>13 DEF InStep

LEMMA TimeoutInStep ==
  ASSUME TypeOK, InStep, Patient, HostTimeout
  PROVE  InStep'
<1>1. Silent /\ host.waiting
  BY DEF Patient, HostTimeout
<1>2. /\ ~Owed /\ answers = <<>> /\ requests = <<>>
      /\ iap.state # "WAIT_ACK" /\ toChip = <<>> /\ fromChip = <<>>
  BY <1>1 DEF Silent, InStep, InOrder
<1>3. UNCHANGED <<gate, dl, iap, toChip, fromChip, answers, requests, image>>
  BY DEF HostTimeout, qvars, dvars, uart
<1>4. /\ ~host'.waiting
      /\ \/ host'.phase = "data" /\ host.phase = "data" /\ host'.blk = host.blk
         \/ host'.phase \in {"passed", "failed"}
  <2>1. CASE host.phase = "data" /\ host.tries < kind.retries
    BY <2>1 DEF HostTimeout, TypeOK, Hosts
  <2>2. CASE ~(host.phase = "data" /\ host.tries < kind.retries)
    <3>1. host' = [GiveUp EXCEPT !.waiting = FALSE, !.tries = 0]
      BY <2>2 DEF HostTimeout
    <3>2. GiveUp \in Hosts
      BY HostType
    <3>3. ~host'.waiting /\ host'.phase = GiveUp.phase
      BY <3>1, <3>2 DEF Hosts
    <3> QED BY <3>3, GiveUpFacts
  <2> QED BY <2>1, <2>2
<1>5. OneAtATime'
  BY <1>2, <1>3, <1>4 DEF OneAtATime, Owed
<1>6. InOrder'
  BY <1>2, <1>3 DEF InOrder, Owed
<1>7. ~Granted'
  BY <1>2, <1>3, OneElement DEF Granted, Owed
<1>8. Counted'
  BY <1>3, <1>4, <1>7 DEF InStep, Counted
<1>9. ChunksInPlace'
  BY <1>3 DEF InStep, ChunksInPlace
<1> QED BY <1>5, <1>6, <1>8, <1>9 DEF InStep

(* The device serves the one request there is.                             *)
LEMMA ServedRequest ==
  ASSUME TypeOK, InStep, DeviceServe
  PROVE  /\ requests = <<Request>> /\ requests' = <<>> /\ host' = host
         /\ Request' = Request
         /\ host.waiting /\ host.phase \in Working
         /\ ~Owed /\ iap.state # "WAIT_ACK" /\ toChip = <<>> /\ fromChip = <<>>
         /\ answers = <<>>
         /\ Serve(Request)
<1>1. requests = <<Request>> /\ host.waiting /\ host.phase \in Working
  BY DEF DeviceServe, InStep, OneAtATime
<1>2. Head(requests) = Request /\ requests' = <<>> /\ host' = host
  BY <1>1, OneElement DEF DeviceServe
<1>3. Request' = Request
  BY <1>2 DEF Request
<1> QED BY <1>1, <1>2, <1>3, NothingPending DEF DeviceServe

(* A request answered at once leaves the count to be shown.                *)
LEMMA AnsweredInStep ==
  ASSUME TypeOK, InStep, DeviceServe, NEW ok \in BOOLEAN,
         Send(Answer(Request.sid, ok, Request.bsc)),
         ~Owed', iap'.state # "WAIT_ACK", UNCHANGED <<toChip, fromChip, image>>,
         Counted'
  PROVE  InStep'
<1>1. /\ requests' = <<>> /\ host' = host /\ Request' = Request
      /\ host.waiting /\ host.phase \in Working /\ answers = <<>>
      /\ toChip = <<>> /\ fromChip = <<>>
  BY ServedRequest
<1>3. answers' = <<Answer(Request'.sid, ok, Request'.bsc)>>
  BY <1>1, OneElement DEF Send
<1>4. OneAtATime'
  BY <1>1, <1>3 DEF OneAtATime
<1>5. InOrder'
  BY <1>1 DEF InOrder
<1>6. ChunksInPlace'
  BY DEF InStep, ChunksInPlace
<1> QED BY <1>4, <1>5, <1>6 DEF InStep

LEMMA ServeInStep ==
  ASSUME TypeOK, InStep, DeviceServe
  PROVE  InStep'
<1>1. /\ requests' = <<>> /\ host' = host /\ Request' = Request
      /\ host.waiting /\ host.phase \in {"erase", "download", "data", "exit"}
      /\ host.phase \in Working
      /\ ~Owed /\ iap.state # "WAIT_ACK" /\ toChip = <<>> /\ fromChip = <<>>
      /\ answers = <<>> /\ Serve(Request)
  BY ServedRequest, RequestOf
<1>2. dl \in Downloads /\ iap \in IapStates /\ host.blk \in Nat /\ dl.written \in Nat
  BY NumberFacts DEF TypeOK, DeviceTypeOK, Hosts, Downloads
<1>3. CASE host.phase = "erase"
  <2>1. Erase /\ Request.sid = "31" /\ Request.bsc = 0
    BY <1>1, <1>3, RequestOf DEF Serve
  <2>2. PICK ok \in BOOLEAN : Send(Answer("31", ok, 0))
    BY <2>1 DEF Erase, Refuse
  <2>3. iap'.state # "WAIT_ACK" /\ ~Owed' /\ UNCHANGED <<toChip, fromChip, image>>
    BY <1>1, <1>2, <2>1 DEF Erase, Refuse, AbortIap, Reset, uart, Owed, IapStates
  <2>4. Counted'
    BY <1>1, <1>3 DEF InStep, Counted
  <2> QED BY <2>1, <2>2, <2>3, <2>4, AnsweredInStep
<1>4. CASE host.phase = "download"
  <2>1. RequestDownload /\ Request.sid = "34" /\ Request.bsc = 0
    BY <1>1, <1>4, RequestOf DEF Serve
  <2>2. CASE Refuse("34", 0) /\ UNCHANGED dl
    <3>1. iap'.state # "WAIT_ACK" /\ ~Owed' /\ UNCHANGED <<toChip, fromChip, image>>
      BY <1>1, <2>2 DEF Refuse, uart, Owed
    <3>2. answers' = <<Answer("34", FALSE, 0)>>
      BY <1>1, <2>2, OneElement DEF Refuse, Send
    <3>3. ~Granted'
      BY <3>1, <3>2, OneElement DEF Granted, Answer
    <3>4. Counted'
      BY <1>1, <1>4, <3>3 DEF InStep, Counted
    <3>5. Send(Answer(Request.sid, FALSE, Request.bsc))
      BY <2>1, <2>2 DEF Refuse
    <3> QED BY <3>1, <3>4, <3>5, AnsweredInStep
  <2>3. CASE ~(Refuse("34", 0) /\ UNCHANGED dl)
    <3>0. /\ gate /\ Prepare /\ UNCHANGED <<gate, answers>>
          /\ dl' = [dl EXCEPT !.active = TRUE, !.ready = FALSE, !.seq = 0,
                              !.written = 0]
      BY <2>1, <2>3 DEF RequestDownload
    <3>1. /\ gate' /\ dl'.active /\ dl'.seq = 0 /\ dl'.written = 0
          /\ UNCHANGED answers /\ Prepare
      BY <1>2, <3>0 DEF Downloads
    <3>2. /\ iap'.state = "WAIT_ACK" /\ iap'.resp = "RDB" /\ UNCHANGED image
          /\ fromChip' = <<>>
          /\ toChip' = <<[cmd |-> "PREPARE", addr |-> 0, chunk |-> 0]>>
      BY <1>1, <1>2, <3>1, OneElement DEF Prepare, IapStates
    <3>3. OneAtATime'
      BY <1>1, <1>4, <3>1, <3>2 DEF OneAtATime
    <3>4. InOrder'
      BY <3>2, OneElement DEF InOrder, Owed
    <3>5. Counted'
      BY <1>1, <1>4, <3>1 DEF InStep, Counted
    <3>6. ChunksInPlace'
      BY <3>2 DEF InStep, ChunksInPlace
    <3> QED BY <3>3, <3>4, <3>5, <3>6 DEF InStep
  <2> QED BY <2>2, <2>3
<1>5. CASE host.phase = "data"
  <2> DEFINE bsc == BscOf(host.blk)
  <2>1. /\ TransferData(bsc, host.blk) /\ Request.sid = "36" /\ Request.bsc = bsc
    BY <1>1, <1>5, RequestOf DEF Serve
  <2>2. /\ gate /\ dl.active /\ dl.seq = dl.written % SeqMod
        /\ dl.written \in {host.blk, host.blk + 1}
    BY <1>5 DEF InStep, Counted
  <2>3. CASE dl.written = host.blk
    <3>1. bsc # dl.seq /\ bsc = NextBsc
      <4>1. /\ (host.blk + 1) % SeqMod # host.blk % SeqMod
            /\ ((host.blk % SeqMod) + 1) % SeqMod = (host.blk + 1) % SeqMod
        BY <1>2, NextNumber, QiAssumption
      <4> QED BY <2>2, <2>3, <4>1 DEF BscOf, NextBsc
    <3>2. AcceptBlock(bsc, host.blk)
      BY <2>1, <2>2, <3>1 DEF TransferData, RepeatBlock, RejectBlock
    <3>3. /\ UNCHANGED <<gate, answers, image, fromChip>>
          /\ dl'.active /\ dl'.seq = bsc /\ dl'.written = host.blk + 1
          /\ iap'.state = "WAIT_ACK" /\ iap'.resp = "TXD" /\ iap'.bsc = bsc
          /\ toChip' = <<[cmd |-> "DATA", addr |-> host.blk, chunk |-> host.blk]>>
      BY <1>1, <1>2, <2>2, <2>3, <3>2, OneElement
      DEF AcceptBlock, Forward, Downloads, IapStates
    <3>4. OneAtATime'
      BY <1>1, <1>5, <2>1, <3>3 DEF OneAtATime
    <3>5. InOrder'
      BY <1>1, <1>5, <3>3, OneElement DEF InOrder, Owed
    <3>6. Counted'
      BY <1>1, <1>5, <2>2, <3>3 DEF Counted, BscOf
    <3>7. ChunksInPlace'
      BY <3>3 DEF InStep, ChunksInPlace
    <3> QED BY <3>4, <3>5, <3>6, <3>7 DEF InStep
  <2>4. CASE dl.written = host.blk + 1
    <3>1. bsc = dl.seq
      BY <2>2, <2>4 DEF BscOf
    <3>2. RepeatBlock(bsc, host.blk)
      BY <2>1, <2>2, <3>1 DEF TransferData, AcceptBlock, RejectBlock
    <3>3. /\ iap' = iap /\ UNCHANGED <<gate, dl, toChip, fromChip, image>>
          /\ Send(Answer(Request.sid, TRUE, Request.bsc))
      BY <1>1, <2>1, <3>2 DEF RepeatBlock, Cancelled, Owed, uart
    <3>4. ~Owed' /\ iap'.state # "WAIT_ACK"
      BY <1>1, <3>3 DEF Owed
    <3>5. Counted'
      BY <1>1, <1>5, <2>2, <2>4, <3>3 DEF Counted
    <3> QED BY <3>3, <3>4, <3>5, AnsweredInStep
  <2> QED BY <2>2, <2>3, <2>4
<1>6. CASE host.phase = "exit"
  <2>1. TransferExit /\ Request.sid = "37" /\ Request.bsc = 0
    BY <1>1, <1>6, RequestOf DEF Serve
  <2>2. PICK ok \in BOOLEAN : Send(Answer("37", ok, 0))
    BY <2>1 DEF TransferExit, TypeOK, DeviceTypeOK, Downloads
  <2>3. iap'.state # "WAIT_ACK" /\ ~Owed' /\ UNCHANGED <<toChip, fromChip, image>>
    BY <1>1, <1>2, <2>1
    DEF TransferExit, AbortIap, Reset, dvars, uart, Owed, IapStates
  <2>4. Counted'
    BY <1>1, <1>6 DEF Counted
  <2> QED BY <2>1, <2>2, <2>3, <2>4, AnsweredInStep
<1> QED BY <1>1, <1>3, <1>4, <1>5, <1>6

LEMMA PollInStep ==
  ASSUME TypeOK, InStep, DevicePoll
  PROVE  InStep'
<1>1. /\ UNCHANGED <<host, requests, gate, dl, toChip, image>>
  BY DEF DevicePoll, Poll, PollFrame, AckPoll, AutoComplete, uart
<1>2. Request' = Request
  BY <1>1 DEF Request
<1>3. iap \in IapStates
  BY DEF TypeOK, DeviceTypeOK
<1>4. ChunksInPlace'
  BY <1>1 DEF InStep, ChunksInPlace
<1>5. CASE PollFrame
  <2>1. /\ iap.state = "WAIT_ACK" /\ toChip = <<>> /\ fromChip' = <<>>
        /\ Owed /\ UNCHANGED answers
    BY <1>5 DEF PollFrame, InStep, InOrder
  <2>2. Head(fromChip).status \in {"OK", "FAILED", "COMPLETE"}
    <3>1. Head(fromChip) \in Frames
      BY <1>5, QueueFacts DEF PollFrame, TypeOK, DeviceTypeOK
    <3> QED BY <3>1 DEF Frames
  <2>3. iap'.state # "WAIT_ACK" /\ iap'.resp = iap.resp /\ iap'.bsc = iap.bsc
    BY <1>3, <1>5, <2>1, <2>2 DEF PollFrame, Applied, Acked, IapStates
  <2>4. OneAtATime' /\ Counted'
    BY <1>1, <1>2, <2>1, <2>3 DEF InStep, OneAtATime, Counted, Granted, Owed
  <2>5. InOrder'
    BY <1>1, <2>1, <2>3 DEF InOrder
  <2> QED BY <1>4, <2>4, <2>5 DEF InStep
<1>6. CASE AckPoll
  <2>1. /\ Owed /\ answers = <<>> /\ requests = <<>> /\ host.waiting
        /\ host.phase \in Working /\ UNCHANGED fromChip
    BY <1>6 DEF AckPoll, InStep, OneAtATime, uart
  <2>2. /\ iap.state # "WAIT_ACK" \/ (toChip = <<>> /\ fromChip = <<>>)
        /\ ~Owed' /\ iap'.state # "WAIT_ACK"
    BY <1>3, <1>6 DEF AckPoll, AckTimeout, Owed, IapStates
  <2>3. PICK ok \in BOOLEAN : Send(Deferred(ok))
    BY <1>6 DEF AckPoll
  <2>4. Deferred(ok) = Answer(Request.sid, ok, Request.bsc)
    BY <1>3, <2>1, RequestOf DEF Deferred, InStep, OneAtATime, Owed, IapStates
  <2>5. answers' = <<Answer(Request'.sid, ok, Request'.bsc)>>
    BY <1>2, <2>1, <2>3, <2>4, OneElement DEF Send
  <2>6. OneAtATime'
    BY <1>1, <2>1, <2>2, <2>5 DEF OneAtATime
  <2>7. InOrder'
    BY <1>1, <2>1, <2>2 DEF InStep, InOrder
  <2>8. Counted'
    BY <1>1, <2>1 DEF InStep, Counted, Granted
  <2> QED BY <1>4, <2>6, <2>7, <2>8 DEF InStep
<1>7. CASE AutoComplete
  <2>1. /\ iap.state = "IN_PROGRESS" /\ iap'.state = "SUCCESS"
        /\ iap'.resp = iap.resp /\ iap'.bsc = iap.bsc /\ UNCHANGED <<answers, fromChip>>
    BY <1>3, <1>7 DEF AutoComplete, IapStates, uart
  <2>2. OneAtATime' /\ Counted'
    BY <1>1, <1>2, <2>1 DEF InStep, OneAtATime, Counted, Granted, Owed
  <2>3. InOrder'
    BY <1>1, <2>1 DEF InStep, InOrder
  <2> QED BY <1>4, <2>2, <2>3 DEF InStep
<1> QED BY <1>5, <1>6, <1>7 DEF DevicePoll, Poll

LEMMA SessionInStep ==
  ASSUME TypeOK, InStep, S3Timeout
  PROVE  InStep'
<1>1. ~host.waiting /\ host.phase \notin {"erase", "download", "data", "exit"}
  BY RequestOf DEF S3Timeout, InStep, OneAtATime
<1>2. /\ ~Owed /\ iap.state # "WAIT_ACK" /\ toChip = <<>> /\ fromChip = <<>>
      /\ answers = <<>> /\ requests = <<>>
  BY <1>1, NothingPending
<1>3. /\ UNCHANGED <<toChip, fromChip, answers, requests, image, host>>
      /\ ~Owed' /\ iap'.state # "WAIT_ACK"
  BY DEF S3Timeout, SessionLost, AbortIap, Reset, Owed, uart, TypeOK, DeviceTypeOK,
         IapStates
<1>4. OneAtATime'
  BY <1>1, <1>2, <1>3 DEF OneAtATime
<1>5. InOrder'
  BY <1>2, <1>3 DEF InOrder
<1>6. Counted'
  BY <1>1, <1>3 DEF Counted
<1>7. ChunksInPlace'
  BY <1>3 DEF InStep, ChunksInPlace
<1> QED BY <1>4, <1>5, <1>6, <1>7 DEF InStep

LEMMA ChipInStep ==
  ASSUME TypeOK, InStep, ChipStep
  PROVE  InStep'
<1>1. UNCHANGED <<host, requests, gate, dl, iap, answers>>
  BY DEF ChipStep, Chip, ChipTakes, ChipRefuses, ChipOff, dvars
<1>2. OneAtATime' /\ Counted'
  <2>1. Request' = Request
    BY <1>1 DEF Request
  <2> QED BY <1>1, <2>1 DEF InStep, OneAtATime, Counted, Granted, Owed
<1>3. CASE ChipTakes
  <2>1. /\ toChip # <<>> /\ iap.state = "WAIT_ACK" /\ fromChip = <<>>
        /\ toChip' = <<>> /\ Head(toChip) \in Commands
    BY <1>3, QueueFacts DEF ChipTakes, InStep, InOrder, TypeOK, DeviceTypeOK
  <2>2. PICK f : fromChip' = Append(fromChip, f) \/ fromChip' = fromChip
    BY <1>3 DEF ChipTakes
  <2>3. fromChip' = <<>> \/ Tail(fromChip') = <<>>
    BY <2>1, <2>2, OneElement
  <2>4. InOrder'
    BY <1>1, <2>1, <2>3 DEF InStep, InOrder, Owed
  <2>5. ChunksInPlace'
    <3>1. CASE Head(toChip).cmd = "PREPARE"
      BY <1>3, <3>1 DEF ChipTakes, ChunksInPlace
    <3>2. CASE Head(toChip).cmd = "DATA"
      <4>1. Head(toChip).addr = Head(toChip).chunk
        BY <2>1, <3>2 DEF InStep, InOrder
      <4> QED BY <1>3, <3>2, <4>1 DEF ChipTakes, Written, ChunksInPlace, InStep
    <3> QED BY <2>1, <3>1, <3>2 DEF Commands
  <2> QED BY <1>2, <2>4, <2>5 DEF InStep
<1>4. CASE ChipRefuses
  <2>1. /\ iap.state = "WAIT_ACK" /\ fromChip = <<>> /\ toChip' = <<>>
        /\ UNCHANGED image
    BY <1>4 DEF ChipRefuses, InStep, InOrder
  <2>2. PICK f : fromChip' = Append(fromChip, f) \/ fromChip' = fromChip
    BY <1>4 DEF ChipRefuses
  <2>3. fromChip' = <<>> \/ Tail(fromChip') = <<>>
    BY <2>1, <2>2, OneElement
  <2>4. InOrder'
    BY <1>1, <2>1, <2>3 DEF InStep, InOrder, Owed
  <2>5. ChunksInPlace'
    BY <2>1 DEF InStep, ChunksInPlace
  <2> QED BY <1>2, <2>4, <2>5 DEF InStep
<1>5. CASE ChipOff
  <2>1. toChip' = <<>> /\ UNCHANGED <<fromChip, image>>
    BY <1>5 DEF ChipOff
  <2>2. InOrder'
    BY <1>1, <2>1 DEF InStep, InOrder, Owed
  <2> QED BY <1>2, <2>1, <2>2 DEF InStep, ChunksInPlace
<1> QED BY <1>3, <1>4, <1>5 DEF ChipStep, Chip

LEMMA LoseInStep ==
  ASSUME TypeOK, InStep, Lose
  PROVE  InStep'
<1>1. /\ UNCHANGED <<host, gate, dl, iap, toChip, fromChip, image>>
      /\ \/ requests' = <<>> /\ UNCHANGED answers
         \/ answers' = <<>> /\ UNCHANGED requests
  <2>1. CASE LoseRequest
    <3>1. requests' = <<>>
      BY <2>1, OneElement DEF LoseRequest, InStep, OneAtATime
    <3> QED BY <2>1, <3>1 DEF LoseRequest, qvars, dvars, uart
  <2>2. CASE LoseAnswer
    <3>1. answers' = <<>>
      BY <2>2, OneElement DEF LoseAnswer, InStep, OneAtATime
    <3> QED BY <2>2, <3>1 DEF LoseAnswer, dvars, uart
  <2> QED BY <2>1, <2>2 DEF Lose
<1>2. Request' = Request
  BY <1>1 DEF Request
<1>3. OneAtATime'
  BY <1>1, <1>2 DEF InStep, OneAtATime, Owed
<1>4. InOrder'
  BY <1>1 DEF InStep, InOrder, Owed
<1>5. Granted' => Granted
  BY <1>1, <1>2, OneElement DEF Granted, Owed
<1>6. Counted'
  BY <1>1, <1>5 DEF InStep, Counted
<1>7. ChunksInPlace'
  BY <1>1 DEF InStep, ChunksInPlace
<1> QED BY <1>3, <1>4, <1>6, <1>7 DEF InStep

LEMMA StepInStep ==
  TypeOK /\ (Patient => InStep) /\ [Next]_vars => (Patient => InStep)'
<1> SUFFICES ASSUME TypeOK, Patient => InStep, [Next]_vars, Patient'
             PROVE  InStep'
  OBVIOUS
<1>1. Patient /\ InStep
  BY SameKind DEF Patient
<1>2. CASE UNCHANGED vars
  BY <1>1, <1>2
  DEF vars, qvars, dvars, uart, InStep, OneAtATime, InOrder, Counted, Granted,
      ChunksInPlace, Request, Owed
<1> QED
  BY <1>1, <1>2, StartInStep, SendInStep, TakeInStep, TimeoutInStep, ServeInStep,
     PollInStep, SessionInStep, ChipInStep, LoseInStep
  DEF Next, Finished

LEMMA ToolInStep == Spec => [](Patient => InStep)
<1>1. Init => (Patient => InStep)
  BY RequestOf, InitType, OneElement
  DEF Init, DeviceInit, InStep, OneAtATime, InOrder, Counted, Granted, ChunksInPlace,
      Owed
<1> QED BY <1>1, StepInStep, QiTypeCorrect, PTL DEF Spec

(* With the repository's own tool a chunk is only ever programmed at its   *)
(* own address, for a firmware of any size and any number of losses,       *)
(* retries, faults of the UART and abandoned upgrades (0x36 against        *)
(* g_mcu2_addr, the block counter wrapping any number of times).           *)
THEOREM QiChunksInPlace == Spec => [](~kind.eager => ChunksInPlace)
<1>1. (Patient => InStep) => (~kind.eager => ChunksInPlace)
  BY DEF Patient, InStep
<1> QED BY <1>1, ToolInStep, PTL

(* And a refusal it takes for the block it is sending is about that block. *)
THEOREM QiRefusalsMatch == Spec => [](~kind.eager => RefusalsMatch)
<1>1. ASSUME TypeOK, Patient => InStep, ~kind.eager
      PROVE  RefusalsMatch
  <2> SUFFICES ASSUME NEW j \in DOMAIN answers
               PROVE  answers[j].bsc = Request.bsc
    BY DEF RefusalsMatch
  <2>1. answers # <<>>
    OBVIOUS
  <2>2. PICK ok \in BOOLEAN : answers = <<Answer(Request.sid, ok, Request.bsc)>>
    BY <1>1, <2>1 DEF Patient, InStep, OneAtATime
  <2>3. answers[j] = Answer(Request.sid, ok, Request.bsc)
    BY <2>2
  <2> QED BY <2>3 DEF Answer
<1>2. TypeOK /\ (Patient => InStep) => (~kind.eager => RefusalsMatch)
  BY <1>1
<1> QED BY <1>2, ToolInStep, QiTypeCorrect, PTL

-----------------------------------------------------------------------------
(* What the chip holds while an upgrade goes on, as long as not both links *)
(* have been disturbed: the blocks the device counts, or one fewer and a   *)
(* refusal that is bound to reach the tool.                                *)
Clean == lost = 0 \/ noise = 0

Placed(n) == {<<c, c>> : c \in 0..(n - 1)}

(* The chip has failed, or its acknowledgement is lost, and the tool will  *)
(* be told.                                                                *)
Doomed ==
  \/ answers = <<Answer(Request.sid, FALSE, Request.bsc)>>
  \/ Owed /\ iap.state = "FAILED"
  \/ /\ iap.state = "WAIT_ACK" /\ toChip = <<>>
     /\ fromChip = <<>> \/ Head(fromChip).status = "FAILED"

Preparing ==
  \/ Doomed
  \/ toChip # <<>> /\ Head(toChip).cmd = "PREPARE"
  \/ toChip = <<>> /\ prepared /\ image = {}

Programming ==
  \/ Doomed /\ noise > 0
  \/ /\ toChip # <<>> /\ Head(toChip).cmd = "DATA"
     /\ prepared /\ image = Placed(dl.written - 1)
  \/ toChip = <<>> /\ prepared /\ image = Placed(dl.written)

Complete ==
  Clean =>
    /\ host.phase = "download" /\ Granted => Preparing
    /\ host.phase = "data" => Programming
    /\ host.phase \in {"exit", "passed"} => Whole

LEMMA PlacedFacts ==
  /\ Placed(0) = {}
  /\ \A n \in Nat : Placed(n + 1) = Placed(n) \cup {<<n, n>>}
  /\ Whole <=> image = Placed(NChunks)
<1>1. Placed(0) = {}
  BY DEF Placed
<1>2. ASSUME NEW n \in Nat PROVE Placed(n + 1) = Placed(n) \cup {<<n, n>>}
  <2>1. 0..(n + 1 - 1) = (0..(n - 1)) \cup {n}
    OBVIOUS
  <2> QED BY <2>1 DEF Placed
<1>3. Whole <=> image = Placed(NChunks)
  BY DEF Whole, Placed, Chunks
<1> QED BY <1>1, <1>2, <1>3

(* Losses and faults are never taken back.                                 *)
LEMMA CleanBefore ==
  ASSUME TypeOK, Next, Clean'
  PROVE  Clean
<1>1. lost \in Nat /\ noise \in Nat
  BY KindType, QiAssumption DEF TypeOK, DeviceTypeOK
<1>2. lost' = lost \/ lost' = lost + 1
  BY DEF Next, HostStart, HostSend, HostTake, HostTimeout, DeviceServe, DevicePoll,
     S3Timeout, ChipStep, Lose, Finished, vars
<1>3. noise' = noise \/ noise' = noise + 1
  <2>1. CASE DeviceServe
    BY <2>1 DEF DeviceServe, Serve, Erase, RequestDownload, TransferData,
       TransferExit, Refuse, Prepare, RepeatBlock, RejectBlock, AcceptBlock, Forward,
       uart
  <2>2. CASE ChipStep
    BY <2>2 DEF ChipStep, Chip, ChipTakes, ChipRefuses, ChipOff
  <2> QED
    BY <2>1, <2>2
    DEF Next, HostStart, EnterProgramming, HostSend, HostTake, HostTimeout, DevicePoll,
        Poll, PollFrame, AckPoll, AutoComplete, S3Timeout, SessionLost, Lose,
        LoseRequest, LoseAnswer, Finished, vars, qvars, uart
<1> QED BY <1>1, <1>2, <1>3 DEF Clean

(* Where nothing is owed nor refused, the chip has all the device counts.  *)
LEMMA NotDoomed ==
  ASSUME TypeOK, InStep, ~Owed,
         answers # <<Answer(Request.sid, FALSE, Request.bsc)>>
  PROVE  /\ ~Doomed /\ toChip = <<>>
         /\ Preparing => prepared /\ image = {}
         /\ Programming => prepared /\ image = Placed(dl.written)
BY DEF Doomed, Preparing, Programming, InStep, InOrder

(* Of what Complete speaks, only some states are disturbed by each action. *)
LEMMA HostComplete ==
  ASSUME TypeOK, Patient, InStep, Complete, Clean, Clean',
         HostStart \/ HostSend \/ HostTake \/ HostTimeout
  PROVE  Complete'
<1>1. CASE HostStart
  <2>1. host'.phase = "erase"
    BY <1>1 DEF HostStart
  <2> QED BY <2>1 DEF Complete
<1>2. CASE HostSend
  <2>1. ~Owed /\ answers = <<>>
    BY <1>2, NothingPending DEF HostSend
  <2>2. /\ UNCHANGED <<dl, iap, toChip, fromChip, answers, image, prepared, noise>>
        /\ host'.phase = host.phase /\ host'.blk = host.blk
    BY <1>2 DEF HostSend, qvars, dvars, uart, TypeOK, Hosts
  <2>3. Request' = Request
    BY <2>2 DEF Request
  <2>4. ~Granted'
    BY <2>1, <2>2, OneElement DEF Granted, Owed
  <2>5. host.phase = "data" => Programming'
    BY <2>2, <2>3 DEF Complete, Programming, Doomed, Placed, Owed
  <2> QED BY <2>2, <2>4, <2>5 DEF Complete, Whole
<1>3. CASE HostTake
  <2>1. /\ ~Owed /\ host.waiting /\ host.phase \in Working
    BY <1>3 DEF HostTake, InStep, OneAtATime
  <2>2. PICK ok \in BOOLEAN : answers = <<Answer(Request.sid, ok, Request.bsc)>>
    BY <1>3 DEF HostTake, InStep, OneAtATime
  <2>3. /\ UNCHANGED <<dl, iap, toChip, fromChip, image, prepared, noise>>
        /\ answers' = <<>>
    BY <1>3, <2>2, OneElement DEF HostTake, dvars, uart
  <2>4. host' = [(IF ok THEN Advance ELSE GiveUp) EXCEPT !.waiting = FALSE, !.tries = 0]
    <3>1. LET a == Head(answers) IN a.ok = ok /\ Matches(a)
      BY <2>1, <2>2, OneElement DEF Matches, Answer
    <3> QED BY <1>3, <3>1 DEF HostTake
  <2>5. host'.phase = (IF ok THEN Advance ELSE GiveUp).phase
    BY <2>4, HostType DEF Hosts
  <2>6. ~Granted'
    BY <2>1, <2>3, OneElement DEF Granted, Owed
  <2>7. CASE ~ok
    <3>1. \/ host'.phase = "failed"
          \/ host'.phase = "passed" /\ host.phase = "exit"
      BY <2>5, <2>7, GiveUpFacts
    <3> QED BY <2>3, <3>1 DEF Complete, Whole
  <2>8. CASE ok
    <3>1. Granted
      BY <2>2, <2>8 DEF Granted
    <3>2. answers # <<Answer(Request.sid, FALSE, Request.bsc)>>
      BY <2>2, <2>8, OneElement DEF Answer
    <3>3. /\ toChip = <<>>
          /\ Preparing => prepared /\ image = {}
          /\ Programming => prepared /\ image = Placed(dl.written)
      BY <2>1, <3>2, NotDoomed
    <3>4. CASE host.phase = "erase"
      BY <2>5, <2>6, <2>8, <3>4, AdvanceFacts DEF Complete
    <3>5. CASE host.phase = "download"
      <4>1. prepared /\ image = Placed(dl.written)
        BY <3>1, <3>3, <3>5, PlacedFacts DEF Complete, InStep, Counted
      <4> QED BY <2>3, <2>5, <2>8, <3>3, <3>5, <4>1, AdvanceFacts
          DEF Complete, Programming, Placed
    <3>6. CASE host.phase = "data"
      <4>1. prepared /\ image = Placed(dl.written) /\ dl.written = host.blk + 1
        BY <3>1, <3>3, <3>6 DEF Complete, InStep, Counted
      <4>2. CASE host.blk < NChunks - 1
        BY <2>3, <2>5, <2>8, <3>3, <3>6, <4>1, <4>2, AdvanceFacts
        DEF Complete, Programming, Placed
      <4>3. CASE ~(host.blk < NChunks - 1)
        <5>1. host.blk + 1 = NChunks
          BY <4>3, QiAssumption DEF TypeOK, Hosts, Chunks
        <5>2. Whole'
          BY <2>3, <4>1, <5>1, PlacedFacts DEF Whole
        <5> QED BY <2>5, <2>8, <3>6, <4>3, <5>2, AdvanceFacts DEF Complete
      <4> QED BY <4>2, <4>3
    <3>7. CASE host.phase = "exit"
      BY <2>3, <2>5, <2>8, <3>7, AdvanceFacts DEF Complete, Whole
    <3> QED BY <2>1, <3>4, <3>5, <3>6, <3>7, RequestOf
  <2> QED BY <2>7, <2>8
<1>4. CASE HostTimeout
  <2>1. ~Owed /\ answers = <<>>
    BY <1>4 DEF HostTimeout, Patient, Silent
  <2>2. UNCHANGED <<dl, iap, answers, toChip, fromChip, image, prepared, noise>>
    BY <1>4 DEF HostTimeout, qvars, dvars, uart
  <2>3. CASE host.phase = "data" /\ host.tries < kind.retries
    <3>1. host'.phase = "data" /\ host'.blk = host.blk
      BY <1>4, <2>3 DEF HostTimeout, TypeOK, Hosts
    <3>2. Request' = Request
      BY <3>1, <2>3 DEF Request
    <3>3. Programming'
      BY <2>2, <2>3, <3>2 DEF Complete, Programming, Doomed, Placed, Owed
    <3> QED BY <3>1, <3>3 DEF Complete
  <2>4. CASE ~(host.phase = "data" /\ host.tries < kind.retries)
    <3>1. host' = [GiveUp EXCEPT !.waiting = FALSE, !.tries = 0]
      BY <1>4, <2>4 DEF HostTimeout
    <3>2. host'.phase = GiveUp.phase
      BY <3>1, HostType DEF Hosts
    <3> QED BY <2>2, <3>2, GiveUpFacts DEF Complete, Whole
  <2> QED BY <2>3, <2>4
<1> QED BY <1>1, <1>2, <1>3, <1>4

LEMMA ServeComplete ==
  ASSUME TypeOK, InStep, Complete, Clean, Clean', DeviceServe
  PROVE  Complete'
<1>1. /\ host' = host /\ Request' = Request
      /\ ~Owed /\ iap.state # "WAIT_ACK" /\ toChip = <<>> /\ fromChip = <<>>
      /\ answers = <<>> /\ Serve(Request)
      /\ host.phase \in {"erase", "download", "data", "exit"}
  BY ServedRequest, RequestOf
<1>2. dl \in Downloads /\ iap \in IapStates /\ host.blk \in Nat /\ dl.written \in Nat
  BY NumberFacts DEF TypeOK, DeviceTypeOK, Hosts, Downloads
<1>3. CASE host.phase = "erase"
  BY <1>1, <1>3 DEF Complete
<1>4. CASE host.phase = "download"
  <2>1. RequestDownload
    BY <1>1, <1>4, RequestOf DEF Serve
  <2>2. CASE Refuse("34", 0)
    <3>1. answers' = <<Answer("34", FALSE, 0)>> /\ ~Owed'
      BY <1>1, <2>2, OneElement DEF Refuse, Send, Owed
    <3>2. ~Granted'
      BY <3>1, OneElement DEF Granted, Answer
    <3> QED BY <1>1, <1>4, <3>2 DEF Complete
  <2>3. CASE Prepare
    <3>1. toChip' = <<[cmd |-> "PREPARE", addr |-> 0, chunk |-> 0]>>
      BY <1>1, <2>3, OneElement DEF Prepare
    <3>2. Preparing'
      BY <3>1, OneElement DEF Preparing
    <3> QED BY <1>1, <1>4, <3>2 DEF Complete
  <2> QED BY <2>1, <2>2, <2>3 DEF RequestDownload
<1>5. CASE host.phase = "data"
  <2>1. /\ TransferData(BscOf(host.blk), host.blk)
        /\ gate /\ dl.active
    BY <1>1, <1>5, RequestOf DEF Serve, InStep, Counted
  <2>2. prepared /\ image = Placed(dl.written)
    BY <1>1, <1>5, NotDoomed, OneElement DEF Complete
  <2>3. CASE RepeatBlock(BscOf(host.blk), host.blk)
    <3>1. UNCHANGED <<dl, toChip, prepared, image>>
      BY <2>3 DEF RepeatBlock, uart
    <3>2. Programming'
      BY <1>1, <2>2, <3>1 DEF Programming, Placed
    <3> QED BY <1>1, <1>5, <3>2 DEF Complete
  <2>4. CASE RejectBlock(BscOf(host.blk))
    <3>1. /\ dl.seq = dl.written % SeqMod
          /\ dl.written \in {host.blk, host.blk + 1}
          /\ (host.blk + 1) % SeqMod # dl.seq
          /\ (host.blk + 1) % SeqMod # (dl.seq + 1) % SeqMod
      BY <1>5, <2>4 DEF RejectBlock, BscOf, NextBsc, InStep, Counted
    <3>2. ((host.blk % SeqMod) + 1) % SeqMod = (host.blk + 1) % SeqMod
      BY <1>2, NextNumber, QiAssumption
    <3> QED BY <3>1, <3>2
  <2>5. CASE AcceptBlock(BscOf(host.blk), host.blk)
    <3>1. /\ toChip' = <<[cmd |-> "DATA", addr |-> dl.written, chunk |-> host.blk]>>
          /\ dl'.written = dl.written + 1
          /\ UNCHANGED <<prepared, image>>
      BY <1>1, <1>2, <2>5, OneElement DEF AcceptBlock, Forward, Downloads
    <3>2. dl'.written - 1 = dl.written
      BY <1>2, <3>1
    <3>3. Programming'
      BY <2>2, <3>1, <3>2, OneElement DEF Programming, Placed
    <3> QED BY <1>1, <1>5, <3>3 DEF Complete
  <2> QED BY <2>1, <2>3, <2>4, <2>5 DEF TransferData
<1>6. CASE host.phase = "exit"
  <2>1. TransferExit
    BY <1>1, <1>6, RequestOf DEF Serve
  <2>2. UNCHANGED image
    BY <2>1 DEF TransferExit, uart
  <2> QED BY <1>1, <1>6, <2>2 DEF Complete, Whole
<1> QED BY <1>1, <1>3, <1>4, <1>5, <1>6

LEMMA PollComplete ==
  ASSUME TypeOK, InStep, Complete, Clean, Clean', DevicePoll
  PROVE  Complete'
<1>1. UNCHANGED <<host, dl, toChip, image, prepared, noise>>
  BY DEF DevicePoll, Poll, PollFrame, AckPoll, AutoComplete, uart
<1>2. Request' = Request
  BY <1>1 DEF Request
<1>3. iap \in IapStates
  BY DEF TypeOK, DeviceTypeOK
<1>4. Whole' <=> Whole
  BY <1>1 DEF Whole
<1>5. CASE PollFrame
  <2>1. /\ iap.state = "WAIT_ACK" /\ Owed /\ UNCHANGED answers /\ fromChip # <<>>
        /\ answers = <<>>
    BY <1>5 DEF PollFrame, InStep, InOrder, OneAtATime
  <2>2. iap'.resp = iap.resp
    BY <1>3, <1>5 DEF PollFrame, Applied, Acked, IapStates
  <2>3. Head(fromChip).status = "FAILED" => iap'.state = "FAILED"
    BY <1>3, <1>5, <2>1 DEF PollFrame, Applied, IapStates
  <2>4. Doomed => Doomed'
    BY <2>1, <2>2, <2>3 DEF Doomed, Owed
  <2>5. (Preparing => Preparing') /\ (Programming => Programming')
    BY <1>1, <2>4 DEF Preparing, Programming, Placed
  <2>6. Granted
    BY <2>1 DEF Granted
  <2> QED BY <1>1, <1>4, <2>5, <2>6 DEF Complete
<1>6. CASE AckPoll
  <2>1. /\ Owed /\ answers = <<>> /\ host.phase \in {"download", "data"}
        /\ host.phase \in Working
    BY <1>6, RequestOf DEF AckPoll, InStep, OneAtATime
  <2>2. Granted
    BY <2>1 DEF Granted
  <2>3. ASSUME NEW ok \in BOOLEAN, Send(Deferred(ok))
        PROVE  answers' = <<Answer(Request'.sid, ok, Request'.bsc)>>
    <3>1. Deferred(ok) = Answer(Request.sid, ok, Request.bsc)
      BY <1>3, <2>1, RequestOf DEF Deferred, InStep, OneAtATime, Owed, IapStates
    <3> QED BY <1>2, <2>1, <2>3, <3>1, OneElement DEF Send
  <2>4. CASE iap.state \in {"IN_PROGRESS", "SUCCESS"}
    <3>1. ~Doomed
      BY <2>1, <2>4 DEF Doomed
    <3>2. (Preparing => Preparing') /\ (Programming => Programming')
      BY <1>1, <3>1 DEF Preparing, Programming, Placed
    <3> QED BY <1>1, <2>1, <2>2, <3>2 DEF Complete
  <2>5. CASE (iap.state = "FAILED" \/ AckTimeout) /\ Send(Deferred(FALSE))
    <3>1. Doomed' /\ Doomed
      BY <2>1, <2>3, <2>5 DEF Doomed, AckTimeout
    <3>2. Preparing' /\ (Programming => Programming')
      BY <1>1, <3>1 DEF Preparing, Programming, Placed
    <3> QED BY <1>1, <2>1, <2>2, <3>2 DEF Complete
  <2> QED BY <1>6, <2>4, <2>5 DEF AckPoll
<1>7. CASE AutoComplete
  <2>1. /\ iap.state = "IN_PROGRESS" /\ iap'.resp = iap.resp
        /\ UNCHANGED <<answers, fromChip>>
    BY <1>3, <1>7 DEF AutoComplete, IapStates, uart
  <2>2. (Doomed => Doomed') /\ (Granted' => Granted)
    BY <1>2, <2>1 DEF Doomed, Granted, Owed
  <2>3. (Preparing => Preparing') /\ (Programming => Programming')
    BY <1>1, <2>2 DEF Preparing, Programming, Placed
  <2> QED BY <1>1, <1>4, <2>2, <2>3 DEF Complete
<1> QED BY <1>5, <1>6, <1>7 DEF DevicePoll, Poll

LEMMA ChipComplete ==
  ASSUME TypeOK, PowerHeld, InStep, Complete, Clean, Clean', ChipStep
  PROVE  Complete'
<1>1. UNCHANGED <<host, dl, iap, answers>>
  BY DEF ChipStep, Chip, ChipTakes, ChipRefuses, ChipOff, dvars
<1>2. Request' = Request /\ (Granted' <=> Granted)
  BY <1>1 DEF Request, Granted, Owed
<1>3. ASSUME toChip # <<>>
      PROVE  /\ iap.state = "WAIT_ACK" /\ fromChip = <<>> /\ Owed /\ Granted
             /\ Tail(toChip) = <<>> /\ host.phase \in {"download", "data"}
             /\ host.phase = "download" => Head(toChip).cmd = "PREPARE"
             /\ host.phase = "data" =>
                  /\ Head(toChip).cmd = "DATA" /\ prepared
                  /\ image = Placed(host.blk) /\ dl.written = host.blk + 1
                  /\ Head(toChip).addr = host.blk /\ Head(toChip).chunk = host.blk
  <2>1. iap.state = "WAIT_ACK" /\ fromChip = <<>> /\ Owed /\ Tail(toChip) = <<>>
    BY <1>3 DEF InStep, InOrder
  <2>2. Granted /\ answers = <<>> /\ host.phase \in {"download", "data"}
    BY <2>1 DEF Granted, InStep, OneAtATime
  <2>3. Head(toChip).cmd \in {"PREPARE", "DATA"}
    <3>1. Head(toChip) \in Commands
      BY <1>3, QueueFacts DEF TypeOK, DeviceTypeOK
    <3> QED BY <3>1 DEF Commands
  <2>4. ~Doomed
    BY <1>3, <2>1, <2>2 DEF Doomed
  <2>5. host.phase = "download" => Head(toChip).cmd = "PREPARE"
    BY <1>3, <2>3 DEF InStep, InOrder
  <2>6. ASSUME host.phase = "data"
        PROVE  /\ Head(toChip).cmd = "DATA" /\ prepared
               /\ image = Placed(host.blk) /\ dl.written = host.blk + 1
               /\ Head(toChip).addr = host.blk /\ Head(toChip).chunk = host.blk
    <3>1. dl.written = host.blk + 1
      BY <2>2, <2>6 DEF InStep, Counted
    <3>2. dl.written - 1 = host.blk
      <4>1. host.blk \in Nat
        BY NumberFacts DEF TypeOK, Hosts
      <4> QED BY <3>1, <4>1
    <3>3. Head(toChip).cmd = "DATA" /\ prepared /\ image = Placed(host.blk)
      BY <1>3, <2>4, <2>6, <3>2 DEF Complete, Programming
    <3> QED BY <1>3, <3>1, <3>3 DEF InStep, InOrder
  <2> QED BY <2>1, <2>2, <2>5, <2>6
<1>4. CASE ChipTakes
  <2>1. toChip # <<>> /\ toChip' = <<>> /\ prepared'
    BY <1>3, <1>4 DEF ChipTakes
  <2>2. CASE host.phase = "download"
    <3>1. image' = {}
      BY <1>3, <1>4, <2>1, <2>2 DEF ChipTakes
    <3>2. Preparing'
      BY <2>1, <3>1 DEF Preparing
    <3> QED BY <1>1, <2>2, <3>2 DEF Complete
  <2>3. CASE host.phase = "data"
    <3>1. image' = Placed(host.blk) \cup {<<host.blk, host.blk>>}
      BY <1>3, <1>4, <2>1, <2>3 DEF ChipTakes, Written
    <3>2. image' = Placed(dl.written)
      BY <1>3, <2>1, <2>3, <3>1, PlacedFacts, NumberFacts DEF TypeOK, Hosts
    <3>3. Programming'
      BY <1>1, <2>1, <3>2 DEF Programming, Placed
    <3> QED BY <1>1, <2>3, <3>3 DEF Complete
  <2> QED BY <1>3, <2>1, <2>2, <2>3
<1>5. CASE ChipRefuses
  <2>1. toChip # <<>> /\ toChip' = <<>> /\ UNCHANGED image
    BY <1>3, <1>5 DEF ChipRefuses
  <2>2. Doomed'
    <3>1. fromChip' = <<>> \/ \E f \in BadFrames : fromChip' = <<f>>
      BY <1>3, <1>5, <2>1, OneElement DEF ChipRefuses
    <3>2. fromChip' = <<>> \/ Head(fromChip').status = "FAILED"
      BY <3>1, OneElement DEF BadFrames
    <3> QED BY <1>1, <1>3, <2>1, <3>2 DEF Doomed
  <2>3. CASE host.phase = "download"
    BY <1>1, <2>2, <2>3 DEF Complete, Preparing
  <2>4. CASE host.phase = "data"
    <3>1. prepared
      BY <1>3, <2>1, <2>4
    <3>2. noise' = noise + 1
      BY <1>5, <3>1 DEF ChipRefuses
    <3>3. noise' > 0
      BY <3>2, QiAssumption DEF TypeOK, DeviceTypeOK
    <3> QED BY <1>1, <2>2, <2>4, <3>3 DEF Complete, Programming
  <2> QED BY <1>3, <2>1, <2>3, <2>4
<1>6. CASE ChipOff
  <2>1. ~dl.active /\ UNCHANGED image
    BY <1>6 DEF ChipOff, PowerHeld
  <2>2. host.phase # "data" /\ ~(host.phase = "download" /\ Granted)
    BY <2>1 DEF InStep, Counted
  <2> QED BY <1>1, <1>2, <2>1, <2>2 DEF Complete, Whole
<1> QED BY <1>4, <1>5, <1>6 DEF ChipStep, Chip

LEMMA LoseComplete ==
  ASSUME TypeOK, InStep, Complete, Clean, Clean', Lose
  PROVE  Complete'
<1>1. UNCHANGED <<host, dl, iap, toChip, fromChip, image, prepared, noise>>
  BY DEF Lose, LoseRequest, LoseAnswer, qvars, dvars, uart
<1>2. noise = 0
  <2>1. lost' # 0
    BY KindType DEF Lose, TypeOK
  <2> QED BY <1>1, <2>1 DEF Clean
<1>3. Request' = Request
  BY <1>1 DEF Request
<1>4. CASE LoseRequest
  <2>1. UNCHANGED answers
    BY <1>4 DEF LoseRequest, qvars
  <2>2. (Granted' => Granted) /\ (Preparing => Preparing') /\ (Programming => Programming')
    BY <1>1, <1>3, <2>1 DEF Granted, Preparing, Programming, Doomed, Placed, Owed
  <2> QED BY <1>1, <2>2 DEF Complete, Whole
<1>5. CASE LoseAnswer
  <2>1. answers' = <<>> /\ ~Owed
    BY <1>5, OneElement DEF LoseAnswer, InStep, OneAtATime
  <2>2. ~Granted'
    BY <1>1, <2>1, OneElement DEF Granted, Owed
  <2>3. Programming => Programming'
    BY <1>1, <1>2 DEF Programming, Placed
  <2> QED BY <1>1, <2>2, <2>3 DEF Complete, Whole
<1> QED BY <1>4, <1>5 DEF Lose

LEMMA StepComplete ==
  TypeOK /\ PowerHeld /\ (Patient => InStep /\ Complete) /\ [Next]_vars
    => (Patient => Complete)'
<1> SUFFICES ASSUME TypeOK, PowerHeld, Patient => InStep /\ Complete, [Next]_vars,
                    Patient'
             PROVE  Complete'
  OBVIOUS
<1>1. Patient /\ InStep /\ Complete
  BY SameKind DEF Patient
<1>2. CASE UNCHANGED vars
  BY <1>1, <1>2
  DEF vars, qvars, dvars, uart, Complete, Clean, Granted, Preparing, Programming, Doomed,
      Placed, Whole, Request, Owed
<1>3. CASE Next
  <2> SUFFICES ASSUME Clean' PROVE Complete'
    BY DEF Complete
  <2>1. Clean
    BY <1>3, CleanBefore
  <2>2. CASE S3Timeout
    <3>1. host.phase \notin {"download", "data"} /\ UNCHANGED <<host, image>>
      BY <2>2, RequestOf DEF S3Timeout, SessionLost, uart
    <3> QED BY <1>1, <2>1, <3>1 DEF Complete, Whole
  <2> QED
    BY <1>1, <1>2, <1>3, <2>1, <2>2, HostComplete, ServeComplete, PollComplete,
       ChipComplete, LoseComplete
    DEF Next, Finished
<1> QED BY <1>2, <1>3

(* Unless both links were disturbed, an upgrade the tool reports as passed *)
(* has left the whole firmware in the chip: a block the chip refused or    *)
(* did not acknowledge ends the upgrade, and a message lost on CAN costs   *)
(* no block, however many of either there are.                             *)
THEOREM QiPassedWhole == Spec => []PassedWhole
<1>1. Init => (Patient => Complete)
  BY DEF Init, Complete
<1>2. TypeOK /\ PowerHeld /\ (Patient => InStep) /\ (Patient => Complete) /\ [Next]_vars
        => (Patient => Complete)'
  BY StepComplete
<1>3. (Patient => Complete) => PassedWhole
  BY DEF Patient, Complete, Clean, PassedWhole
<1> QED BY <1>1, <1>2, <1>3, ToolInStep, QiTypeCorrect, QiPowerHeld, PTL DEF Spec
=============================================================================

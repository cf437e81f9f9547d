---------------------------- MODULE SecurityAccess ----------------------------
(***************************************************************************)
(* Security access, service 0x27: the maintenance tool unlocks the device. *)
(* 27 01 fetches a seed, 27 03 sends the signature of it in NChunks        *)
(* chunks, 27 02 has it verified; MaxFails wrong ones lock the device for  *)
(* thirty seconds.  The tool makes three attempts, sends every chunk up to *)
(* three times, and waits thirty seconds when it is told of a lockout.     *)
(*                                                                         *)
(* A seed is a number, 0 the all-zero seed of an unlocked device; a chunk  *)
(* of a signature is the seed signed and the number of the chunk.  An      *)
(* answer to 27 01 is long, so it leaves through the one answer slot and   *)
(* short answers overtake it.  7F 27 78 and 3E 80 only keep timers from    *)
(* expiring.  A timeout of the tool expires when the answer can no longer  *)
(* come; MaxHasty of them expire earlier.  The whole signature inside      *)
(* 27 02, which no tool of the repository sends, is left out.              *)
(***************************************************************************)
EXTENDS Integers, Sequences

CONSTANTS
  NChunks,    \* chunks of a signature (16 in the code)
  SeqMax,     \* greatest chunk number, followed by 1 (255 in the code)
  MaxFails,   \* SECURITY_MAX_FAILURES
  Attempts,   \* attempts of the tool per unlock
  Tries,      \* times a chunk is sent
  MaxStarts,  \* bound on the unlocks the tool is asked for
  MaxLost,    \* bound on messages lost
  MaxHasty    \* bound on timeouts that expire early

ASSUME SecurityAssumption ==
  /\ NChunks \in Nat \ {0}
  /\ SeqMax \in Nat /\ SeqMax > NChunks
  /\ MaxFails \in Nat \ {0}
  /\ Attempts \in Nat \ {0} /\ Tries \in Nat \ {0}
  /\ MaxStarts \in Nat /\ MaxLost \in Nat /\ MaxHasty \in Nat

VARIABLES
  goodKey,    \* the tool signs with the key the device verifies with
  charging,   \* a phone is charging, which keeps the device awake
  awake,
  security_unlocked,
  seedOn,     \* g_seed_generated
  seed,       \* g_seed; also counts the seeds drawn
  sig,        \* the chunks in g_sa_sig_buf
  block,      \* g_sa_sig_block_seq
  fails,      \* g_security_fail_count
  locked,     \* the lockout timer is running
  slot,       \* the long answer not yet sent: a seed, or NoAnswer
  tool,       \* phase, waiting, attempt, seed (signed), chunk, tries
  toDev, toHost,   \* requests and answers on their way
  starts, lostChunks, lostOther, hasty   \* counters of the bounds

device == <<awake, security_unlocked, seedOn, seed, sig, block, fails, locked,
            slot>>
fixed  == <<goodKey, charging>>
lost   == <<lostChunks, lostOther>>
vars   == <<fixed, device, tool, toDev, toHost, starts, lost, hasty>>

NoAnswer == -1

Idle    == {"idle", "unlocked", "failed"}
Working == {"seed", "chunk", "key"}
SubOf   == [seed |-> 1, chunk |-> 3, key |-> 2]

Chunks   == [seed: Nat, n: 1..NChunks]
Requests == [sub: {1, 2}, seed: {0}, n: {0}]
            \union [sub: {3}, seed: Nat, n: 1..NChunks]
Answers  == [ok: BOOLEAN, sub: {1, 2, 3}, seed: Nat,
             nrc: {"none", "lock", "other"}]
Tools    == [phase: Idle \union Working \union {"wait"}, waiting: BOOLEAN,
             attempt: 1..Attempts, seed: Nat, chunk: 1..NChunks, tries: 1..Tries]

TypeOK ==
  /\ goodKey \in BOOLEAN /\ charging \in BOOLEAN
  /\ awake \in BOOLEAN
  /\ security_unlocked \in BOOLEAN
  /\ seedOn \in BOOLEAN
  /\ seed \in Nat
  /\ sig \in Seq(Chunks)
  /\ block \in 0..SeqMax
  /\ fails \in 0..MaxFails
  /\ locked \in BOOLEAN
  /\ slot \in Nat \union {NoAnswer}
  /\ tool \in Tools
  /\ toDev \in Seq(Requests)
  /\ toHost \in Seq(Answers)
  /\ starts \in 0..MaxStarts
  /\ lostChunks \in Nat /\ lostOther \in Nat
  /\ hasty \in 0..MaxHasty

Fresh == [phase |-> "idle", waiting |-> FALSE, attempt |-> 1, seed |-> 0,
          chunk |-> 1, tries |-> 1]

Init ==
  /\ goodKey \in BOOLEAN /\ charging \in BOOLEAN
  /\ awake = TRUE
  /\ security_unlocked = FALSE
  /\ seedOn = FALSE /\ seed = 0
  /\ sig = <<>> /\ block = 0
  /\ fails = 0 /\ locked = FALSE
  /\ slot = NoAnswer
  /\ tool = Fresh
  /\ toDev = <<>> /\ toHost = <<>>
  /\ starts = 0 /\ lostChunks = 0 /\ lostOther = 0 /\ hasty = 0

-----------------------------------------------------------------------------
(* The device: handle_security_access.                                     *)

Positive(sub) == [ok |-> TRUE, sub |-> sub, seed |-> 0, nrc |-> "none"]
Negative(sub, nrc) == [ok |-> FALSE, sub |-> sub, seed |-> 0, nrc |-> nrc]
Send(a) == toHost' = Append(toHost, a)

(* proto_send_response on a long answer: an occupied slot keeps its own.   *)
SendLong(s) == slot' = IF slot = NoAnswer THEN s ELSE slot

LockedOut == fails = MaxFails /\ locked

(* The first 27 01 after the lockout forgets the failures.                 *)
FailsLeft == IF fails = MaxFails THEN 0 ELSE fails

(* Mutant: the generator begins with zero.                                 *)
DrawnFromZero == seed

(* generate_random_seed, eight times: a seed is new and not all zero.      *)
Drawn == seed + 1

RequestSeed ==
  \/ /\ LockedOut
     /\ Send(Negative(1, "lock"))
     /\ UNCHANGED device
  \/ /\ ~LockedOut
     /\ fails' = FailsLeft
     /\ IF security_unlocked
          THEN /\ SendLong(0)
               /\ UNCHANGED <<seedOn, seed, sig, block>>
          ELSE /\ seedOn' = TRUE
               /\ seed' = Drawn
               /\ sig' = <<>>
               /\ block' = 0
               /\ SendLong(Drawn)
     /\ UNCHANGED <<awake, security_unlocked, locked, toHost>>

NextBlock(b) == IF b = SeqMax THEN 1 ELSE b + 1

(* Mutant: the last chunk is not recognised when it comes again.           *)
RepeatedNever(n, b) == FALSE

(* A repeated chunk is one whose answer was lost.                          *)
Repeated(n, b) == n = b

Stored(c) == IF Len(sig) < NChunks THEN Append(sig, c) ELSE sig

(* Mutant: a repeated chunk is stored once more.                           *)
RepeatedStored(c) == Stored(c)

RepeatedKept(c) == sig

(* 27 03: chunk 1 starts over; after a gap the chunks so far are dropped,  *)
(* yet the counter has moved on.                                           *)
SendChunk(r) ==
  LET b == IF r.n = 1 THEN 0 ELSE block
      c == [seed |-> r.seed, n |-> r.n]
  IN  /\ \/ /\ ~seedOn
            /\ Send(Negative(3, "other"))
            /\ UNCHANGED <<sig, block>>
         \/ /\ seedOn /\ Repeated(r.n, b)
            /\ Send(Positive(3))
            /\ sig' = RepeatedKept(c)
            /\ UNCHANGED block
         \/ /\ seedOn /\ ~Repeated(r.n, b)
            /\ block' = NextBlock(b)
            /\ IF r.n = NextBlock(b)
                 THEN /\ sig' = IF r.n = 1 THEN <<c>> ELSE Stored(c)
                      /\ Send(Positive(3))
                 ELSE /\ sig' = <<>>
                      /\ Send(Negative(3, "other"))
      /\ UNCHANGED <<awake, security_unlocked, seedOn, seed, fails, locked,
                     slot>>

(* uECC_verify over the seed drawn last.                                   *)
Verified ==
  goodKey /\ sig = [n \in 1..NChunks |-> [seed |-> seed, n |-> n]]

(* Mutant: the seed outlives a failed verification.                        *)
SeedOutlives == seedOn

SeedAfterFailure == FALSE

AcceptKey ==
  /\ Verified
  /\ seedOn' = FALSE
  /\ security_unlocked' = TRUE
  /\ fails' = 0
  /\ Send(Positive(2))
  /\ UNCHANGED <<sig, locked>>

(* The third refusal locks the device.                                     *)
RefuseKey ==
  /\ ~Verified
  /\ seedOn' = SeedAfterFailure
  /\ security_unlocked' = FALSE
  /\ fails' = fails + 1
  /\ sig' = <<>>
  /\ locked' = (locked \/ fails' = MaxFails)
  /\ Send(Negative(2, IF fails' = MaxFails THEN "lock" ELSE "other"))

(* 27 02                                                                   *)
SendKey ==
  \/ /\ ~seedOn \/ Len(sig) < NChunks
     /\ Send(Negative(2, "other"))
     /\ UNCHANGED device
  \/ /\ seedOn /\ Len(sig) = NChunks
     /\ AcceptKey \/ RefuseKey
     /\ UNCHANGED <<awake, seed, block, slot>>

Serve(r) == CASE r.sub = 1 -> RequestSeed
              [] r.sub = 3 -> SendChunk(r)
              [] OTHER     -> SendKey

(* A device that is asleep is woken by the request and does not see it:    *)
(* the wake-up filter passes every frame that shares a bit with 02 3E.     *)
WakeUp ==
  /\ awake' = TRUE
  /\ UNCHANGED <<security_unlocked, seedOn, seed, sig, block, fails, locked,
                 slot, toHost>>

DeviceServe ==
  /\ toDev # <<>>
  /\ toDev' = Tail(toDev)
  /\ IF awake THEN Serve(Head(toDev)) ELSE WakeUp
  /\ UNCHANGED <<fixed, tool, starts, lost, hasty>>

(* proto_flush_pending_tx                                                  *)
DeviceFlush ==
  /\ slot # NoAnswer
  /\ slot' = NoAnswer
  /\ Send([Positive(1) EXCEPT !.seed = slot])
  /\ UNCHANGED <<fixed, awake, security_unlocked, seedOn, seed, sig, block,
                 fails, locked, tool, toDev, starts, lost, hasty>>

LockoutOver ==
  /\ locked
  /\ locked' = FALSE
  /\ UNCHANGED <<fixed, awake, security_unlocked, seedOn, seed, sig, block,
                 fails, slot, tool, toDev, toHost, starts, lost, hasty>>

(* Nothing is under way between the tool and the device.                   *)
Quiet == toDev = <<>> /\ toHost = <<>> /\ slot = NoAnswer

(* Ten seconds without a request, unless a phone is charging: the board    *)
(* loses its power.  Only for 27 02 does the tool wait longer than that.   *)
FallAsleep ==
  /\ awake /\ ~charging
  /\ Quiet
  /\ tool.phase \in Idle \/ (tool.phase = "key" /\ tool.waiting)
  /\ awake' = FALSE
  /\ security_unlocked' = FALSE
  /\ seedOn' = FALSE
  /\ sig' = <<>> /\ block' = 0
  /\ fails' = 0 /\ locked' = FALSE
  /\ tool' = IF tool.phase \in Idle THEN Fresh ELSE tool
  /\ UNCHANGED <<fixed, seed, slot, toDev, toHost, starts, lost, hasty>>

(* session_reset_to_default, between two operations of the tool.           *)
EndSession ==
  /\ awake /\ tool.phase \in Idle /\ toDev = <<>>
  /\ security_unlocked' = FALSE
  /\ seedOn' = FALSE
  /\ slot' = NoAnswer
  /\ tool' = Fresh
  /\ UNCHANGED <<fixed, awake, seed, sig, block, fails, locked, toDev, toHost,
                 starts, lost, hasty>>

-----------------------------------------------------------------------------
(* The tool: UnlockCoreAsync.                                              *)

(* Wake the device and open the programming session; the answer to 10 02   *)
(* has been waited for, and what came before it thrown away.  From the     *)
(* extended session that switch locks the device.                          *)
Start ==
  /\ tool.phase \in Idle /\ toDev = <<>>
  /\ starts < MaxStarts
  /\ starts' = starts + 1
  /\ awake' = TRUE
  /\ security_unlocked' \in {security_unlocked, FALSE}
  /\ toHost' = <<>>
  /\ tool' = [Fresh EXCEPT !.phase = "seed"]
  /\ UNCHANGED <<fixed, seedOn, seed, sig, block, fails, locked, slot, toDev,
                 lost, hasty>>

Request ==
  [sub |-> SubOf[tool.phase],
   seed |-> IF tool.phase = "chunk" THEN tool.seed ELSE 0,
   n |-> IF tool.phase = "chunk" THEN tool.chunk ELSE 0]

ToolSend ==
  /\ tool.phase \in Working /\ ~tool.waiting
  /\ toDev' = Append(toDev, Request)
  /\ tool' = [tool EXCEPT !.waiting = TRUE]
  /\ UNCHANGED <<fixed, device, toHost, starts, lost, hasty>>

(* The filter of TryRequestOnce: a refusal is taken whatever it refuses,   *)
(* and 67 03 whatever chunk it is for.                                     *)
Matches(a) == tool.waiting /\ (a.ok => a.sub = Request.sub)

(* Mutant: one attempt less.                                               *)
NextAttemptShort ==
  IF tool.attempt + 1 = Attempts
    THEN [Fresh EXCEPT !.phase = "failed", !.attempt = Attempts]
    ELSE [Fresh EXCEPT !.phase = "seed", !.attempt = tool.attempt + 1]

NextAttempt ==
  IF tool.attempt = Attempts
    THEN [Fresh EXCEPT !.phase = "failed", !.attempt = Attempts]
    ELSE [Fresh EXCEPT !.phase = "seed", !.attempt = tool.attempt + 1]

Unlocked == [Fresh EXCEPT !.phase = "unlocked", !.attempt = tool.attempt]

(* What an accepted answer leads to.                                       *)
Succeeded(a) ==
  CASE tool.phase = "seed" /\ a.seed = 0 -> Unlocked
    [] tool.phase = "seed" /\ a.seed # 0 ->
         [tool EXCEPT !.phase = "chunk", !.seed = a.seed]
    [] tool.phase = "chunk" /\ tool.chunk < NChunks ->
         [tool EXCEPT !.chunk = @ + 1, !.tries = 1]
    [] tool.phase = "chunk" /\ tool.chunk >= NChunks ->
         [tool EXCEPT !.phase = "key"]
    [] OTHER -> Unlocked

(* A chunk is sent again, an attempt started again, after thirty seconds   *)
(* if the device says that it is locked.                                   *)
Failed(lock) ==
  IF tool.phase = "chunk"
    THEN IF tool.tries < Tries THEN [tool EXCEPT !.tries = @ + 1]
                               ELSE NextAttempt
    ELSE IF lock THEN [tool EXCEPT !.phase = "wait"] ELSE NextAttempt

ToolTake ==
  /\ toHost # <<>>
  /\ toHost' = Tail(toHost)
  /\ LET a == Head(toHost)
         next == IF a.ok THEN Succeeded(a) ELSE Failed(a.nrc = "lock")
     IN  tool' = IF Matches(a) THEN [next EXCEPT !.waiting = FALSE] ELSE tool
  /\ UNCHANGED <<fixed, device, toDev, starts, lost, hasty>>

ToolTimeout ==
  /\ tool.waiting
  /\ \/ Quiet /\ UNCHANGED hasty
     \/ ~Quiet /\ hasty < MaxHasty /\ hasty' = hasty + 1
  /\ tool' = [Failed(FALSE) EXCEPT !.waiting = FALSE]
  /\ UNCHANGED <<fixed, device, toDev, toHost, starts, lost>>

(* KeepAliveWaitAsync is as long as the lockout and begins later.          *)
EndWait ==
  /\ tool.phase = "wait" /\ ~locked
  /\ tool' = NextAttempt
  /\ UNCHANGED <<fixed, device, toDev, toHost, starts, lost, hasty>>

-----------------------------------------------------------------------------
Count(m) ==
  /\ lostChunks + lostOther < MaxLost
  /\ IF m.sub = 3 THEN lostChunks' = lostChunks + 1 /\ UNCHANGED lostOther
                  ELSE lostOther' = lostOther + 1 /\ UNCHANGED lostChunks

Lose ==
  /\ \/ /\ toDev # <<>> /\ Count(Head(toDev))
        /\ toDev' = Tail(toDev) /\ UNCHANGED toHost
     \/ /\ toHost # <<>> /\ Count(Head(toHost))
        /\ toHost' = Tail(toHost) /\ UNCHANGED toDev
  /\ UNCHANGED <<fixed, device, tool, starts, hasty>>

Next ==
  \/ DeviceServe \/ DeviceFlush \/ LockoutOver \/ FallAsleep \/ EndSession
  \/ Start \/ ToolSend \/ ToolTake \/ ToolTimeout \/ EndWait \/ Lose

Spec == Init /\ [][Next]_vars

-----------------------------------------------------------------------------
(* While the lockout runs there is no seed to sign and the device is not   *)
(* unlocked, though 27 02 itself looks at no timer                         *)
(* (handle_security_access).                                               *)
NoSeedInLockout == locked => ~seedOn /\ ~security_unlocked

(* A tool with the right key never has a signature refused, however        *)
(* messages are lost, repeated or overtaken, unless a timeout expires      *)
(* early and it signs an old seed (27 01 and 27 03 against 27 02).         *)
HonestNeverRefused == goodKey /\ hasty = 0 => fails = 0

(* The loss of chunks and of their answers never costs an attempt, as long *)
(* as no chunk uses up its tries (the repetition of 27 03).                *)
ChunkLossAbsorbed ==
  goodKey /\ hasty = 0 /\ lostOther = 0 /\ lostChunks < Tries =>
    tool.attempt = 1

(* A lost message spoils one attempt, or two if the device falls asleep    *)
(* while the tool waits for the answer to 27 02: fewer losses than that    *)
(* never make the unlock fail (UnlockCoreAsync against can_lp_go_sleep).   *)
Spoils == IF charging THEN lostOther ELSE 2 * lostOther

LossesSurvived ==
  goodKey /\ hasty = 0 /\ lostChunks < Tries /\ Spoils < Attempts =>
    tool.phase # "failed"

(* When the tool believes that the device is unlocked it is, unless a      *)
(* timeout has expired early (UnlockCoreAsync).                            *)
UnlockIsTrue == tool.phase = "unlocked" /\ hasty = 0 => security_unlocked
=============================================================================

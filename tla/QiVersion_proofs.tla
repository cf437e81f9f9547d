-------------------------- MODULE QiVersion_proofs --------------------------
(***************************************************************************)
(* Proofs about QiVersion, for any set of versions, any number of firmware *)
(* changes and of torn pages.                                              *)
(*                                                                         *)
(* The key is that an old frame never waits while the firmware changes, so *)
(* that all that can be heard is true; the rest is to follow what has been *)
(* heard into RAM, into the page being written and into the page.          *)
(***************************************************************************)
EXTENDS QiVersion, TLAPS

(* What waits in the ring was sent by the firmware of now. *)
RingInv == \A k \in DOMAIN rx : rx[k].v = fw

(* The chip takes a firmware only in a download, or after one that was     *)
(* ended; after 0x37 nothing is known of it until it reports.              *)
ChipInv ==
  /\ chip = "iap" => pc \in {"loop", "refresh", "exit"}
  /\ chip = "iap" /\ pc \in {"refresh", "exit"} => rx = <<>> /\ ~valid
  /\ chip = "iap" /\ ~iap /\ ~dropped => rx = <<>> /\ ~valid
  /\ pc \in {"off", "probe", "probed"} => ~iap /\ ~dropped /\ ~owed
  /\ pc \in {"off", "probe"} => ~loaded
  /\ pc = "off" => ~valid
  /\ pc \in {"refresh", "exit"} => iap /\ ~owed
  /\ pc \in {"off", "probe", "refresh"} => Quiet

(* The version in RAM. *)
HeardInv ==
  /\ valid /\ ~iap /\ ~dropped /\ ~loaded => ver = fw
  /\ valid /\ pc \in {"refresh", "exit"} => ver = fw
  /\ valid /\ pc \in {"refresh", "exit"} => ~loaded
  /\ valid /\ loaded /\ settled => ver = fw

(* The page being written, and the one it replaces. *)
SaveInv ==
  /\ save.stage = "program" => info = Torn
  /\ info = Torn /\ save.stage # "program" => kept = {}
  /\ ~Quiet => kept \subseteq save.to.ids
  /\ info # Torn => kept \subseteq info.ids
  /\ ~Quiet /\ save.by \in Ids => save.by \in save.to.ids
  /\ save.stage = "erase" /\ info # Torn /\ save.by \in Ids => save.to.ver = info.ver
  /\ save.stage = "erase" /\ info = Torn => save.by \in Ids /\ save.to.ver = None
  /\ torn = 0 /\ info = Torn => save.stage = "program"

(* What has been settled is on the page, or will be, or no version is. *)
SettledInv ==
  /\ settled /\ info # Torn => info.ver \in {fw, None}
  /\ settled /\ ~Quiet => save.to.ver \in {fw, None}
  /\ settled /\ torn = 0 /\ info # Torn => info.ver = fw
  /\ settled /\ torn = 0 /\ ~Quiet => save.to.ver = fw
  /\ pc \in {"probed", "exit"} /\ valid /\ ~loaded =>
       /\ Quiet /\ info # Torn => info.ver = fw
       /\ ~Quiet => save.to.ver = fw

(* Version writes to come: the one that has not erased yet, and one if the *)
(* page will not have the version of the firmware then.                    *)
Coming == IF save.stage = "erase" /\ save.by = "version" THEN 1 ELSE 0
Wrong == IF Quiet THEN info = Torn \/ info.ver # fw ELSE save.to.ver # fw
CreditInv == credit >= Coming + IF Wrong THEN 1 ELSE 0

VersionInv ==
  /\ TypeOK
  /\ RingInv
  /\ ChipInv
  /\ HeardInv
  /\ SaveInv
  /\ SettledInv
  /\ CreditInv

LEMMA ReportKeeps ==
  ASSUME VersionInv, Report
  PROVE  VersionInv'
<1>1. TypeOK'
  BY VersionAssumption DEF TypeOK, Frame, Report, Sends, VersionInv, device, pages
<1>2. RingInv'
  BY DEF RingInv, Report, Sends, VersionInv
<1>3. ChipInv'
  BY DEF ChipInv, Report, Sends, Quiet, VersionInv, device, pages
<1>4. HeardInv'
  BY DEF HeardInv, Report, Sends, VersionInv, device, pages
<1>5. SaveInv'
  BY DEF SaveInv, Quiet, Report, Sends, VersionInv, pages
<1>6. SettledInv'
  BY DEF SettledInv, Quiet, Report, Sends, VersionInv, device, pages
<1>7. CreditInv'
  BY DEF CreditInv, Coming, Wrong, Quiet, Report, Sends, VersionInv, pages
<1> QED
  BY <1>1, <1>2, <1>3, <1>4, <1>5, <1>6, <1>7 DEF VersionInv

LEMMA AnswerKeeps ==
  ASSUME VersionInv, Answer
  PROVE  VersionInv'
<1>1. TypeOK'
  <2>1. [kind |-> "answer", v |-> fw] \in Frame
    BY DEF TypeOK, Frame, VersionInv
  <2>2. rx' \in Seq(Frame) /\ Len(rx') <= MaxFrames
    BY <2>1, VersionAssumption DEF TypeOK, Answer, Sends, VersionInv
  <2> QED
    BY <2>2 DEF TypeOK, Answer, Sends, VersionInv, device, pages
<1>2. RingInv'
  BY DEF RingInv, Answer, Sends, VersionInv
<1>3. ChipInv'
  BY DEF ChipInv, Answer, Sends, Quiet, VersionInv, device, pages
<1>4. HeardInv'
  BY DEF HeardInv, Answer, Sends, VersionInv, device, pages
<1>5. SaveInv'
  BY DEF SaveInv, Quiet, Answer, Sends, VersionInv, pages
<1>6. SettledInv'
  BY DEF SettledInv, Quiet, Answer, Sends, VersionInv, device, pages
<1>7. CreditInv'
  BY DEF CreditInv, Coming, Wrong, Quiet, Answer, Sends, VersionInv, pages
<1> QED
  BY <1>1, <1>2, <1>3, <1>4, <1>5, <1>6, <1>7 DEF VersionInv

LEMMA PreparedKeeps ==
  ASSUME VersionInv, Prepared
  PROVE  VersionInv'
<1>1. TypeOK'
  BY DEF TypeOK, Prepared, VersionInv, device, pages
<1>2. RingInv'
  BY DEF RingInv, Prepared, VersionInv
<1>3. ChipInv'
  BY DEF ChipInv, Prepared, device
<1>4. HeardInv'
  BY DEF HeardInv, Prepared, VersionInv, device, pages
<1>5. SaveInv'
  BY DEF SaveInv, Quiet, Prepared, VersionInv, pages
<1>6. SettledInv'
  BY DEF SettledInv, Quiet, Prepared, VersionInv, pages
<1>7. CreditInv'
  BY DEF CreditInv, Coming, Wrong, Quiet, Prepared, VersionInv, pages
<1> QED
  BY <1>1, <1>2, <1>3, <1>4, <1>5, <1>6, <1>7 DEF VersionInv

LEMMA StartsKeeps ==
  ASSUME VersionInv, Starts
  PROVE  VersionInv'
<1>1. TypeOK'
  <2>1. changes' \in 0 .. MaxUpgrades /\ credit' \in Int
    BY VersionAssumption DEF TypeOK, Starts, VersionInv
  <2>2. fw' \in Versions
    BY DEF Starts
  <2> QED
    BY <2>1 DEF TypeOK, Starts, VersionInv, device
<1>2. RingInv'
  BY DEF RingInv, Starts
<1>3. ChipInv'
  BY DEF ChipInv, Starts, Quiet, VersionInv, device
<1>4. HeardInv'
  BY DEF ChipInv, HeardInv, Starts, VersionInv, device
<1>5. SaveInv'
  BY DEF SaveInv, Quiet, Starts, VersionInv
<1>6. SettledInv'
  BY DEF ChipInv, SettledInv, Starts, VersionInv, device
<1>7. CreditInv'
  BY DEF TypeOK, CreditInv, Coming, Starts, VersionInv
<1> QED
  BY <1>1, <1>2, <1>3, <1>4, <1>5, <1>6, <1>7 DEF VersionInv

LEMMA SupplyKeeps ==
  ASSUME VersionInv, Supply
  PROVE  VersionInv'
<1>1. TypeOK'
  BY DEF TypeOK, Supply, VersionInv, device, pages
<1>2. RingInv'
  BY DEF RingInv, Supply, VersionInv
<1>3. ChipInv'
  BY DEF ChipInv, Supply
<1>4. HeardInv'
  BY DEF HeardInv, Supply, VersionInv, device, pages
<1>5. SaveInv'
  BY DEF SaveInv, Quiet, Supply, VersionInv, pages
<1>6. SettledInv'
  BY DEF SettledInv, Quiet, Supply, VersionInv, pages
<1>7. CreditInv'
  BY DEF CreditInv, Coming, Wrong, Quiet, Supply, VersionInv, pages
<1> QED
  BY <1>1, <1>2, <1>3, <1>4, <1>5, <1>6, <1>7 DEF VersionInv

LEMMA WriteIdKeeps ==
  ASSUME VersionInv, NEW id \in Ids, WriteId(id)
  PROVE  VersionInv'
<1>1. TypeOK'
  BY DEF TypeOK, Save, Page, WriteId, Overlay, VersionInv, line, device
<1>2. RingInv'
  BY DEF RingInv, WriteId, VersionInv, line
<1>3. ChipInv'
  BY DEF ChipInv, WriteId, VersionInv, line, device
<1>4. HeardInv'
  BY DEF HeardInv, WriteId, VersionInv, line, device
<1>5. SaveInv'
  BY DEF SaveInv, Quiet, WriteId, Overlay, VersionInv
<1>6. SettledInv'
  BY DEF SaveInv, SettledInv, Quiet, WriteId, Overlay, VersionInv, line
<1>7. CreditInv'
  BY DEF TypeOK, Ids, CreditInv, Coming, Wrong, WriteId, Overlay, VersionInv, line
<1> QED
  BY <1>1, <1>2, <1>3, <1>4, <1>5, <1>6, <1>7 DEF VersionInv

LEMMA EraseSectorKeeps ==
  ASSUME VersionInv, EraseSector
  PROVE  VersionInv'
<1>1. TypeOK'
  BY DEF TypeOK, Save, EraseSector, VersionInv, line, device
<1>2. RingInv'
  BY DEF RingInv, EraseSector, VersionInv, line
<1>3. ChipInv'
  BY DEF ChipInv, EraseSector, Quiet, VersionInv, line, device
<1>4. HeardInv'
  BY DEF HeardInv, EraseSector, VersionInv, line, device
<1>5. SaveInv'
  BY DEF SaveInv, Quiet, EraseSector, VersionInv
<1>6. SettledInv'
  BY DEF SettledInv, Quiet, EraseSector, VersionInv, line, device
<1>7. CreditInv'
  BY DEF TypeOK, CreditInv, Coming, Wrong, Quiet, EraseSector, VersionInv, line
<1> QED
  BY <1>1, <1>2, <1>3, <1>4, <1>5, <1>6, <1>7 DEF VersionInv

LEMMA ProgramWordsKeeps ==
  ASSUME VersionInv, ProgramWords
  PROVE  VersionInv'
<1>1. TypeOK'
  <2>1. info' \in Page /\ save' \in Save
    BY DEF TypeOK, NoSave, Save, Page, ProgramWords, VersionInv
  <2>2. save.by \in Ids \union {"version"}
    BY DEF TypeOK, Save, VersionInv
  <2>3. kept' \in SUBSET Ids
    BY <2>2 DEF TypeOK, ProgramWords, VersionInv
  <2> QED
    BY <2>1, <2>3 DEF TypeOK, ProgramWords, VersionInv, line, device
<1>2. RingInv'
  BY DEF RingInv, ProgramWords, VersionInv, line
<1>3. ChipInv'
  BY DEF ChipInv, ProgramWords, Quiet, VersionInv, line, device
<1>4. HeardInv'
  BY DEF HeardInv, ProgramWords, VersionInv, line, device
<1>5. SaveInv'
  BY VersionAssumption DEF TypeOK, Save, NoSave, SaveInv, Quiet, ProgramWords, VersionInv
<1>6. SettledInv'
  BY DEF NoSave, SettledInv, Quiet, ProgramWords, VersionInv, line, device
<1>7. CreditInv'
  BY VersionAssumption DEF TypeOK, Save, NoSave, CreditInv, Coming, Wrong, Quiet,
     ProgramWords, VersionInv, line
<1> QED
  BY <1>1, <1>2, <1>3, <1>4, <1>5, <1>6, <1>7 DEF VersionInv

LEMMA PowerUpKeeps ==
  ASSUME VersionInv, PowerUp
  PROVE  VersionInv'
<1>1. TypeOK'
  BY DEF TypeOK, PowerUp, VersionInv, device, pages
<1>2. RingInv'
  BY DEF RingInv, PowerUp, VersionInv
<1>3. ChipInv'
  BY DEF ChipInv, PowerUp, Quiet, VersionInv, device, pages
<1>4. HeardInv'
  BY DEF HeardInv, PowerUp, VersionInv, device, pages
<1>5. SaveInv'
  BY DEF SaveInv, Quiet, PowerUp, VersionInv, pages
<1>6. SettledInv'
  BY DEF SettledInv, Quiet, PowerUp, VersionInv, pages
<1>7. CreditInv'
  BY DEF CreditInv, Coming, Wrong, Quiet, PowerUp, VersionInv, pages
<1> QED
  BY <1>1, <1>2, <1>3, <1>4, <1>5, <1>6, <1>7 DEF VersionInv

LEMMA PowerCutKeeps ==
  ASSUME VersionInv, PowerCut
  PROVE  VersionInv'
<1>1. TypeOK'
  <2>1. save' \in Save
    BY DEF NoSave, Save, Page, PowerCut
  <2>2. torn' \in 0 .. MaxTorn /\ credit' \in Int /\ kept' \in SUBSET Ids
    BY VersionAssumption DEF TypeOK, PowerCut, VersionInv
  <2>3. rx' \in Seq(Frame) /\ Len(rx') <= MaxFrames
    BY VersionAssumption DEF PowerCut
  <2> QED
    BY <2>1, <2>2, <2>3 DEF TypeOK, PowerCut, VersionInv
<1>2. RingInv'
  BY DEF RingInv, PowerCut
<1>3. ChipInv'
  BY DEF ChipInv, PowerCut, Quiet, NoSave
<1>4. HeardInv'
  BY DEF HeardInv, PowerCut
<1>5. SaveInv'
  <2>1. CASE save.stage = "program"
    BY DEF TypeOK, NoSave, SaveInv, Quiet, PowerCut, VersionInv
  <2>2. CASE save.stage # "program"
    BY DEF TypeOK, NoSave, SaveInv, Quiet, PowerCut, VersionInv
  <2> QED
    BY <2>1, <2>2
<1>6. SettledInv'
  BY DEF NoSave, SaveInv, SettledInv, Quiet, PowerCut, VersionInv
<1>7. CreditInv'
  BY VersionAssumption DEF TypeOK, Save, NoSave, SaveInv, CreditInv, Coming, Wrong,
     Quiet, PowerCut, VersionInv
<1> QED
  BY <1>1, <1>2, <1>3, <1>4, <1>5, <1>6, <1>7 DEF VersionInv

LEMMA HearReportKeeps ==
  ASSUME VersionInv, HearReport
  PROVE  VersionInv'
<1>1. TypeOK'
  <2>1. rx' \in Seq(Frame) /\ Len(rx') <= MaxFrames /\ Head(rx) \in Frame
    BY VersionAssumption DEF TypeOK, HearReport, Listening, VersionInv
  <2> QED
    BY <2>1 DEF TypeOK, Frame, HearReport, VersionInv, pages
<1>2. RingInv'
  BY DEF RingInv, HearReport, Listening, VersionInv
<1>3. ChipInv'
  BY DEF ChipInv, HearReport, Listening, Quiet, VersionInv, pages
<1>4. HeardInv'
  BY DEF RingInv, ChipInv, HeardInv, HearReport, Listening, VersionInv
<1>5. SaveInv'
  BY DEF SaveInv, Quiet, HearReport, VersionInv, pages
<1>6. SettledInv'
  BY DEF SettledInv, Quiet, HearReport, Listening, VersionInv, pages
<1>7. CreditInv'
  BY DEF CreditInv, Coming, Wrong, Quiet, HearReport, VersionInv, pages
<1> QED
  BY <1>1, <1>2, <1>3, <1>4, <1>5, <1>6, <1>7 DEF VersionInv

LEMMA HearAnswerKeeps ==
  ASSUME VersionInv, HearAnswer
  PROVE  VersionInv'
<1>1. TypeOK'
  <2>1. rx' \in Seq(Frame) /\ Len(rx') <= MaxFrames /\ Head(rx) \in Frame
    BY VersionAssumption DEF TypeOK, HearAnswer, Listening, VersionInv
  <2>2. Head(rx).v \in Versions
    BY <2>1 DEF Frame
  <2>3. save' \in Save
    BY <2>2 DEF TypeOK, Save, Page, HearAnswer, Persist, NeedsWrite, VersionInv
  <2> QED
    BY <2>1, <2>2, <2>3 DEF TypeOK, HearAnswer, VersionInv
<1>2. RingInv'
  BY DEF TypeOK, RingInv, HearAnswer, VersionInv
<1>3. ChipInv'
  BY DEF ChipInv, HearAnswer, Listening, Quiet, VersionInv
<1>4. HeardInv'
  BY DEF TypeOK, RingInv, HeardInv, HearAnswer, Listening, VersionInv
<1>5. SaveInv'
  BY DEF TypeOK, Page, Ids, SaveInv, Quiet, HearAnswer, Persist, NeedsWrite, VersionInv
<1>6. SettledInv'
  BY DEF TypeOK, Page, RingInv, SettledInv, Quiet, HearAnswer, Listening, Persist,
     NeedsWrite, VersionInv
<1>7. CreditInv'
  BY DEF TypeOK, Page, RingInv, CreditInv, Coming, Wrong, Quiet, HearAnswer, Listening,
     Persist, NeedsWrite, VersionInv
<1> QED
  BY <1>1, <1>2, <1>3, <1>4, <1>5, <1>6, <1>7 DEF VersionInv

LEMMA ProbeHeardKeeps ==
  ASSUME VersionInv, ProbeHeard
  PROVE  VersionInv'
<1>1. TypeOK'
  BY DEF TypeOK, Save, Page, ProbeHeard, Persist, NeedsWrite, VersionInv, line, device
<1>2. RingInv'
  BY DEF RingInv, ProbeHeard, VersionInv, line
<1>3. ChipInv'
  BY DEF ChipInv, ProbeHeard, VersionInv, line, device
<1>4. HeardInv'
  BY DEF HeardInv, ProbeHeard, VersionInv, line, device
<1>5. SaveInv'
  BY DEF Ids, SaveInv, Quiet, ProbeHeard, Persist, NeedsWrite, VersionInv
<1>6. SettledInv'
  BY DEF ChipInv, HeardInv, SettledInv, Quiet, ProbeHeard, Persist, NeedsWrite,
     VersionInv, line
<1>7. CreditInv'
  BY DEF ChipInv, HeardInv, CreditInv, Coming, Wrong, Quiet, ProbeHeard, Persist,
     NeedsWrite, VersionInv, line
<1> QED
  BY <1>1, <1>2, <1>3, <1>4, <1>5, <1>6, <1>7 DEF VersionInv

LEMMA ProbeTimeoutKeeps ==
  ASSUME VersionInv, ProbeTimeout
  PROVE  VersionInv'
<1>1. TypeOK'
  BY DEF TypeOK, Page, ProbeTimeout, VersionInv, line, pages
<1>2. RingInv'
  BY DEF RingInv, ProbeTimeout, VersionInv, line
<1>3. ChipInv'
  BY DEF ChipInv, ProbeTimeout, VersionInv, line
<1>4. HeardInv'
  BY DEF HeardInv, SettledInv, ProbeTimeout, VersionInv, line, pages
<1>5. SaveInv'
  BY DEF SaveInv, Quiet, ProbeTimeout, VersionInv, pages
<1>6. SettledInv'
  BY DEF SettledInv, Quiet, ProbeTimeout, VersionInv, line, pages
<1>7. CreditInv'
  BY DEF CreditInv, Coming, Wrong, Quiet, ProbeTimeout, VersionInv, line, pages
<1> QED
  BY <1>1, <1>2, <1>3, <1>4, <1>5, <1>6, <1>7 DEF VersionInv

LEMMA EndProbeKeeps ==
  ASSUME VersionInv, EndProbe
  PROVE  VersionInv'
<1>1. TypeOK'
  <2>1. rx' \in Seq(Frame) /\ Len(rx') <= MaxFrames
    BY VersionAssumption DEF EndProbe
  <2> QED
    BY <2>1 DEF TypeOK, EndProbe, VersionInv, device
<1>2. RingInv'
  BY DEF RingInv, EndProbe
<1>3. ChipInv'
  BY DEF ChipInv, EndProbe
<1>4. HeardInv'
  BY DEF HeardInv, EndProbe, VersionInv, device
<1>5. SaveInv'
  BY DEF SaveInv, Quiet, EndProbe, VersionInv
<1>6. SettledInv'
  BY DEF SettledInv, Quiet, EndProbe, VersionInv
<1>7. CreditInv'
  BY DEF CreditInv, Coming, Wrong, Quiet, EndProbe, VersionInv
<1> QED
  BY <1>1, <1>2, <1>3, <1>4, <1>5, <1>6, <1>7 DEF VersionInv

LEMMA QueryKeeps ==
  ASSUME VersionInv, Query
  PROVE  VersionInv'
<1>1. TypeOK'
  BY DEF TypeOK, Query, VersionInv, pages
<1>2. RingInv'
  BY DEF RingInv, Query, VersionInv
<1>3. ChipInv'
  BY DEF ChipInv, Query, VersionInv
<1>4. HeardInv'
  BY DEF HeardInv, Query, VersionInv, pages
<1>5. SaveInv'
  BY DEF SaveInv, Quiet, Query, VersionInv, pages
<1>6. SettledInv'
  BY DEF SettledInv, Quiet, Query, VersionInv, pages
<1>7. CreditInv'
  BY DEF CreditInv, Coming, Wrong, Quiet, Query, VersionInv, pages
<1> QED
  BY <1>1, <1>2, <1>3, <1>4, <1>5, <1>6, <1>7 DEF VersionInv

LEMMA QueryTimeoutKeeps ==
  ASSUME VersionInv, QueryTimeout
  PROVE  VersionInv'
<1>1. TypeOK'
  BY DEF TypeOK, QueryTimeout, VersionInv, line, pages
<1>2. RingInv'
  BY DEF RingInv, QueryTimeout, VersionInv, line
<1>3. ChipInv'
  BY DEF ChipInv, QueryTimeout, VersionInv, line
<1>4. HeardInv'
  BY DEF HeardInv, QueryTimeout, VersionInv, line, pages
<1>5. SaveInv'
  BY DEF SaveInv, Quiet, QueryTimeout, VersionInv, pages
<1>6. SettledInv'
  BY DEF SettledInv, Quiet, QueryTimeout, VersionInv, line, pages
<1>7. CreditInv'
  BY DEF CreditInv, Coming, Wrong, Quiet, QueryTimeout, VersionInv, line, pages
<1> QED
  BY <1>1, <1>2, <1>3, <1>4, <1>5, <1>6, <1>7 DEF VersionInv

LEMMA BeginKeeps ==
  ASSUME VersionInv, Begin
  PROVE  VersionInv'
<1>1. TypeOK'
  BY VersionAssumption DEF TypeOK, Begin, VersionInv, pages
<1>2. RingInv'
  BY DEF RingInv, Begin
<1>3. ChipInv'
  BY DEF ChipInv, Begin
<1>4. HeardInv'
  BY DEF HeardInv, Begin, VersionInv, pages
<1>5. SaveInv'
  BY DEF SaveInv, Quiet, Begin, VersionInv, pages
<1>6. SettledInv'
  BY DEF SettledInv, Quiet, Begin, VersionInv, pages
<1>7. CreditInv'
  BY DEF CreditInv, Coming, Wrong, Quiet, Begin, VersionInv, pages
<1> QED
  BY <1>1, <1>2, <1>3, <1>4, <1>5, <1>6, <1>7 DEF VersionInv

LEMMA AbortKeeps ==
  ASSUME VersionInv, Abort
  PROVE  VersionInv'
<1>1. TypeOK'
  BY DEF TypeOK, Abort, VersionInv, line, pages
<1>2. RingInv'
  BY DEF RingInv, Abort, VersionInv, line
<1>3. ChipInv'
  BY DEF ChipInv, Abort
<1>4. HeardInv'
  BY DEF HeardInv, Abort, VersionInv, line, pages
<1>5. SaveInv'
  BY DEF SaveInv, Quiet, Abort, VersionInv, pages
<1>6. SettledInv'
  BY DEF SettledInv, Quiet, Abort, VersionInv, line, pages
<1>7. CreditInv'
  BY DEF CreditInv, Coming, Wrong, Quiet, Abort, VersionInv, line, pages
<1> QED
  BY <1>1, <1>2, <1>3, <1>4, <1>5, <1>6, <1>7 DEF VersionInv

LEMMA ExitKeeps ==
  ASSUME VersionInv, Exit
  PROVE  VersionInv'
<1>1. TypeOK'
  BY DEF TypeOK, Exit, RefreshValid, VersionInv, line, pages
<1>2. RingInv'
  BY DEF RingInv, Exit, VersionInv, line
<1>3. ChipInv'
  BY DEF ChipInv, Exit, RefreshValid, Quiet, line, pages
<1>4. HeardInv'
  BY DEF HeardInv, Exit, RefreshValid
<1>5. SaveInv'
  BY DEF SaveInv, Quiet, Exit, VersionInv, pages
<1>6. SettledInv'
  BY DEF SettledInv, Quiet, Exit, VersionInv, line, pages
<1>7. CreditInv'
  BY DEF CreditInv, Coming, Wrong, Quiet, Exit, VersionInv, line, pages
<1> QED
  BY <1>1, <1>2, <1>3, <1>4, <1>5, <1>6, <1>7 DEF VersionInv

LEMMA RefreshHeardKeeps ==
  ASSUME VersionInv, RefreshHeard
  PROVE  VersionInv'
<1>1. TypeOK'
  BY DEF TypeOK, Save, Page, RefreshHeard, Persist, NeedsWrite, VersionInv, line, device
<1>2. RingInv'
  BY DEF RingInv, RefreshHeard, VersionInv, line
<1>3. ChipInv'
  BY DEF ChipInv, RefreshHeard, VersionInv, line, device
<1>4. HeardInv'
  BY DEF HeardInv, RefreshHeard, VersionInv, line, device
<1>5. SaveInv'
  BY DEF Ids, SaveInv, Quiet, RefreshHeard, Persist, NeedsWrite, VersionInv
<1>6. SettledInv'
  BY DEF ChipInv, HeardInv, SettledInv, Quiet, RefreshHeard, Persist, NeedsWrite,
     VersionInv, line
<1>7. CreditInv'
  BY DEF ChipInv, HeardInv, CreditInv, Coming, Wrong, Quiet, RefreshHeard, Persist,
     NeedsWrite, VersionInv, line
<1> QED
  BY <1>1, <1>2, <1>3, <1>4, <1>5, <1>6, <1>7 DEF VersionInv

LEMMA RefreshTimeoutKeeps ==
  ASSUME VersionInv, RefreshTimeout
  PROVE  VersionInv'
<1>1. TypeOK'
  BY DEF TypeOK, RefreshTimeout, VersionInv, line, device, pages
<1>2. RingInv'
  BY DEF RingInv, RefreshTimeout, line
<1>3. ChipInv'
  BY DEF ChipInv, RefreshTimeout, VersionInv, line, device
<1>4. HeardInv'
  BY DEF HeardInv, RefreshTimeout, device
<1>5. SaveInv'
  BY DEF SaveInv, Quiet, RefreshTimeout, VersionInv, pages
<1>6. SettledInv'
  BY DEF SettledInv, Quiet, RefreshTimeout, VersionInv, line, device, pages
<1>7. CreditInv'
  BY DEF CreditInv, Coming, Wrong, Quiet, RefreshTimeout, VersionInv, line, pages
<1> QED
  BY <1>1, <1>2, <1>3, <1>4, <1>5, <1>6, <1>7 DEF VersionInv

LEMMA EndExitKeeps ==
  ASSUME VersionInv, EndExit
  PROVE  VersionInv'
<1>1. TypeOK'
  BY DEF TypeOK, EndExit, VersionInv, line
<1>2. RingInv'
  BY DEF RingInv, EndExit, VersionInv, line
<1>3. ChipInv'
  BY DEF ChipInv, EndExit, VersionInv, line
<1>4. HeardInv'
  BY DEF HeardInv, EndExit, VersionInv, line
<1>5. SaveInv'
  BY DEF SaveInv, Quiet, EndExit, VersionInv
<1>6. SettledInv'
  BY DEF HeardInv, SettledInv, Quiet, EndExit, VersionInv, line
<1>7. CreditInv'
  BY DEF CreditInv, Coming, Wrong, Quiet, EndExit, VersionInv, line
<1> QED
  BY <1>1, <1>2, <1>3, <1>4, <1>5, <1>6, <1>7 DEF VersionInv

LEMMA FlashFailsKeeps ==
  ASSUME VersionInv, FlashFails
  PROVE  VersionInv'
<1> USE DEF VersionInv, line, device, pages
<1>1. TypeOK'
  <2>1. save' \in Save /\ info' \in Page \union {Torn}
    BY DEF NoSave, Save, Page, Ids, FlashFails
  <2>2. torn' \in 0 .. MaxTorn /\ credit' \in Int /\ kept' \in SUBSET Ids
    BY VersionAssumption DEF TypeOK, FlashFails
  <2> QED
    BY <2>1, <2>2 DEF TypeOK, FlashFails
<1>2. RingInv'
  BY DEF RingInv, FlashFails
<1>3. ChipInv'
  BY DEF ChipInv, Quiet, NoSave, FlashFails
<1>4. HeardInv'
  BY DEF HeardInv, FlashFails
<1>5. SaveInv'
  BY VersionAssumption DEF TypeOK, SaveInv, Quiet, NoSave, FlashFails
<1>6. SettledInv'
  BY VersionAssumption DEF TypeOK, SettledInv, Quiet, NoSave, FlashFails
<1>7. CreditInv'
  BY VersionAssumption DEF TypeOK, CreditInv, Coming, Wrong, Quiet, NoSave, FlashFails
<1> QED
  BY <1>1, <1>2, <1>3, <1>4, <1>5, <1>6, <1>7

-----------------------------------------------------------------------------
LEMMA VersionInitial == Init => VersionInv
<1> SUFFICES ASSUME Init
             PROVE  VersionInv
  OBVIOUS
<1>1. TypeOK
  <2>1. NoSave \in Save /\ info \in Page
    BY DEF Init, NoSave, Save, Page, Ids
  <2>2. rx \in Seq(Frame) /\ Len(rx) <= MaxFrames
    BY VersionAssumption DEF Init
  <2>3. kept \in SUBSET Ids /\ changes \in 0 .. MaxUpgrades /\ torn \in 0 .. MaxTorn
    BY VersionAssumption DEF Init
  <2>4. fw \in Versions /\ credit \in Int /\ ver \in Versions \union {None}
    BY DEF Init
  <2> QED
    BY <2>1, <2>2, <2>3, <2>4, Zenon DEF Init, TypeOK
<1>2. RingInv /\ ChipInv /\ HeardInv
  BY DEF Init, RingInv, ChipInv, HeardInv, Quiet, NoSave
<1>3. SaveInv
  BY <1>1, VersionAssumption DEF Init, TypeOK, SaveInv, Quiet, NoSave, Page
<1>4. SettledInv
  BY DEF Init, SettledInv, Quiet, NoSave
<1>5. CreditInv
  BY <1>1 DEF Init, CreditInv, Coming, Wrong, Quiet, NoSave
<1> QED
  BY <1>1, <1>2, <1>3, <1>4, <1>5 DEF VersionInv

LEMMA VersionInductive ==
  ASSUME VersionInv, [Next]_vars
  PROVE  VersionInv'
<1>1. CASE Next
  <2>1. CASE Report \/ Answer \/ Prepared \/ Starts \/ Supply
    BY <2>1, ReportKeeps, AnswerKeeps, PreparedKeeps, StartsKeeps, SupplyKeeps
  <2>2. CASE \E id \in Ids : WriteId(id)
    BY <2>2, WriteIdKeeps
  <2>3. CASE EraseSector \/ ProgramWords \/ FlashFails
    BY <2>3, EraseSectorKeeps, ProgramWordsKeeps, FlashFailsKeeps
  <2>4. CASE PowerUp \/ PowerCut
    BY <2>4, PowerUpKeeps, PowerCutKeeps
  <2>5. CASE HearReport \/ HearAnswer
    BY <2>5, HearReportKeeps, HearAnswerKeeps
  <2>6. CASE ProbeHeard \/ ProbeTimeout \/ EndProbe
    BY <2>6, ProbeHeardKeeps, ProbeTimeoutKeeps, EndProbeKeeps
  <2>7. CASE Query \/ QueryTimeout
    BY <2>7, QueryKeeps, QueryTimeoutKeeps
  <2>8. CASE Begin \/ Abort \/ Exit \/ RefreshHeard \/ RefreshTimeout \/ EndExit
    BY <2>8, BeginKeeps, AbortKeeps, ExitKeeps, RefreshHeardKeeps,
       RefreshTimeoutKeeps, EndExitKeeps
  <2> QED
    BY <1>1, <2>1, <2>2, <2>3, <2>4, <2>5, <2>6, <2>7, <2>8 DEF Next
<1>2. CASE UNCHANGED vars
  BY <1>2 DEF vars, VersionInv, TypeOK, RingInv, ChipInv, HeardInv, SaveInv,
     SettledInv, CreditInv, Coming, Wrong, Quiet
<1> QED
  BY <1>1, <1>2

LEMMA VersionInvariance == Spec => []VersionInv
BY VersionInitial, VersionInductive, PTL DEF Spec

(* Every reachable state is well typed. *)
THEOREM VersionTypeCorrect == Spec => []TypeOK
<1>1. VersionInv => TypeOK
  BY DEF VersionInv
<1> QED
  BY <1>1, VersionInvariance, PTL

(* What a host is told of the version is the firmware the chip runs, as    *)
(* far as the charger can know it, and no settled version is replaced by   *)
(* an older one (qi_ver_persist_if_changed, can_proto_qi_version_probe).   *)
THEOREM VersionIsTrue == Spec => []VersionTrue
<1>1. VersionInv => VersionTrue
  BY DEF VersionInv, HeardInv, VersionTrue
<1> QED
  BY <1>1, VersionInvariance, PTL

(* A page that checks has all that was written to it (device_info.c).      *)
THEOREM PageIsKept == Spec => []PageKept
<1>1. VersionInv => PageKept
  BY DEF VersionInv, SaveInv, SettledInv, PageKept
<1> QED
  BY <1>1, VersionInvariance, PTL

(* A version is written to the page at most once for each new firmware,    *)
(* new page or lost page (qi_ver_persist_if_changed).                      *)
THEOREM PageIsSpared == Spec => []Sparing
<1>1. VersionInv => Sparing
  BY DEF VersionInv, TypeOK, CreditInv, Coming, Sparing
<1> QED
  BY <1>1, VersionInvariance, PTL
=============================================================================

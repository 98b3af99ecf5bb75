-------------------------- MODULE Pipeline_proofs ---------------------------
(* Proofs about the pipeline for any number of videos, workers, heal runs,   *)
(* crashes, callbacks and message copies, and any choice of active encodes.  *)
EXTENDS Pipeline, TLAPS

-----------------------------------------------------------------------------
(* Type correctness.                                                         *)

LEMMA ActiveWorker ==
  ASSUME DeliverTypeOK, NEW w \in Workers, wk[w].pc # "idle"
  PROVE  /\ wk[w] \in Delivery
         /\ wk[w].v \in Videos /\ wk[w].e \in Encodes
         /\ wk[w].snap \in Status /\ wk[w].res \in {"Progress", "Complete"}
         /\ wk[w].pc \in {"took", "saved", "judged", "updated", "told",
                          "starting", "announced"}
BY DEF DeliverTypeOK, Delivery, Idle

LEMMA GotoType ==
  ASSUME DeliverTypeOK, NEW w \in Workers, wk[w].pc # "idle",
         NEW pc \in {"took", "saved", "judged", "updated", "told",
                     "starting", "announced"},
         Goto(w, pc)
  PROVE  DeliverTypeOK'
<1>1. wk[w] \in Delivery
  BY ActiveWorker
<1>2. [wk[w] EXCEPT !.pc = pc] \in Delivery
  BY <1>1 DEF Delivery
<1>3. wk' = [wk EXCEPT ![w] = [wk[w] EXCEPT !.pc = pc]]
  BY DEF Goto, DeliverTypeOK
<1>. QED
  BY <1>2, <1>3 DEF DeliverTypeOK

LEMMA DoneType ==
  ASSUME DeliverTypeOK, NEW w \in Workers, Done(w)
  PROVE  DeliverTypeOK'
BY DEF DeliverTypeOK, Done

(* The values the operators of VideoStore give the variables.                *)
LEMMA UpdateStatusType ==
  ASSUME StoreTypeOK, NEW v \in Videos, NEW s \in Status, UpdateStatus(v, s)
  PROVE  status' \in [Videos -> Status]
BY DEF StoreTypeOK, UpdateStatus

LEMMA FaultWritesType ==
  ASSUME StoreTypeOK, NEW v \in Videos, NEW s \in Status, FaultWrites(v, s)
  PROVE  status' \in [Videos -> Status]
BY DEF StoreTypeOK, FaultWrites, Status

LEMMA TellValType ==
  ASSUME StoreTypeOK, NEW v \in Videos, NEW s \in ValStatus, TellVal(v, s)
  PROVE  val' \in [Videos -> ValStatus]
BY DEF StoreTypeOK, TellVal

LEMMA CallValType ==
  ASSUME StoreTypeOK, NEW v \in Videos, NEW s \in ValStatus, CallVal(v, s)
  PROVE  val' \in [Videos -> ValStatus]
BY TellValType DEF StoreTypeOK, CallVal

LEMMA QueueTypes ==
  ASSUME NEW q \in [Videos -> [Encodes -> 0..MaxCopies]],
         NEW v \in Videos, NEW e \in Encodes
  PROVE  /\ q[v][e] < MaxCopies
              => Put(q, v, e) \in [Videos -> [Encodes -> 0..MaxCopies]]
         /\ q[v][e] > 0
              => Drop(q, v, e) \in [Videos -> [Encodes -> 0..MaxCopies]]
<1>. MaxCopies \in Nat
  BY StoreAssumption
<1>. q[v] \in [Encodes -> 0..MaxCopies] /\ q[v][e] \in 0..MaxCopies
  OBVIOUS
<1>1. ASSUME q[v][e] < MaxCopies
      PROVE  Put(q, v, e) \in [Videos -> [Encodes -> 0..MaxCopies]]
  <2>1. q[v][e] + 1 \in 0..MaxCopies
    BY <1>1
  <2>2. [q[v] EXCEPT ![e] = q[v][e] + 1] \in [Encodes -> 0..MaxCopies]
    BY <2>1
  <2>. QED
    BY <2>2 DEF Put
<1>2. ASSUME q[v][e] > 0
      PROVE  Drop(q, v, e) \in [Videos -> [Encodes -> 0..MaxCopies]]
  <2>1. q[v][e] - 1 \in 0..MaxCopies
    BY <1>2
  <2>2. [q[v] EXCEPT ![e] = q[v][e] - 1] \in [Encodes -> 0..MaxCopies]
    BY <2>1
  <2>. QED
    BY <2>2 DEF Drop
<1>. QED
  BY <1>1, <1>2

LEMMA DeliverType ==
  ASSUME StoreTypeOK, DeliverTypeOK, NEW w \in Workers, DeliverStep(w)
  PROVE  StoreTypeOK' /\ DeliverTypeOK'
<1>1. ASSUME NEW v \in Videos, NEW e \in Encodes, Take(w, v, e)
      PROVE  StoreTypeOK' /\ DeliverTypeOK'
  <2>1. tasks' \in [Videos -> [Encodes -> 0..MaxCopies]]
    BY <1>1, QueueTypes DEF Take, StoreTypeOK
  <2>2. [pc |-> "took", v |-> v, e |-> e, snap |-> status[v],
         res |-> "Progress"] \in Delivery
    BY DEF Delivery, StoreTypeOK
  <2>. QED
    BY <1>1, <2>1, <2>2 DEF Take, StoreTypeOK, DeliverTypeOK
<1>2. CASE Refuse(w)
  BY <1>2, DoneType DEF Refuse, StoreTypeOK, store
<1>3. CASE YOUTUBE_SFTP(w)
  BY <1>3, DoneType, ActiveWorker DEF YOUTUBE_SFTP, StoreTypeOK
<1>4. CASE SaveUrl(w)
  BY <1>4, GotoType, ActiveWorker DEF SaveUrl, StoreTypeOK
<1>5. CASE DETERMINE_STATUS(w)
  <2>1. wk[w] \in Delivery /\ wk[w].v \in Videos /\ wk[w].snap \in Status
    BY <1>5, ActiveWorker DEF DETERMINE_STATUS
  <2>2. PICK res \in {"Progress", "Complete"} :
          wk' = [wk EXCEPT ![w].pc = "judged", ![w].res = res]
    BY <1>5 DEF DETERMINE_STATUS
  <2>3. [wk[w] EXCEPT !.pc = "judged", !.res = res] \in Delivery
    BY <2>1 DEF Delivery
  <2>4. DeliverTypeOK'
    BY <2>2, <2>3 DEF DeliverTypeOK
  <2>5. status' \in [Videos -> Status]
    BY <1>5, <2>1, FaultWritesType DEF DETERMINE_STATUS
  <2>. QED
    BY <1>5, <2>4, <2>5 DEF DETERMINE_STATUS, StoreTypeOK
<1>6. CASE UPDATE_DATA(w)
  <2>1. wk[w].v \in Videos /\ wk[w].res \in Status
    BY <1>6, ActiveWorker DEF UPDATE_DATA, Status
  <2>. QED
    BY <1>6, <2>1, GotoType, UpdateStatusType DEF UPDATE_DATA, StoreTypeOK
<1>7. CASE TellDelivery(w)
  <2>1. wk[w].v \in Videos
    BY <1>7, ActiveWorker DEF TellDelivery
  <2>2. val' \in [Videos -> ValStatus]
    BY <1>7, <2>1, CallValType DEF TellDelivery, ValStatus
  <2>. QED
    BY <1>7, <2>2, GotoType DEF TellDelivery, StoreTypeOK
<1>8. CASE CheckReady(w)
  BY <1>8, GotoType, DoneType DEF CheckReady, StoreTypeOK, store
<1>9. CASE TellTranscription(w)
  <2>1. wk[w].v \in Videos
    BY <1>9, ActiveWorker DEF TellTranscription
  <2>2. val' \in [Videos -> ValStatus]
    BY <1>9, <2>1, TellValType DEF TellTranscription, ValStatus
  <2>. QED
    BY <1>9, <2>2, GotoType DEF TellTranscription, StoreTypeOK
<1>10. CASE StartTranscription(w)
  <2>1. wk[w].v \in Videos /\ wk[w].snap \in Status
    BY <1>10, ActiveWorker DEF StartTranscription
  <2>. QED
    BY <1>10, <2>1, DoneType
    DEF StartTranscription, SaveVideo, StoreTypeOK, TranscriptStatus
<1>. QED
  BY <1>1, <1>2, <1>3, <1>4, <1>5, <1>6, <1>7, <1>8, <1>9, <1>10
  DEF DeliverStep

LEMMA HealerCases ==
  ASSUME HealTypeOK, NEW h \in Healers
  PROVE  /\ hl[h].pc = "next" => hl[h] \in Loop
         /\ hl[h].pc \in {"report", "tell", "enqueue", "mark"}
              => hl[h] \in Healing
         /\ hl[h].pc # "idle" => hl[h].todo \subseteq VideoObject
         /\ hl[h].pc # "idle" => hl[h].skips \subseteq Encodes
BY DEF HealTypeOK, Loop, Healing, NotHealing

LEMMA NextVideoType ==
  ASSUME HealTypeOK, NEW h \in Healers, hl[h].pc # "idle", NextVideo(h)
  PROVE  HealTypeOK'
<1>1. [pc |-> "next", todo |-> hl[h].todo, skips |-> hl[h].skips] \in Loop
  BY HealerCases DEF Loop
<1>. QED
  BY <1>1 DEF HealTypeOK, NextVideo

LEMMA TreatType ==
  ASSUME HealTypeOK, NEW h \in Healers, hl[h].pc # "idle",
         NEW o \in VideoObject, NEW pc \in {"report", "tell"},
         NEW list \in SUBSET Encodes, NEW sends \in ValStatus,
         Treat(h, o, pc, list, sends)
  PROVE  HealTypeOK'
<1>1. o.v \in Videos
  BY DEF VideoObject
<1>2. [pc |-> pc, todo |-> hl[h].todo \ {o}, skips |-> hl[h].skips,
       v |-> o.v, list |-> list, sends |-> sends] \in Healing
  BY <1>1, HealerCases DEF Healing
<1>. QED
  BY <1>2 DEF HealTypeOK, Treat

LEMMA HealType ==
  ASSUME StoreTypeOK, HealTypeOK, NEW h \in Healers, HealStep(h)
  PROVE  StoreTypeOK' /\ HealTypeOK'
<1>1. ASSUME NEW o \in VideoObject, SkipDuplicate(h, o)
      PROVE  StoreTypeOK' /\ HealTypeOK'
  <2>1. HealTypeOK'
    BY <1>1, TreatType DEF SkipDuplicate, ValStatus
  <2>. QED
    BY <1>1, <2>1 DEF SkipDuplicate, StoreTypeOK, store
<1>2. ASSUME NEW o \in VideoObject, DetermineFault(h, o)
      PROVE  StoreTypeOK' /\ HealTypeOK'
  <2>1. o.v \in Videos /\ o.tstatus \in TranscriptStatus
    BY DEF VideoObject
  <2>2. TranscriptStatusInVal(o.tstatus) \in ValStatus
    BY DEF TranscriptStatusInVal, ValStatus
  <2>3. Uncompleted(h, o.v) \in SUBSET Encodes
    BY DEF Uncompleted, Missing
  <2>4. HealTypeOK'
    BY <1>2, <2>2, <2>3, TreatType DEF DetermineFault, ValStatus
  <2>5. status' \in [Videos -> Status]
    BY <1>2, <2>1, UpdateStatusType DEF DetermineFault, StoreTypeOK, Status
  <2>. QED
    BY <1>2, <2>4, <2>5 DEF DetermineFault, StoreTypeOK
<1>3. CASE Report(h)
  <2>1. hl[h].v \in Videos /\ hl[h].sends \in ValStatus
    BY <1>3, HealerCases DEF Report, Healing
  <2>2. val' \in [Videos -> ValStatus]
    BY <1>3, <2>1, CallValType DEF Report
  <2>3. HealTypeOK'
    BY <1>3, NextVideoType DEF Report
  <2>. QED
    BY <1>3, <2>2, <2>3 DEF Report, StoreTypeOK
<1>4. CASE TellQueued(h)
  <2>1. /\ hl[h] \in Healing
        /\ hl[h].v \in Videos /\ hl[h].sends \in ValStatus
    BY <1>4, HealerCases DEF TellQueued, Healing
  <2>2. val' \in [Videos -> ValStatus]
    BY <1>4, <2>1, CallValType DEF TellQueued
  <2>3. HealTypeOK'
    BY <1>4, <2>1 DEF TellQueued, HealTypeOK, Healing
  <2>. QED
    BY <1>4, <2>2, <2>3 DEF TellQueued, StoreTypeOK
<1>5. ASSUME NEW e \in Encodes, Enqueue(h, e)
      PROVE  StoreTypeOK' /\ HealTypeOK'
  <2>1. hl[h] \in Healing /\ hl[h].v \in Videos /\ hl[h].list \subseteq Encodes
    BY <1>5, HealerCases DEF Enqueue, Healing
  <2>2. jobs' \in [Videos -> [Encodes -> 0..MaxCopies]]
    BY <1>5, <2>1, QueueTypes DEF Enqueue, StoreTypeOK
  <2>3. PICK pc \in {"enqueue", "mark"} :
          hl' = [hl EXCEPT ![h].list = @ \ {e}, ![h].pc = pc]
    BY <1>5, <2>1 DEF Enqueue, HealTypeOK
  <2>4. hl' = [hl EXCEPT ![h] = [hl[h] EXCEPT !.list = @ \ {e}, !.pc = pc]]
    BY <2>3 DEF HealTypeOK
  <2>5. [hl[h] EXCEPT !.list = @ \ {e}, !.pc = pc] \in Healing
    BY <2>1 DEF Healing
  <2>6. HealTypeOK'
    BY <2>4, <2>5 DEF HealTypeOK
  <2>. QED
    BY <1>5, <2>2, <2>6 DEF Enqueue, StoreTypeOK
<1>6. CASE MarkQueued(h)
  <2>1. hl[h].v \in Videos
    BY <1>6, HealerCases DEF MarkQueued, Healing
  <2>2. HealTypeOK'
    BY <1>6, NextVideoType DEF MarkQueued
  <2>. QED
    BY <1>6, <2>1, <2>2, UpdateStatusType
    DEF MarkQueued, StoreTypeOK, Status
<1>. QED
  BY <1>1, <1>2, <1>3, <1>4, <1>5, <1>6 DEF HealStep

LEMMA SweepType ==
  ASSUME StoreTypeOK, HealTypeOK, NEW h \in Healers,
         NEW query \in SUBSET Videos, SweepBy(h, query)
  PROVE  StoreTypeOK' /\ HealTypeOK'
<1>. DEFINE objects == {[v |-> v, status |-> status[v],
                         tstatus |-> tstatus[v]] : v \in query}
<1>1. objects \subseteq VideoObject
  BY DEF VideoObject, StoreTypeOK
<1>2. PICK skips \in SUBSET Encodes : StartSweep(h, query, skips)
  BY DEF SweepBy
<1>3. [pc |-> "next", skips |-> skips, todo |-> objects] \in Loop
  BY <1>1 DEF Loop
<1>4. HealTypeOK'
  BY <1>2, <1>3 DEF StartSweep, HealTypeOK
<1>. QED
  BY <1>2, <1>4 DEF StartSweep, StoreTypeOK, store

LEMMA PatchCases ==
  ASSUME CallbackTypeOK, yc.pc # "idle"
  PROVE  /\ yc \in Patch
         /\ yc.todo \in SUBSET Reports /\ yc.snap \in Status
         /\ yc.r \in Reports /\ yc.r[1] \in Videos
BY DEF CallbackTypeOK, Patch, NotPatching, Reports

LEMMA NextReportType ==
  ASSUME CallbackTypeOK, yc.pc # "idle", NextReport
  PROVE  yc' \in Patch \cup {NotPatching}
<1>1. yc.todo \subseteq Reports
  BY PatchCases
<1>2. ASSUME NEW r \in yc.todo \ {yc.r}
      PROVE  [pc |-> "read", todo |-> yc.todo \ {yc.r}, r |-> r,
              snap |-> "Ingest"] \in Patch
  BY <1>1 DEF Patch, Status
<1>. QED
  BY <1>2 DEF NextReport

LEMMA PatchGotoType ==
  ASSUME CallbackTypeOK, yc.pc # "idle",
         NEW pc \in {"read", "add", "check", "clear", "fault", "complete",
                     "tell_complete", "tell_active", "duplicate",
                     "tell_duplicate"},
         PatchGoto(pc)
  PROVE  yc' \in Patch \cup {NotPatching}
BY PatchCases DEF PatchGoto, Patch

LEMMA CallbackType ==
  ASSUME StoreTypeOK, CallbackTypeOK, YoutubeOnly, CallbackStep
  PROVE  StoreTypeOK' /\ CallbackTypeOK'
<1>1. CASE StartCrawl
  <2>1. PICK r \in reports :
          yc' = [pc |-> "read", todo |-> reports, r |-> r, snap |-> "Ingest"]
    BY <1>1 DEF StartCrawl
  <2>2. yc' \in Patch
    BY <2>1 DEF Patch, CallbackTypeOK, Status
  <2>. QED
    BY <1>1, <2>2 DEF StartCrawl, StoreTypeOK, store, CallbackTypeOK
<1>2. CASE ReadVideo
  <2>1. yc \in Patch /\ status[yc.r[1]] \in Status
    BY <1>2, PatchCases DEF ReadVideo, StoreTypeOK
  <2>2. PICK pc \in {"add", "duplicate"} :
          yc' = [yc EXCEPT !.pc = pc, !.snap = status[yc.r[1]]]
    BY <1>2 DEF ReadVideo
  <2>3. yc' \in Patch
    BY <2>1, <2>2 DEF Patch
  <2>. QED
    BY <1>2, <2>3 DEF ReadVideo, StoreTypeOK, store, CallbackTypeOK
<1>3. CASE AddUrl
  <2>1. "youtube" \in Encodes /\ yc.r[1] \in Videos
    BY <1>3, PatchCases DEF AddUrl, YoutubeOnly
  <2>. QED
    BY <1>3, <2>1, PatchGotoType DEF AddUrl, StoreTypeOK, CallbackTypeOK
<1>4. CASE CheckDuplicate
  BY <1>4, PatchGotoType
  DEF CheckDuplicate, StoreTypeOK, store, CallbackTypeOK
<1>5. CASE ClearDuplicate
  <2>1. status' \in [Videos -> Status]
    BY <1>5, PatchCases, UpdateStatusType DEF ClearDuplicate, Status
  <2>. QED
    BY <1>5, <2>1, PatchGotoType
    DEF ClearDuplicate, StoreTypeOK, CallbackTypeOK
<1>6. CASE PatchFault
  <2>1. status' \in [Videos -> Status]
    BY <1>6, PatchCases, FaultWritesType DEF PatchFault
  <2>. QED
    BY <1>6, <2>1, PatchGotoType DEF PatchFault, StoreTypeOK, CallbackTypeOK
<1>7. CASE PatchComplete
  <2>1. status' \in [Videos -> Status]
    BY <1>7, PatchCases, UpdateStatusType DEF PatchComplete, Status
  <2>. QED
    BY <1>7, <2>1, PatchGotoType DEF PatchComplete, StoreTypeOK, CallbackTypeOK
<1>8. CASE PatchDuplicate
  <2>1. status' \in [Videos -> Status]
    BY <1>8, PatchCases, UpdateStatusType
    DEF PatchDuplicate, Status, StoreTypeOK
  <2>2. yc' \in Patch \cup {NotPatching}
    BY <1>8, PatchGotoType, NextReportType DEF PatchDuplicate
  <2>. QED
    BY <1>8, <2>1, <2>2 DEF PatchDuplicate, StoreTypeOK, CallbackTypeOK
<1>9. CASE TellPatch
  <2>1. yc.pc # "idle"
    BY <1>9 DEF TellPatch
  <2>2. yc.r[1] \in Videos
    BY <2>1, PatchCases
  <2>3. val' \in [Videos -> ValStatus]
    BY <1>9, <2>2, TellValType DEF TellPatch, ValStatus
  <2>4. yc' \in Patch \cup {NotPatching}
    BY <1>9, <2>1, NextReportType DEF TellPatch
  <2>. QED
    BY <1>9, <2>3, <2>4 DEF TellPatch, StoreTypeOK, CallbackTypeOK
<1>. QED
  BY <1>1, <1>2, <1>3, <1>4, <1>5, <1>6, <1>7, <1>8, <1>9 DEF CallbackStep

LEMMA UploadType ==
  ASSUME StoreTypeOK, CallbackTypeOK, NEW v \in Videos, YoutubeProcesses(v)
  PROVE  StoreTypeOK' /\ CallbackTypeOK'
BY DEF YoutubeProcesses, StoreTypeOK, CallbackTypeOK, Reports

LEMMA UpdateType ==
  ASSUME StoreTypeOK, UpdateTypeOK, NEW v \in Videos, UpdateStep(v)
  PROVE  StoreTypeOK' /\ UpdateTypeOK'
<1>1. CASE LoadVideo(v)
  <2>. calls[v] \in 0..MaxCallbacks /\ MaxCallbacks \in Nat
    BY PipelineAssumption DEF UpdateTypeOK
  <2>. calls[v] < MaxCallbacks
    BY <1>1 DEF LoadVideo
  <2>1. calls[v] + 1 \in 0..MaxCallbacks
    OBVIOUS
  <2>2. [pc |-> "loaded", snap |-> status[v]] \in Callback
    BY DEF Callback, StoreTypeOK
  <2>. QED
    BY <1>1, <2>1, <2>2 DEF LoadVideo, StoreTypeOK, store, UpdateTypeOK
<1>2. CASE TellReady(v)
  <2>1. tc[v] \in Callback
    BY <1>2 DEF TellReady, UpdateTypeOK, NoCallback
  <2>2. [tc[v] EXCEPT !.pc = "told"] \in Callback
    BY <2>1 DEF Callback
  <2>3. tc' \in [Videos -> Callback \cup {NoCallback}]
    BY <1>2, <2>2 DEF TellReady, UpdateTypeOK
  <2>4. val' \in [Videos -> ValStatus]
    BY <1>2, TellValType DEF TellReady, ValStatus
  <2>. QED
    BY <1>2, <2>3, <2>4 DEF TellReady, StoreTypeOK, UpdateTypeOK
<1>3. CASE SaveReady(v)
  <2>1. tc[v].snap \in Status
    BY <1>3 DEF SaveReady, UpdateTypeOK, NoCallback, Callback
  <2>. QED
    BY <1>3, <2>1
    DEF SaveReady, SaveVideo, StoreTypeOK, UpdateTypeOK, TranscriptStatus
<1>. QED
  BY <1>1, <1>2, <1>3 DEF UpdateStep

LEMMA EncodeType ==
  ASSUME StoreTypeOK, NEW v \in Videos, NEW e \in Encodes,
         EncodeSucceeds(v, e) \/ EncodeFails(v, e)
  PROVE  StoreTypeOK'
<1>1. jobs[v][e] > 0 => Drop(jobs, v, e) \in [Videos -> [Encodes -> 0..MaxCopies]]
  BY QueueTypes DEF StoreTypeOK
<1>2. tasks[v][e] < MaxCopies
        => Put(tasks, v, e) \in [Videos -> [Encodes -> 0..MaxCopies]]
  BY QueueTypes DEF StoreTypeOK
<1>3. CASE EncodeSucceeds(v, e)
  BY <1>1, <1>2, <1>3 DEF EncodeSucceeds, StoreTypeOK
<1>4. CASE EncodeFails(v, e)
  BY <1>1, <1>4 DEF EncodeFails, StoreTypeOK
<1>. QED
  BY <1>3, <1>4

LEMMA CrashType ==
  ASSUME TypeOK, Crash, UNCHANGED <<store, reports, calls>>
  PROVE  TypeOK'
<1>. USE DEF TypeOK
<1>1. crashes' \in 0..MaxCrashes
  BY PipelineAssumption DEF Crash
<1>2. StoreTypeOK'
  BY DEF StoreTypeOK, store
<1>3. ASSUME NEW w \in Workers, wk[w].pc # "idle"
      PROVE  wk[w].v \in Videos
  BY <1>3, ActiveWorker
<1>4. lost' \in SUBSET Videos
  BY <1>3 DEF Crash
<1>5. DeliverTypeOK'
  BY DEF Crash, DeliverTypeOK
<1>6. HealTypeOK'
  BY DEF Crash, HealTypeOK
<1>7. CallbackTypeOK'
  BY DEF Crash, CallbackTypeOK
<1>8. UpdateTypeOK'
  BY DEF Crash, UpdateTypeOK
<1>. QED
  BY <1>1, <1>2, <1>4, <1>5, <1>6, <1>7, <1>8

LEMMA TypeStep ==
  ASSUME TypeOK, YoutubeOnly, [Next]_vars
  PROVE  TypeOK'
<1>. USE DEF TypeOK
<1>1. ASSUME NEW w \in Workers, DeliverBy(w)
      PROVE  TypeOK'
  BY <1>1, DeliverType
  DEF DeliverBy, HealTypeOK, CallbackTypeOK, UpdateTypeOK
<1>2. ASSUME NEW h \in Healers, HealBy(h)
      PROVE  TypeOK'
  BY <1>2, HealType
  DEF HealBy, DeliverTypeOK, CallbackTypeOK, UpdateTypeOK
<1>3. ASSUME NEW h \in Healers, NEW query \in SUBSET Videos, SweepBy(h, query)
      PROVE  TypeOK'
  BY <1>3, SweepType
  DEF SweepBy, DeliverTypeOK, CallbackTypeOK, UpdateTypeOK
<1>4. CASE CallbackNext
  BY <1>4, CallbackType
  DEF CallbackNext, DeliverTypeOK, HealTypeOK, UpdateTypeOK
<1>5. ASSUME NEW v \in Videos, UploadNext(v)
      PROVE  TypeOK'
  BY <1>5, UploadType
  DEF UploadNext, DeliverTypeOK, HealTypeOK, UpdateTypeOK
<1>6. ASSUME NEW v \in Videos, UpdateNext(v)
      PROVE  TypeOK'
  BY <1>6, UpdateType
  DEF UpdateNext, DeliverTypeOK, HealTypeOK, CallbackTypeOK
<1>7. ASSUME NEW v \in Videos, NEW e \in Encodes, EncodeNext(v, e)
      PROVE  TypeOK'
  BY <1>7, EncodeType
  DEF EncodeNext, DeliverTypeOK, HealTypeOK, CallbackTypeOK, UpdateTypeOK
<1>8. CASE CrashNext
  BY <1>8, CrashType DEF CrashNext
<1>9. CASE UNCHANGED vars
  BY <1>9 DEF vars, StoreTypeOK, DeliverTypeOK, HealTypeOK, CallbackTypeOK,
              UpdateTypeOK
<1>. QED
  BY <1>1, <1>2, <1>3, <1>4, <1>5, <1>6, <1>7, <1>8, <1>9 DEF Next

-----------------------------------------------------------------------------
(* URL rows are only added. Whatever was true of them stays true.            *)

Grow == \A v \in Videos : urls[v] \subseteq urls'[v]

LEMMA EarnedKept ==
  ASSUME NEW v \in Videos, NEW s, Grow, Earned(v, s)
  PROVE  Earned(v, s)'
BY DEF Earned, Grow

LEMMA ValEarnedKept ==
  ASSUME NEW v \in Videos, NEW s, Grow, ValEarned(v, s)
  PROVE  ValEarned(v, s)'
BY DEF ValEarned, Grow

LEMMA SameUrls ==
  ASSUME UNCHANGED urls
  PROVE  Grow
BY DEF Grow

(* What the processes hold stays true while they do nothing.                 *)
LEMMA WorkersKept ==
  ASSUME DeliverTypeOK, Grow, WorkersEarned, UNCHANGED wk
  PROVE  WorkersEarned'
<1>. SUFFICES ASSUME NEW w \in Workers, wk[w].pc # "idle"
              PROVE  /\ Earned(wk[w].v, wk[w].snap)'
                     /\ Earned(wk[w].v, wk[w].res)'
                     /\ wk[w].pc \in {"starting", "announced"}
                          => Awaited \subseteq urls'[wk[w].v]
  BY DEF WorkersEarned
<1>1. wk[w].v \in Videos
  BY ActiveWorker
<1>2. /\ Earned(wk[w].v, wk[w].snap) /\ Earned(wk[w].v, wk[w].res)
      /\ wk[w].pc \in {"starting", "announced"}
           => Awaited \subseteq urls[wk[w].v]
  BY DEF WorkersEarned
<1>. QED
  BY <1>1, <1>2 DEF Earned, Grow

(* The same when one worker moves and what it holds afterwards is true.      *)
LEMMA WorkersMoved ==
  ASSUME DeliverTypeOK, Grow, WorkersEarned, NEW w \in Workers,
         \A x \in Workers \ {w} : wk'[x] = wk[x],
         wk'[w].pc # "idle" =>
           /\ Earned(wk[w].v, wk[w].snap)' /\ Earned(wk[w].v, wk[w].res)'
           /\ wk'[w].pc \in {"starting", "announced"}
                => Awaited \subseteq urls'[wk'[w].v]
  PROVE  WorkersEarned'
<1>. SUFFICES ASSUME NEW x \in Workers, wk'[x].pc # "idle", x # w
              PROVE  /\ Earned(wk[x].v, wk[x].snap)'
                     /\ Earned(wk[x].v, wk[x].res)'
                     /\ wk'[x].pc \in {"starting", "announced"}
                          => Awaited \subseteq urls'[wk'[x].v]
  BY DEF WorkersEarned
<1>1. wk'[x] = wk[x] /\ wk[x].v \in Videos
  BY ActiveWorker
<1>2. /\ Earned(wk[x].v, wk[x].snap) /\ Earned(wk[x].v, wk[x].res)
      /\ wk[x].pc \in {"starting", "announced"}
           => Awaited \subseteq urls[wk[x].v]
  BY <1>1 DEF WorkersEarned
<1>. QED
  BY <1>1, <1>2 DEF Earned, Grow

LEMMA HealersKept ==
  ASSUME HealTypeOK, Grow, HealersEarned, UNCHANGED hl
  PROVE  HealersEarned'
<1>. SUFFICES ASSUME NEW h \in Healers
              PROVE  /\ hl[h].pc # "idle" =>
                          /\ hl[h].skips \subseteq Uncounted
                          /\ \A o \in hl[h].todo :
                               /\ Earned(o.v, o.status)'
                               /\ o.tstatus \in Started
                                    => Awaited \subseteq urls'[o.v]
                     /\ hl[h].pc \in {"report", "tell"}
                          => ValEarned(hl[h].v, hl[h].sends)'
  BY DEF HealersEarned
<1>1. ASSUME hl[h].pc # "idle", NEW o \in hl[h].todo
      PROVE  /\ Earned(o.v, o.status)'
             /\ o.tstatus \in Started => Awaited \subseteq urls'[o.v]
  <2>1. o.v \in Videos
    BY <1>1, HealerCases DEF VideoObject
  <2>. QED
    BY <1>1, <2>1, EarnedKept DEF HealersEarned, Grow
<1>2. ASSUME hl[h].pc \in {"report", "tell"}
      PROVE  ValEarned(hl[h].v, hl[h].sends)'
  <2>1. hl[h].v \in Videos /\ ValEarned(hl[h].v, hl[h].sends)
    BY <1>2, HealerCases DEF Healing, HealersEarned
  <2>. QED
    BY <2>1 DEF ValEarned, Grow
<1>. QED
  BY <1>1, <1>2 DEF HealersEarned

LEMMA CallbackKept ==
  ASSUME CallbackTypeOK, Grow, CallbackEarned, UNCHANGED yc
  PROVE  CallbackEarned'
<1>. SUFFICES ASSUME yc.pc # "idle"
              PROVE  CallbackEarned'
  BY DEF CallbackEarned
<1>1. yc.r[1] \in Videos
  BY PatchCases
<1>. QED
  BY <1>1 DEF CallbackEarned, Earned, Grow

LEMMA UpdatesKept ==
  ASSUME Grow, UpdatesEarned, UNCHANGED tc
  PROVE  UpdatesEarned'
BY DEF UpdatesEarned, Earned, Grow

-----------------------------------------------------------------------------
(* The operators of VideoStore write what is earned.                         *)

LEMMA FaultEarned ==
  ASSUME NEW v \in Videos, NEW s, Earned(v, s), FAULT(v, s) = {}
  PROVE  Earned(v, "Complete") /\ Earned(v, "File Complete")
BY DEF FAULT, NotViable, Missing, Earned, CompleteStatus, Counted

LEMMA StatusWritten ==
  ASSUME StoreTypeOK, NEW v \in Videos, NEW s, Earned(v, s),
         UNCHANGED urls, CompleteIsDelivered,
         status' = [status EXCEPT ![v] = s]
  PROVE  CompleteIsDelivered'
BY DEF StoreTypeOK, CompleteIsDelivered, Earned

LEMMA FaultWritten ==
  ASSUME StoreTypeOK, NEW v \in Videos, NEW s, Earned(v, s),
         UNCHANGED urls, CompleteIsDelivered, FaultWrites(v, s)
  PROVE  CompleteIsDelivered'
<1>1. CASE UNCHANGED status
  BY <1>1 DEF CompleteIsDelivered, Earned
<1>2. CASE /\ status' = [status EXCEPT ![v] = "File Complete"]
           /\ FAULT(v, s) = {}
  BY <1>2, FaultEarned, StatusWritten
<1>. QED
  BY <1>1, <1>2 DEF FaultWrites

LEMMA StatusSame ==
  ASSUME Grow, CompleteIsDelivered, UNCHANGED status
  PROVE  CompleteIsDelivered'
BY DEF CompleteIsDelivered, Earned, Grow

LEMMA ValWritten ==
  ASSUME StoreTypeOK, NEW v \in Videos, NEW s, ValEarned(v, s),
         UNCHANGED urls, ValNeverAhead, CallVal(v, s) \/ TellVal(v, s)
  PROVE  ValNeverAhead'
<1>1. UNCHANGED val \/ val' = [val EXCEPT ![v] = s]
  BY DEF CallVal, TellVal
<1>. QED
  BY <1>1 DEF StoreTypeOK, ValNeverAhead, ValEarned

LEMMA ValSame ==
  ASSUME Grow, ValNeverAhead, UNCHANGED val
  PROVE  ValNeverAhead'
BY DEF ValNeverAhead, ValEarned, Grow

LEMMA TranscriptSame ==
  ASSUME Grow, TranscriptAfterEncodes, UNCHANGED tstatus
  PROVE  TranscriptAfterEncodes'
BY DEF TranscriptAfterEncodes, Grow

LEMMA ReadyIsAwaited ==
  ASSUME NEW v \in Videos
  PROVE  IsVideoReady(v) <=> Awaited \subseteq urls[v]
BY DEF IsVideoReady, Missing, Awaited

(* The last worker of a video is still there, or nothing about it changed.   *)
LEMMA LastOneKept ==
  ASSUME LastOneStartsTranscription, UNCHANGED <<tstatus, lost>>,
         \A v \in Videos : Awaited \subseteq urls'[v]
                             => Awaited \subseteq urls[v],
         \A v \in Videos : Finishing(v) => Finishing(v)'
  PROVE  LastOneStartsTranscription'
BY StoreAssumption DEF LastOneStartsTranscription

-----------------------------------------------------------------------------
(* The invariant without its type part.                                      *)
Truths ==
  /\ CompleteIsDelivered
  /\ ValNeverAhead
  /\ TranscriptAfterEncodes
  /\ LastOneStartsTranscription
  /\ WorkersEarned
  /\ HealersEarned
  /\ CallbackEarned
  /\ UpdatesEarned
  /\ YoutubeOnly

(* A worker moves on within a delivery, or ends one.                         *)
LEMMA GotoFields ==
  ASSUME DeliverTypeOK, NEW w \in Workers, wk[w].pc # "idle", NEW pc,
         Goto(w, pc)
  PROVE  /\ wk'[w].pc = pc /\ wk'[w].v = wk[w].v
         /\ wk'[w].snap = wk[w].snap /\ wk'[w].res = wk[w].res
         /\ \A x \in Workers \ {w} : wk'[x] = wk[x]
<1>1. wk[w] \in Delivery
  BY ActiveWorker
<1>2. wk'[w] = [wk[w] EXCEPT !.pc = pc]
  BY DEF Goto, DeliverTypeOK
<1>. QED
  BY <1>1, <1>2 DEF Goto, DeliverTypeOK, Delivery

LEMMA DoneFields ==
  ASSUME DeliverTypeOK, NEW w \in Workers, Done(w)
  PROVE  /\ wk'[w] = Idle /\ wk'[w].pc = "idle"
         /\ \A x \in Workers \ {w} : wk'[x] = wk[x]
BY DEF Done, DeliverTypeOK, Idle

(* A worker that is still finishing after its step, on the same video.       *)
LEMMA StillFinishing ==
  ASSUME NEW w \in Workers, NEW v \in Videos, Finishing(v),
         \A x \in Workers \ {w} : wk'[x] = wk[x],
         wk[w].v = v /\ wk[w].pc \in {"saved", "judged", "updated", "told",
                                      "starting", "announced"}
           => wk'[w].v = v /\ wk'[w].pc \in {"saved", "judged", "updated",
                                             "told", "starting", "announced"}
  PROVE  Finishing(v)'
BY DEF Finishing

LEMMA SavedTruths ==
  ASSUME TypeOK, Truths, NEW w \in Workers, SaveUrl(w),
         UNCHANGED <<hl, reports, yc, tc, calls, crashes, lost>>
  PROVE  Truths'
<1>. USE DEF TypeOK, Truths
<1>. DEFINE v == wk[w].v
<1>1. /\ v \in Videos /\ wk[w].pc = "took"
      /\ Earned(v, wk[w].snap) /\ Earned(v, wk[w].res)
  BY ActiveWorker DEF SaveUrl, WorkersEarned
<1>2. Grow
  BY <1>1 DEF SaveUrl, Grow, StoreTypeOK
<1>3. /\ wk'[w].pc = "saved" /\ wk'[w].v = v
      /\ wk'[w].snap = wk[w].snap /\ wk'[w].res = wk[w].res
      /\ \A x \in Workers \ {w} : wk'[x] = wk[x]
  BY <1>1, GotoFields DEF SaveUrl
<1>4. WorkersEarned'
  <2>1. Earned(v, wk[w].snap)' /\ Earned(v, wk[w].res)'
    BY <1>1, <1>2, <1>3 DEF Earned, Grow
  <2>. QED
    BY <1>2, <1>3, <2>1, WorkersMoved
<1>5. LastOneStartsTranscription'
  <2>. SUFFICES ASSUME NEW u \in Transcribed \cap HasCredentials,
                       Awaited # {}, Awaited \subseteq urls'[u],
                       tstatus[u] = "PENDING"
                PROVE  Finishing(u)' \/ u \in lost
    BY DEF LastOneStartsTranscription, SaveUrl
  <2>. u \in Videos
    BY StoreAssumption
  <2>1. CASE u = v
    BY <2>1, <1>3 DEF Finishing
  <2>2. CASE u # v
    <3>1. urls'[u] = urls[u]
      BY <2>2 DEF SaveUrl, StoreTypeOK
    <3>2. Finishing(u) \/ u \in lost
      BY <3>1 DEF LastOneStartsTranscription
    <3>3. Finishing(u) => Finishing(u)'
      BY <1>3, <2>2, StillFinishing
    <3>. QED
      BY <3>2, <3>3
  <2>. QED
    BY <2>1, <2>2
<1>. QED
  BY <1>2, <1>4, <1>5, StatusSame, ValSame, TranscriptSame, HealersKept,
     CallbackKept, UpdatesKept
  DEF SaveUrl, YoutubeOnly

(* The other steps of a worker leave the URL rows alone.                     *)
LEMMA DeliverTruths ==
  ASSUME TypeOK, Truths, NEW w \in Workers, DeliverBy(w)
  PROVE  Truths'
<1>. USE DEF TypeOK, Truths
<1>. UNCHANGED <<hl, reports, yc, tc, calls, crashes, lost>>
  BY DEF DeliverBy
<1>. DEFINE v == wk[w].v
<1>0. wk[w].pc # "idle" => /\ v \in Videos
                           /\ Earned(v, wk[w].snap) /\ Earned(v, wk[w].res)
  BY ActiveWorker DEF WorkersEarned
<1>1. ASSUME UNCHANGED urls,
             CompleteIsDelivered', ValNeverAhead', TranscriptAfterEncodes',
             LastOneStartsTranscription', WorkersEarned', YoutubeOnly'
      PROVE  Truths'
  BY <1>1, SameUrls, HealersKept, CallbackKept, UpdatesKept
<1>2. ASSUME NEW u \in Videos, NEW e \in Encodes, Take(w, u, e)
      PROVE  Truths'
  <2>1. /\ wk'[w].pc = "took" /\ wk'[w].v = u
        /\ wk'[w].snap = status[u] /\ wk'[w].res = "Progress"
        /\ \A x \in Workers \ {w} : wk'[x] = wk[x]
    BY <1>2 DEF Take, DeliverTypeOK
  <2>2. UNCHANGED urls /\ wk[w].pc = "idle"
    BY <1>2 DEF Take
  <2>3. WorkersEarned'
    <3>1. Earned(u, status[u])' /\ Earned(u, "Progress")'
      BY <2>2, <1>2 DEF Take, CompleteIsDelivered, Earned, CompleteStatus
    <3>2. Earned(wk[w].v, wk[w].snap)' /\ Earned(wk[w].v, wk[w].res)'
      BY <3>1, <2>1, <1>2 DEF Earned, Take
    <3>. QED
      BY <2>1, <2>2, <3>2, SameUrls, WorkersMoved
  <2>4. LastOneStartsTranscription'
    <3>1. \A x \in Videos : Finishing(x) => Finishing(x)'
      BY <2>1, <2>2, StillFinishing
    <3>. QED
      BY <3>1, <2>2, <1>2, LastOneKept DEF Take
  <2>. QED
    BY <1>1, <1>2, <2>2, <2>3, <2>4, SameUrls, StatusSame, ValSame,
       TranscriptSame
    DEF Take, YoutubeOnly
<1>3. ASSUME wk[w].pc \notin {"idle", "saved", "judged", "updated", "told",
                              "starting", "announced"},
             Done(w), UNCHANGED <<status, tstatus, urls, val>>, YoutubeOnly'
      PROVE  Truths'
  <2>1. /\ wk'[w].pc = "idle" /\ \A x \in Workers \ {w} : wk'[x] = wk[x]
    BY <1>3, DoneFields
  <2>2. WorkersEarned'
    BY <1>3, <2>1, SameUrls, WorkersMoved
  <2>3. \A x \in Videos : Finishing(x) => Finishing(x)'
    BY <1>3, <2>1, StillFinishing
  <2>. QED
    BY <1>1, <1>3, <2>2, <2>3, LastOneKept, SameUrls, StatusSame, ValSame,
       TranscriptSame
<1>4. CASE Refuse(w)
  BY <1>3, <1>4 DEF Refuse, store, YoutubeOnly
<1>5. CASE YOUTUBE_SFTP(w)
  <2>1. "youtube" \in Encodes
    BY <1>5, ActiveWorker DEF YOUTUBE_SFTP
  <2>. QED
    BY <1>3, <1>5, <2>1 DEF YOUTUBE_SFTP, YoutubeOnly
<1>6. CASE SaveUrl(w)
  BY <1>6, SavedTruths
<1>7. ASSUME NEW pc \in {"judged", "updated", "told", "starting", "announced"},
             wk[w].pc \in {"saved", "judged", "updated", "told", "starting"},
             wk'[w].pc = pc, wk'[w].v = v, wk'[w].snap = wk[w].snap,
             Earned(v, wk'[w].res),
             pc \in {"starting", "announced"} => Awaited \subseteq urls[v],
             \A x \in Workers \ {w} : wk'[x] = wk[x],
             UNCHANGED <<urls, tstatus, dropbox>>,
             CompleteIsDelivered', ValNeverAhead'
      PROVE  Truths'
  <2>1. WorkersEarned'
    <3>1. Earned(v, wk[w].snap)' /\ Earned(v, wk[w].res)'
      BY <1>0, <1>7 DEF Earned
    <3>. QED
      BY <1>7, <3>1, SameUrls, WorkersMoved
  <2>2. \A x \in Videos : Finishing(x) => Finishing(x)'
    BY <1>7, StillFinishing
  <2>3. LastOneStartsTranscription'
    BY <1>7, <2>2, LastOneKept
  <2>. QED
    BY <1>1, <1>7, <2>1, <2>3, SameUrls, TranscriptSame DEF YoutubeOnly
<1>8. CASE DETERMINE_STATUS(w)
  <2>1. wk[w] \in Delivery /\ v \in Videos /\ Earned(v, wk[w].snap)
    BY <1>0, <1>8, ActiveWorker DEF DETERMINE_STATUS
  <2>2. PICK res \in {"Progress", "Complete"} :
          /\ wk' = [wk EXCEPT ![w].pc = "judged", ![w].res = res]
          /\ res = "Complete" => FAULT(v, wk[w].snap) = {}
    BY <1>8 DEF DETERMINE_STATUS
  <2>3. /\ wk'[w].pc = "judged" /\ wk'[w].v = v
        /\ wk'[w].snap = wk[w].snap /\ wk'[w].res = res
        /\ \A x \in Workers \ {w} : wk'[x] = wk[x]
    BY <2>1, <2>2 DEF DeliverTypeOK, Delivery
  <2>4. Earned(v, res)
    BY <2>1, <2>2, FaultEarned DEF Earned, CompleteStatus
  <2>5. CompleteIsDelivered'
    BY <1>8, <2>1, FaultWritten DEF DETERMINE_STATUS
  <2>6. ValNeverAhead'
    BY <1>8, SameUrls, ValSame DEF DETERMINE_STATUS
  <2>. QED
    BY <1>7, <1>8, <2>3, <2>4, <2>5, <2>6 DEF DETERMINE_STATUS
<1>9. CASE UPDATE_DATA(w)
  <2>1. CompleteIsDelivered'
    BY <1>0, <1>9, StatusWritten DEF UPDATE_DATA, UpdateStatus
  <2>2. ValNeverAhead'
    BY <1>9, SameUrls, ValSame DEF UPDATE_DATA
  <2>. QED
    BY <1>0, <1>7, <1>9, <2>1, <2>2, GotoFields DEF UPDATE_DATA
<1>10. CASE TellDelivery(w)
  <2>1. v \in Videos /\ Earned(v, wk[w].res)
    BY <1>0, <1>10 DEF TellDelivery
  <2>. DEFINE s == IF wk[w].res = "Complete"
                   THEN "file_complete" ELSE "transcode_active"
  <2>2. ValEarned(v, s)
    BY <2>1 DEF ValEarned, Earned, CompleteStatus
  <2>3. CallVal(v, s) /\ UNCHANGED urls
    BY <1>10 DEF TellDelivery
  <2>4. ValNeverAhead'
    BY <2>1, <2>2, <2>3, ValWritten
  <2>5. CompleteIsDelivered'
    BY <1>10, SameUrls, StatusSame DEF TellDelivery
  <2>. QED
    BY <1>0, <1>7, <1>10, <2>4, <2>5, GotoFields DEF TellDelivery
<1>11. CASE CheckReady(w)
  <2>1. /\ v \in Videos /\ wk[w].pc = "told" /\ UNCHANGED store
    BY <1>0, <1>11 DEF CheckReady
  <2>2. CompleteIsDelivered' /\ ValNeverAhead' /\ TranscriptAfterEncodes'
    BY <2>1, SameUrls, StatusSame, ValSame, TranscriptSame DEF store
  <2>3. CASE Goto(w, "starting") /\ IsVideoReady(v)
    <3>1. Awaited \subseteq urls[v]
      BY <2>1, <2>3, ReadyIsAwaited
    <3>. QED
      BY <1>0, <1>7, <2>1, <2>2, <2>3, <3>1, GotoFields DEF store
  <2>4. CASE /\ Done(w)
             /\ ~(IsVideoReady(v) /\ v \in Transcribed \cap HasCredentials)
    <3>1. wk'[w].pc = "idle" /\ \A x \in Workers \ {w} : wk'[x] = wk[x]
      BY <2>4, DoneFields
    <3>2. WorkersEarned'
      BY <2>1, <3>1, SameUrls, WorkersMoved DEF store
    <3>3. LastOneStartsTranscription'
      <4>. SUFFICES ASSUME NEW u \in Transcribed \cap HasCredentials,
                           Awaited # {}, Awaited \subseteq urls[u],
                           tstatus[u] = "PENDING"
                    PROVE  Finishing(u)' \/ u \in lost
        BY <2>1 DEF LastOneStartsTranscription, store
      <4>1. u \in Videos
        BY StoreAssumption
      <4>2. u # v
        BY <2>4, <4>1, ReadyIsAwaited
      <4>3. Finishing(u) => Finishing(u)'
        BY <3>1, <4>1, <4>2, StillFinishing
      <4>. QED
        BY <4>3 DEF LastOneStartsTranscription
    <3>. QED
      BY <1>1, <2>1, <2>2, <3>2, <3>3 DEF store, YoutubeOnly
  <2>. QED
    BY <1>11, <2>3, <2>4 DEF CheckReady
<1>12. CASE TellTranscription(w)
  <2>1. /\ v \in Videos /\ wk[w].pc = "starting" /\ Awaited \subseteq urls[v]
    BY <1>0, <1>12 DEF TellTranscription, WorkersEarned
  <2>2. ValEarned(v, "transcription_in_progress")
    BY <2>1 DEF ValEarned
  <2>3. ValNeverAhead'
    BY <1>12, <2>1, <2>2, ValWritten DEF TellTranscription
  <2>4. CompleteIsDelivered'
    BY <1>12, SameUrls, StatusSame DEF TellTranscription
  <2>. QED
    BY <1>0, <1>7, <1>12, <2>1, <2>3, <2>4, GotoFields DEF TellTranscription
<1>13. CASE StartTranscription(w)
  <2>1. /\ v \in Videos /\ wk[w].pc = "announced" /\ Earned(v, wk[w].snap)
        /\ Awaited \subseteq urls[v]
    BY <1>0, <1>13 DEF StartTranscription, WorkersEarned
  <2>2. /\ status' = [status EXCEPT ![v] = wk[w].snap]
        /\ tstatus' = [tstatus EXCEPT ![v] = "IN PROGRESS"]
        /\ UNCHANGED <<urls, val, jobs, tasks, dropbox>> /\ Done(w)
    BY <1>13 DEF StartTranscription, SaveVideo
  <2>3. wk'[w].pc = "idle" /\ \A x \in Workers \ {w} : wk'[x] = wk[x]
    BY <2>2, DoneFields
  <2>4. CompleteIsDelivered'
    BY <2>1, <2>2, StatusWritten
  <2>5. TranscriptAfterEncodes'
    BY <2>1, <2>2 DEF TranscriptAfterEncodes, StoreTypeOK
  <2>6. WorkersEarned'
    BY <2>2, <2>3, SameUrls, WorkersMoved
  <2>7. LastOneStartsTranscription'
    <3>. SUFFICES ASSUME NEW u \in Transcribed \cap HasCredentials,
                         Awaited # {}, Awaited \subseteq urls[u],
                         tstatus'[u] = "PENDING"
                  PROVE  Finishing(u)' \/ u \in lost
      BY <2>2 DEF LastOneStartsTranscription
    <3>1. u \in Videos
      BY StoreAssumption
    <3>2. u # v /\ tstatus[u] = "PENDING"
      BY <2>1, <2>2, <3>1 DEF StoreTypeOK
    <3>3. Finishing(u) => Finishing(u)'
      BY <2>3, <3>1, <3>2, StillFinishing
    <3>. QED
      BY <3>2, <3>3 DEF LastOneStartsTranscription
  <2>. QED
    BY <1>1, <2>2, <2>4, <2>5, <2>6, <2>7, SameUrls, ValSame DEF YoutubeOnly
<1>. QED
  BY <1>2, <1>4, <1>5, <1>6, <1>8, <1>9, <1>10, <1>11, <1>12, <1>13
  DEF DeliverBy, DeliverStep

-----------------------------------------------------------------------------
(* A heal run moves; what it holds afterwards is true.                       *)
LEMMA HealersMoved ==
  ASSUME HealTypeOK, UNCHANGED urls, HealersEarned, NEW h \in Healers,
         \A x \in Healers \ {h} : hl'[x] = hl[x],
         hl'[h].pc # "idle" =>
           /\ hl'[h].skips \subseteq Uncounted
           /\ \A o \in hl'[h].todo :
                /\ Earned(o.v, o.status)
                /\ o.tstatus \in Started => Awaited \subseteq urls[o.v],
         hl'[h].pc \in {"report", "tell"} => ValEarned(hl'[h].v, hl'[h].sends)
  PROVE  HealersEarned'
<1>. SUFFICES ASSUME NEW x \in Healers
              PROVE  /\ hl'[x].pc # "idle" =>
                          /\ hl'[x].skips \subseteq Uncounted
                          /\ \A o \in hl'[x].todo :
                               /\ Earned(o.v, o.status)'
                               /\ o.tstatus \in Started
                                    => Awaited \subseteq urls'[o.v]
                     /\ hl'[x].pc \in {"report", "tell"}
                          => ValEarned(hl[x].v, hl[x].sends)'
  BY DEF HealersEarned
<1>1. CASE x = h
  BY <1>1 DEF Earned, ValEarned
<1>2. CASE x # h
  <2>1. hl'[x] = hl[x]
    BY <1>2
  <2>. QED
    BY <2>1 DEF HealersEarned, Earned, ValEarned
<1>. QED
  BY <1>1, <1>2

(* The loop goes on with objects it had already.                             *)
LEMMA NextVideoEarned ==
  ASSUME HealTypeOK, UNCHANGED urls, HealersEarned, NEW h \in Healers,
         hl[h].pc # "idle", NextVideo(h)
  PROVE  HealersEarned'
<1>1. /\ \A x \in Healers \ {h} : hl'[x] = hl[x]
      /\ hl'[h] = IF hl[h].todo = {} THEN NotHealing
                  ELSE [pc |-> "next", todo |-> hl[h].todo,
                        skips |-> hl[h].skips]
  BY DEF NextVideo, HealTypeOK
<1>2. hl'[h].pc \notin {"report", "tell"}
  BY <1>1 DEF NotHealing
<1>3. hl'[h].pc # "idle" => hl'[h].todo = hl[h].todo /\ hl'[h].skips = hl[h].skips
  BY <1>1 DEF NotHealing
<1>. QED
  BY <1>1, <1>2, <1>3, HealersMoved DEF HealersEarned

LEMMA TreatEarned ==
  ASSUME HealTypeOK, UNCHANGED urls, HealersEarned, NEW h \in Healers,
         hl[h].pc # "idle", NEW o, NEW pc, NEW list, NEW sends,
         ValEarned(o.v, sends), Treat(h, o, pc, list, sends)
  PROVE  HealersEarned'
<1>1. /\ \A x \in Healers \ {h} : hl'[x] = hl[x]
      /\ hl'[h] = [pc |-> pc, todo |-> hl[h].todo \ {o},
                   skips |-> hl[h].skips, v |-> o.v, list |-> list,
                   sends |-> sends]
  BY DEF Treat, HealTypeOK
<1>2. /\ hl'[h].v = o.v /\ hl'[h].sends = sends
      /\ hl'[h].skips = hl[h].skips /\ hl'[h].todo = hl[h].todo \ {o}
  BY <1>1
<1>. QED
  BY <1>1, <1>2, HealersMoved DEF HealersEarned

(* Heal sees what is missing but for the encodes --no_audio leaves out, none *)
(* of which counts: what it finds complete is complete.                      *)
LEMMA HealSeesCounted ==
  ASSUME HealersEarned, NEW h \in Healers, hl[h].pc # "idle", NEW v,
         Uncompleted(h, v) \subseteq Uncounted
  PROVE  Counted \subseteq urls[v]
BY DEF HealersEarned, Uncompleted, Missing, Counted

LEMMA ReportEarned ==
  ASSUME NEW v, NEW t, Counted \subseteq urls[v],
         t \in Started => Awaited \subseteq urls[v]
  PROVE  ValEarned(v, TranscriptStatusInVal(t))
BY DEF TranscriptStatusInVal, ValEarned, Started

LEMMA HealTruths ==
  ASSUME TypeOK, Truths, NEW h \in Healers, HealBy(h)
  PROVE  Truths'
<1>. USE DEF TypeOK, Truths
<1>. UNCHANGED <<wk, reports, yc, tc, calls, crashes, lost>>
  BY DEF HealBy
<1>1. ASSUME UNCHANGED <<urls, tstatus, dropbox>>, CompleteIsDelivered',
             ValNeverAhead', HealersEarned'
      PROVE  Truths'
  <2>1. LastOneStartsTranscription'
    BY <1>1, LastOneKept DEF Finishing
  <2>. QED
    BY <1>1, <2>1, SameUrls, TranscriptSame, WorkersKept, CallbackKept,
       UpdatesKept
    DEF YoutubeOnly
<1>2. ASSUME NEW o \in VideoObject, SkipDuplicate(h, o)
      PROVE  Truths'
  <2>1. /\ hl[h].pc # "idle" /\ UNCHANGED store
        /\ Treat(h, o, "report", {}, "duplicate")
    BY <1>2 DEF SkipDuplicate
  <2>2. ValEarned(o.v, "duplicate")
    BY DEF ValEarned
  <2>3. HealersEarned'
    BY <2>1, <2>2, TreatEarned DEF store
  <2>. QED
    BY <1>1, <2>1, <2>3, SameUrls, StatusSame, ValSame DEF store
<1>3. ASSUME NEW o \in VideoObject, DetermineFault(h, o)
      PROVE  Truths'
  <2>1. /\ hl[h].pc # "idle" /\ o \in hl[h].todo /\ o.v \in Videos
        /\ UNCHANGED <<tstatus, urls, val, jobs, tasks, dropbox>>
    BY <1>3 DEF DetermineFault, VideoObject
  <2>2. CompleteIsDelivered'
    <3>1. CASE UNCHANGED status
      BY <2>1, <3>1, SameUrls, StatusSame
    <3>2. CASE /\ Uncompleted(h, o.v) \subseteq Uncounted
               /\ UpdateStatus(o.v, "Complete")
      <4>1. Earned(o.v, "Complete")
        BY <2>1, <3>2, HealSeesCounted DEF Earned
      <4>. QED
        BY <2>1, <3>2, <4>1, StatusWritten DEF UpdateStatus
    <3>. QED
      BY <1>3, <3>1, <3>2 DEF DetermineFault
  <2>3. HealersEarned'
    <3>1. CASE /\ Uncompleted(h, o.v) = {}
               /\ Treat(h, o, "report", {}, TranscriptStatusInVal(o.tstatus))
      <4>1. Counted \subseteq urls[o.v]
        BY <2>1, <3>1, HealSeesCounted
      <4>2. ValEarned(o.v, TranscriptStatusInVal(o.tstatus))
        BY <2>1, <4>1, ReportEarned DEF HealersEarned
      <4>. QED
        BY <2>1, <3>1, <4>2, TreatEarned
    <3>2. CASE Treat(h, o, "tell", Uncompleted(h, o.v), "transcode_queue")
      <4>1. ValEarned(o.v, "transcode_queue")
        BY DEF ValEarned
      <4>. QED
        BY <2>1, <3>2, <4>1, TreatEarned
    <3>. QED
      BY <1>3, <3>1, <3>2 DEF DetermineFault
  <2>. QED
    BY <1>1, <2>1, <2>2, <2>3, SameUrls, ValSame
<1>4. CASE Report(h)
  <2>1. /\ hl[h].pc # "idle" /\ CallVal(hl[h].v, hl[h].sends) /\ NextVideo(h)
        /\ UNCHANGED <<status, tstatus, urls, jobs, tasks, dropbox>>
        /\ hl[h].v \in Videos /\ ValEarned(hl[h].v, hl[h].sends)
    BY <1>4, HealerCases DEF Report, Healing, HealersEarned
  <2>2. ValNeverAhead'
    BY <2>1, ValWritten
  <2>. QED
    BY <1>1, <2>1, <2>2, SameUrls, StatusSame, NextVideoEarned
<1>5. CASE TellQueued(h)
  <2>1. /\ hl[h] \in Healing /\ CallVal(hl[h].v, hl[h].sends)
        /\ hl' = [hl EXCEPT ![h].pc = "enqueue"]
        /\ UNCHANGED <<status, tstatus, urls, jobs, tasks, dropbox>>
        /\ hl[h].v \in Videos /\ ValEarned(hl[h].v, hl[h].sends)
        /\ hl[h].pc = "tell"
    BY <1>5, HealerCases DEF TellQueued, Healing, HealersEarned
  <2>2. ValNeverAhead'
    BY <2>1, ValWritten
  <2>3. /\ hl'[h].pc = "enqueue" /\ hl'[h].todo = hl[h].todo
        /\ hl'[h].skips = hl[h].skips
        /\ \A x \in Healers \ {h} : hl'[x] = hl[x]
    BY <2>1 DEF HealTypeOK, Healing
  <2>4. HealersEarned'
    BY <2>1, <2>3, HealersMoved DEF HealersEarned
  <2>. QED
    BY <1>1, <2>1, <2>2, <2>4, SameUrls, StatusSame
<1>6. ASSUME NEW e \in Encodes, Enqueue(h, e)
      PROVE  Truths'
  <2>1. /\ hl[h] \in Healing /\ hl[h].pc = "enqueue"
        /\ UNCHANGED <<status, tstatus, urls, val, tasks, dropbox>>
    BY <1>6, HealerCases DEF Enqueue
  <2>2. PICK pc \in {"enqueue", "mark"} :
          hl' = [hl EXCEPT ![h].list = @ \ {e}, ![h].pc = pc]
    BY <1>6, <2>1 DEF Enqueue, HealTypeOK
  <2>3. /\ hl'[h].pc = pc /\ hl'[h].todo = hl[h].todo
        /\ hl'[h].skips = hl[h].skips
        /\ \A x \in Healers \ {h} : hl'[x] = hl[x]
    BY <2>1, <2>2 DEF HealTypeOK, Healing
  <2>4. HealersEarned'
    BY <2>1, <2>3, HealersMoved DEF HealersEarned
  <2>. QED
    BY <1>1, <2>1, <2>4, SameUrls, StatusSame, ValSame
<1>7. CASE MarkQueued(h)
  <2>1. /\ hl[h].pc # "idle" /\ hl[h].v \in Videos
        /\ UpdateStatus(hl[h].v, "Queue") /\ NextVideo(h)
        /\ UNCHANGED <<tstatus, urls, val, jobs, tasks, dropbox>>
    BY <1>7, HealerCases DEF MarkQueued, Healing
  <2>2. Earned(hl[h].v, "Queue")
    BY DEF Earned, CompleteStatus
  <2>3. CompleteIsDelivered'
    BY <2>1, <2>2, StatusWritten DEF UpdateStatus
  <2>. QED
    BY <1>1, <2>1, <2>3, SameUrls, ValSame, NextVideoEarned
<1>. QED
  BY <1>2, <1>3, <1>4, <1>5, <1>6, <1>7 DEF HealBy, HealStep

(* A query reads rows, and what the rows say is true.                        *)
LEMMA SweepTruths ==
  ASSUME TypeOK, Truths, NEW h \in Healers, NEW query \in SUBSET Videos,
         SweepBy(h, query)
  PROVE  Truths'
<1>. USE DEF TypeOK, Truths
<1>1. PICK skips \in {{}, {"audio_mp3"} \cap Encodes} :
        StartSweep(h, query, skips)
  BY DEF SweepBy
<1>2. UNCHANGED store /\ UNCHANGED <<wk, reports, yc, tc, calls, crashes, lost>>
  BY <1>1 DEF SweepBy, StartSweep
<1>3. /\ hl'[h].pc = "next" /\ hl'[h].skips = skips
      /\ hl'[h].todo = {[v |-> v, status |-> status[v],
                         tstatus |-> tstatus[v]] : v \in query}
      /\ \A x \in Healers \ {h} : hl'[x] = hl[x]
  BY <1>1 DEF StartSweep, HealTypeOK
<1>4. skips \subseteq Uncounted
  BY DEF Uncounted
<1>5. ASSUME NEW o \in hl'[h].todo
      PROVE  /\ Earned(o.v, o.status)
             /\ o.tstatus \in Started => Awaited \subseteq urls[o.v]
  BY <1>3, <1>5 DEF CompleteIsDelivered, TranscriptAfterEncodes
<1>6. HealersEarned'
  BY <1>2, <1>3, <1>4, <1>5, HealersMoved DEF store
<1>7. LastOneStartsTranscription'
  BY <1>2, LastOneKept DEF Finishing, store
<1>. QED
  BY <1>2, <1>6, <1>7, SameUrls, StatusSame, ValSame, TranscriptSame,
     WorkersKept, CallbackKept, UpdatesKept
  DEF store, YoutubeOnly

-----------------------------------------------------------------------------
(* The callback daemon.                                                      *)
LEMMA NextReportEarned ==
  ASSUME NextReport
  PROVE  CallbackEarned'
<1>1. CASE yc' = NotPatching
  BY <1>1 DEF CallbackEarned, NotPatching
<1>2. ASSUME NEW todo, NEW r,
             yc' = [pc |-> "read", todo |-> todo, r |-> r, snap |-> "Ingest"]
      PROVE  CallbackEarned'
  <2>1. yc'.pc = "read" /\ yc'.snap = "Ingest"
    BY <1>2
  <2>. QED
    BY <2>1 DEF CallbackEarned, Earned, CompleteStatus
<1>. QED
  BY <1>1, <1>2 DEF NextReport

LEMMA PatchGotoEarned ==
  ASSUME CallbackTypeOK, yc.pc # "idle", UNCHANGED urls, CallbackEarned,
         NEW pc, PatchGoto(pc),
         pc \in {"complete", "tell_complete"} => Earned(yc.r[1], "Complete")
  PROVE  CallbackEarned'
<1>1. yc' = [yc EXCEPT !.pc = pc] /\ yc \in Patch
  BY PatchCases DEF PatchGoto
<1>2. yc'.pc = pc /\ yc'.r = yc.r /\ yc'.snap = yc.snap
  BY <1>1 DEF Patch
<1>. QED
  BY <1>2 DEF CallbackEarned, Earned

LEMMA AddUrlTruths ==
  ASSUME TypeOK, Truths, AddUrl, UNCHANGED <<wk, hl, tc, calls, crashes, lost>>
  PROVE  Truths'
<1>. USE DEF TypeOK, Truths
<1>1. /\ yc \in Patch /\ yc.r[1] \in Videos /\ yc.pc = "add"
      /\ urls' = [urls EXCEPT ![yc.r[1]] = @ \cup {"youtube"}]
      /\ UNCHANGED <<status, tstatus, val, jobs, tasks, dropbox, reports>>
  BY PatchCases DEF AddUrl
<1>2. Grow
  BY <1>1 DEF Grow, StoreTypeOK
<1>3. yc'.pc = "check" /\ yc'.r = yc.r /\ yc'.snap = yc.snap
  BY <1>1 DEF AddUrl, PatchGoto, Patch
<1>4. CallbackEarned'
  <2>1. Earned(yc.r[1], yc.snap)
    BY <1>1 DEF CallbackEarned
  <2>. QED
    BY <1>1, <1>2, <1>3, <2>1 DEF CallbackEarned, Earned, Grow
<1>5. LastOneStartsTranscription'
  <2>1. ASSUME NEW v \in Videos, Awaited \subseteq urls'[v]
        PROVE  Awaited \subseteq urls[v]
    BY <1>1, <2>1 DEF Awaited, NotAwaited, StoreTypeOK
  <2>. QED
    BY <1>1, <2>1, LastOneKept DEF Finishing
<1>6. YoutubeOnly'
  BY <1>1 DEF YoutubeOnly
<1>. QED
  BY <1>1, <1>2, <1>4, <1>5, <1>6, StatusSame, ValSame, TranscriptSame,
     WorkersKept, HealersKept, UpdatesKept

LEMMA CallbackTruths ==
  ASSUME TypeOK, Truths, CallbackNext
  PROVE  Truths'
<1>. USE DEF TypeOK, Truths
<1>. UNCHANGED <<wk, hl, tc, calls, crashes, lost>>
  BY DEF CallbackNext
<1>1. ASSUME UNCHANGED <<urls, tstatus, dropbox, reports>>,
             yc.pc # "idle" \/ reports # {},
             CompleteIsDelivered', ValNeverAhead', CallbackEarned'
      PROVE  Truths'
  <2>1. LastOneStartsTranscription'
    BY <1>1, LastOneKept DEF Finishing
  <2>. QED
    BY <1>1, <2>1, SameUrls, TranscriptSame, WorkersKept, HealersKept,
       UpdatesKept
    DEF YoutubeOnly
<1>2. CASE StartCrawl
  <2>1. PICK r \in reports :
          yc' = [pc |-> "read", todo |-> reports, r |-> r, snap |-> "Ingest"]
    BY <1>2 DEF StartCrawl
  <2>2. CallbackEarned'
    BY <2>1 DEF CallbackEarned, Earned, CompleteStatus
  <2>. QED
    BY <1>1, <1>2, <2>2, SameUrls, StatusSame, ValSame DEF StartCrawl, store
<1>3. CASE ReadVideo
  <2>1. /\ yc \in Patch /\ yc.r[1] \in Videos /\ yc.pc = "read"
        /\ UNCHANGED <<store, reports>>
    BY <1>3, PatchCases DEF ReadVideo
  <2>2. PICK pc \in {"add", "duplicate"} :
          yc' = [yc EXCEPT !.pc = pc, !.snap = status[yc.r[1]]]
    BY <1>3 DEF ReadVideo
  <2>3. yc'.pc = pc /\ yc'.r = yc.r /\ yc'.snap = status[yc.r[1]]
    BY <2>1, <2>2 DEF Patch
  <2>4. CallbackEarned'
    BY <2>1, <2>3 DEF CallbackEarned, CompleteIsDelivered, Earned, store
  <2>. QED
    BY <1>1, <2>1, <2>4, SameUrls, StatusSame, ValSame DEF store
<1>4. CASE AddUrl
  BY <1>4, AddUrlTruths
<1>5. CASE CheckDuplicate
  BY <1>1, <1>5, PatchGotoEarned, SameUrls, StatusSame, ValSame
  DEF CheckDuplicate, store
<1>6. CASE ClearDuplicate
  <2>1. yc.r[1] \in Videos /\ Earned(yc.r[1], "Progress")
    BY <1>6, PatchCases DEF ClearDuplicate, Earned, CompleteStatus
  <2>2. CompleteIsDelivered'
    BY <1>6, <2>1, StatusWritten DEF ClearDuplicate, UpdateStatus
  <2>. QED
    BY <1>1, <1>6, <2>2, PatchGotoEarned, SameUrls, ValSame DEF ClearDuplicate
<1>7. CASE PatchFault
  <2>1. yc.r[1] \in Videos /\ Earned(yc.r[1], yc.snap)
    BY <1>7, PatchCases DEF PatchFault, CallbackEarned
  <2>2. CompleteIsDelivered'
    BY <1>7, <2>1, FaultWritten DEF PatchFault
  <2>3. CallbackEarned'
    <3>1. CASE FAULT(yc.r[1], yc.snap) = {}
      BY <1>7, <2>1, <3>1, FaultEarned, PatchGotoEarned DEF PatchFault
    <3>2. CASE FAULT(yc.r[1], yc.snap) # {}
      BY <1>7, <3>2, PatchGotoEarned DEF PatchFault
    <3>. QED
      BY <3>1, <3>2
  <2>. QED
    BY <1>1, <1>7, <2>2, <2>3, SameUrls, ValSame DEF PatchFault
<1>8. CASE PatchComplete
  <2>1. yc.r[1] \in Videos /\ Earned(yc.r[1], "Complete")
    BY <1>8, PatchCases DEF PatchComplete, CallbackEarned
  <2>2. CompleteIsDelivered'
    BY <1>8, <2>1, StatusWritten DEF PatchComplete, UpdateStatus
  <2>. QED
    BY <1>1, <1>8, <2>1, <2>2, PatchGotoEarned, SameUrls, ValSame
    DEF PatchComplete
<1>9. CASE PatchDuplicate
  <2>1. /\ yc.r[1] \in Videos /\ Earned(yc.r[1], "Youtube Duplicate")
    BY <1>9, PatchCases DEF PatchDuplicate, Earned, CompleteStatus
  <2>2. CompleteIsDelivered'
    BY <1>9, <2>1, StatusWritten, SameUrls, StatusSame
    DEF PatchDuplicate, UpdateStatus
  <2>3. CallbackEarned'
    BY <1>9, PatchGotoEarned, NextReportEarned DEF PatchDuplicate
  <2>. QED
    BY <1>1, <1>9, <2>2, <2>3, SameUrls, ValSame DEF PatchDuplicate
<1>10. CASE TellPatch
  <2>1. /\ yc.pc # "idle" /\ NextReport
        /\ UNCHANGED <<status, tstatus, urls, jobs, tasks, dropbox, reports>>
    BY <1>10 DEF TellPatch
  <2>2. yc.r[1] \in Videos
    BY <2>1, PatchCases
  <2>3. ValNeverAhead'
    <3>1. CASE yc.pc = "tell_complete" /\ TellVal(yc.r[1], "file_complete")
      <4>1. ValEarned(yc.r[1], "file_complete")
        BY <3>1 DEF CallbackEarned, ValEarned, Earned, CompleteStatus
      <4>. QED
        BY <2>1, <2>2, <3>1, <4>1, ValWritten
    <3>2. ASSUME NEW s \in {"transcode_active", "duplicate"},
                 TellVal(yc.r[1], s)
          PROVE  ValNeverAhead'
      <4>1. ValEarned(yc.r[1], s)
        BY DEF ValEarned
      <4>. QED
        BY <2>1, <2>2, <3>2, <4>1, ValWritten
    <3>. QED
      BY <1>10, <3>1, <3>2 DEF TellPatch
  <2>. QED
    BY <1>1, <2>1, <2>3, NextReportEarned, SameUrls, StatusSame
<1>. QED
  BY <1>2, <1>3, <1>4, <1>5, <1>6, <1>7, <1>8, <1>9, <1>10
  DEF CallbackNext, CallbackStep

-----------------------------------------------------------------------------
(* The transcript callbacks.                                                 *)
LEMMA UpdatesMoved ==
  ASSUME UNCHANGED urls, UpdatesEarned, NEW v \in Videos,
         \A u \in Videos \ {v} : tc'[u] = tc[u],
         tc'[v].pc # "idle" => /\ Earned(v, tc'[v].snap)
                               /\ Awaited \subseteq urls[v]
  PROVE  UpdatesEarned'
BY DEF UpdatesEarned, Earned

LEMMA UpdateTruths ==
  ASSUME TypeOK, Truths, NEW v \in Videos, UpdateNext(v)
  PROVE  Truths'
<1>. USE DEF TypeOK, Truths
<1>. UNCHANGED <<wk, hl, reports, yc, crashes, lost>>
  BY DEF UpdateNext
<1>1. ASSUME UNCHANGED <<urls, dropbox>>, CompleteIsDelivered', ValNeverAhead',
             TranscriptAfterEncodes', LastOneStartsTranscription',
             UpdatesEarned'
      PROVE  Truths'
  BY <1>1, SameUrls, WorkersKept, HealersKept, CallbackKept DEF YoutubeOnly
<1>2. CASE LoadVideo(v)
  <2>1. /\ UNCHANGED store /\ Awaited \subseteq urls[v]
        /\ tc' = [tc EXCEPT ![v] = [pc |-> "loaded", snap |-> status[v]]]
    BY <1>2 DEF LoadVideo, TranscriptAfterEncodes, Started
  <2>2. UpdatesEarned'
    BY <2>1, UpdatesMoved DEF UpdateTypeOK, CompleteIsDelivered, store
  <2>3. LastOneStartsTranscription'
    BY <2>1, LastOneKept DEF Finishing, store
  <2>. QED
    BY <1>1, <2>1, <2>2, <2>3, SameUrls, StatusSame, ValSame, TranscriptSame
    DEF store
<1>3. CASE TellReady(v)
  <2>1. /\ tc[v] \in Callback /\ Awaited \subseteq urls[v]
        /\ Earned(v, tc[v].snap) /\ TellVal(v, "transcript_ready")
        /\ tc' = [tc EXCEPT ![v].pc = "told"]
        /\ UNCHANGED <<status, tstatus, urls, jobs, tasks, dropbox, calls>>
    BY <1>3 DEF TellReady, UpdateTypeOK, NoCallback, UpdatesEarned
  <2>2. /\ tc'[v].snap = tc[v].snap
        /\ \A u \in Videos \ {v} : tc'[u] = tc[u]
    BY <2>1 DEF UpdateTypeOK, Callback
  <2>3. ValNeverAhead'
    <3>1. ValEarned(v, "transcript_ready")
      BY <2>1 DEF ValEarned
    <3>. QED
      BY <2>1, <3>1, ValWritten
  <2>4. LastOneStartsTranscription'
    BY <2>1, LastOneKept DEF Finishing
  <2>5. UpdatesEarned'
    BY <2>1, <2>2, UpdatesMoved
  <2>. QED
    BY <1>1, <2>1, <2>3, <2>4, <2>5, SameUrls, StatusSame, TranscriptSame
<1>4. CASE SaveReady(v)
  <2>1. /\ Awaited \subseteq urls[v] /\ Earned(v, tc[v].snap)
        /\ status' = [status EXCEPT ![v] = tc[v].snap]
        /\ tstatus' = [tstatus EXCEPT ![v] = "READY"]
        /\ tc' = [tc EXCEPT ![v] = NoCallback]
        /\ UNCHANGED <<urls, val, jobs, tasks, dropbox, calls>>
    BY <1>4 DEF SaveReady, SaveVideo, UpdatesEarned
  <2>2. CompleteIsDelivered'
    BY <2>1, StatusWritten
  <2>3. TranscriptAfterEncodes'
    BY <2>1 DEF TranscriptAfterEncodes, StoreTypeOK
  <2>4. LastOneStartsTranscription'
    <3>1. \A u \in Videos : tstatus'[u] = "PENDING" => tstatus[u] = "PENDING"
      BY <2>1 DEF StoreTypeOK
    <3>. QED
      BY <2>1, <3>1, StoreAssumption DEF LastOneStartsTranscription, Finishing
  <2>5. UpdatesEarned'
    BY <2>1, UpdatesMoved DEF UpdateTypeOK, NoCallback
  <2>. QED
    BY <1>1, <2>1, <2>2, <2>3, <2>4, <2>5, SameUrls, ValSame
<1>. QED
  BY <1>2, <1>3, <1>4 DEF UpdateNext, UpdateStep

-----------------------------------------------------------------------------
(* YouTube, the encode worker, and the death of a task.                      *)
LEMMA StoreTruths ==
  ASSUME TypeOK, Truths, YoutubeOnly',
         UNCHANGED <<status, tstatus, urls, val, wk, hl, yc, tc, lost>>
  PROVE  Truths'
<1>. USE DEF TypeOK, Truths
<1>1. LastOneStartsTranscription'
  BY LastOneKept DEF Finishing
<1>. QED
  BY <1>1, SameUrls, StatusSame, ValSame, TranscriptSame, WorkersKept,
     HealersKept, CallbackKept, UpdatesKept

LEMMA CrashTruths ==
  ASSUME TypeOK, Truths, CrashNext
  PROVE  Truths'
<1>. USE DEF TypeOK, Truths
<1>1. UNCHANGED store /\ UNCHANGED <<reports, calls>>
  BY DEF CrashNext
<1>2. \A w \in Workers : wk'[w] = wk[w] \/ wk'[w] = Idle
  BY DEF CrashNext, Crash, DeliverTypeOK
<1>3. \A h \in Healers : hl'[h] = hl[h] \/ hl'[h] = NotHealing
  BY DEF CrashNext, Crash, HealTypeOK
<1>4. yc' = yc \/ yc' = NotPatching
  BY DEF CrashNext, Crash
<1>5. \A v \in Videos : tc'[v] = tc[v] \/ tc'[v] = NoCallback
  BY DEF CrashNext, Crash, UpdateTypeOK
<1>. UNCHANGED <<urls, dropbox>>
  BY <1>1 DEF store
<1>6. WorkersEarned'
  <2>1. ASSUME NEW w \in Workers, wk'[w].pc # "idle"
        PROVE  wk'[w] = wk[w]
    BY <1>2, <2>1 DEF Idle
  <2>. QED
    BY <2>1 DEF WorkersEarned, Earned
<1>7. HealersEarned'
  <2>1. ASSUME NEW h \in Healers, hl'[h].pc # "idle"
        PROVE  hl'[h] = hl[h]
    BY <1>3, <2>1 DEF NotHealing
  <2>2. \A h \in Healers : hl'[h].pc \in {"report", "tell"} => hl'[h].pc # "idle"
    OBVIOUS
  <2>. QED
    BY <2>1, <2>2 DEF HealersEarned, Earned, ValEarned
<1>8. CallbackEarned' /\ YoutubeOnly'
  <2>1. yc'.pc # "idle" => yc' = yc
    BY <1>4 DEF NotPatching
  <2>. QED
    BY <1>1, <2>1 DEF CallbackEarned, YoutubeOnly, Earned
<1>9. UpdatesEarned'
  <2>1. ASSUME NEW v \in Videos, tc'[v].pc # "idle"
        PROVE  tc'[v] = tc[v]
    BY <1>5, <2>1 DEF NoCallback
  <2>. QED
    BY <2>1 DEF UpdatesEarned, Earned
<1>10. LastOneStartsTranscription'
  <2>1. CASE wk' = wk /\ lost' = lost
    BY <1>1, <2>1, LastOneKept DEF Finishing, store
  <2>2. ASSUME NEW w \in Workers, wk' = [wk EXCEPT ![w] = Idle],
               lost' = lost \cup {wk[w].v}
        PROVE  LastOneStartsTranscription'
    <3>1. \A x \in Workers \ {w} : wk'[x] = wk[x]
      BY <2>2 DEF DeliverTypeOK
    <3>2. ASSUME NEW v \in Videos, Finishing(v)
          PROVE  Finishing(v)' \/ v \in lost'
      BY <2>2, <3>1, <3>2, StillFinishing
    <3>. QED
      BY <1>1, <2>2, <3>2, StoreAssumption
      DEF LastOneStartsTranscription, store
  <2>. QED
    BY <2>1, <2>2 DEF CrashNext, Crash
<1>. QED
  BY <1>1, <1>6, <1>7, <1>8, <1>9, <1>10, SameUrls, StatusSame, ValSame,
     TranscriptSame
  DEF store

-----------------------------------------------------------------------------
(* The invariant of the pipeline.                                            *)
LEMMA InvIsTruths == IInv <=> TypeOK /\ Truths
BY DEF IInv, Truths

LEMMA ZeroInBounds ==
  0 \in 0..MaxCopies /\ 0 \in 0..MaxCrashes /\ 0 \in 0..MaxCallbacks
BY StoreAssumption, PipelineAssumption

LEMMA InitInv == Init => IInv
<1>. SUFFICES ASSUME Init
              PROVE  TypeOK /\ Truths
  BY InvIsTruths
<1>. USE DEF Init, StoreInit, DeliverInit, HealInit, CallbackInit, UpdateInit
<1>1. StoreTypeOK
  <2>1. [e \in Encodes |-> 0] \in [Encodes -> 0..MaxCopies]
    BY ZeroInBounds
  <2>2. /\ jobs \in [Videos -> [Encodes -> 0..MaxCopies]]
        /\ tasks \in [Videos -> [Encodes -> 0..MaxCopies]]
    BY <2>1
  <2>3. /\ status \in [Videos -> Status]
        /\ tstatus \in [Videos -> TranscriptStatus]
        /\ val \in [Videos -> ValStatus]
    BY DEF Status, TranscriptStatus, ValStatus
  <2>. QED
    BY <2>2, <2>3 DEF StoreTypeOK
<1>2. TypeOK
  BY <1>1, ZeroInBounds
  DEF TypeOK, DeliverTypeOK, HealTypeOK, CallbackTypeOK, UpdateTypeOK
<1>3. CompleteIsDelivered /\ ValNeverAhead /\ TranscriptAfterEncodes
  BY DEF CompleteIsDelivered, ValNeverAhead, TranscriptAfterEncodes, Earned,
         ValEarned, CompleteStatus, Started
<1>4. LastOneStartsTranscription
  <2>1. \A v \in Transcribed : urls[v] = {}
    BY StoreAssumption
  <2>. QED
    BY <2>1 DEF LastOneStartsTranscription
<1>5. WorkersEarned /\ HealersEarned /\ CallbackEarned /\ UpdatesEarned
  BY DEF WorkersEarned, HealersEarned, CallbackEarned, UpdatesEarned, Idle,
         NotHealing, NotPatching, NoCallback
<1>6. YoutubeOnly
  BY DEF YoutubeOnly, NotPatching
<1>. QED
  BY <1>2, <1>3, <1>4, <1>5, <1>6 DEF Truths

LEMMA TruthsStep ==
  ASSUME TypeOK, Truths, [Next]_vars
  PROVE  Truths'
<1>1. ASSUME NEW v \in Videos, UploadNext(v)
      PROVE  Truths'
  <2>1. YoutubeOnly'
    BY <1>1 DEF Truths, YoutubeOnly, UploadNext, YoutubeProcesses
  <2>. QED
    BY <1>1, <2>1, StoreTruths DEF UploadNext, YoutubeProcesses
<1>2. ASSUME NEW v \in Videos, NEW e \in Encodes, EncodeNext(v, e)
      PROVE  Truths'
  <2>1. UNCHANGED <<status, tstatus, urls, val, dropbox, wk, hl, reports, yc,
                    tc, lost>>
    BY <1>2 DEF EncodeNext, EncodeSucceeds, EncodeFails
  <2>. QED
    BY <2>1, StoreTruths DEF Truths, YoutubeOnly
<1>3. CASE UNCHANGED vars
  BY <1>3, StoreTruths DEF vars, Truths, YoutubeOnly
<1>. QED
  BY <1>1, <1>2, <1>3, DeliverTruths, HealTruths, SweepTruths, CallbackTruths,
     UpdateTruths, CrashTruths
  DEF Next

LEMMA InvStep == IInv /\ [Next]_vars => IInv'
<1>. SUFFICES ASSUME TypeOK, Truths, [Next]_vars
              PROVE  TypeOK' /\ Truths'
  BY InvIsTruths DEF IInv, Truths
<1>. QED
  BY TypeStep, TruthsStep DEF Truths

(* The strengthened invariant holds in every state of every run.             *)
THEOREM Invariance == Spec => []IInv
BY InitInv, InvStep, PTL DEF Spec

(* Every variable keeps its type: no queue grows beyond its bound, no object *)
(* a process holds is anything but a row of the database.                    *)
THEOREM TypeCorrect == Spec => []TypeOK
<1>1. IInv => TypeOK
  BY DEF IInv
<1>. QED
  BY <1>1, Invariance, PTL

(* Whatever the interleaving of workers, heal runs, daemon and callbacks, no *)
(* stale row ever marks an unfinished video complete, or a good one corrupt. *)
THEOREM StatusCorrect == Spec => []CompleteIsDelivered
<1>1. IInv => CompleteIsDelivered
  BY DEF IInv
<1>. QED
  BY <1>1, Invariance, PTL

(* No report to edx-val, however late, is ahead of the URL rows.             *)
THEOREM ValCorrect == Spec => []ValNeverAhead
<1>1. IInv => ValNeverAhead
  BY DEF IInv
<1>. QED
  BY <1>1, Invariance, PTL

(* No transcription is under way before the encodes it waits for.            *)
THEOREM TranscriptCorrect == Spec => []TranscriptAfterEncodes
<1>1. IInv => TranscriptAfterEncodes
  BY DEF IInv
<1>. QED
  BY <1>1, Invariance, PTL

(* However many workers deliver side by side, one of them starts the         *)
(* transcription, unless a delivery task of the video died.                  *)
THEOREM TranscriptStarted == Spec => []LastOneStartsTranscription
<1>1. IInv => LastOneStartsTranscription
  BY DEF IInv
<1>. QED
  BY <1>1, Invariance, PTL

-----------------------------------------------------------------------------
(* The pipeline implements VideoPromise: every step of a process is a step   *)
(* of the promise, or invisible to it.                                       *)
Complete == [v \in Videos |-> status[v] \in CompleteStatus]
Begun == [v \in Videos |-> tstatus[v] \in Started]

(* What a step of the pipeline can do to the rows the promise is about.      *)
Adds(v, e) ==
  /\ urls' = [urls EXCEPT ![v] = @ \cup {e}]
  /\ UNCHANGED <<status, tstatus>>

Writes(v, s) ==
  /\ status' = [status EXCEPT ![v] = s]
  /\ UNCHANGED <<urls, tstatus>>

Saves(v, s, t) ==
  /\ status' = [status EXCEPT ![v] = s]
  /\ tstatus' = [tstatus EXCEPT ![v] = t]
  /\ UNCHANGED urls

Quiet == UNCHANGED <<urls, status, tstatus>>

Visible ==
  \/ Quiet
  \/ \E v \in Videos, e \in Encodes : Adds(v, e)
  \/ \E v \in Videos : \E s \in Status : Writes(v, s)
  \/ \E v \in Videos : \E s \in Status, t \in Started : Saves(v, s, t)

(* The word about a video follows its status.                                *)
LEMMA WordFollows ==
  ASSUME TypeOK, NEW v \in Videos, NEW s \in Status,
         status' = [status EXCEPT ![v] = s]
  PROVE  Complete' = [Complete EXCEPT ![v] = s \in CompleteStatus]
BY DEF Complete, TypeOK, StoreTypeOK

(* The abstract steps.                                                       *)
LEMMA AddsDelivered ==
  ASSUME NEW v \in Videos, NEW e \in Encodes, Adds(v, e)
  PROVE  Promise!Delivered(v)
<1>1. e \in Counted \cup Awaited
  BY StoreAssumption DEF Counted, Awaited, Uncounted, NotAwaited, Profiles
<1>. QED
  BY <1>1 DEF Adds, Promise!Delivered

LEMMA WritesDeclared ==
  ASSUME TypeOK, CompleteIsDelivered', NEW v \in Videos, NEW s \in Status,
         Writes(v, s)
  PROVE  Promise!Declare(v) \/ Promise!Withdraw(v)
<1>1. CASE s \in CompleteStatus
  <2>1. Promise!Deserved(v)
    BY <1>1 DEF Writes, Promise!Deserved, CompleteIsDelivered, Earned,
                TypeOK, StoreTypeOK
  <2>2. Complete' = [Complete EXCEPT ![v] = TRUE]
    BY <1>1, WordFollows, Zenon DEF Writes
  <2>. QED
    BY <2>1, <2>2 DEF Promise!Declare, Writes, Complete
<1>2. CASE s \notin CompleteStatus
  <2>1. Complete' = [Complete EXCEPT ![v] = FALSE]
    <3>1. (s \in CompleteStatus) = FALSE
      BY <1>2
    <3>. QED
      BY <3>1, WordFollows DEF Writes
  <2>. QED
    BY <2>1 DEF Promise!Withdraw, Writes, Complete
<1>. QED
  BY <1>1, <1>2

LEMMA SavesTranscribed ==
  ASSUME TypeOK, CompleteIsDelivered', TranscriptAfterEncodes',
         NEW v \in Videos, NEW s \in Status, NEW t \in Started, Saves(v, s, t)
  PROVE  Promise!Transcribe(v)
<1>1. Awaited \subseteq urls[v]
  BY DEF Saves, TranscriptAfterEncodes, TypeOK, StoreTypeOK
<1>2. Begun' = [Begun EXCEPT ![v] = TRUE]
  BY DEF Saves, Begun, TypeOK, StoreTypeOK
<1>3. CASE s \in CompleteStatus
  <2>1. Promise!Deserved(v)
    BY <1>3 DEF Saves, Promise!Deserved, CompleteIsDelivered, Earned,
                TypeOK, StoreTypeOK
  <2>2. Complete' = [Complete EXCEPT ![v] = TRUE]
    BY <1>3, WordFollows, Zenon DEF Saves
  <2>. QED
    BY <1>1, <1>2, <2>1, <2>2 DEF Promise!Transcribe, Saves, Complete, Begun
<1>4. CASE s \notin CompleteStatus
  <2>1. Complete' = [Complete EXCEPT ![v] = FALSE]
    <3>1. (s \in CompleteStatus) = FALSE
      BY <1>4
    <3>. QED
      BY <3>1, WordFollows DEF Saves
  <2>. QED
    BY <1>1, <1>2, <2>1 DEF Promise!Transcribe, Saves, Complete, Begun
<1>. QED
  BY <1>3, <1>4

-----------------------------------------------------------------------------
(* Every step of the pipeline is Visible in one of the four ways.            *)
LEMMA DeliverVisible ==
  ASSUME TypeOK, NEW w \in Workers, DeliverBy(w)
  PROVE  Visible
<1>. USE DEF TypeOK
<1>. DEFINE v == wk[w].v
<1>0. wk[w].pc # "idle" =>
        /\ v \in Videos /\ wk[w].e \in Encodes /\ wk[w].snap \in Status
        /\ wk[w].res \in Status
  BY ActiveWorker DEF Status
<1>1. ASSUME Quiet PROVE Visible
  BY <1>1 DEF Visible
<1>2. CASE SaveUrl(w)
  <2>1. Adds(v, wk[w].e)
    BY <1>2 DEF SaveUrl, Adds
  <2>. QED
    BY <1>0, <1>2, <2>1 DEF SaveUrl, Visible
<1>3. CASE DETERMINE_STATUS(w)
  <2>1. Quiet \/ Writes(v, "File Complete")
    BY <1>3 DEF DETERMINE_STATUS, FaultWrites, Quiet, Writes
  <2>. QED
    BY <1>0, <1>3, <2>1 DEF DETERMINE_STATUS, Visible, Status
<1>4. CASE UPDATE_DATA(w)
  <2>1. Writes(v, wk[w].res)
    BY <1>4 DEF UPDATE_DATA, UpdateStatus, Writes
  <2>. QED
    BY <1>0, <1>4, <2>1 DEF UPDATE_DATA, Visible
<1>5. CASE StartTranscription(w)
  <2>1. Saves(v, wk[w].snap, "IN PROGRESS")
    BY <1>5 DEF StartTranscription, SaveVideo, Saves
  <2>. QED
    BY <1>0, <1>5, <2>1 DEF StartTranscription, Visible, Started
<1>6. ASSUME NEW u \in Videos, NEW e \in Encodes, Take(w, u, e)
      PROVE  Visible
  BY <1>1, <1>6 DEF Take, Quiet
<1>7. CASE Refuse(w) \/ CheckReady(w)
  BY <1>1, <1>7 DEF Refuse, CheckReady, store, Quiet
<1>8. CASE YOUTUBE_SFTP(w) \/ TellDelivery(w) \/ TellTranscription(w)
  BY <1>1, <1>8 DEF YOUTUBE_SFTP, TellDelivery, TellTranscription, Quiet
<1>. QED
  BY <1>2, <1>3, <1>4, <1>5, <1>6, <1>7, <1>8 DEF DeliverBy, DeliverStep

LEMMA HealVisible ==
  ASSUME TypeOK, NEW h \in Healers, HealBy(h)
  PROVE  Visible
<1>. USE DEF TypeOK
<1>1. ASSUME Quiet PROVE Visible
  BY <1>1 DEF Visible
<1>2. ASSUME NEW o \in VideoObject, DetermineFault(h, o)
      PROVE  Visible
  <2>1. Quiet \/ Writes(o.v, "Complete")
    BY <1>2 DEF DetermineFault, UpdateStatus, Quiet, Writes
  <2>. QED
    BY <2>1 DEF Visible, VideoObject, Status
<1>3. CASE MarkQueued(h)
  <2>1. Writes(hl[h].v, "Queue") /\ hl[h].v \in Videos
    BY <1>3, HealerCases DEF MarkQueued, UpdateStatus, Writes, Healing
  <2>. QED
    BY <2>1 DEF Visible, Status
<1>4. ASSUME NEW o \in VideoObject, SkipDuplicate(h, o)
      PROVE  Visible
  BY <1>1, <1>4 DEF SkipDuplicate, store, Quiet
<1>5. ASSUME NEW e \in Encodes, Enqueue(h, e)
      PROVE  Visible
  BY <1>1, <1>5 DEF Enqueue, Quiet
<1>6. CASE Report(h) \/ TellQueued(h)
  BY <1>1, <1>6 DEF Report, TellQueued, Quiet
<1>. QED
  BY <1>2, <1>3, <1>4, <1>5, <1>6 DEF HealBy, HealStep

LEMMA CallbackVisible ==
  ASSUME TypeOK, YoutubeOnly, CallbackNext
  PROVE  Visible
<1>. USE DEF TypeOK
<1>. DEFINE v == yc.r[1]
<1>0. yc.pc # "idle" => v \in Videos
  BY PatchCases
<1>1. ASSUME Quiet PROVE Visible
  BY <1>1 DEF Visible
<1>2. CASE AddUrl
  <2>1. Adds(v, "youtube") /\ "youtube" \in Encodes
    BY <1>2 DEF AddUrl, Adds, YoutubeOnly
  <2>. QED
    BY <1>0, <1>2, <2>1 DEF AddUrl, Visible
<1>3. CASE PatchFault
  <2>1. Quiet \/ Writes(v, "File Complete")
    BY <1>3 DEF PatchFault, FaultWrites, Quiet, Writes
  <2>. QED
    BY <1>0, <1>3, <2>1 DEF PatchFault, Visible, Status
<1>4. ASSUME NEW s \in {"Progress", "Complete", "Youtube Duplicate"},
             UpdateStatus(v, s), yc.pc # "idle", UNCHANGED <<urls, tstatus>>
      PROVE  Visible
  <2>1. Writes(v, s) /\ s \in Status
    BY <1>4 DEF UpdateStatus, Writes, Status
  <2>. QED
    BY <1>0, <1>4, <2>1 DEF Visible
<1>5. CASE ClearDuplicate \/ PatchComplete
  BY <1>4, <1>5 DEF ClearDuplicate, PatchComplete
<1>6. CASE PatchDuplicate
  <2>1. CASE UNCHANGED status
    BY <1>1, <1>6, <2>1 DEF PatchDuplicate, Quiet
  <2>2. CASE UpdateStatus(v, "Youtube Duplicate")
    BY <1>4, <1>6, <2>2 DEF PatchDuplicate
  <2>. QED
    BY <1>6, <2>1, <2>2 DEF PatchDuplicate
<1>7. CASE StartCrawl \/ ReadVideo \/ CheckDuplicate
  BY <1>1, <1>7 DEF StartCrawl, ReadVideo, CheckDuplicate, store, Quiet
<1>8. CASE TellPatch
  BY <1>1, <1>8 DEF TellPatch, Quiet
<1>. QED
  BY <1>2, <1>3, <1>5, <1>6, <1>7, <1>8 DEF CallbackNext, CallbackStep

LEMMA UpdateVisible ==
  ASSUME TypeOK, NEW v \in Videos, UpdateNext(v)
  PROVE  Visible
<1>1. CASE SaveReady(v)
  <2>1. Saves(v, tc[v].snap, "READY") /\ tc[v].snap \in Status
    BY <1>1
    DEF SaveReady, SaveVideo, Saves, TypeOK, UpdateTypeOK, Callback, NoCallback
  <2>. QED
    BY <2>1 DEF Visible, Started
<1>2. CASE LoadVideo(v) \/ TellReady(v)
  BY <1>2 DEF LoadVideo, TellReady, store, Quiet, Visible
<1>. QED
  BY <1>1, <1>2 DEF UpdateNext, UpdateStep

LEMMA NextVisible ==
  ASSUME TypeOK, YoutubeOnly, [Next]_vars
  PROVE  Visible
<1>1. ASSUME NEW h \in Healers, NEW query \in SUBSET Videos, SweepBy(h, query)
      PROVE  Visible
  BY <1>1 DEF SweepBy, StartSweep, store, Quiet, Visible
<1>2. ASSUME NEW v \in Videos, UploadNext(v)
      PROVE  Visible
  BY <1>2 DEF UploadNext, YoutubeProcesses, Quiet, Visible
<1>3. ASSUME NEW v \in Videos, NEW e \in Encodes, EncodeNext(v, e)
      PROVE  Visible
  BY <1>3 DEF EncodeNext, EncodeSucceeds, EncodeFails, Quiet, Visible
<1>4. CASE CrashNext \/ UNCHANGED vars
  BY <1>4 DEF CrashNext, store, vars, Quiet, Visible
<1>. QED
  BY <1>1, <1>2, <1>3, <1>4, DeliverVisible, HealVisible, CallbackVisible,
     UpdateVisible
  DEF Next

-----------------------------------------------------------------------------
LEMMA InitPromise == Init => Promise!PromiseInit
<1>. SUFFICES ASSUME Init
              PROVE  Promise!PromiseInit
  OBVIOUS
<1>1. urls = [v \in Videos |-> {}]
  BY DEF Init, StoreInit
<1>2. Complete = [v \in Videos |-> FALSE]
  <2>1. ASSUME NEW v \in Videos
        PROVE  status[v] \notin CompleteStatus
    BY DEF Init, StoreInit, CompleteStatus
  <2>2. \A v \in Videos : (status[v] \in CompleteStatus) = FALSE
    BY <2>1
  <2>. QED
    BY <2>2 DEF Complete
<1>3. Begun = [v \in Videos |-> FALSE]
  <2>1. ASSUME NEW v \in Videos
        PROVE  tstatus[v] \notin Started
    BY DEF Init, StoreInit, Started
  <2>2. \A v \in Videos : (tstatus[v] \in Started) = FALSE
    BY <2>1
  <2>. QED
    BY <2>2 DEF Begun
<1>. QED
  BY <1>1, <1>2, <1>3 DEF Promise!PromiseInit, Complete, Begun

LEMMA StepPromise ==
  ASSUME IInv, IInv', [Next]_vars
  PROVE  [Promise!PromiseNext]_(Promise!promise)
<1>. USE DEF IInv
<1>1. CASE Quiet
  BY <1>1 DEF Quiet, Promise!promise
<1>2. ASSUME NEW v \in Videos, NEW e \in Encodes, Adds(v, e)
      PROVE  Promise!PromiseNext
  BY <1>2, AddsDelivered DEF Promise!PromiseNext
<1>3. ASSUME NEW v \in Videos, NEW s \in Status, Writes(v, s)
      PROVE  Promise!PromiseNext
  BY <1>3, WritesDeclared DEF Promise!PromiseNext
<1>4. ASSUME NEW v \in Videos, NEW s \in Status, NEW t \in Started,
             Saves(v, s, t)
      PROVE  Promise!PromiseNext
  BY <1>4, SavesTranscribed DEF Promise!PromiseNext
<1>. QED
  BY <1>1, <1>2, <1>3, <1>4, NextVisible DEF Visible

(* The pipeline, with all its processes and stale rows, implements the       *)
(* promise: what it shows of a video only ever changes as VideoPromise says. *)
THEOREM PipelineKeepsPromise == Spec => KeepsPromise
<1>1. IInv /\ IInv' /\ [Next]_vars => [Promise!PromiseNext]_(Promise!promise)
  BY StepPromise
<1>. QED
  BY <1>1, InitPromise, Invariance, PTL
  DEF Spec, KeepsPromise, Promise!PromiseSpec
=============================================================================

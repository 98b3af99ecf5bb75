-------------------------------- MODULE Heal --------------------------------
(* control/veda_heal.py: VedaHeal.send_encodes over the videos of one query. *)
(* The same code runs at the end of an ingest (one video), every night for   *)
(* the videos ingested 6 to 144 hours ago, and on request for a video or a   *)
(* course. The query is evaluated once, when the loop starts.                *)
EXTENDS VideoStore

CONSTANT Healers

VARIABLE hl   \* what each run of send_encodes is doing

NotHealing == [pc |-> "idle"]

(* What the loop uses of a Video object of the query.                        *)
VideoObject == [v : Videos, status : Status, tstatus : TranscriptStatus]

(* todo: the objects still to come; skips: the encodes --no_audio leaves out;*)
(* list: encode_list; sends: self.val_status.                                *)
Loop == [pc : {"next"}, todo : SUBSET VideoObject, skips : SUBSET Encodes]
Healing ==
  [pc : {"report", "tell", "enqueue", "mark"}, todo : SUBSET VideoObject,
   skips : SUBSET Encodes, v : Videos, list : SUBSET Encodes,
   sends : ValStatus]

HealTypeOK == hl \in [Healers -> Loop \cup Healing \cup {NotHealing}]

HealInit == hl = [h \in Healers |-> NotHealing]

StartSweep(h, query, skips) ==
  /\ hl[h].pc = "idle"
  /\ query # {}
  /\ hl' = [hl EXCEPT ![h] =
              [pc |-> "next", skips |-> skips,
               todo |-> {[v |-> v, status |-> status[v],
                          tstatus |-> tstatus[v]] : v \in query}]]
  /\ UNCHANGED store

(* The loop goes on with another video, or ends.                             *)
NextVideo(h) ==
  hl' = [hl EXCEPT ![h] =
           IF hl[h].todo = {} THEN NotHealing
           ELSE [pc |-> "next", todo |-> hl[h].todo, skips |-> hl[h].skips]]

(* The loop body from determine_fault to the call of edx-val.                *)
Treat(h, o, pc, list, sends) ==
  hl' = [hl EXCEPT ![h] =
           [pc |-> pc, todo |-> hl[h].todo \ {o}, skips |-> hl[h].skips,
            v |-> o.v, list |-> list, sends |-> sends]]

(* determine_fault: uncompleted_encodes.                                     *)
Uncompleted(h, v) == Missing(v) \ hl[h].skips

(* A video known to YouTube under another id is left alone.                  *)
SkipDuplicate(h, o) ==
  /\ hl[h].pc = "next"
  /\ o \in hl[h].todo
  /\ o.status = "Youtube Duplicate"
  /\ Treat(h, o, "report", {}, "duplicate")
  /\ UNCHANGED store

(* determine_fault and differentiate_encodes: the video is marked 'Complete' *)
(* when nothing that counts is missing, unless the object read with the      *)
(* query says so already; whatever is missing is to be encoded again. Bug: a *)
(* video queued before is taken to be on its way.                            *)
DetermineFaultOnce(h, o) ==
  /\ hl[h].pc = "next"
  /\ o \in hl[h].todo
  /\ o.status # "Youtube Duplicate"
  /\ IF Uncompleted(h, o.v) \subseteq Uncounted /\ o.status # "Complete"
     THEN UpdateStatus(o.v, "Complete")
     ELSE UNCHANGED status
  /\ IF Uncompleted(h, o.v) = {} \/ o.status = "Queue"
     THEN Treat(h, o, "report", {}, TranscriptStatusInVal(o.tstatus))
     ELSE Treat(h, o, "tell", Uncompleted(h, o.v), "transcode_queue")
  /\ UNCHANGED <<tstatus, urls, val, jobs, tasks, dropbox>>

DetermineFault(h, o) ==
  /\ hl[h].pc = "next"
  /\ o \in hl[h].todo
  /\ o.status # "Youtube Duplicate"
  /\ IF Uncompleted(h, o.v) \subseteq Uncounted /\ o.status # "Complete"
     THEN UpdateStatus(o.v, "Complete")
     ELSE UNCHANGED status
  /\ IF Uncompleted(h, o.v) = {}
     THEN Treat(h, o, "report", {}, TranscriptStatusInVal(o.tstatus))
     ELSE Treat(h, o, "tell", Uncompleted(h, o.v), "transcode_queue")
  /\ UNCHANGED <<tstatus, urls, val, jobs, tasks, dropbox>>

(* "Nothing to queue": edx-val is told all the same, every night, because    *)
(* its answers get lost. Bug: it is not.                                     *)
ReportSilent(h) ==
  /\ hl[h].pc = "report"
  /\ NextVideo(h)
  /\ UNCHANGED store

Report(h) ==
  /\ hl[h].pc = "report"
  /\ CallVal(hl[h].v, hl[h].sends)
  /\ NextVideo(h)
  /\ UNCHANGED <<status, tstatus, urls, jobs, tasks, dropbox>>

TellQueued(h) ==
  /\ hl[h].pc = "tell"
  /\ CallVal(hl[h].v, hl[h].sends)
  /\ hl' = [hl EXCEPT ![h].pc = "enqueue"]
  /\ UNCHANGED <<status, tstatus, urls, jobs, tasks, dropbox>>

(* One enqueue_encode of the loop, in the order of a Python set.             *)
Enqueue(h, e) ==
  /\ hl[h].pc = "enqueue"
  /\ e \in hl[h].list
  /\ jobs[hl[h].v][e] < MaxCopies
  /\ jobs' = Put(jobs, hl[h].v, e)
  /\ hl' = [hl EXCEPT ![h].list = @ \ {e},
                      ![h].pc = IF hl[h].list = {e} THEN "mark" ELSE @]
  /\ UNCHANGED <<status, tstatus, urls, val, tasks, dropbox>>

(* The update to 'Queue' that follows the loop, whatever the row says now.   *)
(* Bug: the video starts all over, its transcript too.                       *)
MarkQueuedAnew(h) ==
  /\ hl[h].pc = "mark"
  /\ SaveVideo(hl[h].v, "Queue", "PENDING")
  /\ NextVideo(h)
  /\ UNCHANGED <<urls, val, jobs, tasks, dropbox>>

MarkQueued(h) ==
  /\ hl[h].pc = "mark"
  /\ UpdateStatus(hl[h].v, "Queue")
  /\ NextVideo(h)
  /\ UNCHANGED <<tstatus, urls, val, jobs, tasks, dropbox>>

HealStep(h) ==
  \/ \E o \in VideoObject : SkipDuplicate(h, o) \/ DetermineFault(h, o)
  \/ Report(h)
  \/ TellQueued(h)
  \/ \E e \in Encodes : Enqueue(h, e)
  \/ MarkQueued(h)
=============================================================================

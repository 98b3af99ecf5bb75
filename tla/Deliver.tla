------------------------------ MODULE Deliver -------------------------------
(* control/veda_deliver.py: the delivery workers. A worker takes one         *)
(* supervisor_deliver message (VedaDelivery.run), reads the Video row into   *)
(* self.video_query, and uses that object until it is done.                  *)
EXTENDS VideoStore

CONSTANT Workers

VARIABLE wk   \* what each worker is doing

Idle == [pc |-> "idle"]

(* snap: video_trans_status of self.video_query.  res: self.status.          *)
Delivery ==
  [pc : {"took", "saved", "judged", "updated", "told", "starting",
         "announced"},
   v : Videos, e : Encodes, snap : Status,
   res : {"Progress", "Complete"}]

DeliverTypeOK == wk \in [Workers -> Delivery \cup {Idle}]

DeliverInit == wk = [w \in Workers |-> Idle]

Goto(w, pc) == wk' = [wk EXCEPT ![w].pc = pc]
Done(w) == wk' = [wk EXCEPT ![w] = Idle]

(* celery acknowledges the message when the worker receives it; run() then   *)
(* reads the Video row (_INFORM_INTAKE, or hls_run for HLS).                 *)
Take(w, v, e) ==
  /\ wk[w].pc = "idle"
  /\ tasks[v][e] > 0
  /\ tasks' = Drop(tasks, v, e)
  /\ wk' = [wk EXCEPT ![w] = [pc |-> "took", v |-> v, e |-> e,
                              snap |-> status[v], res |-> "Progress"]]
  /\ UNCHANGED <<status, tstatus, urls, val, jobs, dropbox>>

(* The deliverable is not in the bucket, does not validate, or cannot be     *)
(* uploaded or fetched back: the run ends. HLS has no file to look at and    *)
(* its URL is not tried.                                                     *)
Refuse(w) ==
  /\ wk[w].pc = "took"
  /\ wk[w].e # "hls"
  /\ Done(w)
  /\ UNCHANGED store

(* YOUTUBE_SFTP: the file goes to the partner; there is no endpoint URL, so  *)
(* _VALIDATE_URL is False and run() returns.                                 *)
YOUTUBE_SFTP(w) ==
  /\ wk[w].pc = "took"
  /\ wk[w].e = "youtube"
  /\ dropbox' = dropbox \cup {wk[w].v}
  /\ Done(w)
  /\ UNCHANGED <<status, tstatus, urls, val, jobs, tasks>>

(* u1.save(): the encode has a URL row.                                      *)
SaveUrl(w) ==
  /\ wk[w].pc = "took"
  /\ wk[w].e # "youtube"
  /\ urls' = [urls EXCEPT ![wk[w].v] = @ \cup {wk[w].e}]
  /\ Goto(w, "saved")
  /\ UNCHANGED <<status, tstatus, val, jobs, tasks, dropbox>>

(* Bug: the status of the video is judged by the encode at hand.             *)
DETERMINE_STATUSOfEncode(w) ==
  /\ wk[w].pc = "saved"
  /\ FaultWrites(wk[w].v, wk[w].snap)
  /\ LET res == IF wk[w].e \notin FAULT(wk[w].v, wk[w].snap)
                THEN "Complete" ELSE "Progress"
     IN  wk' = [wk EXCEPT ![w].pc = "judged", ![w].res = res]
  /\ UNCHANGED <<tstatus, urls, val, jobs, tasks, dropbox>>

DETERMINE_STATUS(w) ==
  /\ wk[w].pc = "saved"
  /\ FaultWrites(wk[w].v, wk[w].snap)
  /\ LET res == IF FAULT(wk[w].v, wk[w].snap) = {}
                THEN "Complete" ELSE "Progress"
     IN  wk' = [wk EXCEPT ![w].pc = "judged", ![w].res = res]
  /\ UNCHANGED <<tstatus, urls, val, jobs, tasks, dropbox>>

UPDATE_DATA(w) ==
  /\ wk[w].pc = "judged"
  /\ UpdateStatus(wk[w].v, wk[w].res)
  /\ Goto(w, "updated")
  /\ UNCHANGED <<tstatus, urls, val, jobs, tasks, dropbox>>

TellDelivery(w) ==
  /\ wk[w].pc = "updated"
  /\ CallVal(wk[w].v, IF wk[w].res = "Complete"
                      THEN "file_complete" ELSE "transcode_active")
  /\ Goto(w, "told")
  /\ UNCHANGED <<status, tstatus, urls, jobs, tasks, dropbox>>

(* The end of run(): start_transcription when every encode but YouTube's and *)
(* the review's is there. Nothing starts without process_transcription or    *)
(* without credentials. Bug: only the delivery of the file to transcribe     *)
(* starts it.                                                                *)
CheckReadyOnDesktop(w) ==
  /\ wk[w].pc = "told"
  /\ IF /\ IsVideoReady(wk[w].v) /\ wk[w].e = "desktop_mp4"
        /\ wk[w].v \in Transcribed \cap HasCredentials
     THEN Goto(w, "starting")
     ELSE Done(w)
  /\ UNCHANGED store

CheckReady(w) ==
  /\ wk[w].pc = "told"
  /\ IF /\ IsVideoReady(wk[w].v)
        /\ wk[w].v \in Transcribed \cap HasCredentials
     THEN Goto(w, "starting")
     ELSE Done(w)
  /\ UNCHANGED store

(* update_video_status(IN_PROGRESS), its call of edx-val first.              *)
TellTranscription(w) ==
  /\ wk[w].pc = "starting"
  /\ TellVal(wk[w].v, "transcription_in_progress")
  /\ Goto(w, "announced")
  /\ UNCHANGED <<status, tstatus, urls, jobs, tasks, dropbox>>

(* Then video.save() of the object read at the start of the run, and the     *)
(* order of the transcript, which touches neither the row nor the queues.    *)
StartTranscription(w) ==
  /\ wk[w].pc = "announced"
  /\ SaveVideo(wk[w].v, wk[w].snap, "IN PROGRESS")
  /\ Done(w)
  /\ UNCHANGED <<urls, val, jobs, tasks, dropbox>>

DeliverStep(w) ==
  \/ \E v \in Videos, e \in Encodes : Take(w, v, e)
  \/ Refuse(w)
  \/ YOUTUBE_SFTP(w)
  \/ SaveUrl(w)
  \/ DETERMINE_STATUS(w)
  \/ UPDATE_DATA(w)
  \/ TellDelivery(w)
  \/ CheckReady(w)
  \/ TellTranscription(w)
  \/ StartTranscription(w)
=============================================================================

-------------------------- MODULE YoutubeCallback ---------------------------
(* youtube_callback/: one daemon (daemon.py, bin/loop.py) crawls the reports *)
(* the YouTube partner leaves next to the uploads, as long as a video of the *)
(* course has no YouTube URL, and runs urlpatch (sftp_id_retrieve.py) on     *)
(* each. A report stays where it is: for four days every crawl downloads it  *)
(* and patches the database with it again.                                   *)
EXTENDS VideoStore

VARIABLES
  reports,  \* the reports in the partner's directories: <<video, outcome>>
  yc        \* what the daemon is doing

Reports == Videos \X {"Successful", "Duplicate"}

NotPatching == [pc |-> "idle"]

(* todo: the downloaded reports still to come, r among them; snap: the       *)
(* video_trans_status of test_id.                                            *)
Patch ==
  [pc : {"read", "add", "check", "clear", "fault", "complete",
         "tell_complete", "tell_active", "duplicate", "tell_duplicate"},
   todo : SUBSET Reports, r : Reports, snap : Status]

CallbackTypeOK ==
  /\ reports \in SUBSET Reports
  /\ yc \in Patch \cup {NotPatching}

CallbackInit ==
  /\ reports = {}
  /\ yc = NotPatching

(* The partner works an upload off: a new YouTube id, the id of a video it   *)
(* already has, or a failure, of which urlpatch makes nothing.               *)
YoutubeProcesses(v) ==
  /\ v \in dropbox
  /\ dropbox' = dropbox \ {v}
  /\ \/ \E r \in {v} \X {"Successful", "Duplicate"} : reports' = reports \cup {r}
     \/ UNCHANGED reports
  /\ UNCHANGED <<status, tstatus, urls, val, jobs, tasks, yc>>

(* generate_course_list finds a video without YouTube URL, and callfunction  *)
(* downloads the reports.                                                    *)
StartCrawl ==
  /\ yc.pc = "idle"
  /\ \E u \in Videos : "youtube" \notin urls[u] /\ status[u] # "Corrupt File"
  /\ \E r \in reports :
       yc' = [pc |-> "read", todo |-> reports, r |-> r, snap |-> "Ingest"]
  /\ UNCHANGED <<store, reports>>

(* callfunction goes on with another report, or is through.                  *)
NextReport ==
  LET rest == yc.todo \ {yc.r}
  IN  \/ /\ rest = {}
         /\ yc' = NotPatching
      \/ \E r \in rest :
           yc' = [pc |-> "read", todo |-> rest, r |-> r, snap |-> "Ingest"]

PatchGoto(pc) == yc' = [yc EXCEPT !.pc = pc]

(* urlpatch reads test_id.                                                   *)
ReadVideo ==
  /\ yc.pc = "read"
  /\ yc' = [yc EXCEPT !.pc = IF yc.r[2] = "Successful"
                             THEN "add" ELSE "duplicate",
                      !.snap = status[yc.r[1]]]
  /\ UNCHANGED <<store, reports>>

(* The URL row is added unless a row with this YouTube id is there.          *)
AddUrl ==
  /\ yc.pc = "add"
  /\ urls' = [urls EXCEPT ![yc.r[1]] = @ \cup {"youtube"}]
  /\ PatchGoto("check")
  /\ UNCHANGED <<status, tstatus, val, jobs, tasks, dropbox, reports>>

(* video_check, and the update to 'Progress' when it was a duplicate.        *)
CheckDuplicate ==
  /\ yc.pc = "check"
  /\ PatchGoto(IF status[yc.r[1]] = "Youtube Duplicate"
               THEN "clear" ELSE "fault")
  /\ UNCHANGED <<store, reports>>

ClearDuplicate ==
  /\ yc.pc = "clear"
  /\ UpdateStatus(yc.r[1], "Progress")
  /\ PatchGoto("fault")
  /\ UNCHANGED <<tstatus, urls, val, jobs, tasks, dropbox, reports>>

(* Bug: the report of an upload completes the video.                         *)
PatchFaultNone ==
  /\ yc.pc = "fault"
  /\ FaultWrites(yc.r[1], yc.snap)
  /\ PatchGoto("complete")
  /\ UNCHANGED <<tstatus, urls, val, jobs, tasks, dropbox, reports>>

PatchFault ==
  /\ yc.pc = "fault"
  /\ FaultWrites(yc.r[1], yc.snap)
  /\ PatchGoto(IF FAULT(yc.r[1], yc.snap) = {}
               THEN "complete" ELSE "tell_active")
  /\ UNCHANGED <<tstatus, urls, val, jobs, tasks, dropbox, reports>>

PatchComplete ==
  /\ yc.pc = "complete"
  /\ UpdateStatus(yc.r[1], "Complete")
  /\ PatchGoto("tell_complete")
  /\ UNCHANGED <<tstatus, urls, val, jobs, tasks, dropbox, reports>>

(* A duplicate is recorded unless the video has its YouTube URL by now. Bug: *)
(* it is recorded whenever the row does not say so yet.                      *)
PatchDuplicateAgain ==
  /\ yc.pc = "duplicate"
  /\ UpdateStatus(yc.r[1], "Youtube Duplicate")
  /\ PatchGoto("tell_duplicate")
  /\ UNCHANGED <<tstatus, urls, val, jobs, tasks, dropbox, reports>>

PatchDuplicate ==
  /\ yc.pc = "duplicate"
  /\ IF "youtube" \in urls[yc.r[1]]
     THEN NextReport /\ UNCHANGED status
     ELSE /\ UpdateStatus(yc.r[1], "Youtube Duplicate")
          /\ PatchGoto("tell_duplicate")
  /\ UNCHANGED <<tstatus, urls, val, jobs, tasks, dropbox, reports>>

(* The call of edx-val that ends urlpatch; it carries the YouTube encode, so *)
(* it is never held back for want of encodes. Bug: the upload is taken for   *)
(* the whole video.                                                          *)
TellPatchComplete ==
  /\ \/ /\ yc.pc \in {"tell_complete", "tell_active"}
        /\ TellVal(yc.r[1], "file_complete")
     \/ yc.pc = "tell_duplicate" /\ TellVal(yc.r[1], "duplicate")
  /\ NextReport
  /\ UNCHANGED <<status, tstatus, urls, jobs, tasks, dropbox, reports>>

TellPatch ==
  /\ \/ yc.pc = "tell_complete" /\ TellVal(yc.r[1], "file_complete")
     \/ yc.pc = "tell_active" /\ TellVal(yc.r[1], "transcode_active")
     \/ yc.pc = "tell_duplicate" /\ TellVal(yc.r[1], "duplicate")
  /\ NextReport
  /\ UNCHANGED <<status, tstatus, urls, jobs, tasks, dropbox, reports>>

CallbackStep ==
  \/ StartCrawl
  \/ ReadVideo
  \/ AddUrl
  \/ CheckDuplicate
  \/ ClearDuplicate
  \/ PatchFault
  \/ PatchComplete
  \/ PatchDuplicate
  \/ TellPatch
=============================================================================

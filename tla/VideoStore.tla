----------------------------- MODULE VideoStore -----------------------------
(* What the processes of the pipeline share: the Video and URL rows of the   *)
(* MySQL database, the status edx-val shows for each video, the two celery   *)
(* queues (encode jobs, deliverables), and the SFTP drop box of YouTube.     *)
(* One action of the specification is one access to this state: the database *)
(* runs in autocommit and no handler opens a transaction around the row, so  *)
(* whatever a process read before it may be out of date at the next.         *)
EXTENDS Naturals, FiniteSets

CONSTANTS
  Videos,          \* the VEDA ids
  Invalid,         \* those ingest stored as inactive, status 'Corrupt File'
  Encodes,         \* the profiles active for the course of the videos
  Transcribed,     \* the videos with process_transcription
  HasCredentials,  \* those whose organisation has credentials of the provider
  MaxCopies        \* bound: copies of one celery message waiting at once

Profiles == {"mobile_low", "mobile_high", "desktop_mp4", "audio_mp3", "hls",
             "override", "youtube"}

ASSUME StoreAssumption ==
  /\ Invalid \subseteq Videos
  /\ Encodes \subseteq Profiles
  /\ Transcribed \subseteq Videos \ Invalid
  /\ HasCredentials \subseteq Videos
  /\ MaxCopies \in Nat \ {0}

VARIABLES
  status,   \* Video.video_trans_status
  tstatus,  \* Video.transcript_status
  urls,     \* the encodes with a URL row
  val,      \* the last status edx-val accepted
  jobs,     \* worker_encode messages waiting, per video and encode
  tasks,    \* supervisor_deliver messages waiting, per video and encode
  dropbox   \* the videos lying in the drop box of the YouTube partner

store == <<status, tstatus, urls, val, jobs, tasks, dropbox>>

Status == {"Ingest", "Corrupt File", "Queue", "Progress", "File Complete",
           "Complete", "Youtube Duplicate"}

TranscriptStatus == {"N/A", "PENDING", "IN PROGRESS", "READY"}

ValStatus == {"none", "transcode_queue", "transcode_active", "file_complete",
              "transcription_in_progress", "transcript_ready", "duplicate"}

CompleteStatus == {"File Complete", "Complete"}

FileCompleteStatus ==
  {"file_complete", "transcription_in_progress", "transcript_ready"}

(* The encodes that do not count towards 'file_complete', and those the      *)
(* start of the transcription does not wait for.                             *)
Uncounted == {"mobile_high", "audio_mp3", "review"}
NotAwaited == {"review", "youtube"}
Counted == Encodes \ Uncounted
Awaited == Encodes \ NotAwaited

StoreTypeOK ==
  /\ status \in [Videos -> Status]
  /\ tstatus \in [Videos -> TranscriptStatus]
  /\ urls \in [Videos -> SUBSET Encodes]
  /\ val \in [Videos -> ValStatus]
  /\ jobs \in [Videos -> [Encodes -> 0..MaxCopies]]
  /\ tasks \in [Videos -> [Encodes -> 0..MaxCopies]]
  /\ dropbox \in SUBSET Videos

(* The rows VedaIngest.database_record leaves behind.                        *)
StoreInit ==
  /\ status = [v \in Videos |->
                 IF v \in Invalid THEN "Corrupt File" ELSE "Ingest"]
  /\ tstatus = [v \in Videos |->
                  IF v \in Transcribed THEN "PENDING" ELSE "N/A"]
  /\ urls = [v \in Videos |-> {}]
  /\ val = [v \in Videos |-> "none"]
  /\ jobs = [v \in Videos |-> [e \in Encodes |-> 0]]
  /\ tasks = [v \in Videos |-> [e \in Encodes |-> 0]]
  /\ dropbox = {}

-----------------------------------------------------------------------------
(* VedaEncode.determine_encodes: the active profiles without a URL row. The  *)
(* code asks for one URL row after another; rows are only ever added, so a   *)
(* list found empty is empty from then on, and a list found not empty was    *)
(* not empty when the loop began: one read stands for all of them.           *)
Missing(v) == Encodes \ urls[v]

(* is_video_ready(edx_id, ignore_encodes=['review', 'youtube']). Bug: HLS is *)
(* not waited for either.                                                    *)
IsVideoReadyWithoutHls(v) == Missing(v) \subseteq NotAwaited \cup {"hls"}

IsVideoReady(v) == Missing(v) \subseteq NotAwaited

(* Metadata._FAULT on a Video object read earlier with status snap. An       *)
(* inactive video, or one read as 'Corrupt File', has no missing encode.     *)
NotViable(v, snap) == snap = "Corrupt File" \/ v \in Invalid

FAULT(v, snap) == IF NotViable(v, snap) THEN {} ELSE Missing(v) \ Uncounted

(* The write _FAULT makes on the way: 'File Complete', unless the object it  *)
(* was given already says so.                                                *)
FaultWrites(v, snap) ==
  status' = IF /\ ~NotViable(v, snap)
               /\ FAULT(v, snap) = {}
               /\ snap # "File Complete"
            THEN [status EXCEPT ![v] = "File Complete"]
            ELSE status

(* Video.objects.filter(...).update(video_trans_status = s).                 *)
UpdateStatus(v, s) == status' = [status EXCEPT ![v] = s]

(* utils.update_video_status, its second half: the transcript status is set  *)
(* on the Video object and the object is saved whole, so the encode status   *)
(* it was read with goes back into the row. Bug: the statuses are swapped.   *)
SaveVideoSwapped(v, snap, t) ==
  /\ status' = [status EXCEPT ![v] = t]
  /\ tstatus' = [tstatus EXCEPT ![v] = snap]

SaveVideo(v, snap, t) ==
  /\ status' = [status EXCEPT ![v] = snap]
  /\ tstatus' = [tstatus EXCEPT ![v] = t]

(* A VALAPICall: edx-val takes the status, or answers with an error that is  *)
(* only logged.                                                              *)
TellVal(v, s) == val' \in {val, [val EXCEPT ![v] = s]}

(* should_update_status: without any encode to show, none of the statuses    *)
(* that announce a complete file is sent.                                    *)
CallVal(v, s) ==
  IF urls[v] = {} /\ s \in FileCompleteStatus
  THEN UNCHANGED val
  ELSE TellVal(v, s)

(* VAL_TRANSCRIPT_STATUS_MAP, with the status sent when there is no entry.   *)
TranscriptStatusInVal(t) ==
  CASE t = "IN PROGRESS" -> "transcription_in_progress"
    [] t = "READY" -> "transcript_ready"
    [] OTHER -> "file_complete"

-----------------------------------------------------------------------------
(* Sending and taking a celery message.                                      *)
Put(queue, v, e) == [queue EXCEPT ![v][e] = @ + 1]
Drop(queue, v, e) == [queue EXCEPT ![v][e] = @ - 1]
=============================================================================

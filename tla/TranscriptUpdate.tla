-------------------------- MODULE TranscriptUpdate --------------------------
(* VEDA_OS01/transcripts.py as far as the Video row goes: the last callback  *)
(* of a transcription provider loads the Video of its process row, calls     *)
(* edx-val, and saves the Video with transcript status READY. The process    *)
(* rows and the languages are left to the modules of the two providers: here *)
(* any callback may be the last one.                                         *)
EXTENDS VideoStore

CONSTANT MaxCallbacks   \* bound: the providers' callbacks for one video

VARIABLES
  tc,      \* the callback at work on each video
  calls    \* the callbacks that have come for it

NoCallback == [pc |-> "idle"]

(* snap: video_trans_status of process_metadata.video.                       *)
Callback == [pc : {"loaded", "told"}, snap : Status]

UpdateTypeOK ==
  /\ tc \in [Videos -> Callback \cup {NoCallback}]
  /\ calls \in [Videos -> 0..MaxCallbacks]

UpdateInit ==
  /\ tc = [v \in Videos |-> NoCallback]
  /\ calls = [v \in Videos |-> 0]

(* A transcript was ordered; the callback loads process_metadata.video.      *)
LoadVideo(v) ==
  /\ tc[v].pc = "idle"
  /\ tstatus[v] \in {"IN PROGRESS", "READY"}
  /\ calls[v] < MaxCallbacks
  /\ calls' = [calls EXCEPT ![v] = @ + 1]
  /\ tc' = [tc EXCEPT ![v] = [pc |-> "loaded", snap |-> status[v]]]
  /\ UNCHANGED store

TellReady(v) ==
  /\ tc[v].pc = "loaded"
  /\ TellVal(v, "transcript_ready")
  /\ tc' = [tc EXCEPT ![v].pc = "told"]
  /\ UNCHANGED <<status, tstatus, urls, jobs, tasks, dropbox, calls>>

SaveReady(v) ==
  /\ tc[v].pc = "told"
  /\ SaveVideo(v, tc[v].snap, "READY")
  /\ tc' = [tc EXCEPT ![v] = NoCallback]
  /\ UNCHANGED <<urls, val, jobs, tasks, dropbox, calls>>

UpdateStep(v) == LoadVideo(v) \/ TellReady(v) \/ SaveReady(v)
=============================================================================

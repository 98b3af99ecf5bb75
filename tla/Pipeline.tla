------------------------------ MODULE Pipeline ------------------------------
(* The life of a video between ingest and transcript: delivery workers, heal *)
(* runs, the YouTube callback daemon and transcript callbacks, all writing   *)
(* the same Video rows, with the encode worker (another repository) and the  *)
(* crash of a task.                                                          *)
EXTENDS Deliver, Heal, YoutubeCallback, TranscriptUpdate

CONSTANT MaxCrashes   \* bound: tasks that die

ASSUME PipelineAssumption == MaxCrashes \in Nat /\ MaxCallbacks \in Nat

VARIABLES
  crashes,  \* how many tasks have died
  lost      \* the videos of the delivery tasks among them

vars == <<status, tstatus, urls, val, jobs, tasks, dropbox, wk, hl, reports, yc,
          tc, calls, crashes, lost>>

TypeOK ==
  /\ StoreTypeOK
  /\ DeliverTypeOK
  /\ HealTypeOK
  /\ CallbackTypeOK
  /\ UpdateTypeOK
  /\ crashes \in 0..MaxCrashes
  /\ lost \in SUBSET Videos

Init ==
  /\ StoreInit
  /\ DeliverInit
  /\ HealInit
  /\ CallbackInit
  /\ UpdateInit
  /\ crashes = 0
  /\ lost = {}

-----------------------------------------------------------------------------
(* The encode worker takes a job and sends the deliverable on, or fails.     *)
EncodeSucceeds(v, e) ==
  /\ jobs[v][e] > 0
  /\ tasks[v][e] < MaxCopies
  /\ jobs' = Drop(jobs, v, e)
  /\ tasks' = Put(tasks, v, e)
  /\ UNCHANGED <<status, tstatus, urls, val, dropbox>>

EncodeFails(v, e) ==
  /\ jobs[v][e] > 0
  /\ jobs' = Drop(jobs, v, e)
  /\ UNCHANGED <<status, tstatus, urls, val, tasks, dropbox>>

(* A task dies: its process is killed, or a call of edx-val, of S3 or of the *)
(* database raises. Its message was acknowledged and nobody runs it again.   *)
Crash ==
  /\ crashes < MaxCrashes
  /\ crashes' = crashes + 1
  /\ \/ \E w \in Workers :
          /\ wk[w].pc # "idle"
          /\ wk' = [wk EXCEPT ![w] = Idle]
          /\ lost' = lost \cup {wk[w].v}
          /\ UNCHANGED <<hl, yc, tc>>
     \/ \E h \in Healers :
          /\ hl[h].pc # "idle"
          /\ hl' = [hl EXCEPT ![h] = NotHealing]
          /\ UNCHANGED <<wk, yc, tc, lost>>
     \/ /\ yc.pc # "idle"
        /\ yc' = NotPatching
        /\ UNCHANGED <<wk, hl, tc, lost>>
     \/ \E v \in Videos :
          /\ tc[v].pc # "idle"
          /\ tc' = [tc EXCEPT ![v] = NoCallback]
          /\ UNCHANGED <<wk, hl, yc, lost>>

DeliverBy(w) ==
  DeliverStep(w) /\ UNCHANGED <<hl, reports, yc, tc, calls, crashes, lost>>

SweepBy(h, query) ==
  /\ \E skips \in {{}, {"audio_mp3"} \cap Encodes} : StartSweep(h, query, skips)
  /\ UNCHANGED <<wk, reports, yc, tc, calls, crashes, lost>>

HealBy(h) ==
  HealStep(h) /\ UNCHANGED <<wk, reports, yc, tc, calls, crashes, lost>>

CallbackNext ==
  CallbackStep /\ UNCHANGED <<wk, hl, tc, calls, crashes, lost>>

UploadNext(v) ==
  YoutubeProcesses(v) /\ UNCHANGED <<wk, hl, tc, calls, crashes, lost>>

UpdateNext(v) ==
  UpdateStep(v) /\ UNCHANGED <<wk, hl, reports, yc, crashes, lost>>

EncodeNext(v, e) ==
  /\ EncodeSucceeds(v, e) \/ EncodeFails(v, e)
  /\ UNCHANGED <<wk, hl, reports, yc, tc, calls, crashes, lost>>

CrashNext == Crash /\ UNCHANGED <<store, reports, calls>>

Next ==
  \/ \E w \in Workers : DeliverBy(w)
  \/ \E h \in Healers : HealBy(h) \/ \E query \in SUBSET Videos : SweepBy(h, query)
  \/ CallbackNext
  \/ \E v \in Videos : UploadNext(v) \/ UpdateNext(v)
  \/ \E v \in Videos, e \in Encodes : EncodeNext(v, e)
  \/ CrashNext

Spec == Init /\ [][Next]_vars

-----------------------------------------------------------------------------
(* Fairness. The celery workers, the daemon and the web server are always    *)
(* running, so a process that can take its next step does. The rest is about *)
(* what they wait for: a deliverable is not refused for ever, an encode does *)
(* not fail for ever, edx-val does not turn a report down for ever, and the  *)
(* nightly heal, which never skips the audio, comes back to every video.     *)
SavedAtLast(v, e) ==
  \E w \in Workers : wk[w].pc = "took" /\ wk[w].v = v /\ wk[w].e = e
                    /\ SaveUrl(w) /\ DeliverBy(w)

TakenAtLast(v, e) == \E w \in Workers : Take(w, v, e) /\ DeliverBy(w)

EncodedAtLast(v, e) == EncodeSucceeds(v, e) /\ EncodeNext(v, e)

HealedAtLast(v) ==
  /\ \E h \in Healers, query \in SUBSET Videos :
       v \in query /\ StartSweep(h, query, {})
  /\ UNCHANGED <<wk, reports, yc, tc, calls, crashes, lost>>

AcceptedAtLast(v) ==
  \E h \in Healers :
    /\ hl[h].pc = "report" /\ hl[h].v = v
    /\ HealBy(h)
    /\ val'[v] = hl[h].sends

Fairness ==
  /\ \A w \in Workers : WF_vars(DeliverBy(w))
  /\ \A h \in Healers : WF_vars(HealBy(h))
  /\ WF_vars(CallbackNext)
  /\ \A v \in Videos :
       /\ WF_vars(UpdateNext(v))
       /\ SF_vars(HealedAtLast(v))
       /\ SF_vars(AcceptedAtLast(v))
  /\ \A v \in Videos, e \in Encodes :
       /\ WF_vars(EncodeNext(v, e))
       /\ SF_vars(EncodedAtLast(v, e))
       /\ SF_vars(TakenAtLast(v, e))
       /\ SF_vars(SavedAtLast(v, e))

FairSpec == Spec /\ Fairness

-----------------------------------------------------------------------------
(* What a status claims about a video ingest accepted is true: complete only *)
(* with its URL rows, and never corrupt.                                     *)
Earned(v, s) ==
  v \notin Invalid =>
    /\ s # "Corrupt File"
    /\ s \in CompleteStatus => Counted \subseteq urls[v]

(* A video that ingest accepted is only marked complete, in either of the    *)
(* two spellings of the code, when each encode that counts has its URL row,  *)
(* and never marked corrupt, although every writer works from a row it read  *)
(* earlier and update_video_status saves such a row back whole.              *)
CompleteIsDelivered == \A v \in Videos : Earned(v, status[v])

(* edx-val is told no more than that: 'file_complete' only with every        *)
(* counted encode delivered, a transcription status only with every encode   *)
(* the transcription waits for.                                              *)
ValEarned(v, s) ==
  /\ v \notin Invalid /\ s = "file_complete" => Counted \subseteq urls[v]
  /\ s \in {"transcription_in_progress", "transcript_ready"}
       => Awaited \subseteq urls[v]

(* edx-val never shows a video as complete, or in transcription, before the  *)
(* encodes behind that claim are in the database.                            *)
ValNeverAhead == \A v \in Videos : ValEarned(v, val[v])

Started == {"IN PROGRESS", "READY"}

(* "We only want to generate transcripts when all the encodings (except for  *)
(* YT and Review) are done": a transcript is in progress or ready only for   *)
(* such a video, whichever of its deliveries started it.                     *)
TranscriptAfterEncodes ==
  \A v \in Videos : tstatus[v] \in Started => Awaited \subseteq urls[v]

(* The workers between the URL row they wrote and their look at the others'. *)
Finishing(v) ==
  \E w \in Workers :
    /\ wk[w].pc \in {"saved", "judged", "updated", "told", "starting",
                     "announced"}
    /\ wk[w].v = v

(* Of workers that deliver the last encodes of a video side by side, at least*)
(* one starts the transcription: once all the encodes are there and no       *)
(* delivery is under way, a transcription is no longer pending, unless a     *)
(* delivery of the video died.                                               *)
LastOneStartsTranscription ==
  \A v \in Transcribed \cap HasCredentials :
    Awaited # {} /\ Awaited \subseteq urls[v] /\ tstatus[v] = "PENDING"
      => Finishing(v) \/ v \in lost

-----------------------------------------------------------------------------
(* The inductive invariant. The four properties above are kept only because  *)
(* every row, decision and message the processes carry is true of the URL    *)
(* rows as well, and stays true: URL rows are never deleted.                 *)
WorkersEarned ==
  \A w \in Workers : wk[w].pc # "idle" =>
    /\ Earned(wk[w].v, wk[w].snap)
    /\ Earned(wk[w].v, wk[w].res)
    /\ wk[w].pc \in {"starting", "announced"} => Awaited \subseteq urls[wk[w].v]

HealersEarned ==
  \A h \in Healers :
    /\ hl[h].pc # "idle" =>
         /\ hl[h].skips \subseteq Uncounted
         /\ \A o \in hl[h].todo :
              /\ Earned(o.v, o.status)
              /\ o.tstatus \in Started => Awaited \subseteq urls[o.v]
    /\ hl[h].pc \in {"report", "tell"} => ValEarned(hl[h].v, hl[h].sends)

CallbackEarned ==
  yc.pc # "idle" =>
    /\ Earned(yc.r[1], yc.snap)
    /\ yc.pc \in {"complete", "tell_complete"} => Earned(yc.r[1], "Complete")

UpdatesEarned ==
  \A v \in Videos : tc[v].pc # "idle" =>
    Earned(v, tc[v].snap) /\ Awaited \subseteq urls[v]

(* The YouTube part of the pipeline only moves for courses that publish there.*)
YoutubeOnly ==
  dropbox # {} \/ reports # {} \/ yc.pc # "idle" => "youtube" \in Encodes

IInv ==
  /\ TypeOK
  /\ CompleteIsDelivered
  /\ ValNeverAhead
  /\ TranscriptAfterEncodes
  /\ LastOneStartsTranscription
  /\ WorkersEarned
  /\ HealersEarned
  /\ CallbackEarned
  /\ UpdatesEarned
  /\ YoutubeOnly

-----------------------------------------------------------------------------
(* The heal process is there for "finding and repairing failed encodes":     *)
(* whatever encodes, deliveries and heal runs fail or die, and however often *)
(* a stale row is written back over the status, a video that ingest accepted *)
(* ends as 'Complete' for good.                                              *)
HealCompletes ==
  \A v \in Videos \ Invalid : <>[](status[v] = "Complete")

(* "All these retries are for the data-parity between VAL and VEDA, as calls *)
(* to VAL api are unreliable": although any call may be lost, and calls of   *)
(* several processes overtake each other, edx-val ends with the status the   *)
(* transcript row stands for.                                                *)
ValCatchesUp ==
  \A v \in Videos \ Invalid :
    <>[](val[v] = TranscriptStatusInVal(tstatus[v]))

(* urlpatch clears a 'Youtube Duplicate' when the upload of the video turns  *)
(* out to have succeeded: although both kinds of report lie in the directory *)
(* and come again in any order with every crawl, and the crawls end with the *)
(* first YouTube URL, a published video ends as 'Complete'. Only for videos  *)
(* without transcription: the rows that one saves back may bring the         *)
(* duplicate back after the last crawl.                                      *)
PublishedCompletes ==
  \A v \in Videos \ (Invalid \cup Transcribed) :
    <>[](<<v, "Successful">> \in reports => status[v] = "Complete")

(* The pipeline keeps the promise of VideoPromise: the URL rows are what is  *)
(* delivered, the encode status says whether the video is called complete,   *)
(* the transcript status whether its transcription was started.              *)
Promise == INSTANCE VideoPromise WITH
  Exempt <- Invalid,
  delivered <- urls,
  complete <- [v \in Videos |-> status[v] \in CompleteStatus],
  transcribed <- [v \in Videos |-> tstatus[v] \in Started]

KeepsPromise == Promise!PromiseSpec
=============================================================================

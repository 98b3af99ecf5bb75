# The edx-video-pipeline in TLA+

This directory is a verification development of the video pipeline (VEDA): TLA+
modules translated from the source, TLC configurations that check them on small
instances, and TLAPS proofs that hold for every instance. Paths are relative to the
root of the repository.

## 1. The system

VEDA takes videos that course teams upload in Studio, has each encoded to the profiles
of its course, delivers the encodes to S3 and YouTube, orders transcripts from Cielo24
or 3PlayMedia, and keeps edx-val (the video abstraction layer of the LMS) informed. It
is a set of Python processes around one MySQL database:

| Component | State it keeps | Operations | Interacts with |
|---|---|---|---|
| Ingest (`control/http_ingest_celeryapp.py`, `veda_file_discovery.py`, `veda_file_ingest.py`, `IngestFromS3View`) | Video and Course rows, S3 objects | SNS notification → celery task → `validate_metadata_and_feed_to_ingest` → `VedaIngest.insert` | database, S3, edx-val; ends in a heal run for the new video |
| Encode rules (`veda_encode.py`) | none | `determine_encodes`: active profiles of the course minus URL rows | database, Shotgun (review) |
| Heal (`veda_heal.py`, `bin/heal`) | `self.val_status` across its loop | `send_encodes` after an ingest, every night over the videos of 6 to 144 hours ago, on request | database, celery queue of the encode workers, edx-val |
| Encode worker (edx-video-worker, another repository) | – | takes `worker_encode`, sends `supervisor_deliver` | celery |
| Delivery workers (`veda_deliver.py`, `celeryapp.py`) | `self.video_query`, read once | `VedaDelivery.run`: fetch, validate, upload, URL row, status, edx-val, start of transcription | database, S3, YouTube drop box, edx-val, providers |
| YouTube callback daemon (`youtube_callback/`) | downloaded reports | crawl, `urlpatch` per report | database, edx-val, SFTP of the partner |
| Transcripts (`VEDA_OS01/transcripts.py`, `veda_deliver_cielo.py`, `veda_deliver_3play.py`) | TranscriptProcessMetadata rows per language | order, callback, fetch/convert/upload, translations | database, providers, S3, edx-val |
| edx-val client (`veda_val.py`) | – | GET then POST/PUT of a status and the encodes, PATCH of a transcript status | edx-val |
| Upload page and course form (`frontend/`, `templates/js/uploads.js`) | VedaUpload and Course rows | course form, posts of the page, mails on the outcome (`abvid_reporting.py`, `Report` of `veda_utils.py`) | database, S3, ingest daemon, YouTube callback |
| Hot store (`veda_hotstore.py`) | S3 objects, temporary directories | upload of the source, whole or in parts | work directory, S3 |
| HLS backfill (`re_encode_videos_missing_hls.py`) | its configuration row with the offset | batches of videos edx-val has without HLS | edx-val, database, low queue |
| Credentials (`TranscriptCredentialsView`, `re_encrypt_transcript_credentials.py`) | encrypted rows per organization and provider | post, exchange for a token, encryption under a new key | platform, providers, database |
| Other viewsets, admin, other commands | single rows | see section 7 | |

What makes it hard:

* **No transactions.** Django runs in autocommit; except for the allocation of VEDA ids
  no handler opens a transaction. Every process reads a row, works for minutes (uploads,
  HTTP calls) and writes.
* **Stale rows.** `_FAULT` judges by the status of an object read earlier;
  `update_video_status` (`VEDA_OS01/utils.py:45`) saves such an object *whole*.
* **At most once.** Celery acknowledges early, so the death of a process loses its task;
  a failing call of edx-val is only logged. Recovery is the nightly heal.
* **At least once.** YouTube's reports are read again at every crawl for four days; heal
  may queue an encode that is in the queue already.
* **No order.** Workers, heal, daemon and callbacks write the same row and report to
  edx-val independently.

What makes each component correct:

* *Video rows*: complete only with the URL rows behind it; never corrupt by accident;
  a transcription starts after the encodes it waits for, and does start.
* *edx-val*: never ahead of the database, and in agreement with it in the end.
* *Heal*: whatever fails is repaired in the end.
* *Ingest*: one Video row per upload, no VEDA id given out twice, a video is queued.
* *Transcripts*: READY when, and only when, every language is there; no order placed at a
  provider is lost sight of.
* *edx-val client*: the encodes of a video in edx-val only grow, and each is told.
* *Files*: what arrives is the right file and all of it, although processes share a
  directory.
* *Credentials*: always readable, and the last ones posted.
* *About videos*: one Video per file uploaded, and the uploader hears once that it is
  complete.

## 2. Modules

| Module | Models | State → code |
|---|---|---|
| `VideoStore` | what the processes share | `status`, `tstatus`: `Video.video_trans_status`, `.transcript_status`; `urls`: profiles with a URL row; `val`: status in edx-val; `jobs`, `tasks`: celery messages; `dropbox`: SFTP drop box. Operators: `Missing` (`determine_encodes`), `FAULT`/`FaultWrites` (`Metadata._FAULT`), `SaveVideo` (`update_video_status`), `CallVal` (`VALAPICall`) |
| `Deliver` | `VedaDelivery.run` | `wk[w]`: the step a worker is at, the message, `snap` = status of `self.video_query`, `res` = `self.status` |
| `Heal` | `VedaHeal.send_encodes` | `hl[h]`: objects of the query still to come, the video at hand, `list` = `encode_list`, `sends` = `self.val_status` |
| `YoutubeCallback` | daemon and `urlpatch` | `reports`: the files at the partner; `yc`: downloaded reports, the one at hand, `snap` = status of `test_id` |
| `TranscriptUpdate` | the last callback of a provider, as far as the Video row goes | `tc[v]`: the Video loaded by the callback |
| `Pipeline` | all of them together, the encode worker (external) and the death of tasks; the properties | `crashes`, `lost` are for the properties only |
| `VideoPromise` | the abstract specification of the pipeline: what a course team may rely on | |
| `TranscriptPromise` | the abstract specification of the transcripts of one video, for both providers | `ordered`, `received`, `shipped`: languages; `ready`: the video was announced |
| `MCPipeline`, `MCPipelineLive` | instances for TLC | `sweeps` counts heal runs |
| `Ingest` | the ingest tasks, from notification to queued encodes | `courses`, `videos`: Course and Video rows by primary key; `key`: the folder of the bucket an upload lies in; `notices`: celery tasks waiting; `files`: the work directories, `left`: what killed tasks left there in pieces; `iw[w]`: the step a task is at, `seen` = the Course object it read, `id` and `valid` of its `video_proto` |
| `Cielo24` | the orders and the callbacks of one video | `rows`: TranscriptProcessMetadata; `vstatus`: `Video.transcript_status`; `orders[o]`: the loop over the languages with `job_id`; `handlers[h]`: the callback at work |
| `ThreePlay` | 3PlayMedia: one video, its transcript and its translations | `rows`: TranscriptProcessMetadata; `vstatus`: `Video.transcript_status`; `handlers[h]`: a callback at work; `sweeps[s]`: a run of `retrieve_three_play_translations`; `garbled`: rows with an error text of 3Play on S3 |
| `ValClient` | the encode lists `veda_val.py` gets, merges and puts | `urls`: URL rows in their order; `val`: the record of a video in edx-val; `callers[c]`: a call at work, with what it got |
| `HlsBackfill` | `re_encode_videos_missing_hls` around `ValClient`, and the deliveries it causes | `runs[r]`; `offset`: of the configuration; `transcribe`: `Video.process_transcription`; `writers[w]`: a Video object to be saved whole |
| `Credentials` | the credentials view and the command that encrypts the rows anew | `keys`: `FERNET_KEYS`; `proc[p]`: the keys a web process started with; `rows`; `posts[p]`; `job`: the command with the rows it read and locked |
| `CourseForm` | the form that adds a course, and its codes | `courses`, `forms[f]` |
| `AboutVideo` | about videos: page, ingest daemon, YouTube reports, mails; extends `CourseForm` | `records`: VedaUpload; `sends`: how many files were sent under a serial; `folders`: which of them lies in each folder of the bucket; `videos`: Video rows, each with its file; `mails`: those that went out; `dm[d]`: the step a daemon is at |
| `Transfers` | the files on one machine: deliveries, YouTube drops, hot store | `disk`: the work directory; `dv[p]`, `st[s]`: deliveries and stores at work; `s3`, `drops`, `hot`: what arrived |
| `MCIngest`, `MCCielo24`, `MCThreePlay`, `MCHlsBackfill`, `MCCredentials`, `MCAboutVideo`, `MCTransfers` | instances for TLC | |
| `Pipeline_proofs`, `Ingest_proofs`, `Cielo24_proofs`, `ThreePlay_proofs`, `Credentials_proofs`, `HlsBackfill_proofs`, `AboutVideo_proofs`, `Transfers_proofs` | theorems | |

One action is one access to the shared state: everything a process does between two such
accesses is local and belongs to the action. So `VedaDelivery.run` is `Take` (message
acknowledged, row read), `SaveUrl`, `DETERMINE_STATUS` (with the write `_FAULT` makes on
the way), `UPDATE_DATA`, `TellDelivery`, `CheckReady`, `TellTranscription`,
`StartTranscription`, with `Refuse` and `YOUTUBE_SFTP` as the two early ends. The snapshot
a process took stays in its record until it is used: this is where the behaviour comes
from.

`Ingest` and `Cielo24` stand beside `Pipeline`, not in it. `Pipeline` starts from the
Video row that ingest leaves (a row, encodes queued or not: heal finds them), so
`ProcessedIsQueued` and `NoUploadLost` are what the pipeline may assume of ingest. Its
`TranscriptUpdate` lets any callback be the last one; `Cielo24` says which is. A stale
Video row that a delivery saves over the transcript status is a matter of `Pipeline`;
in `Cielo24` only orders and callbacks write it.

In `Ingest` one row lock and one transaction exist (`GenerateVedaId`,
`veda_file_ingest.py:404-412`); everything else is a step of its own: reading the Course,
creating it, saving its runs, download, inspection, the look for a row, the insert, the
renaming of the file, `send_encodes`, the move of the upload to the folder of the
processed or rejected. In `Cielo24` an order takes a step per language and result, and a
callback is `Receive`, `MarkReady` (or `FetchFails`), `Upload` (or `UploadFails`), `Check`,
`Announce`, and may `Die` in between.

In `ThreePlay` a callback is `Receive` (the row becomes IN PROGRESS or FAILED), the fetch,
`Validate`, `Upload`, then per target language a row, the services, an order and its mark,
and `Announce`; a retrieval lists the rows once and treats each: tracks, download,
`Retrieve` (the row becomes READY), upload, look at all rows, announcement. Every access to
the database and to 3PlayMedia is a step, and each may be the last of a process.

In `ValClient` a call of edx-val is the get, the choice of the encodes (`Determine`, with
the merge of `profile_determiner`) and the put; `HlsBackfill` has the deliveries, heal
and the command make such calls side by side. In `Credentials` only what is locked is one
step: the row of an `update_or_create`, and what the transaction of the command has saved.
`Transfers` has a step per file that is created, read or deleted.

Operators whose comment says *Bug* (`SaveVideoSwapped`, `CheckReadyOnDesktop`, ...) are
not part of the specification: each is a slip in the definition that follows it, and the
property named for it in `PROJECT.json` fails with it. They show that the properties can
fail.

## 3. Properties

* `CompleteIsDelivered`: a video that ingest accepted is `Complete` or `File Complete`
  only when each counted encode has its URL row, and never `Corrupt File`.
* `ValNeverAhead`: the same for edx-val; a transcription status only with every encode
  the transcription waits for.
* `TranscriptAfterEncodes`, `LastOneStartsTranscription`: "We only want to generate
  transcripts when all the encodings(except for YT and Review) are done"
  (`veda_deliver.py:103`): not earlier, and of workers finishing side by side one does.
* `IInv`: the inductive invariant of section 6, checked with TLC before it was proved.
* `KeepsPromise`: the refinement of `VideoPromise`.
* `HealCompletes`: every accepted video ends as `Complete` and stays so.
* `ValCatchesUp`: edx-val ends with the status of the transcript row.

* `PublishedCompletes`: a video whose upload to YouTube succeeded ends as complete and
  never stays a duplicate, however often the reports are read again. It speaks of videos
  without transcription: the stale row a transcription saves may bring `Youtube Duplicate`
  back after the last crawl.
* `NoUploadLost`: an upload moved to the processed ones has a Video row. This holds also
  where tasks share a work directory (`http_ingest_worker.sh:26` starts several on a
  machine) and rename each other's file, with one exception: boto empties a file when it
  opens it and removes it when the download fails (`veda_file_discovery.py:249`). If the
  file was another task's, which had yet to inspect it, that task makes no row and
  is complete all the same: the upload is lost, and `Taken` says so.
* `ProcessedIsQueued`: and encodes were queued for such a row. Only with work directories
  of their own: of two tasks in one directory the one that finds the file gone marks the
  upload processed, while the one that took it may still die before the queue.
* `IdsDistinct`: no two Video rows have the same VEDA id, unless a stale Course row took
  the counter back (`rewound`); that this happens is the divergence `LastVideoId` below.
* `LastCallbackAnnounces`: of callbacks that finish side by side the last to look finds
  every row READY and announces. The two exceptions are in the formula: a callback that
  ended between READY and its look (the error of an upload is swallowed by `send_robust`
  and Cielo24 gets its 200), and a second order that said IN PROGRESS before any job of it.
* `ReadyHasTranscript`: rows are READY before anything is uploaded, but a READY video has
  a transcript on S3.
* `ReadyHasLanguages`, `LastRetrievalAnnounces` (`transcripts.py:1034`, `:1055`): the same
  two for 3PlayMedia, where a callback and the heal runs share the work: a READY video has,
  in each preferred language, a transcript on S3, one being uploaded, or one that a
  failure after READY dropped; when every row is READY the video is READY, or somebody
  still has to look, or a process ended in between. An error text 3PlayMedia sends in
  place of a transcript does not count as one, and the first of the two has an exception
  for it (`OnlyAnError`): a video with nothing to translate is announced with that text.
* `OrdersTracked` (`transcripts.py:548`, `:760`): every translation ordered has a row
  that says so, however often the callback is repeated, unless the callbacks of one file
  overlapped or a process died between the order and its mark.
* `CieloKeepsPromise`, `ThreePlayKeepsPromise`: the refinements of `TranscriptPromise`. A
  language is ordered, received, put on S3, in this order, and none of it is undone; the
  video is announced with a transcript on S3 and every wanted language received, and only a
  new order takes that back. A language counts as ordered when the provider has it, as
  received when a row of it is on S3, is being uploaded, or was dropped on the way there.
  For 3PlayMedia the wanted languages are those of the Video row. For Cielo24 none is
  named: a language whose job could not be created has no row, the callback looks only at
  the rows there are (`transcripts.py:260`), and so a preferred language may be missing.
  An error text of 3PlayMedia is neither received nor shipped, and a video with nothing to
  translate for which one was put on S3 does not count as announced.
* `EncodesStay`, `EncodesReported` (`veda_val.py:185`): an encode edx-val had is not taken
  back, and the encode of a delivery whose call succeeded is there, unless two calls for
  the video overlapped.
* `TranscriptionStaysOff` (`re_encode_videos_missing_hls.py:319`): an encode of the command
  orders no transcription, unless a row read before was saved over its flag, or the encode
  was enqueued with `--veda_id`, which does not touch the flag.
* `Readable`, `UpdateKept` (`views.py:267`, `re_encrypt_transcript_credentials.py:37`).
* `OneVideo`, `NoneLost` (`veda_file_discovery.py:121-128`): an upload has a Video row for
  each file sent under its serial at most, and one more for each time the daemon stopped
  between a Video and the move. The file the daemon downloaded leaves the folder it looks
  at only with a copy, and with a Video made from it or a final report. A file sent again
  in the meantime leaves with it (see below).
* `FailedFirst` (`abvid_reporting.py:43`): a failure is mailed before anything else about
  the upload or not at all. Only the daemon of the YouTube callback mails; the mail of the
  ingest daemon never goes out (see below), but its report makes the row final, and so it
  matters to what the other one mails.
* `SuccessStands` (`veda_utils.py:87-102`, `abvid_reporting.py:43-56`): a row that says
  complete is not set back by a failure, of another file or another report, unless the
  success was written between the look and the update of that failure (`raced`).
* `SuccessOnce` (`veda_utils.py:108`): there is one mail of success for each URL row, sent,
  under way or swallowed by a stop.
* `AboutInv` holds `CodesDistinct` and `CourseFound`: two courses of one code come only
  from two requests between look and save (`course_validate.py:271`).
* `ObjectsOwn`, `DropsOwn`, `HotWhole` (`veda_deliver.py:79`, `veda_deliver_youtube.py:168`,
  `veda_hotstore.py:103`): what arrives on S3, at YouTube and in the hot store. Each names
  the one overlap that breaks it: two deliveries of the same encode, the two sidecars of
  one name, a directory emptied while a source was cut.

The exceptions in these formulas (`raced`, `overlapped`, `late`, `during`, `switched`, ...)
are variables that record the overlap the code does not guard against, and nothing else:
they are set where it happens and read by the properties only.

A statement of the code that is **not** true of it, with its run:

* `OneRowPerUpload` (`veda_file_ingest.py:221`, "Protect against crash/duplicate inserts"):
  two tasks for one upload both find no row and both insert one.

Others that the models let happen, without a run of their own:

* "protection against double encoding" (`veda_encode.py:4`, `:84`): the encodes heal queues
  are computed before its call of edx-val, one delivered meanwhile is queued again.
* "transcription phase comes after encoding phase" (`veda_heal.py:181`): the delivery that
  starts the transcription saves the Video it read at its beginning, and the row goes back
  from `Complete` until heal repairs it (`HealCompletes`).
* "Failure at any discovery point will cause video file to be marked as rejected"
  (`veda_file_discovery.py:294`): only an `S3DataError` does; any other failure of the
  download ends the task and leaves the upload where it is, and in a shared directory the
  failure of one task can let another mark the upload as processed without a row.
* `last_vid_number`, "Last Video ID" (`models.py:269`): `get_or_create_course` saves a whole
  Course it read before, with an old number (`rewound` in `Ingest`).
* "only if all langauge transcripts are ready" (`transcripts.py:258`): the check looks at
  the rows there are; a language that was never ordered has none.
* "Encode all videos for HLS" (`models.py:759`): the offset grows by the size of a batch
  while the videos of that batch leave edx-val's list, so others are passed over.
* "This file is complete ... this will only go past once" (`veda_utils.py:108`) is true of
  the mail (`SuccessOnce`), but the mail may not go at all.
* The mail of `Report.upload_status` (`veda_utils.py:141-145`): its recipients are what
  `list.append` returns, `None` (line 39). In production `send_email` raises and the daemon
  stops, with the row final and the upload not moved; elsewhere nothing is sent.
* "Move Key out of 'upload' folder" (`veda_file_discovery.py:124`): the key is copied and
  deleted by name. A file sent under the serial since the download is moved in the place
  of the one that was ingested, or deleted uncopied if it arrived between the two calls.
* `VedaUpload` has one file: the page's Dropzone takes any number of them under its serial
  (`uploads.js:72-79`), each gives a Video.
* "Validate transcript content ... and mark the transcription process"
  (`transcripts.py:718`): the callback marks the row of an error text FAILED and goes on
  with it (726-734). The text is put on S3 and told to edx-val, translations of the file are
  ordered, and if there are none to order the video is READY with it (793-798). A repeated
  callback may put such a text after a transcript, and edx-val then has the text.

What `Cielo24` shows besides, without a statement of the code to measure it by: when
`create_job` fails for a language, the row of the language *before* is marked FAILED, also
if its callback has made it READY (`veda_deliver_cielo.py:104`, action `CreateFails`); and
a FAILED row of an earlier order keeps a video from ever being announced.

## 4. Runs and bounds

| Run | Instance | Shows |
|---|---|---|
| `workers` | 1 video, `desktop_mp4` + `hls`, 2 workers (symmetric), 2 heal runs, 1 death | the races of workers; 960 000 states |
| `youtube` | 1 video, `desktop_mp4` + `youtube`, worker, heal, daemon, 1 callback | repeated and contradictory reports, refinement of `VideoPromise`; 1.4 million states |
| `live` | 1 video, `desktop_mp4`, transcript, 1 death, heal without end | `HealCompletes`, `ValCatchesUp` |
| `live_youtube` | 1 video, `youtube`, heal without end, reports again and again | `PublishedCompletes` |
| `ingest` | 2 uploads with 2 notifications each, one invalid, 2 tasks, on one machine or two | the four properties of ingest; 1.1 million states |
| `cielo24` | 2 languages, 2 orders, 2 callbacks at a time, 4 calls | the properties of Cielo24, refinement of `TranscriptPromise`; 640 000 states |
| `three_play` | a source and a translation, 2 callbacks at a time, 2 heal runs | the properties of ThreePlay, refinement of `TranscriptPromise`; 940 000 states |
| `hls_backfill` | 1 video, 2 callers of edx-val, 1 run of the command, 1 writer | the merge of encodes and the transcription flag; 3.3 million states |
| `credentials` | 2 accounts, one of them Cielo24, 2 web processes, 3 keys | `Readable`, `UpdateKept`; 2.6 million states |
| `front_end` | 1 upload, 2 files sent under its serial, 2 requests of the form, 2 codes, 1 stop of a daemon | about videos; 1.5 million states |
| `transfers` | 4 encodes, 2 sources, 2 deliveries and 2 stores, 3 tasks | the files; 1.2 million states |
| `ingest_twice` | the smallest instance | the divergence of ingest |

Bounds: `MaxCopies` (copies of one message waiting), `MaxCrashes`, `MaxCallbacks`,
`MaxSweeps` (heal runs in the safety runs), `MaxDeaths` and `MaxWork` (in `MCThreePlay`:
processes that end too early, and languages, orders, calls and retrievals together). Two
workers and two encodes are the smallest instance in which "the last one" is ambiguous;
one heal run beside them suffices because two heal runs never read what the other holds,
and `MaxSweeps = 2` lets a second run see the results of the first. One copy per message
still allows double encoding, because the copy waiting and the copy being encoded or
delivered are different. In `Ingest` `MaxNotices = 2` is a repeated notification, and two
tasks are all that race for one row; in `Cielo24` `MaxCalls = 4` lets both jobs of an
order be called for twice, or one job of each order and two of them again. In `ThreePlay`
two callbacks and two retrievals at a time are what races for one row. In `HlsBackfill`
one video suffices because every variable and every guard is per video but the offset; its
two runs are made one after the other, and a delivery they cause overlaps another call and
a stale save. In `Credentials` three keys give a process that is two behind. One stop
(`MaxStops`) in `AboutVideo` lets a file be ingested twice, and two files (`MaxSends`) let
one replace the other at any step of the daemon, or follow it. `MCAboutVideo` starts
without a course and lets the form work before a file is sent or between two: form and
daemon share only the courses, which the daemon reads when it finds a file; in `Transfers`
three tasks are one between two others, and four encodes have two of one video, both for
YouTube. The run `workers` has no corrupt video (`Invalid`), nor has another; the proofs
hold with any number of them. The proofs have none of these limits.

`CHECK_DEADLOCK FALSE` stands in the safety runs only: there the heal runs, the
notifications or the calls are used up and the system stops. In the runs with heal
without end deadlock is checked.

## 5. Fairness

Weak fairness of each worker, heal run, callback and of the daemon: they are service
processes that run all the time. Strong fairness where the environment may refuse again
and again but not for ever: a deliverable is accepted at last (`SavedAtLast`), a message
taken (`TakenAtLast`), an encode succeeds (`EncodedAtLast`), the nightly heal without
`--no_audio` comes to each video (`HealedAtLast`; `bin/heal` schedules itself with a
celery ETA), and edx-val accepts a report of heal (`AcceptedAtLast`). The window of the
nightly heal (6 to 144 hours) is taken to be open for as long as it takes: a video that
fails for six days is left as it is, by design.

## 6. Proofs

`Pipeline_proofs` proves for every set of videos, workers and heal runs, every choice of
active encodes and every bound:

* `TypeCorrect`, and `Invariance`: `Spec => []IInv`;
* `StatusCorrect`, `ValCorrect`, `TranscriptCorrect`, `TranscriptStarted`: the four safety
  properties;
* `PipelineKeepsPromise`: `Spec => KeepsPromise`, the refinement of `VideoPromise`.

The four properties are not inductive: a worker that holds `res = "Complete"` will write
it whatever the row says then. The strengthening `IInv` says that everything a process
carries is *earned*: the snapshots and results of workers, daemon and callbacks, the
objects of a heal query and the status heal is about to send are each true of the URL
rows. It stays so for one reason, the lemma behind every case: URL rows are only added
(`Grow`), so what was true of them remains true while a process sleeps on it. `YoutubeOnly`
is needed because `urlpatch` writes a URL row for a profile that must be active, and
`lost` because the death of the last worker is the one way to lose a transcription.

`Ingest_proofs` proves `IngestInvariance` (`Spec => []IngestInv`) and from it
`NoUploadIsLost`, `IdsAreDistinct` and `ProcessedAreQueued`, for any number of uploads,
course runs, tasks and notifications. `IdsDistinct` alone is not inductive: `NumbersFresh`
adds that a number a task holds is at most the counter and nobody else's, which the row
lock preserves; `RowsMade` and `FilesKept` say what a task may conclude from the file it
finds, or does not find, in its directory: one that is missing was renamed by a task that
had a row, or was `taken`.

`Cielo24_proofs` proves `CieloInvariance` (`Spec => []CieloInv`), `LastIsAnnounced` and
`ReadyHasUpload`, for any number of languages, orders and callbacks. The argument for
`LastCallbackAnnounces` is by the step that would break it: a step that makes the last row
READY is that of a callback which still has to look; a step that ends a callback without
announcing found a row that is not READY, or counts it as lost. `UploadedFirst` is the
strengthening `ReadyHasTranscript` needs. `CieloImplementsPromise` (`Spec =>
CieloKeepsPromise`) shows of every action which step of `TranscriptPromise` it is, or that
the promise does not see it: the placed job is `Order`, `MarkReady` is `Receive`, `Upload`
is `Ship`. A death after the fetch moves a row from "being uploaded" to "dropped" and is
not seen. The proof needs `AcceptedFirst`, that a callback works on a job Cielo24 has.

`ThreePlay_proofs` proves `ThreePlayInvariance` (`Spec => []ThreePlayInv`),
`ReadyIsCovered`, `LastOneAnnounces` and `OrdersAreTracked`, for any number of languages,
deliveries, callbacks and runs of heal. The proof takes the invariant apart by what it
speaks of, a row (`Process`), a request (`Asked`), a retrieval (`Asking`), and shows once
(`Step`) what every step must leave alone: no row disappears or changes its file or
language, nothing on S3 is taken back, and a row being uploaded is on S3 afterwards, still
being uploaded, or counts as dropped (`Frame`). `CreatedFirst` and `CoveredFirst` are what
`ReadyHasLanguages` needs: a retrieval may announce because the rows of all languages were
there before the first translation was ordered; a callback, because the transcript of the
source is on S3, unless it is an error text that it goes on with (`GoOn`, `OnlyAnError`).
`IdsKept` is what `OrdersTracked` needs: a row gets a second id only where two requests
overlap on its file (`Alone`), and then its translations no longer count.
`ThreePlayImplementsPromise` (`Spec => ThreePlayKeepsPromise`) is proved the same way as
for Cielo24, with two more conjuncts. `OrderedFirst`: a row is of a file 3PlayMedia has,
and a translation at hand is in the language of its row, so that what is received was
ordered. `ShippedFirst`: who goes on after an upload has a row on S3, so that an announced
video has one. The rows matter to the promise only through the set of those that are
covered and of those on S3 (`CoveredRows`, `OnS3`): `RowsOnly` says of every step but the
uploads that it leaves S3 alone, and `CoveredStep` and `LeftCovered` say what a step does
to the sets.

`Credentials_proofs` proves `CredentialsInvariance` (`Spec => []CredentialsInv`),
`RowsAreReadable` and `UpdatesAreKept`, for any number of accounts, keys, processes and
posts. `Readable` needs `UnderNewest`: while the rotation runs with the keys of the
settings, a row it did not read is already under their newest key, and when it is done
all are. `KeyOrder` excludes the remaining case, a rotation begun with older settings that
would count as complete. `UpdateKept` needs `Held`: what the rotation read of a row is
what was written last, unless a post came in between (`during`).

`HlsBackfill_proofs` proves `BackfillInvariance` (`Spec => []BackfillInv`),
`EncodesAreKept`, `EncodesAreReported` (both of `ValClient`, in the composition with the
backfill) and `TranscriptionIsOff`. A PUT keeps what edx-val has because of `Merged`, that
the list to send has all that was read, and because a list read before another PUT counts
as a race; `Backed` is what makes an empty list impossible for a video with URL rows.
`StaysOff` follows the flag from the run that clears it over the queue to the snapshot of
the delivery; `Restoring` says the run switches it back only after the encode has a row.

`AboutVideo_proofs` proves `AboutInvariance` (`AboutInv`, `FailedFirst`, `OneVideo` and
`SuccessOnce` together are inductive) and from it `AboutCorrect`, `FailuresComeFirst`,
`SuccessesStand`, `SuccessesAreTold`, `SecondVideoNeedsStop` and `NoUploadLost`, for any
number of uploads, files, codes, requests and stops. A failure comes first because of
`Reporting`: the row is final before any mail about it, so the daemon that is about to mail
a failure found a row nobody had mailed about. `SuccessStands` rests on its third conjunct:
where a failure is about to be written and the row is complete, the success came since the
look. `SuccessOnce` is a count: the URL row `urlpatch` adds, the daemon that carries its
mail, the mail and those a stop swallowed each change two of its terms. `OneVideo` needs
`Moving`: while a file lies in the folder and the daemon has yet to make a Video of it, the
upload has fewer Videos than files sent and stops, so that the next one is allowed.

`Transfers_proofs` proves `TransfersInvariance` and from it `TransfersCorrect`,
`DeliveredIsEncode`, `DropIsOwn` and `HotIsWhole`, for any number of encodes, sources,
processes and tasks. The invariant has two halves, what the deliveries rely on
(`FileOwn`, `SidecarOwn`, `Sent`, `OwnDrops`) and what the stores rely on (`Cutting`,
`Emptied`, `OwnDirectories`), and a lemma for each says that a step of the other kind keeps
it, because the names they give their files differ; only `Empty` disturbs both. Emptying
the work directory does not hurt a delivery: a file it deletes is missed when it is opened,
and one written again under the name is of the same encode. It hurts a store, which sends
the parts that are left.

The assumptions are those of the constants (`StoreAssumption`, `PipelineAssumption`,
`IngestAssumption`, `Cielo24Assumption`, `ThreePlayAssumption`, `CredentialsAssumption`,
`ValAssumption`, `BackfillAssumption`, `CourseFormAssumption`, `AboutAssumption`,
`TransfersAssumption`): the bounds are natural numbers and the constants have the types the
configurations give them. Only model-checked is liveness (`HealCompletes`, `ValCatchesUp`,
`PublishedCompletes`): it needs fairness, which is out of the prover's reach.

## 7. Not modelled, and simplifications

* The review workflow (Shotgun, profile `review`, statuses `Review Hold`/`Review Reject`):
  they are set only through the REST API, and `check_review_approved` answers True
  without a script key. `freezing_bug` is never True in the code that builds a `VedaHeal`.
* The course and its active profiles do not change while its videos are in the pipeline.
* Several URL rows of one profile are one: no reader distinguishes them.
* Files and buckets: whether a deliverable is there, validates and can be uploaded is the
  choice between `Refuse` and `SaveUrl`.
* `Ingest`: one course; the messages of ingest to edx-val (`invalid`, `file corrupt`) are
  left out, a rejected upload is its folder; whether a token names a course is a choice;
  ids count by 1 where the code counts by 100. Ingest and delivery workers run on
  different machines: `veda_deliver.py:79-80` empties the work directory.
* `Cielo24`: the text, its conversion and its name are left out; a refusal of the
  transcript by edx-val is only logged and changes nothing here; a job is found by its
  number alone, because job ids are unique.
* `ThreePlay`: one file of one video; the texts, and the status edx-val is sent.
* `ValClient`: one record per video; the courses of a record (`send_200` compares them,
  lines 308-311), durations, sizes and the token. A report of a YouTube duplicate sends
  the encode without a URL row (`sftp_id_retrieve.py:465-471`) and is left out.
* `HlsBackfill`: the list of edx-val is ordered by video and starts at the offset; a dry
  run is a run that ends after `Look`.
* `Credentials`: a process that was not restarted answers 500 to a post for a row under a
  key it has not (`WriteFails`), and a row a stale process wrote under a dropped key halts
  the command (`JobHalts`); the providers answer yes or no.
* `AboutVideo`: one VedaUpload row per serial; validation is a choice. The details of the
  form come with an empty file name (`uploads.js:219`), so the page's own posts go to
  `validate_incoming` (`views.py:237`); `create_record` (`views.py:244-250`) is reached by
  other clients only, in the model once and at any time. `file_valid` and the comment, which
  `send_to_pipeline` writes, are left out: nothing reads them. The mail of the ingest daemon
  is a choice of production and elsewhere (`EmailAlertFails`, `EmailAlertPasses`); without a
  file name it fails everywhere. A daemon that ended is started again by somebody
  (`Restart`). The suggestions while a course is typed, the heal form and the Institution
  row are left out.
* `Transfers`: one machine; the time of a directory in the drop box is the choice between a
  new one and a clash; an encode above `multi_upload_barrier` is never delivered, because
  `self.deliverable` is not set (`veda_deliver.py:464`): `DeliveryDies` at that point.
* The viewsets and the admin, `re_ingest_from_hotstore`, parsing of XML and CSV, mail,
  vendored code, templates.

## 8. Plan

1. *Core pipeline* (done): `VideoStore`, `Deliver`, `Heal`, `YoutubeCallback`,
   `TranscriptUpdate`, `Pipeline`, `VideoPromise`, proofs of safety and refinement.
2. *Ingest* (done): SNS at least once, `get_or_create_course` against the allocation of
   `last_vid_number`, duplicate inserts, deaths between row and queue, proofs of safety.
3. *Cielo24* (done): process rows per language, callbacks side by side, READY before
   upload, proofs of safety.
4. *ThreePlay* (done): transcript, translation orders, retrieval by heal.
5. *ValClient*, *HlsBackfill*, *Credentials* (done).
6. *CourseForm*, *AboutVideo*, *Transfers* (done).
7. *TranscriptPromise* (done): what `Cielo24` and `ThreePlay` have in common, both shown to
   implement it.
8. Left: `self.val_status` carried from video to video in heal (`veda_heal.py:132`), which
   needs the viewsets that set `Review Hold`.

The runs are to stay few, one per question.

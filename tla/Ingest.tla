------------------------------- MODULE Ingest -------------------------------
(* The ingest workers (control/http_ingest_celeryapp.py,                     *)
(* veda_file_discovery.py, veda_file_ingest.py): each notification that an   *)
(* upload lies in the bucket becomes a celery task, which finds the Course,  *)
(* downloads the file, gives it a VEDA id and a Video row, queues its encodes*)
(* and moves the upload out of the way. Notifications come at least once,    *)
(* tasks run side by side, several on one machine in one work directory, and *)
(* die; only the VEDA id is taken under a row lock.                          *)
EXTENDS Naturals, Sequences

CONSTANTS
  Uploads,     \* the keys put into the ingest bucket, all for one course
  Tokened,     \* those that name their course by its upload token
  Broken,      \* those that are no video: the validation fails
  Runs,        \* the runs of the course
  RunOf,       \* the course run each upload is for
  Ingesters,   \* the ingest workers
  MaxNotices   \* bound: notifications for one upload

ASSUME IngestAssumption ==
  /\ Tokened \subseteq Uploads
  /\ Broken \subseteq Uploads
  /\ RunOf \in [Uploads -> Runs]
  /\ MaxNotices \in Nat

VARIABLES
  courses,  \* the Course rows of this course, by primary key
  videos,   \* the Video rows, by primary key
  key,      \* the folder of the bucket each upload lies in
  notices,  \* the ingest tasks waiting in the celery queue
  sent,     \* the notifications sent
  files,    \* the downloads, under the names of their uploads, in each place
  left,     \* those a task that was killed left in pieces
  queued,   \* the VEDA ids send_encodes was called for
  iw,       \* what each worker is doing
  rewound,  \* whether a stale Course row took back a last_vid_number
  shared,   \* whether the workers share a machine and its work directory
  taken     \* uploads whose file a failed download took from another task

vars ==
  <<courses, videos, key, notices, sent, files, left, queued, iw, rewound,
    shared, taken>>

Course == [last : Nat, runs : SUBSET Runs]
Video == [up : Uploads, id : Nat]
Places == Ingesters \cup {"machine"}
Place(w) == IF shared THEN "machine" ELSE w
File(w) == <<Place(w), iw[w].up>>

Idle == [pc |-> "idle"]

Steps == {"course", "create", "save_run", "download", "fetch", "gone",
          "inspect", "validate", "check", "number", "insert", "rename",
          "queue", "move"}

(* seen: the Course object of get_or_create_course; id, valid: video_proto.  *)
Task == [pc : Steps, up : Uploads, seen : Course, id : Nat, valid : BOOLEAN]

NoCourse == [last |-> 0, runs |-> {}]

TasksTyped == iw \in [Ingesters -> Task \cup {Idle}]

TypeOK ==
  /\ courses \in Seq(Course)
  /\ videos \in Seq(Video)
  /\ key \in [Uploads -> {"ingest", "processed", "rejected"}]
  /\ notices \in [Uploads -> Nat]
  /\ sent \in [Uploads -> 0..MaxNotices]
  /\ files \subseteq Places \X Uploads
  /\ left \subseteq Places \X Uploads
  /\ queued \subseteq Nat
  /\ TasksTyped
  /\ rewound \in BOOLEAN
  /\ shared \in BOOLEAN
  /\ taken \subseteq Uploads

(* The course may be new, or be there with some of its runs.                 *)
Init ==
  /\ \/ courses = <<>>
     \/ \E runs \in SUBSET Runs : courses = <<[last |-> 0, runs |-> runs]>>
  /\ videos = <<>>
  /\ key = [u \in Uploads |-> "ingest"]
  /\ notices = [u \in Uploads |-> 0]
  /\ sent = [u \in Uploads |-> 0]
  /\ files = {}
  /\ left = {}
  /\ queued = {}
  /\ iw = [w \in Ingesters |-> Idle]
  /\ rewound = FALSE
  /\ shared \in BOOLEAN
  /\ taken = {}

Goto(w, pc) == iw' = [iw EXCEPT ![w].pc = pc]
Finish(w) == iw' = [iw EXCEPT ![w] = Idle]

RowsOf(u) == {i \in DOMAIN videos : videos[i].up = u}

-----------------------------------------------------------------------------
(* IngestFromS3View: a notification, of SNS or of re_send_sns_notification.  *)
Notify(u) ==
  /\ sent[u] < MaxNotices
  /\ sent' = [sent EXCEPT ![u] = @ + 1]
  /\ notices' = [notices EXCEPT ![u] = @ + 1]
  /\ UNCHANGED <<courses, videos, key, files, left, queued, iw, rewound,
                 shared, taken>>

(* The task is acknowledged and looks the key up. A key that was moved away  *)
(* is None, and the first use of it raises.                                  *)
Take(w, u) ==
  /\ iw[w].pc = "idle"
  /\ notices[u] > 0
  /\ notices' = [notices EXCEPT ![u] = @ - 1]
  /\ IF key[u] = "ingest"
     THEN iw' = [iw EXCEPT ![w] = [pc |-> "course", up |-> u,
                                   seen |-> NoCourse, id |-> 0,
                                   valid |-> FALSE]]
     ELSE UNCHANGED iw
  /\ UNCHANGED <<courses, videos, key, sent, files, left, queued, rewound,
                 shared, taken>>

(* move_video: copying a key that is gone raises, and the task dies.         *)
MoveVideo(w, folder) ==
  /\ key' = IF key[iw[w].up] = "ingest"
            THEN [key EXCEPT ![iw[w].up] = folder] ELSE key
  /\ Finish(w)

(* get_or_create_course finds no course with the token: it was never entered,*)
(* or is not yet.                                                            *)
Reject(w) ==
  /\ iw[w].pc = "course"
  /\ iw[w].up \in Tokened
  /\ MoveVideo(w, "rejected")
  /\ UNCHANGED <<courses, videos, notices, sent, files, left, queued, rewound,
                 shared, taken>>

(* get_or_create_course reads the first of the rows there are. A course found*)
(* by its token is used as it is.                                            *)
ReadCourse(w) ==
  /\ iw[w].pc = "course"
  /\ \/ /\ courses = <<>>
        /\ iw[w].up \notin Tokened
        /\ Goto(w, "create")
     \/ /\ courses # <<>>
        /\ iw[w].up \in Tokened \/ RunOf[iw[w].up] \in courses[1].runs
        /\ Goto(w, "download")
     \/ /\ courses # <<>>
        /\ iw[w].up \notin Tokened
        /\ RunOf[iw[w].up] \notin courses[1].runs
        /\ iw' = [iw EXCEPT ![w].pc = "save_run", ![w].seen = courses[1]]
  /\ UNCHANGED <<courses, videos, key, notices, sent, files, left, queued,
                 rewound, shared, taken>>

CreateCourse(w) ==
  /\ iw[w].pc = "create"
  /\ courses' = Append(courses, [last |-> 0, runs |-> {RunOf[iw[w].up]}])
  /\ Goto(w, "download")
  /\ UNCHANGED <<videos, key, notices, sent, files, left, queued, rewound,
                 shared, taken>>

(* course.save(): the whole row as it was read, with one more run.           *)
SaveRun(w) ==
  /\ iw[w].pc = "save_run"
  /\ courses' = [courses EXCEPT
                   ![1] = [last |-> iw[w].seen.last,
                           runs |-> iw[w].seen.runs \cup {RunOf[iw[w].up]}]]
  /\ rewound' = (rewound \/ iw[w].seen.last < courses[1].last)
  /\ iw' = [iw EXCEPT ![w].pc = "download", ![w].seen = NoCourse]
  /\ UNCHANGED <<videos, key, notices, sent, files, left, queued, shared,
                 taken>>

(* download_video_to_working_directory: boto opens the file, which empties   *)
(* the one that is there, and asks for the key, which may be gone. A download*)
(* that opens it alone starts it anew, whatever a killed task left there.    *)
Writing(w, f) == iw[w].pc \in {"fetch", "gone"} /\ File(w) = f

Download(w) ==
  /\ iw[w].pc = "download"
  /\ files' = files \cup {File(w)}
  /\ left' = IF \E x \in Ingesters \ {w} : Writing(x, File(w))
             THEN left ELSE left \ {File(w)}
  /\ Goto(w, IF key[iw[w].up] = "ingest" THEN "fetch" ELSE "gone")
  /\ UNCHANGED <<courses, videos, key, notices, sent, queued, rewound, shared,
                 taken>>

Fetch(w) ==
  /\ iw[w].pc = "fetch"
  /\ Goto(w, "inspect")
  /\ UNCHANGED <<courses, videos, key, notices, sent, files, left, queued,
                 rewound, shared, taken>>

(* On any error boto removes the file under that name, whoever downloaded it,*)
(* and raises. The upload is rejected if the data of S3 were bad (the only   *)
(* error that is caught); if there is no file to remove, that raises, too.   *)
DownloadFails(w) ==
  /\ iw[w].pc \in {"fetch", "gone"}
  /\ files' = files \ {File(w)}
  /\ left' = left \ {File(w)}
  /\ taken' = IF /\ File(w) \in files
                 /\ \E x \in Ingesters \ {w} :
                      iw[x].pc \in {"fetch", "inspect"} /\ File(x) = File(w)
              THEN taken \cup {iw[w].up} ELSE taken
  /\ \/ /\ iw[w].pc = "fetch" /\ File(w) \in files
        /\ MoveVideo(w, "rejected")
     \/ /\ Finish(w)
        /\ UNCHANGED key
  /\ UNCHANGED <<courses, videos, notices, sent, queued, rewound, shared>>

-----------------------------------------------------------------------------
(* database_record, as far as the file: one that is no longer there makes no *)
(* row and has no VEDA id; insert() goes on, takes it for an invalid video,  *)
(* and is complete.                                                          *)
Inspect(w) ==
  /\ iw[w].pc = "inspect"
  /\ Goto(w, IF File(w) \in files THEN "validate" ELSE "move")
  /\ UNCHANGED <<courses, videos, key, notices, sent, files, left, queued,
                 rewound, shared, taken>>

(* A file that vanishes under the validation is an invalid video as well, and*)
(* one in pieces may be.                                                     *)
InPieces(f) == f \in left \/ \E w \in Ingesters : Writing(w, f)

Validate(w) ==
  /\ iw[w].pc = "validate"
  /\ \E valid \in BOOLEAN :
       /\ valid => iw[w].up \notin Broken /\ File(w) \in files
       /\ ~valid => \/ iw[w].up \in Broken
                    \/ File(w) \notin files
                    \/ InPieces(File(w))
       /\ iw' = [iw EXCEPT ![w].pc = "check", ![w].valid = valid]
  /\ UNCHANGED <<courses, videos, key, notices, sent, files, left, queued,
                 rewound, shared, taken>>

(* "Protect against crash/duplicate inserts": the id of the first row of the *)
(* upload is used. Bug: a row is taken to mean that all has been done.       *)
CheckInsertedDone(w) ==
  /\ iw[w].pc = "check"
  /\ Goto(w, IF RowsOf(iw[w].up) = {} THEN "number" ELSE "move")
  /\ UNCHANGED <<courses, videos, key, notices, sent, files, left, queued,
                 rewound, shared, taken>>

CheckInserted(w) ==
  /\ iw[w].pc = "check"
  /\ \/ /\ RowsOf(iw[w].up) = {}
        /\ Goto(w, "number")
     \/ \E i \in RowsOf(iw[w].up) :
          /\ \A j \in RowsOf(iw[w].up) : i <= j
          /\ iw' = [iw EXCEPT ![w].pc = "rename", ![w].id = videos[i].id]
  /\ UNCHANGED <<courses, videos, key, notices, sent, files, left, queued,
                 rewound, shared, taken>>

(* _select_and_update_last_vid_number: read and saved in one transaction     *)
(* under the lock of the row, the first with the name of the course; the     *)
(* model counts in hundreds. Bug: the videos are counted instead.            *)
GenerateVedaIdByCount(w) ==
  /\ iw[w].pc = "number"
  /\ courses' = [courses EXCEPT ![1].last = Len(videos) + 1]
  /\ iw' = [iw EXCEPT ![w].pc = "insert", ![w].id = Len(videos) + 1]
  /\ UNCHANGED <<videos, key, notices, sent, files, left, queued, rewound,
                 shared, taken>>

GenerateVedaId(w) ==
  /\ iw[w].pc = "number"
  /\ courses' = [courses EXCEPT ![1].last = @ + 1]
  /\ iw' = [iw EXCEPT ![w].pc = "insert", ![w].id = courses[1].last + 1]
  /\ UNCHANGED <<videos, key, notices, sent, files, left, queued, rewound,
                 shared, taken>>

(* v1.save(). Bug: the file has its new name before the row is there.        *)
InsertAfterRename(w) ==
  /\ iw[w].pc = "insert"
  /\ IF File(w) \in files
     THEN /\ files' = files \ {File(w)}
          /\ UNCHANGED <<videos, iw>>
     ELSE /\ videos' = Append(videos, [up |-> iw[w].up, id |-> iw[w].id])
          /\ Goto(w, "queue")
          /\ UNCHANGED files
  /\ UNCHANGED <<courses, key, notices, sent, left, queued, rewound, shared,
                 taken>>

Insert(w) ==
  /\ iw[w].pc = "insert"
  /\ videos' = Append(videos, [up |-> iw[w].up, id |-> iw[w].id])
  /\ Goto(w, "rename")
  /\ UNCHANGED <<courses, key, notices, sent, files, left, queued, rewound,
                 shared, taken>>

(* rename() to the VEDA id, and the copy to the hot store. Renaming a file   *)
(* that is gone raises. An invalid video needs no encodes.                   *)
Rename(w) ==
  /\ iw[w].pc = "rename"
  /\ files' = files \ {File(w)}
  /\ left' = left \ {File(w)}
  /\ \/ /\ File(w) \in files
        /\ Goto(w, IF iw[w].valid THEN "queue" ELSE "move")
     \/ /\ File(w) \notin files
        /\ Finish(w)
  /\ UNCHANGED <<courses, videos, key, notices, sent, queued, rewound, shared,
                 taken>>

(* queue_job: VedaHeal.send_encodes for the id (module Heal).                *)
QueueJob(w) ==
  /\ iw[w].pc = "queue"
  /\ queued' = queued \cup {iw[w].id}
  /\ Goto(w, "move")
  /\ UNCHANGED <<courses, videos, key, notices, sent, files, left, rewound,
                 shared, taken>>

MoveProcessed(w) ==
  /\ iw[w].pc = "move"
  /\ MoveVideo(w, "processed")
  /\ UNCHANGED <<courses, videos, notices, sent, files, left, queued, rewound,
                 shared, taken>>

(* The task dies: killed, or a call of S3, edx-val or the database raises.   *)
Die(w) ==
  /\ iw[w].pc # "idle"
  /\ left' = IF iw[w].pc \in {"fetch", "gone"} /\ File(w) \in files
             THEN left \cup {File(w)} ELSE left
  /\ Finish(w)
  /\ UNCHANGED <<courses, videos, key, notices, sent, files, queued, rewound,
                 shared, taken>>

Next ==
  \/ \E u \in Uploads : Notify(u)
  \/ \E w \in Ingesters :
       \/ \E u \in Uploads : Take(w, u)
       \/ Reject(w) \/ ReadCourse(w) \/ CreateCourse(w) \/ SaveRun(w)
       \/ Download(w) \/ Fetch(w) \/ DownloadFails(w)
       \/ Inspect(w) \/ Validate(w) \/ CheckInserted(w)
       \/ GenerateVedaId(w) \/ Insert(w) \/ Rename(w)
       \/ QueueJob(w) \/ MoveProcessed(w) \/ Die(w)

Spec == Init /\ [][Next]_vars

-----------------------------------------------------------------------------
(* The VEDA ids are distinct, however many tasks ingest at once, however many*)
(* rows the course has, unless get_or_create_course put a Course row it had  *)
(* read earlier back over a number given out since.                          *)
IdsDistinct ==
  rewound \/ \A i, j \in DOMAIN videos : videos[i].id = videos[j].id => i = j

(* An upload leaves the ingest folder as processed only with a Video row, on *)
(* whichever of the paths that call the ingest complete, among them the one  *)
(* where the file has vanished: then another task renamed it, which had      *)
(* inserted the row. It is lost only if tasks share a directory and the      *)
(* failed download of one removed the file of another, on its way to it.     *)
Taken(u) == shared /\ u \in taken

NoUploadLost ==
  \A u \in Uploads :
    key[u] = "processed" => RowsOf(u) # {} \/ Taken(u)

(* ... and, if the tasks have work directories of their own, with encodes    *)
(* queued for such a row: a task that died between the insert and the queue  *)
(* leaves its upload to the next notification, and that queues the encodes.  *)
Queued(u) == u \in Broken \/ \E i \in RowsOf(u) : videos[i].id \in queued

ProcessedIsQueued ==
  shared \/ \A u \in Uploads : key[u] = "processed" => Queued(u)

(* The inductive invariant. A task beyond get_or_create_course has a course; *)
(* a number given out is the last or below it, and nobody else's; a file that*)
(* is gone was renamed by a task that had found or made a row, or taken; a   *)
(* directory of one's own keeps the file whole, so that only a broken one is *)
(* invalid.                                                                  *)
CourseThere ==
  /\ videos # <<>> => courses # <<>>
  /\ \A w \in Ingesters :
       iw[w].pc \notin {"idle", "course", "create"} => courses # <<>>

NumbersFresh ==
  rewound \/
    /\ \A i \in DOMAIN videos : videos[i].id <= courses[1].last
    /\ \A w \in Ingesters : iw[w].pc = "insert" =>
         /\ iw[w].id <= courses[1].last
         /\ \A i \in DOMAIN videos : videos[i].id # iw[w].id
         /\ \A x \in Ingesters :
              iw[x].pc = "insert" /\ iw[x].id = iw[w].id => x = w

RowsMade ==
  \A w \in Ingesters :
    /\ iw[w].pc \in {"fetch", "inspect"} =>
         File(w) \in files \/ RowsOf(iw[w].up) # {} \/ Taken(iw[w].up)
    /\ iw[w].pc = "move" => RowsOf(iw[w].up) # {} \/ Taken(iw[w].up)
    /\ iw[w].pc \in {"rename", "queue"} =>
         \E i \in RowsOf(iw[w].up) : videos[i].id = iw[w].id

FilesKept ==
  shared \/
    \A w \in Ingesters :
      /\ iw[w].pc \in {"fetch", "inspect", "validate", "check", "number",
                        "insert", "rename"} => File(w) \in files \ left
      /\ iw[w].pc \in {"check", "number", "insert", "rename"} =>
           iw[w].valid \/ iw[w].up \in Broken
      /\ iw[w].pc = "move" => Queued(iw[w].up)

IngestInv ==
  /\ TypeOK
  /\ CourseThere
  /\ IdsDistinct
  /\ NumbersFresh
  /\ NoUploadLost
  /\ RowsMade
  /\ ProcessedIsQueued
  /\ FilesKept

(* "Protect against crash/duplicate inserts, won't insert object"            *)
(* (veda_file_ingest.py): an upload has one Video row at most.               *)
OneRowPerUpload ==
  \A i, j \in DOMAIN videos : videos[i].up = videos[j].up => i = j
=============================================================================

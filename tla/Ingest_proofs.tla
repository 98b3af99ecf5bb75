---------------------------- MODULE Ingest_proofs ----------------------------
(* That IngestInv is an invariant of Ingest, and with it the three           *)
(* properties, for every set of uploads and workers, whether or not the      *)
(* workers share a directory.                                                *)
EXTENDS Ingest, SequenceTheorems, TLAPS

USE IngestAssumption

-----------------------------------------------------------------------------
(* The steps of a worker, as a disjunction the proofs split on.              *)
WorkerNext(w) ==
  \/ \E u \in Uploads : Take(w, u)
  \/ Reject(w) \/ ReadCourse(w) \/ CreateCourse(w) \/ SaveRun(w)
  \/ Download(w) \/ Fetch(w) \/ DownloadFails(w)
  \/ Inspect(w) \/ Validate(w) \/ CheckInserted(w)
  \/ GenerateVedaId(w) \/ Insert(w) \/ Rename(w)
  \/ QueueJob(w) \/ MoveProcessed(w) \/ Die(w)

(* A busy worker carries a task, and after its step a task or nothing.       *)
LEMMA BusyTask ==
  ASSUME TasksTyped, NEW w \in Ingesters, iw[w].pc # "idle"
  PROVE  /\ iw[w] \in Task
         /\ iw[w].pc \in Steps /\ iw[w].up \in Uploads
         /\ iw[w].seen \in Course /\ iw[w].id \in Nat /\ iw[w].valid \in BOOLEAN
<1>1. iw[w] \in Task
  BY DEF TasksTyped, Idle
<1> QED
  BY <1>1 DEF Task

LEMMA GotoStep ==
  ASSUME TasksTyped, NEW w \in Ingesters, iw[w].pc # "idle",
         NEW p \in Steps, Goto(w, p)
  PROVE  /\ TasksTyped'
         /\ \A x \in Ingesters \ {w} : iw'[x] = iw[x]
         /\ iw'[w].pc = p /\ iw'[w].up = iw[w].up
         /\ iw'[w].id = iw[w].id /\ iw'[w].seen = iw[w].seen
         /\ iw'[w].valid = iw[w].valid
<1>1. iw[w] \in Task
  BY BusyTask
<1>2. iw' = [iw EXCEPT ![w] = [iw[w] EXCEPT !.pc = p]]
  BY DEF Goto, TasksTyped
<1>3. /\ [iw[w] EXCEPT !.pc = p] \in Task
      /\ [iw[w] EXCEPT !.pc = p].pc = p
      /\ [iw[w] EXCEPT !.pc = p].up = iw[w].up
      /\ [iw[w] EXCEPT !.pc = p].id = iw[w].id
      /\ [iw[w] EXCEPT !.pc = p].seen = iw[w].seen
      /\ [iw[w] EXCEPT !.pc = p].valid = iw[w].valid
  BY <1>1 DEF Task
<1>4. iw'[w] = [iw[w] EXCEPT !.pc = p]
  BY <1>2 DEF TasksTyped
<1>5. \A x \in Ingesters \ {w} : iw'[x] = iw[x]
  BY <1>2 DEF TasksTyped
<1>6. TasksTyped'
  BY <1>2, <1>3 DEF TasksTyped
<1> QED
  BY <1>3, <1>4, <1>5, <1>6

LEMMA FinishStep ==
  ASSUME TasksTyped, NEW w \in Ingesters, Finish(w)
  PROVE  /\ TasksTyped'
         /\ \A x \in Ingesters \ {w} : iw'[x] = iw[x]
         /\ iw'[w].pc = "idle"
BY DEF TasksTyped, Finish, Idle

LEMMA ValidateStep ==
  ASSUME TasksTyped, NEW w \in Ingesters, Validate(w)
  PROVE  /\ TasksTyped'
         /\ \A x \in Ingesters \ {w} : iw'[x] = iw[x]
         /\ iw'[w].pc = "check" /\ iw'[w].up = iw[w].up
         /\ \/ iw'[w].valid \/ iw[w].up \in Broken
            \/ File(w) \notin files \/ InPieces(File(w))
<1>1. iw[w] \in Task
  BY BusyTask DEF Validate
<1>2. PICK v \in BOOLEAN :
        /\ iw' = [iw EXCEPT ![w].pc = "check", ![w].valid = v]
        /\ ~v => \/ iw[w].up \in Broken \/ File(w) \notin files \/ InPieces(File(w))
  BY DEF Validate
<1> DEFINE t == [iw[w] EXCEPT !.pc = "check", !.valid = v]
<1>3. iw' = [iw EXCEPT ![w] = t]
  BY <1>2 DEF TasksTyped
<1>4. t \in Task /\ t.pc = "check" /\ t.up = iw[w].up /\ t.valid = v
  BY <1>1 DEF Task, Steps
<1> HIDE DEF t
<1>5. TasksTyped' /\ iw'[w] = t /\ \A x \in Ingesters \ {w} : iw'[x] = iw[x]
  BY <1>3, <1>4 DEF TasksTyped
<1>6. v \/ iw[w].up \in Broken \/ File(w) \notin files \/ InPieces(File(w))
  BY <1>2
<1>7. iw'[w].valid = v
  BY <1>4, <1>5
<1>8. \/ iw'[w].valid \/ iw[w].up \in Broken
      \/ File(w) \notin files \/ InPieces(File(w))
  BY <1>6, <1>7, Zenon
<1> QED
  BY <1>4, <1>5, <1>8

(* The first row of a course that is there.                                  *)
LEMMA FirstCourse ==
  ASSUME TypeOK, courses # <<>>
  PROVE  /\ courses[1] \in Course
         /\ 1 \in 1..Len(courses)
<1>1. Len(courses) \in Nat \ {0}
  BY EmptySeq DEF TypeOK
<1>2. 1 \in 1..Len(courses)
  BY <1>1
<1> QED
  BY <1>2, ElementOfSeq DEF TypeOK

(* What a row of courses that is saved over does to the table.               *)
LEMMA SavedCourse ==
  ASSUME TypeOK, courses # <<>>, NEW c \in Course,
         courses' = [courses EXCEPT ![1] = c]
  PROVE  /\ courses' \in Seq(Course)
         /\ courses' # <<>>
         /\ courses'[1] = c
<1>1. 1 \in 1..Len(courses)
  BY FirstCourse
<1>2. /\ courses' \in Seq(Course)
      /\ Len(courses') = Len(courses)
      /\ courses'[1] = c
  BY <1>1, ExceptSeq DEF TypeOK
<1>3. Len(courses) \in Nat \ {0}
  BY EmptySeq DEF TypeOK
<1>4. courses' # <<>>
  BY <1>2, <1>3, EmptySeq
<1> QED
  BY <1>2, <1>4

(* What a new row does to the table of the videos.                           *)
LEMMA AddedVideo ==
  ASSUME TypeOK, NEW r \in Video, videos' = Append(videos, r)
  PROVE  /\ videos' \in Seq(Video)
         /\ DOMAIN videos' = DOMAIN videos \cup {Len(videos) + 1}
         /\ Len(videos) + 1 \notin DOMAIN videos
         /\ \A i \in DOMAIN videos : videos'[i] = videos[i]
         /\ videos'[Len(videos) + 1] = r
<1>1. videos \in Seq(Video) /\ Len(videos) \in Nat /\ DOMAIN videos = 1..Len(videos)
  BY LenProperties DEF TypeOK
<1>2. /\ videos' \in Seq(Video)
      /\ Len(videos') = Len(videos) + 1
      /\ \A i \in 1..Len(videos) : videos'[i] = videos[i]
      /\ videos'[Len(videos) + 1] = r
  BY <1>1, AppendProperties
<1>3. DOMAIN videos' = 1..(Len(videos) + 1)
  BY <1>1, <1>2, LenProperties
<1> QED
  BY <1>1, <1>2, <1>3

LEMMA RowTyping ==
  ASSUME TypeOK, NEW i \in DOMAIN videos
  PROVE  videos[i] \in Video /\ videos[i].id \in Nat /\ videos[i].up \in Uploads
<1>1. videos \in Seq(Video) /\ DOMAIN videos = 1..Len(videos)
  BY LenProperties DEF TypeOK
<1>2. videos[i] \in Video
  BY <1>1, ElementOfSeq
<1> QED
  BY <1>2 DEF Video

-----------------------------------------------------------------------------
(* Type correctness.                                                         *)
LEMMA TypeStep ==
  ASSUME TypeOK, CourseThere, Next
  PROVE  TypeOK'
<1> USE DEF TypeOK
<1>1. ASSUME NEW u \in Uploads, Notify(u)
      PROVE  TypeOK'
  BY <1>1 DEF Notify, TasksTyped
<1>2. ASSUME NEW w \in Ingesters, NEW u \in Uploads, Take(w, u)
      PROVE  TypeOK'
  <2>1. [pc |-> "course", up |-> u, seen |-> NoCourse, id |-> 0,
         valid |-> FALSE] \in Task
    BY DEF Task, Steps, NoCourse, Course
  <2>2. TasksTyped'
    BY <1>2, <2>1 DEF Take, TasksTyped
  <2>3. notices' \in [Uploads -> Nat]
    BY <1>2 DEF Take
  <2> QED
    BY <1>2, <2>2, <2>3 DEF Take
<1>3. ASSUME NEW w \in Ingesters,
             NEW folder \in {"processed", "rejected"},
             MoveVideo(w, folder)
      PROVE  key' \in [Uploads -> {"ingest", "processed", "rejected"}]
             /\ TasksTyped'
  BY <1>3, FinishStep DEF MoveVideo
<1>4. ASSUME NEW w \in Ingesters, Reject(w) \/ MoveProcessed(w)
      PROVE  TypeOK'
  BY <1>3, <1>4 DEF Reject, MoveProcessed
<1>5. ASSUME NEW w \in Ingesters, ReadCourse(w)
      PROVE  TypeOK'
  <2>1. CASE iw' = [iw EXCEPT ![w].pc = "save_run", ![w].seen = courses[1]]
             /\ courses # <<>>
    <3>1. iw[w] \in Task /\ courses[1] \in Course
      BY <1>5, <2>1, BusyTask, FirstCourse DEF ReadCourse
    <3>2. [iw[w] EXCEPT !.pc = "save_run", !.seen = courses[1]] \in Task
      BY <3>1 DEF Task, Steps
    <3>3. TasksTyped'
      BY <2>1, <3>2 DEF TasksTyped
    <3> QED
      BY <1>5, <3>3 DEF ReadCourse
  <2>2. CASE Goto(w, "create") \/ Goto(w, "download")
    <3>1. TasksTyped'
      BY <1>5, <2>2, GotoStep DEF ReadCourse, Steps
    <3> QED
      BY <1>5, <3>1 DEF ReadCourse
  <2> QED
    BY <1>5, <2>1, <2>2 DEF ReadCourse
<1>6. ASSUME NEW w \in Ingesters, CreateCourse(w)
      PROVE  TypeOK'
  <2>1. iw[w].up \in Uploads
    BY <1>6, BusyTask DEF CreateCourse
  <2>2. [last |-> 0, runs |-> {RunOf[iw[w].up]}] \in Course
    BY <2>1 DEF Course
  <2>3. courses' \in Seq(Course)
    BY <1>6, <2>2, AppendProperties DEF CreateCourse
  <2>4. TasksTyped'
    BY <1>6, GotoStep DEF CreateCourse, Steps
  <2> QED
    BY <1>6, <2>3, <2>4 DEF CreateCourse
<1>7. ASSUME NEW w \in Ingesters, SaveRun(w)
      PROVE  TypeOK'
  <2>1. iw[w] \in Task /\ iw[w].up \in Uploads /\ iw[w].seen \in Course
    BY <1>7, BusyTask DEF SaveRun
  <2>2. [last |-> iw[w].seen.last,
         runs |-> iw[w].seen.runs \cup {RunOf[iw[w].up]}] \in Course
    BY <2>1 DEF Course
  <2>3. courses # <<>>
    BY <1>7 DEF SaveRun, CourseThere
  <2>4. courses' \in Seq(Course)
    BY <1>7, <2>2, <2>3, SavedCourse DEF SaveRun
  <2>5. [iw[w] EXCEPT !.pc = "download", !.seen = NoCourse] \in Task
    BY <2>1 DEF Task, Steps, NoCourse, Course
  <2>6. TasksTyped'
    BY <1>7, <2>5 DEF SaveRun, TasksTyped
  <2>7. rewound' \in BOOLEAN
    <3>1. rewound' = (rewound \/ iw[w].seen.last < courses[1].last)
      BY <1>7 DEF SaveRun
    <3> QED
      BY <3>1
  <2> QED
    BY <1>7, <2>4, <2>6, <2>7 DEF SaveRun
<1>8. ASSUME NEW w \in Ingesters, Download(w) \/ Fetch(w) \/ DownloadFails(w)
      PROVE  TypeOK'
  <2>1. iw[w].up \in Uploads /\ File(w) \in Places \X Uploads
    BY <1>8, BusyTask DEF Download, Fetch, DownloadFails, File, Place, Places
  <2>2. CASE Download(w)
    <3>1. TasksTyped'
      BY <2>2, GotoStep DEF Download, Steps
    <3>2. files' \subseteq Places \X Uploads /\ left' \subseteq Places \X Uploads
      BY <2>1, <2>2 DEF Download
    <3> QED
      BY <2>2, <3>1, <3>2 DEF Download
  <2>3. CASE Fetch(w)
    <3>1. TasksTyped'
      BY <2>3, GotoStep DEF Fetch, Steps
    <3> QED
      BY <2>3, <3>1 DEF Fetch
  <2>4. CASE DownloadFails(w)
    <3>1. key' \in [Uploads -> {"ingest", "processed", "rejected"}] /\ TasksTyped'
      BY <1>3, <2>4, FinishStep DEF DownloadFails
    <3>2. /\ files' \subseteq Places \X Uploads /\ left' \subseteq Places \X Uploads
          /\ taken' \subseteq Uploads
      BY <2>1, <2>4 DEF DownloadFails
    <3> QED
      BY <2>4, <3>1, <3>2 DEF DownloadFails
  <2> QED
    BY <1>8, <2>2, <2>3, <2>4
<1>9. ASSUME NEW w \in Ingesters, Inspect(w)
      PROVE  TypeOK'
  <2>1. TasksTyped'
    BY <1>9, GotoStep DEF Inspect, Steps
  <2> QED
    BY <1>9, <2>1 DEF Inspect
<1>16. ASSUME NEW w \in Ingesters, Validate(w)
       PROVE  TypeOK'
  <2>1. TasksTyped'
    BY <1>16, ValidateStep
  <2> QED
    BY <1>16, <2>1 DEF Validate
<1>10. ASSUME NEW w \in Ingesters, CheckInserted(w)
       PROVE  TypeOK'
  <2>1. CASE Goto(w, "number")
    <3>1. TasksTyped'
      BY <1>10, <2>1, GotoStep DEF CheckInserted, Steps
    <3> QED
      BY <1>10, <3>1 DEF CheckInserted
  <2>2. ASSUME NEW i \in RowsOf(iw[w].up),
               iw' = [iw EXCEPT ![w].pc = "rename", ![w].id = videos[i].id]
        PROVE  TypeOK'
    <3>1. iw[w] \in Task /\ videos[i].id \in Nat
      BY <1>10, BusyTask, RowTyping DEF CheckInserted, RowsOf
    <3>2. [iw[w] EXCEPT !.pc = "rename", !.id = videos[i].id] \in Task
      BY <3>1 DEF Task, Steps
    <3>3. TasksTyped'
      BY <2>2, <3>2 DEF TasksTyped
    <3> QED
      BY <1>10, <3>3 DEF CheckInserted
  <2> QED
    BY <1>10, <2>1, <2>2 DEF CheckInserted
<1>11. ASSUME NEW w \in Ingesters, GenerateVedaId(w)
       PROVE  TypeOK'
  <2>1. iw[w] \in Task
    BY <1>11, BusyTask DEF GenerateVedaId
  <2>2. courses # <<>> /\ courses[1] \in Course
    BY <1>11, FirstCourse DEF GenerateVedaId, CourseThere
  <2>3. courses[1].last + 1 \in Nat
    BY <2>2 DEF Course
  <2>4. [courses[1] EXCEPT !.last = @ + 1] \in Course
    BY <2>2, <2>3 DEF Course
  <2>5. courses' = [courses EXCEPT ![1] = [courses[1] EXCEPT !.last = @ + 1]]
    BY <1>11 DEF GenerateVedaId
  <2>6. courses' \in Seq(Course)
    BY <2>2, <2>4, <2>5, SavedCourse
  <2>7. [iw[w] EXCEPT !.pc = "insert", !.id = courses[1].last + 1] \in Task
    BY <2>1, <2>3 DEF Task, Steps
  <2>8. TasksTyped'
    BY <1>11, <2>7 DEF GenerateVedaId, TasksTyped
  <2> QED
    BY <1>11, <2>6, <2>8 DEF GenerateVedaId
<1>12. ASSUME NEW w \in Ingesters, Insert(w)
       PROVE  TypeOK'
  <2>1. iw[w].up \in Uploads /\ iw[w].id \in Nat
    BY <1>12, BusyTask DEF Insert
  <2>2. [up |-> iw[w].up, id |-> iw[w].id] \in Video
    BY <2>1 DEF Video
  <2>3. videos' \in Seq(Video)
    BY <1>12, <2>2, AddedVideo DEF Insert
  <2>4. TasksTyped'
    BY <1>12, GotoStep DEF Insert, Steps
  <2> QED
    BY <1>12, <2>3, <2>4 DEF Insert
<1>13. ASSUME NEW w \in Ingesters, Rename(w)
       PROVE  TypeOK'
  <2>1. TasksTyped'
    BY <1>13, GotoStep, FinishStep DEF Rename, Steps
  <2> QED
    BY <1>13, <2>1 DEF Rename
<1>14. ASSUME NEW w \in Ingesters, QueueJob(w)
       PROVE  TypeOK'
  <2>1. TasksTyped' /\ iw[w].id \in Nat
    BY <1>14, GotoStep, BusyTask DEF QueueJob, Steps
  <2> QED
    BY <1>14, <2>1 DEF QueueJob
<1>15. ASSUME NEW w \in Ingesters, Die(w)
       PROVE  TypeOK'
  <2>1. TasksTyped'
    BY <1>15, FinishStep DEF Die
  <2>2. File(w) \in Places \X Uploads
    BY <1>15, BusyTask DEF Die, File, Place, Places
  <2> QED
    BY <1>15, <2>1, <2>2 DEF Die
<1> QED
  BY <1>1, <1>2, <1>4, <1>5, <1>6, <1>7, <1>8, <1>9, <1>10, <1>11, <1>12,
     <1>13, <1>14, <1>15, <1>16 DEF Next

-----------------------------------------------------------------------------
(* A step of a worker leaves the others alone, and keeps its upload.         *)
LEMMA Movement ==
  ASSUME TypeOK, NEW w \in Ingesters, WorkerNext(w)
  PROVE  /\ \A x \in Ingesters \ {w} : iw'[x] = iw[x]
         /\ iw'[w].pc \notin {"idle", "course"} =>
              iw[w].pc # "idle" /\ iw'[w].up = iw[w].up
<1> USE DEF TypeOK
<1>1. CASE \E u \in Uploads : Take(w, u)
  BY <1>1 DEF Take, TasksTyped
<1>2. CASE Reject(w) \/ MoveProcessed(w)
  BY <1>2, FinishStep DEF Reject, MoveProcessed, MoveVideo
<1>3. CASE ReadCourse(w)
  <2>1. CASE Goto(w, "create") \/ Goto(w, "download")
    BY <1>3, <2>1, GotoStep DEF ReadCourse, Steps
  <2>2. CASE iw' = [iw EXCEPT ![w].pc = "save_run", ![w].seen = courses[1]]
    BY <1>3, <2>2, BusyTask DEF ReadCourse, TasksTyped, Task
  <2> QED
    BY <1>3, <2>1, <2>2 DEF ReadCourse
<1>4. CASE CreateCourse(w)
  BY <1>4, GotoStep DEF CreateCourse, Steps
<1>5. CASE SaveRun(w)
  BY <1>5, BusyTask DEF SaveRun, TasksTyped, Task
<1>6. CASE Download(w) \/ Fetch(w) \/ DownloadFails(w)
  BY <1>6, GotoStep, FinishStep DEF Download, Fetch, DownloadFails, MoveVideo, Steps
<1>7. CASE Inspect(w)
  BY <1>7, GotoStep DEF Inspect, Steps
<1>14. CASE Validate(w)
  BY <1>14, ValidateStep DEF Validate
<1>8. CASE CheckInserted(w)
  <2>1. CASE Goto(w, "number")
    BY <1>8, <2>1, GotoStep DEF CheckInserted, Steps
  <2>2. ASSUME NEW n \in Nat,
               iw' = [iw EXCEPT ![w].pc = "rename", ![w].id = n]
        PROVE  /\ \A x \in Ingesters \ {w} : iw'[x] = iw[x]
               /\ iw[w].pc # "idle" /\ iw'[w].up = iw[w].up
    BY <1>8, <2>2, BusyTask DEF CheckInserted, TasksTyped, Task
  <2> QED
    BY <1>8, <2>1, <2>2, RowTyping DEF CheckInserted, RowsOf
<1>9. CASE GenerateVedaId(w)
  BY <1>9, BusyTask DEF GenerateVedaId, TasksTyped, Task
<1>10. CASE Insert(w)
  BY <1>10, GotoStep DEF Insert, Steps
<1>11. CASE Rename(w)
  BY <1>11, GotoStep, FinishStep DEF Rename, Steps
<1>12. CASE QueueJob(w)
  BY <1>12, GotoStep DEF QueueJob, Steps
<1>13. CASE Die(w)
  BY <1>13, FinishStep DEF Die
<1> QED
  BY <1>1, <1>2, <1>3, <1>4, <1>5, <1>6, <1>7, <1>8, <1>9, <1>10, <1>11,
     <1>12, <1>13, <1>14 DEF WorkerNext

LEMMA NextCases ==
  Next => \/ \E u \in Uploads : Notify(u)
          \/ \E w \in Ingesters : WorkerNext(w)
BY DEF Next, WorkerNext

(* Only Insert touches the rows of the videos, and it adds one.              *)
LEMMA VideosStep ==
  ASSUME TypeOK, NEW w \in Ingesters, WorkerNext(w)
  PROVE  \/ UNCHANGED videos
         \/ /\ Insert(w)
            /\ [up |-> iw[w].up, id |-> iw[w].id] \in Video
            /\ videos' = Append(videos, [up |-> iw[w].up, id |-> iw[w].id])
<1>1. CASE Insert(w)
  <2>1. iw[w].up \in Uploads /\ iw[w].id \in Nat
    BY <1>1, BusyTask DEF Insert, TypeOK
  <2> QED
    BY <1>1, <2>1 DEF Insert, Video
<1>2. CASE ~Insert(w)
  BY <1>2 DEF WorkerNext, Take, Reject, ReadCourse, CreateCourse, SaveRun,
     Download, Fetch, DownloadFails, Inspect, Validate, CheckInserted,
     GenerateVedaId, Rename, QueueJob,
     MoveProcessed, Die
<1> QED
  BY <1>1, <1>2

LEMMA RowsGrow ==
  ASSUME TypeOK, Next
  PROVE  /\ \A i \in DOMAIN videos :
              i \in DOMAIN videos' /\ videos'[i] = videos[i]
         /\ \A u \in Uploads : \A i \in RowsOf(u) : i \in RowsOf(u)'
<1>1. \A i \in DOMAIN videos : i \in DOMAIN videos' /\ videos'[i] = videos[i]
  <2>1. ASSUME NEW u \in Uploads, Notify(u)
        PROVE  UNCHANGED videos
    BY <2>1 DEF Notify
  <2>2. ASSUME NEW w \in Ingesters, WorkerNext(w)
        PROVE  \A i \in DOMAIN videos :
                 i \in DOMAIN videos' /\ videos'[i] = videos[i]
    BY <2>2, VideosStep, AddedVideo
  <2> QED
    BY <2>1, <2>2, NextCases
<1> QED
  BY <1>1 DEF RowsOf

LEMMA CoursesStep ==
  ASSUME TypeOK, CourseThere, NEW w \in Ingesters, WorkerNext(w)
  PROVE  /\ courses # <<>> => courses' # <<>>
         /\ CreateCourse(w) => courses' # <<>>
<1>1. CASE CreateCourse(w)
  <2>1. iw[w].up \in Uploads
    BY <1>1, BusyTask DEF CreateCourse, TypeOK
  <2>2. [last |-> 0, runs |-> {RunOf[iw[w].up]}] \in Course
    BY <2>1 DEF Course
  <2>3. /\ courses \in Seq(Course)
        /\ courses' = Append(courses, [last |-> 0, runs |-> {RunOf[iw[w].up]}])
    BY <1>1 DEF CreateCourse, TypeOK
  <2>4. courses' # <<>>
    BY <2>2, <2>3, AppendProperties
  <2> QED
    BY <2>4
<1>2. CASE SaveRun(w) \/ GenerateVedaId(w)
  <2>1. courses # <<>> /\ courses \in Seq(Course) /\ Len(courses) \in Nat \ {0}
    BY <1>2, EmptySeq DEF SaveRun, GenerateVedaId, CourseThere, TypeOK
  <2>2. DOMAIN courses = 1..Len(courses)
    BY <2>1, LenProperties
  <2>3. DOMAIN courses' = DOMAIN courses
    BY <1>2 DEF SaveRun, GenerateVedaId
  <2>4. 1 \in DOMAIN courses'
    BY <2>1, <2>2, <2>3
  <2>5. 1 \notin DOMAIN <<>>
    OBVIOUS
  <2> QED
    BY <1>2, <2>4, <2>5 DEF SaveRun, GenerateVedaId, CreateCourse
<1>3. CASE UNCHANGED courses /\ ~CreateCourse(w)
  BY <1>3
<1> QED
  BY <1>1, <1>2, <1>3 DEF WorkerNext, Take, Reject, ReadCourse, Download, Fetch, DownloadFails,
     Inspect, Validate, CheckInserted, Insert, Rename, QueueJob, MoveProcessed, Die

LEMMA CourseStep ==
  ASSUME TypeOK, CourseThere, Next
  PROVE  CourseThere'
<1>1. ASSUME NEW u \in Uploads, Notify(u)
      PROVE  CourseThere'
  BY <1>1 DEF Notify, CourseThere
<1>2. ASSUME NEW w \in Ingesters, WorkerNext(w)
      PROVE  CourseThere'
  <2>1. courses # <<>> => courses' # <<>>
    BY <1>2, CoursesStep
  <2>2. \A x \in Ingesters \ {w} : iw'[x] = iw[x]
    BY <1>2, Movement
  <2>3. iw'[w].pc \notin {"idle", "course", "create"} => courses' # <<>>
    <3>1. CASE iw[w].pc \notin {"idle", "course", "create"}
      BY <2>1, <3>1 DEF CourseThere
    <3>2. CASE CreateCourse(w)
      BY <1>2, <3>2, CoursesStep
    <3>3. CASE ReadCourse(w)
      BY <2>1, <3>3, GotoStep DEF ReadCourse, TypeOK, Steps
    <3>4. CASE Die(w) \/ Reject(w)
      BY <3>4, FinishStep DEF Die, Reject, MoveVideo, TypeOK
    <3>5. ASSUME NEW u \in Uploads, Take(w, u)
          PROVE  iw'[w].pc \in {"idle", "course"}
      BY <3>5 DEF Take, TypeOK, TasksTyped
    <3> QED
      BY <1>2, <3>1, <3>2, <3>3, <3>4, <3>5 DEF WorkerNext, SaveRun, Download, Fetch, DownloadFails,
         Inspect, Validate, CheckInserted, GenerateVedaId, Insert, Rename, QueueJob,
         MoveProcessed
  <2>4. videos' # <<>> => courses' # <<>>
    <3>1. CASE UNCHANGED videos
      BY <2>1, <3>1 DEF CourseThere
    <3>2. CASE Insert(w)
      BY <2>1, <3>2 DEF Insert, CourseThere
    <3> QED
      BY <1>2, <3>1, <3>2, VideosStep
  <2> QED
    BY <2>1, <2>2, <2>3, <2>4 DEF CourseThere
<1> QED
  BY <1>1, <1>2, NextCases

-----------------------------------------------------------------------------
(* The numbers.                                                              *)
LEMMA NumbersStep ==
  ASSUME TypeOK, CourseThere, IdsDistinct, NumbersFresh, Next
  PROVE  IdsDistinct' /\ NumbersFresh'
<1>1. ASSUME NEW u \in Uploads, Notify(u)
      PROVE  IdsDistinct' /\ NumbersFresh'
  BY <1>1 DEF Notify, IdsDistinct, NumbersFresh
<1>2. ASSUME NEW w \in Ingesters, WorkerNext(w), ~rewound, ~rewound'
      PROVE  IdsDistinct' /\ NumbersFresh'
  <2>1. \A x \in Ingesters \ {w} : iw'[x] = iw[x]
    BY <1>2, Movement
  <2>2. ASSUME UNCHANGED videos, iw'[w].pc # "insert",
               videos # <<>> \/ (\E x \in Ingesters : iw[x].pc = "insert") =>
                 /\ courses'[1].last \in Nat
                 /\ courses[1].last \in Nat
                 /\ courses[1].last <= courses'[1].last
        PROVE  IdsDistinct' /\ NumbersFresh'
    <3>1. IdsDistinct'
      BY <1>2, <2>2 DEF IdsDistinct
    <3>2. ASSUME NEW i \in DOMAIN videos
          PROVE  videos[i].id <= courses'[1].last
      <4>1. videos # <<>>
        BY <3>2
      <4>2. videos[i].id \in Nat /\ videos[i].id <= courses[1].last
        BY <1>2, RowTyping DEF NumbersFresh
      <4> QED
        BY <2>2, <4>1, <4>2
    <3>3. ASSUME NEW x \in Ingesters, iw'[x].pc = "insert"
          PROVE  /\ iw'[x] = iw[x]
                 /\ iw[x].id <= courses'[1].last
      <4>1. x # w /\ iw'[x] = iw[x]
        BY <2>1, <2>2, <3>3
      <4>2. iw[x].id \in Nat /\ iw[x].id <= courses[1].last
        BY <1>2, <3>3, <4>1, BusyTask DEF NumbersFresh, TypeOK
      <4> QED
        BY <2>2, <3>3, <4>1, <4>2
    <3>4. \A x \in Ingesters : iw'[x].pc = "insert" =>
            /\ iw'[x].id <= courses'[1].last
            /\ (\A i \in DOMAIN videos' : videos'[i].id # iw'[x].id)
            /\ \A y \in Ingesters :
                 iw'[y].pc = "insert" /\ iw'[y].id = iw'[x].id => y = x
      BY <1>2, <2>2, <3>3 DEF NumbersFresh
    <3> QED
      BY <2>2, <3>1, <3>2, <3>4 DEF NumbersFresh
  <2>3. CASE CreateCourse(w)
    <3>1. iw[w].up \in Uploads
      BY <2>3, BusyTask DEF CreateCourse, TypeOK
    <3>2. [last |-> 0, runs |-> {RunOf[iw[w].up]}] \in Course
      BY <3>1 DEF Course
    <3>3. ASSUME courses # <<>>
          PROVE  courses'[1] = courses[1] /\ courses[1].last \in Nat
      <4>1. 1 \in 1..Len(courses) /\ courses[1] \in Course
        BY <3>3, FirstCourse
      <4>2. courses'[1] = courses[1]
        BY <2>3, <3>2, <4>1, AppendProperties DEF CreateCourse, TypeOK
      <4> QED
        BY <4>1, <4>2 DEF Course
    <3>4. videos # <<>> \/ (\E x \in Ingesters : iw[x].pc = "insert")
            => courses # <<>>
      BY DEF CourseThere
    <3>5. iw'[w].pc # "insert" /\ UNCHANGED videos
      BY <2>3, GotoStep DEF CreateCourse, TypeOK, Steps
    <3>6. courses # <<>> => courses[1].last <= courses'[1].last
      BY <3>3
    <3> QED
      BY <2>2, <3>3, <3>4, <3>5, <3>6
  <2>4. CASE SaveRun(w)
    <3>1. iw[w].seen \in Course /\ iw[w].up \in Uploads
      BY <2>4, BusyTask DEF SaveRun, TypeOK
    <3>2. [last |-> iw[w].seen.last,
           runs |-> iw[w].seen.runs \cup {RunOf[iw[w].up]}] \in Course
      BY <3>1 DEF Course
    <3>3. courses # <<>>
      BY <2>4 DEF SaveRun, CourseThere
    <3>4. courses'[1].last = iw[w].seen.last
      <4> DEFINE c == [last |-> iw[w].seen.last,
                       runs |-> iw[w].seen.runs \cup {RunOf[iw[w].up]}]
      <4>1. courses' = [courses EXCEPT ![1] = c]
        BY <2>4 DEF SaveRun
      <4>2. c \in Course /\ c.last = iw[w].seen.last
        BY <3>2
      <4> HIDE DEF c
      <4>3. courses'[1] = c
        BY <3>3, <4>1, <4>2, SavedCourse
      <4> QED
        BY <4>2, <4>3
    <3>5. iw[w].seen.last \in Nat /\ courses[1].last \in Nat
      BY <3>1, <3>3, FirstCourse DEF Course
    <3>6. ~(iw[w].seen.last < courses[1].last)
      BY <1>2, <2>4 DEF SaveRun
    <3>7. courses[1].last <= courses'[1].last
      BY <3>4, <3>5, <3>6
    <3>8. iw'[w].pc # "insert" /\ UNCHANGED videos
      BY <2>4, BusyTask DEF SaveRun, TypeOK, TasksTyped, Task
    <3> QED
      BY <2>2, <3>4, <3>5, <3>7, <3>8
  <2>5. CASE GenerateVedaId(w)
    <3>1. courses # <<>> /\ courses[1] \in Course /\ courses[1].last \in Nat
      BY <2>5, FirstCourse DEF GenerateVedaId, CourseThere, Course
    <3>2. [courses[1] EXCEPT !.last = @ + 1] \in Course
      BY <3>1 DEF Course
    <3>3. courses' = [courses EXCEPT ![1] = [courses[1] EXCEPT !.last = @ + 1]]
      BY <2>5 DEF GenerateVedaId
    <3>4. courses'[1].last = courses[1].last + 1
      <4>1. courses'[1] = [courses[1] EXCEPT !.last = @ + 1]
        BY <3>1, <3>2, <3>3, SavedCourse
      <4> QED
        BY <3>1, <4>1 DEF Course
    <3>5. iw'[w].id = courses[1].last + 1
      BY <2>5, BusyTask DEF GenerateVedaId, TypeOK, TasksTyped, Task
    <3>6. UNCHANGED videos
      BY <2>5 DEF GenerateVedaId
    <3>7. \A i \in DOMAIN videos :
            /\ videos[i].id <= courses'[1].last
            /\ videos[i].id # courses[1].last + 1
      <4>1. \A i \in DOMAIN videos :
              videos[i].id \in Nat /\ videos[i].id <= courses[1].last
        BY <1>2, RowTyping DEF NumbersFresh
      <4> QED
        BY <3>1, <3>4, <4>1
    <3>8. \A x \in Ingesters \ {w} : iw[x].pc = "insert" =>
            /\ iw[x].id <= courses'[1].last
            /\ iw[x].id # courses[1].last + 1
      <4>1. \A x \in Ingesters : iw[x].pc = "insert" =>
              iw[x].id \in Nat /\ iw[x].id <= courses[1].last
        BY <1>2, BusyTask DEF NumbersFresh, TypeOK
      <4> QED
        BY <3>1, <3>4, <4>1
    <3>9. courses[1].last + 1 <= courses'[1].last
      BY <3>1, <3>4
    <3>10. \A x \in Ingesters : iw'[x].pc = "insert" =>
             /\ iw'[x].id <= courses'[1].last
             /\ (\A i \in DOMAIN videos' : videos'[i].id # iw'[x].id)
             /\ \A y \in Ingesters :
                  iw'[y].pc = "insert" /\ iw'[y].id = iw'[x].id => y = x
      <4>1. ASSUME NEW x \in Ingesters, iw'[x].pc = "insert"
            PROVE  /\ iw'[x].id <= courses'[1].last
                   /\ \A i \in DOMAIN videos' : videos'[i].id # iw'[x].id
        BY <1>2, <2>1, <3>5, <3>6, <3>7, <3>8, <3>9, <4>1 DEF NumbersFresh
      <4>2. ASSUME NEW x \in Ingesters, iw'[x].pc = "insert",
                   NEW y \in Ingesters, iw'[y].pc = "insert",
                   iw'[y].id = iw'[x].id
            PROVE  y = x
        BY <1>2, <2>1, <3>5, <3>8, <4>2 DEF NumbersFresh
      <4> QED
        BY <4>1, <4>2
    <3>11. IdsDistinct'
      BY <1>2, <3>6 DEF IdsDistinct
    <3> QED
      BY <3>6, <3>7, <3>10, <3>11 DEF NumbersFresh
  <2>6. CASE Insert(w)
    <3> DEFINE r == [up |-> iw[w].up, id |-> iw[w].id]
               n == Len(videos) + 1
    <3>1. r \in Video /\ videos' = Append(videos, r)
      BY <2>6, BusyTask DEF Insert, TypeOK, Video
    <3>2. /\ DOMAIN videos' = DOMAIN videos \cup {n}
          /\ n \notin DOMAIN videos
          /\ \A i \in DOMAIN videos : videos'[i] = videos[i]
          /\ videos'[n] = r /\ r.id = iw[w].id
      BY <3>1, AddedVideo
    <3>3. iw[w].pc = "insert" /\ iw'[w].pc = "rename" /\ UNCHANGED courses
      BY <2>6, GotoStep DEF Insert, TypeOK, Steps
    <3>4. (\A i \in DOMAIN videos : videos[i].id # iw[w].id) /\ iw[w].id <= courses[1].last
      BY <1>2, <3>3 DEF NumbersFresh
    <3> HIDE DEF r, n
    <3>5. \A i, j \in DOMAIN videos' : videos'[i].id = videos'[j].id => i = j
      BY <1>2, <3>2, <3>4 DEF IdsDistinct
    <3>6. \A i \in DOMAIN videos' : videos'[i].id <= courses'[1].last
      BY <1>2, <3>2, <3>3, <3>4 DEF NumbersFresh
    <3>7. ASSUME NEW x \in Ingesters, iw'[x].pc = "insert"
          PROVE  /\ x # w /\ iw'[x] = iw[x]
                 /\ iw[x].id # iw[w].id
                 /\ iw[x].id <= courses[1].last /\ (\A i \in DOMAIN videos : videos[i].id # iw[x].id)
      BY <1>2, <2>1, <3>3, <3>7 DEF NumbersFresh
    <3>8. ASSUME NEW x \in Ingesters, iw'[x].pc = "insert"
          PROVE  iw'[x].id <= courses'[1].last /\ (\A i \in DOMAIN videos' : videos'[i].id # iw'[x].id)
      BY <3>2, <3>3, <3>7, <3>8
    <3>9. ASSUME NEW x \in Ingesters, iw'[x].pc = "insert",
                 NEW y \in Ingesters, iw'[y].pc = "insert",
                 iw'[y].id = iw'[x].id
          PROVE  y = x
      BY <1>2, <3>7, <3>9 DEF NumbersFresh
    <3> QED
      BY <3>5, <3>6, <3>8, <3>9 DEF IdsDistinct, NumbersFresh
  <2>7. CASE ~(CreateCourse(w) \/ SaveRun(w) \/ GenerateVedaId(w) \/ Insert(w))
    <3>1. UNCHANGED <<videos, courses>>
      BY <1>2, <2>7 DEF WorkerNext, Take, Reject, ReadCourse, Download, Fetch, DownloadFails,
         Inspect, Validate, CheckInserted, Rename, QueueJob, MoveProcessed, Die
    <3>2. iw'[w].pc # "insert"
      <4>1. ASSUME NEW u \in Uploads, Take(w, u)
            PROVE  iw'[w].pc # "insert"
        BY <4>1 DEF Take, TypeOK, TasksTyped
      <4>2. CASE ReadCourse(w)
        <5>1. CASE Goto(w, "create") \/ Goto(w, "download")
          BY <4>2, <5>1, GotoStep DEF ReadCourse, TypeOK, Steps
        <5>2. CASE iw' = [iw EXCEPT ![w].pc = "save_run", ![w].seen = courses[1]]
          BY <4>2, <5>2, BusyTask DEF ReadCourse, TypeOK, TasksTyped, Task
        <5> QED
          BY <4>2, <5>1, <5>2 DEF ReadCourse
      <4>3. CASE CheckInserted(w)
        <5>1. CASE Goto(w, "number")
          BY <4>3, <5>1, GotoStep DEF CheckInserted, TypeOK, Steps
        <5>2. ASSUME NEW m \in Nat,
                     iw' = [iw EXCEPT ![w].pc = "rename", ![w].id = m]
              PROVE  iw'[w].pc # "insert"
          BY <4>3, <5>2, BusyTask DEF CheckInserted, TypeOK, TasksTyped, Task
        <5> QED
          BY <4>3, <5>1, <5>2, RowTyping DEF CheckInserted, RowsOf
      <4>6. CASE Validate(w)
        BY <4>6, ValidateStep DEF TypeOK
      <4>4. CASE \/ Download(w) \/ Fetch(w) \/ DownloadFails(w)
                 \/ Inspect(w) \/ Rename(w) \/ QueueJob(w)
        BY <4>4, GotoStep, FinishStep DEF Download, Fetch, DownloadFails, Inspect, Rename, QueueJob,
           MoveVideo, TypeOK, Steps
      <4>5. CASE Reject(w) \/ MoveProcessed(w) \/ Die(w)
        BY <4>5, FinishStep DEF Reject, MoveProcessed, MoveVideo, Die, TypeOK
      <4> QED
        BY <1>2, <2>7, <4>1, <4>2, <4>3, <4>4, <4>5, <4>6
        DEF WorkerNext
    <3>3. courses # <<>> => courses[1].last \in Nat
      BY FirstCourse DEF Course
    <3>4. videos # <<>> \/ (\E x \in Ingesters : iw[x].pc = "insert")
            => courses # <<>>
      BY DEF CourseThere
    <3>5. courses # <<>> => courses[1].last <= courses'[1].last
      BY <3>1, <3>3
    <3> QED
      BY <2>2, <3>1, <3>2, <3>3, <3>4, <3>5
  <2> QED
    BY <2>3, <2>4, <2>5, <2>6, <2>7
<1>3. ASSUME NEW w \in Ingesters, WorkerNext(w), rewound \/ rewound'
      PROVE  IdsDistinct' /\ NumbersFresh'
  <2>1. CASE UNCHANGED rewound
    BY <1>3, <2>1, Zenon DEF IdsDistinct, NumbersFresh
  <2>2. CASE SaveRun(w) /\ ~UNCHANGED rewound
    <3>1. rewound' = (rewound \/ iw[w].seen.last < courses[1].last)
      BY <2>2 DEF SaveRun
    <3>2. rewound'
      BY <1>3, <3>1, Zenon
    <3> QED
      BY <3>2, Zenon DEF IdsDistinct, NumbersFresh
  <2>3. UNCHANGED rewound \/ SaveRun(w)
    BY <1>3 DEF WorkerNext, Take, Reject, ReadCourse, CreateCourse,
       Download, Fetch, DownloadFails, Inspect, Validate, CheckInserted,
       GenerateVedaId, Insert, Rename,
       QueueJob, MoveProcessed, Die
  <2> QED
    BY <2>1, <2>2, <2>3
<1> QED
  BY <1>1, <1>2, <1>3, NextCases

-----------------------------------------------------------------------------
(* Where the files and keys go: only Rename and DownloadFails take a file    *)
(* away, under the name of their own upload; only a killed task leaves one in*)
(* pieces, its own; only MoveProcessed makes an upload processed, its own.   *)
LEMMA FilesStep ==
  ASSUME TypeOK, NEW w \in Ingesters, WorkerNext(w)
  PROVE  /\ \A f \in files :
              f \in files' \/ ((Rename(w) \/ DownloadFails(w)) /\ f = File(w))
         /\ \A f \in left' : f \in left \/ (Die(w) /\ f = File(w))
         /\ \A u \in Uploads : key'[u] = "processed" =>
              \/ key[u] = "processed"
              \/ iw[w].pc = "move" /\ u = iw[w].up
<1>1. /\ \A f \in files :
           f \in files' \/ ((Rename(w) \/ DownloadFails(w)) /\ f = File(w))
      /\ \A f \in left' : f \in left \/ (Die(w) /\ f = File(w))
  <2>1. CASE Rename(w)
    BY <2>1 DEF Rename
  <2>2. CASE Download(w)
    BY <2>2 DEF Download
  <2>3. CASE DownloadFails(w)
    BY <2>3 DEF DownloadFails
  <2>4. CASE Die(w)
    BY <2>4 DEF Die
  <2>5. CASE ~Rename(w) /\ ~Download(w) /\ ~DownloadFails(w) /\ ~Die(w)
    <3>1. UNCHANGED <<files, left>>
      BY <2>5 DEF WorkerNext, Take, Reject, ReadCourse, CreateCourse, SaveRun,
         Fetch, Inspect, Validate, CheckInserted, GenerateVedaId, Insert,
         QueueJob, MoveProcessed
    <3> QED
      BY <3>1
  <2> QED
    BY <2>1, <2>2, <2>3, <2>4, <2>5
<1>2. CASE Reject(w) \/ DownloadFails(w) \/ MoveProcessed(w)
  <2>1. \A u \in Uploads : key'[u] = "processed" =>
          \/ key[u] = "processed"
          \/ iw[w].pc = "move" /\ u = iw[w].up
    BY <1>2 DEF Reject, DownloadFails, MoveProcessed, MoveVideo, TypeOK
  <2> QED
    BY <1>1, <2>1
<1>3. CASE UNCHANGED key
  BY <1>1, <1>3
<1> QED
  BY <1>2, <1>3 DEF WorkerNext, Take, ReadCourse, CreateCourse, SaveRun,
     Download, Fetch, Inspect, Validate, CheckInserted, GenerateVedaId, Insert,
     Rename, QueueJob, Die

(* A download that fails leaves the uploads of the others where they were, or*)
(* in taken, and nothing leaves that.                                        *)
LEMMA TakenStep ==
  ASSUME NEW w \in Ingesters, WorkerNext(w)
  PROVE  /\ taken \subseteq taken'
         /\ \A x \in Ingesters \ {w} :
              /\ DownloadFails(w)
              /\ iw[x].pc \in {"fetch", "inspect"}
              /\ File(x) = File(w)
              /\ File(w) \in files
              => iw[w].up \in taken'
<1>1. taken \subseteq taken'
  BY DEF WorkerNext, Take, Reject, ReadCourse, CreateCourse, SaveRun, Download,
     Fetch, DownloadFails, Inspect, Validate, CheckInserted, GenerateVedaId,
     Insert, Rename, QueueJob, MoveProcessed, Die
<1>2. ASSUME DownloadFails(w), NEW x \in Ingesters \ {w},
             iw[x].pc \in {"fetch", "inspect"}, File(x) = File(w),
             File(w) \in files
      PROVE  iw[w].up \in taken'
  BY <1>2 DEF DownloadFails
<1> QED
  BY <1>1, <1>2

(* How a worker comes to each of the steps the invariant is about.           *)
LEMMA Arrivals ==
  ASSUME TypeOK, NEW w \in Ingesters, WorkerNext(w)
  PROVE  /\ iw'[w].pc = "fetch" =>
              /\ Download(w) /\ File(w) \in files'
              /\ \/ File(w) \notin left'
                 \/ \E x \in Ingesters \ {w} : Writing(x, File(w))
         /\ iw'[w].pc = "inspect" => Fetch(w)
         /\ iw'[w].pc = "validate" =>
              iw[w].pc = "inspect" /\ File(w) \in files
         /\ iw'[w].pc = "check" =>
              /\ iw[w].pc = "validate"
              /\ \/ iw'[w].valid \/ iw[w].up \in Broken
                 \/ File(w) \notin files \/ InPieces(File(w))
         /\ iw'[w].pc = "number" => iw[w].pc = "check"
         /\ iw'[w].pc = "insert" => iw[w].pc = "number"
         /\ iw'[w].pc \in {"number", "insert", "rename"} =>
              iw'[w].valid = iw[w].valid
         /\ iw'[w].pc = "rename" =>
              \/ iw[w].pc = "check" /\
                   \E i \in RowsOf(iw[w].up) : iw'[w].id = videos[i].id
              \/ Insert(w) /\ iw'[w].id = iw[w].id
         /\ iw'[w].pc = "queue" =>
              iw[w].pc = "rename" /\ iw'[w].id = iw[w].id
         /\ iw'[w].pc = "move" =>
              \/ iw[w].pc = "inspect" /\ File(w) \notin files
              \/ iw[w].pc = "rename" /\ ~iw[w].valid
              \/ iw[w].pc = "queue" /\ queued' = queued \cup {iw[w].id}
<1>1. ASSUME NEW u \in Uploads, Take(w, u)
      PROVE  iw'[w].pc \in {"idle", "course"}
  BY <1>1 DEF Take, TypeOK, TasksTyped
<1>2. ASSUME Reject(w) \/ MoveProcessed(w) \/ Die(w)
      PROVE  iw'[w].pc = "idle"
  BY <1>2, FinishStep DEF Reject, MoveProcessed, MoveVideo, Die, TypeOK
<1>3. ASSUME ReadCourse(w)
      PROVE  iw'[w].pc \in {"create", "download", "save_run"}
  <2>1. CASE Goto(w, "create") \/ Goto(w, "download")
    BY <1>3, <2>1, GotoStep DEF ReadCourse, TypeOK, Steps
  <2>2. CASE iw' = [iw EXCEPT ![w].pc = "save_run", ![w].seen = courses[1]]
    BY <1>3, <2>2, BusyTask DEF ReadCourse, TypeOK, TasksTyped, Task
  <2> QED
    BY <1>3, <2>1, <2>2 DEF ReadCourse
<1>4. ASSUME CreateCourse(w)
      PROVE  iw'[w].pc = "download"
  BY <1>4, GotoStep DEF CreateCourse, TypeOK, Steps
<1>5. ASSUME SaveRun(w)
      PROVE  iw'[w].pc = "download"
  BY <1>5, BusyTask DEF SaveRun, TypeOK, TasksTyped, Task
<1>6. ASSUME Download(w)
      PROVE  /\ iw'[w].pc \in {"fetch", "gone"}
             /\ File(w) \in files'
             /\ \/ File(w) \notin left'
                \/ \E x \in Ingesters \ {w} : Writing(x, File(w))
  <2>1. iw'[w].pc \in {"fetch", "gone"}
    BY <1>6, GotoStep DEF Download, TypeOK, Steps
  <2> QED
    BY <1>6, <2>1 DEF Download
<1>14. ASSUME Fetch(w)
       PROVE  iw'[w].pc = "inspect"
  BY <1>14, GotoStep DEF Fetch, TypeOK, Steps
<1>15. ASSUME DownloadFails(w)
       PROVE  iw'[w].pc = "idle"
  BY <1>15, FinishStep DEF DownloadFails, MoveVideo, TypeOK
<1>7. ASSUME Inspect(w)
      PROVE  /\ iw[w].pc = "inspect"
             /\ \/ iw'[w].pc = "validate" /\ File(w) \in files
                \/ iw'[w].pc = "move" /\ File(w) \notin files
  BY <1>7, GotoStep DEF Inspect, TypeOK, Steps
<1>13. ASSUME Validate(w)
       PROVE  /\ iw[w].pc = "validate" /\ iw'[w].pc = "check"
              /\ \/ iw'[w].valid \/ iw[w].up \in Broken
                 \/ File(w) \notin files \/ InPieces(File(w))
  BY <1>13, ValidateStep DEF Validate, TypeOK
<1>8. ASSUME CheckInserted(w)
      PROVE  /\ iw[w].pc = "check" /\ iw'[w].valid = iw[w].valid
             /\ \/ iw'[w].pc = "number"
                \/ /\ iw'[w].pc = "rename"
                   /\ \E i \in RowsOf(iw[w].up) : iw'[w].id = videos[i].id
  <2>1. CASE Goto(w, "number")
    BY <1>8, <2>1, GotoStep DEF CheckInserted, TypeOK, Steps
  <2>2. ASSUME NEW i \in RowsOf(iw[w].up),
               iw' = [iw EXCEPT ![w].pc = "rename", ![w].id = videos[i].id]
        PROVE  /\ iw'[w].pc = "rename" /\ iw'[w].id = videos[i].id
               /\ iw'[w].valid = iw[w].valid
    <3> DEFINE new == videos[i].id
    <3>1. iw[w] \in Task
      BY <1>8, BusyTask DEF CheckInserted, TypeOK, TasksTyped
    <3>2. iw' = [iw EXCEPT ![w].pc = "rename", ![w].id = new]
      BY <2>2
    <3>3. w \in DOMAIN iw
      BY DEF TypeOK, TasksTyped
    <3> HIDE DEF new
    <3>4. /\ iw'[w].pc = "rename" /\ iw'[w].id = new
          /\ iw'[w].valid = iw[w].valid
      BY ONLY <3>1, <3>2, <3>3 DEF Task
    <3> QED
      BY <3>4 DEF new
  <2> QED
    BY <1>8, <2>1, <2>2 DEF CheckInserted
<1>9. ASSUME GenerateVedaId(w)
      PROVE  /\ iw[w].pc = "number" /\ iw'[w].pc = "insert"
             /\ iw'[w].valid = iw[w].valid
  BY <1>9, BusyTask DEF GenerateVedaId, TypeOK, TasksTyped, Task
<1>10. ASSUME Insert(w)
       PROVE  /\ iw'[w].pc = "rename" /\ iw'[w].id = iw[w].id
              /\ iw'[w].valid = iw[w].valid
  BY <1>10, GotoStep DEF Insert, TypeOK, Steps
<1>11. ASSUME Rename(w)
       PROVE  /\ iw[w].pc = "rename"
              /\ \/ iw'[w].pc = "idle"
                 \/ iw'[w].pc = "move" /\ ~iw[w].valid
                 \/ iw'[w].pc = "queue" /\ iw'[w].id = iw[w].id
  BY <1>11, GotoStep, FinishStep DEF Rename, TypeOK, Steps
<1>12. ASSUME QueueJob(w)
       PROVE  /\ iw[w].pc = "queue" /\ iw'[w].pc = "move"
              /\ queued' = queued \cup {iw[w].id}
  BY <1>12, GotoStep DEF QueueJob, TypeOK, Steps
<1> QED
  <2>1. CASE \/ \E u \in Uploads : Take(w, u)
             \/ Reject(w) \/ MoveProcessed(w) \/ Die(w) \/ ReadCourse(w)
             \/ CreateCourse(w) \/ SaveRun(w)
    <3>1. iw'[w].pc \in {"idle", "course", "create", "download", "save_run"}
      BY <2>1, <1>1, <1>2, <1>3, <1>4, <1>5
    <3> QED
      BY <3>1
  <2>2. CASE Download(w)
    BY <2>2, <1>6
  <2>10. CASE Fetch(w)
    BY <2>10, <1>14
  <2>11. CASE DownloadFails(w)
    BY <2>11, <1>15
  <2>3. CASE Inspect(w)
    BY <2>3, <1>7
  <2>9. CASE Validate(w)
    BY <2>9, <1>13
  <2>4. CASE CheckInserted(w)
    BY <2>4, <1>8
  <2>5. CASE GenerateVedaId(w)
    BY <2>5, <1>9
  <2>6. CASE Insert(w)
    BY <2>6, <1>10
  <2>7. CASE Rename(w)
    BY <2>7, <1>11
  <2>8. CASE QueueJob(w)
    BY <2>8, <1>12
  <2> QED
    BY <2>1, <2>2, <2>3, <2>4, <2>5, <2>6, <2>7, <2>8, <2>9, <2>10,
       <2>11 DEF WorkerNext

(* After an insert the row is there.                                         *)
LEMMA Inserted ==
  ASSUME TypeOK, NEW w \in Ingesters, Insert(w)
  PROVE  \E i \in DOMAIN videos' :
           videos'[i].up = iw[w].up /\ videos'[i].id = iw[w].id
<1> DEFINE r == [up |-> iw[w].up, id |-> iw[w].id]
<1>1. r \in Video /\ videos' = Append(videos, r) /\ r.up = iw[w].up /\ r.id = iw[w].id
  BY BusyTask DEF Insert, TypeOK, Video
<1>2. Len(videos) + 1 \in DOMAIN videos' /\ videos'[Len(videos) + 1] = r
  BY <1>1, AddedVideo
<1> HIDE DEF r
<1> QED
  BY <1>1, <1>2

-----------------------------------------------------------------------------
(* What RowsMade, FilesKept and Queued say of one worker and one upload, in  *)
(* terms of the tables alone: the forms the steps are proved in.             *)
HasRow(vs, u) == \E i \in DOMAIN vs : vs[i].up = u
HasRowId(vs, u, n) == \E i \in DOMAIN vs : vs[i].up = u /\ vs[i].id = n
HasQueued(vs, u, q) ==
  u \in Broken \/ \E i \in DOMAIN vs : vs[i].up = u /\ vs[i].id \in q

RowsMadeOf(vs, fs, t, f, lost) ==
  /\ t.pc \in {"fetch", "inspect"} => f \in fs \/ HasRow(vs, t.up) \/ lost
  /\ t.pc = "move" => HasRow(vs, t.up) \/ lost
  /\ t.pc \in {"rename", "queue"} => HasRowId(vs, t.up, t.id)

KeptOf(vs, fs, q, t, f) ==
  /\ t.pc \in {"fetch", "inspect", "validate", "check", "number", "insert",
               "rename"} => f \in fs
  /\ t.pc \in {"check", "number", "insert", "rename"} =>
       t.valid \/ t.up \in Broken
  /\ t.pc = "move" => HasQueued(vs, t.up, q)

FormsHold ==
  /\ RowsMade <=> \A w \in Ingesters :
       RowsMadeOf(videos, files, iw[w], File(w), Taken(iw[w].up))
  /\ FilesKept <=> shared \/ \A w \in Ingesters :
       KeptOf(videos, files \ left, queued, iw[w], File(w))
  /\ NoUploadLost <=> \A u \in Uploads :
       key[u] = "processed" => HasRow(videos, u) \/ Taken(u)
  /\ ProcessedIsQueued <=> shared \/ \A u \in Uploads :
       key[u] = "processed" => HasQueued(videos, u, queued)

LEMMA Forms == FormsHold
<1>1. \A u : RowsOf(u) # {} <=> HasRow(videos, u)
  BY DEF RowsOf, HasRow
<1>2. \A u, n : (\E i \in RowsOf(u) : videos[i].id = n) <=> HasRowId(videos, u, n)
  BY DEF RowsOf, HasRowId
<1>3. \A u : Queued(u) <=> HasQueued(videos, u, queued)
  BY DEF RowsOf, Queued, HasQueued
<1> QED
  BY <1>1, <1>2, <1>3, Zenon
  DEF FormsHold, RowsMade, RowsMadeOf, FilesKept, KeptOf, NoUploadLost,
      ProcessedIsQueued

(* ... and after a step.                                                     *)
LEMMA FormsNext == FormsHold'
BY Forms, PTL

(* The deployment stays as it is.                                            *)
LEMMA SharedStep ==
  ASSUME Next
  PROVE  shared' = shared /\ \A w : Place(w)' = Place(w)
<1>1. shared' = shared
  BY DEF Next, Notify, Take, Reject, ReadCourse, CreateCourse, SaveRun,
     Download, Fetch, DownloadFails, Inspect, Validate, CheckInserted, GenerateVedaId, Insert,
     Rename, QueueJob, MoveProcessed, Die
<1> QED
  BY <1>1 DEF Place

(* Rows stay, and so does what has been queued.                              *)
LEMMA HaveGrows ==
  ASSUME TypeOK, Next
  PROVE  /\ \A u : HasRow(videos, u) => HasRow(videos', u)
         /\ \A u, n : HasRowId(videos, u, n) => HasRowId(videos', u, n)
         /\ \A u, n : HasRowId(videos, u, n) => HasRow(videos, u)
         /\ queued \subseteq queued'
         /\ \A u : HasQueued(videos, u, queued) => HasQueued(videos', u, queued')
<1>1. \A i \in DOMAIN videos : i \in DOMAIN videos' /\ videos'[i] = videos[i]
  BY RowsGrow
<1>2. queued \subseteq queued'
  <2>1. ASSUME NEW w \in Ingesters, WorkerNext(w)
        PROVE  queued \subseteq queued'
    BY <2>1 DEF WorkerNext, Take, Reject, ReadCourse, CreateCourse, SaveRun,
       Download, Fetch, DownloadFails, Inspect, Validate, CheckInserted,
       GenerateVedaId, Insert, Rename,
       QueueJob, MoveProcessed, Die
  <2>2. ASSUME NEW u \in Uploads, Notify(u)
        PROVE  queued \subseteq queued'
    BY <2>2 DEF Notify
  <2> QED
    BY <2>1, <2>2, NextCases
<1> QED
  BY <1>1, <1>2 DEF HasRow, HasRowId, HasQueued

-----------------------------------------------------------------------------
(* Rows for what is processed, and for the tasks on their way there.         *)
LEMMA RowsStep ==
  ASSUME TypeOK, NoUploadLost, RowsMade, Next
  PROVE  NoUploadLost' /\ RowsMade'
<1> DEFINE File2(w) == <<Place(w), iw'[w].up>>
<1>1. /\ \A w \in Ingesters :
           RowsMadeOf(videos, files, iw[w], File(w), Taken(iw[w].up))
      /\ \A u \in Uploads :
           key[u] = "processed" => HasRow(videos, u) \/ Taken(u)
  BY Forms DEF FormsHold
<1>0. shared' = shared
  BY SharedStep
<1>2. SUFFICES
        /\ \A w \in Ingesters :
             RowsMadeOf(videos', files', iw'[w], File2(w),
                        shared /\ iw'[w].up \in taken')
        /\ \A u \in Uploads :
             key'[u] = "processed" =>
               HasRow(videos', u) \/ (shared /\ u \in taken')
  BY FormsNext, SharedStep DEF FormsHold, Place, File, Taken
<1>3. ASSUME NEW u \in Uploads, Notify(u)
      PROVE  UNCHANGED <<videos, key, files, iw, taken>>
  BY <1>3 DEF Notify
<1>4. ASSUME NEW w \in Ingesters, WorkerNext(w), NEW u \in Uploads,
             key'[u] = "processed"
      PROVE  HasRow(videos', u) \/ (shared /\ u \in taken')
  <2>1. key[u] = "processed" \/ (iw[w].pc = "move" /\ u = iw[w].up)
    BY <1>4, FilesStep
  <2>2. HasRow(videos, u) \/ (shared /\ u \in taken)
    BY <1>1, <2>1 DEF RowsMadeOf, Taken
  <2>3. taken \subseteq taken'
    BY <1>4, TakenStep
  <2> QED
    BY <2>2, <2>3, HaveGrows
<1>5. ASSUME NEW w \in Ingesters, WorkerNext(w), NEW x \in Ingesters \ {w}
      PROVE  RowsMadeOf(videos', files', iw'[x], File2(x),
                        shared /\ iw'[x].up \in taken')
  <2>1. iw'[x] = iw[x] /\ File2(x) = File(x)
    BY <1>5, Movement DEF File
  <2>2. RowsMadeOf(videos, files, iw[x], File(x), shared /\ iw[x].up \in taken)
    BY <1>1 DEF Taken
  <2>3. taken \subseteq taken'
    BY <1>5, TakenStep
  <2>4. iw[x].pc \in {"fetch", "inspect"} /\ File(x) \in files =>
          \/ File(x) \in files'
          \/ HasRow(videos, iw[x].up)
          \/ shared /\ iw[x].up \in taken'
    <3>1. SUFFICES ASSUME iw[x].pc \in {"fetch", "inspect"}, File(x) \in files,
                          File(x) \notin files'
                   PROVE  HasRow(videos, iw[x].up) \/ (shared /\ iw[x].up \in taken')
      OBVIOUS
    <3>2. (Rename(w) \/ DownloadFails(w)) /\ File(x) = File(w)
      BY <1>5, <3>1, FilesStep
    <3>3. iw[x].up = iw[w].up /\ Place(x) = Place(w)
      BY <3>2 DEF File
    <3>4. shared
      BY <1>5, <3>3 DEF Place
    <3>5. CASE Rename(w)
      <4>1. HasRow(videos, iw[w].up)
        BY <1>1, <3>5, HaveGrows DEF Rename, RowsMadeOf
      <4> QED
        BY <3>3, <4>1
    <3>6. CASE DownloadFails(w)
      <4>1. iw[w].up \in taken'
        BY <1>5, <3>1, <3>2, <3>6, TakenStep
      <4> QED
        BY <3>3, <3>4, <4>1
    <3> QED
      BY <3>2, <3>5, <3>6
  <2>5. HasRow(videos, iw[x].up) => HasRow(videos', iw[x].up)
    BY HaveGrows
  <2>6. HasRowId(videos, iw[x].up, iw[x].id) => HasRowId(videos', iw[x].up, iw[x].id)
    BY HaveGrows
  <2> HIDE DEF File2
  <2> QED
    BY <2>1, <2>2, <2>3, <2>4, <2>5, <2>6 DEF RowsMadeOf
<1>6. ASSUME NEW w \in Ingesters, WorkerNext(w)
      PROVE  RowsMadeOf(videos', files', iw'[w], File2(w),
                        shared /\ iw'[w].up \in taken')
  <2>0. taken \subseteq taken'
    BY <1>6, TakenStep
  <2>1. iw'[w].pc \notin {"idle", "course"} => iw'[w].up = iw[w].up
    BY <1>6, Movement
  <2>2. RowsMadeOf(videos, files, iw[w], File(w), shared /\ iw[w].up \in taken)
    BY <1>1 DEF Taken
  <2>3. iw'[w].pc \in {"fetch", "inspect"} =>
          \/ File(w) \in files'
          \/ HasRow(videos', iw[w].up)
          \/ shared /\ iw[w].up \in taken'
    <3>1. CASE iw'[w].pc = "fetch"
      BY <1>6, <3>1, Arrivals
    <3>2. CASE iw'[w].pc = "inspect"
      <4>1. iw[w].pc = "fetch" /\ files' = files
        BY <1>6, <3>2, Arrivals DEF Fetch
      <4>2. \/ File(w) \in files
            \/ HasRow(videos, iw[w].up)
            \/ shared /\ iw[w].up \in taken
        BY <2>2, <4>1 DEF RowsMadeOf
      <4> QED
        BY <2>0, <4>1, <4>2, HaveGrows
    <3> QED
      BY <3>1, <3>2
  <2>4. iw'[w].pc = "move" =>
          HasRow(videos, iw[w].up) \/ (shared /\ iw[w].up \in taken)
    <3>1. iw'[w].pc = "move" =>
              \/ iw[w].pc = "inspect" /\ File(w) \notin files
              \/ iw[w].pc = "rename"
              \/ iw[w].pc = "queue"
      BY <1>6, Arrivals
    <3> QED
      BY <2>2, <3>1, HaveGrows DEF RowsMadeOf
  <2>5. iw'[w].pc = "rename" => HasRowId(videos', iw[w].up, iw'[w].id)
    <3>1. CASE Insert(w) /\ iw'[w].id = iw[w].id
      BY <3>1, Inserted DEF HasRowId
    <3>2. CASE \E i \in RowsOf(iw[w].up) : iw'[w].id = videos[i].id
      <4>1. HasRowId(videos, iw[w].up, iw'[w].id)
        BY <3>2 DEF RowsOf, HasRowId
      <4> QED
        BY <4>1, HaveGrows
    <3> QED
      BY <1>6, <3>1, <3>2, Arrivals
  <2>6. iw'[w].pc = "queue" => HasRowId(videos', iw[w].up, iw'[w].id)
    <3>1. iw'[w].pc = "queue" => iw[w].pc = "rename" /\ iw'[w].id = iw[w].id
      BY <1>6, Arrivals
    <3> QED
      BY <2>2, <3>1, HaveGrows DEF RowsMadeOf
  <2>7. HasRow(videos, iw[w].up) => HasRow(videos', iw[w].up)
    BY HaveGrows
  <2>8. iw'[w].pc \in {"fetch", "inspect"} =>
          \/ File2(w) \in files'
          \/ HasRow(videos', iw[w].up)
          \/ shared /\ iw[w].up \in taken'
    BY <2>1, <2>3 DEF File
  <2> HIDE DEF File2
  <2> QED
    BY <2>0, <2>1, <2>4, <2>5, <2>6, <2>7, <2>8 DEF RowsMadeOf
<1> QED
  <2>1. CASE \E u \in Uploads : Notify(u)
    <3>1. UNCHANGED <<videos, key, files, iw, taken>>
      BY <1>3, <2>1
    <3> QED
      BY <1>1, <3>1 DEF File, Taken
  <2>2. CASE \E w \in Ingesters : WorkerNext(w)
    <3> HIDE DEF File2
    <3> QED
      BY <1>4, <1>5, <1>6, <2>2
  <2> QED
    BY <2>1, <2>2, NextCases

(* Encodes queued for what is processed, where each task has its own place.  *)
LEMMA QueueStep ==
  ASSUME TypeOK, RowsMade, ProcessedIsQueued, FilesKept, Next
  PROVE  ProcessedIsQueued' /\ FilesKept'
<1>0. CASE shared
  BY <1>0, SharedStep DEF ProcessedIsQueued, FilesKept
<1>10. CASE ~shared
  <2>1. /\ \A w \in Ingesters : KeptOf(videos, files \ left, queued, iw[w], File(w))
        /\ \A w \in Ingesters : RowsMadeOf(videos, files, iw[w], File(w), FALSE)
        /\ \A u \in Uploads : key[u] = "processed" => HasQueued(videos, u, queued)
    BY <1>10, Forms DEF FormsHold, Taken
  <2>2. SUFFICES
          /\ \A w \in Ingesters :
               KeptOf(videos', files' \ left', queued', iw'[w], <<Place(w), iw'[w].up>>)
          /\ \A u \in Uploads :
               key'[u] = "processed" => HasQueued(videos', u, queued')
    BY FormsNext, SharedStep DEF FormsHold, Place, File
  <2>3. ASSUME NEW u \in Uploads, Notify(u)
        PROVE  UNCHANGED <<videos, key, files, left, queued, iw>>
    BY <2>3 DEF Notify
  <2>4. ASSUME NEW w \in Ingesters, WorkerNext(w), NEW u \in Uploads,
               key'[u] = "processed"
        PROVE  HasQueued(videos', u, queued')
    <3>1. key[u] = "processed" \/ (iw[w].pc = "move" /\ u = iw[w].up)
      BY <2>4, FilesStep
    <3>2. HasQueued(videos, u, queued)
      BY <2>1, <3>1 DEF KeptOf
    <3> QED
      BY <3>2, HaveGrows
  <2>5. ASSUME NEW w \in Ingesters, WorkerNext(w), NEW x \in Ingesters \ {w}
        PROVE  KeptOf(videos', files' \ left', queued', iw'[x], <<Place(x), iw'[x].up>>)
    <3>1. iw'[x] = iw[x]
      BY <2>5, Movement
    <3>2. KeptOf(videos, files \ left, queued, iw[x], File(x))
      BY <2>1
    <3>3. File(x) \in files \ left => File(x) \in files' \ left'
      <4>1. File(x) # File(w)
        BY <1>10 DEF Place, File
      <4> QED
        BY <2>5, <4>1, FilesStep
    <3> QED
      BY <3>1, <3>2, <3>3, HaveGrows DEF KeptOf, File
  <2>6. ASSUME NEW w \in Ingesters, WorkerNext(w)
        PROVE  KeptOf(videos', files' \ left', queued', iw'[w], <<Place(w), iw'[w].up>>)
    <3>1. iw'[w].pc \notin {"idle", "course"} => iw'[w].up = iw[w].up
      BY <2>6, Movement
    <3>2. /\ KeptOf(videos, files \ left, queued, iw[w], File(w))
          /\ RowsMadeOf(videos, files, iw[w], File(w), FALSE)
      BY <2>1
    <3>3. \A x \in Ingesters \ {w} : File(x) # File(w)
      BY <1>10 DEF Place, File
    <3>8. iw'[w].pc = "fetch" => File(w) \in files' \ left'
      BY <2>6, <3>3, Arrivals DEF Writing
    <3>4. iw'[w].pc \in {"inspect", "validate", "check", "number", "insert", "rename"} =>
            File(w) \in files' \ left'
      <4>1. iw'[w].pc \in {"inspect", "validate", "check", "number", "insert", "rename"} =>
              iw[w].pc \in {"fetch", "inspect", "validate", "check", "number", "insert"}
        BY <2>6, Arrivals DEF Fetch, Insert
      <4>2. iw'[w].pc \notin {"idle", "queue", "move"} =>
              ~Rename(w) /\ ~DownloadFails(w) /\ ~Die(w)
        BY GotoStep, FinishStep DEF Rename, DownloadFails, Die, MoveVideo, Steps, TypeOK
      <4>3. File(w) \in files \ left =>
              File(w) \in files' \ left' \/ Rename(w) \/ DownloadFails(w) \/ Die(w)
        BY <2>6, FilesStep
      <4> QED
        BY <3>2, <4>1, <4>2, <4>3 DEF KeptOf
    <3>7. iw'[w].pc \in {"check", "number", "insert", "rename"} =>
            iw'[w].valid \/ iw[w].up \in Broken
      <4>1. CASE iw'[w].pc = "check"
        <5>1. iw[w].pc = "validate" /\ File(w) \in files \ left
          BY <2>6, <3>2, <4>1, Arrivals DEF KeptOf
        <5>2. ~InPieces(File(w))
          BY <3>3, <5>1 DEF InPieces, Writing
        <5> QED
          BY <2>6, <4>1, <5>1, <5>2, Arrivals
      <4>2. CASE iw'[w].pc \in {"number", "insert", "rename"}
        <5>1. /\ iw[w].pc \in {"check", "number", "insert"}
              /\ iw'[w].valid = iw[w].valid
          BY <2>6, <4>2, Arrivals DEF Insert
        <5>2. iw[w].valid \/ iw[w].up \in Broken
          BY <3>2, <5>1 DEF KeptOf
        <5> QED
          BY <5>1, <5>2
      <4> QED
        BY <4>1, <4>2
    <3>5. iw'[w].pc = "move" => HasQueued(videos', iw[w].up, queued')
      <4>1. CASE iw[w].pc = "inspect" /\ File(w) \notin files
        BY <3>2, <4>1 DEF KeptOf
      <4>2. CASE iw[w].up \in Broken
        BY <4>2 DEF HasQueued
      <4>3. CASE iw[w].pc = "queue" /\ queued' = queued \cup {iw[w].id}
        <5>1. HasRowId(videos', iw[w].up, iw[w].id)
          BY <3>2, <4>3, HaveGrows DEF RowsMadeOf
        <5> QED
          BY <4>3, <5>1 DEF HasRowId, HasQueued
      <4>4. iw[w].pc = "rename" => iw[w].valid \/ iw[w].up \in Broken
        BY <3>2 DEF KeptOf
      <4> QED
        BY <2>6, <4>1, <4>2, <4>3, <4>4, Arrivals
    <3>6. iw'[w].pc \in {"fetch", "inspect", "validate", "check", "number", "insert",
                         "rename"} => <<Place(w), iw'[w].up>> \in files' \ left'
      BY <3>1, <3>4, <3>8 DEF File
    <3> QED
      BY <3>1, <3>5, <3>6, <3>7 DEF KeptOf
  <2> QED
    <3>1. CASE \E u \in Uploads : Notify(u)
      <4>1. UNCHANGED <<videos, key, files, left, queued, iw>>
        BY <2>3, <3>1
      <4> QED
        BY <2>1, <4>1 DEF File
    <3>2. CASE \E w \in Ingesters : WorkerNext(w)
      BY <2>4, <2>5, <2>6, <3>2
    <3> QED
      BY <3>1, <3>2, NextCases
<1> QED
  BY <1>0, <1>10

-----------------------------------------------------------------------------
LEMMA IngestInit ==
  ASSUME Init
  PROVE  IngestInv
<1>1. TypeOK
  <2>1. courses \in Seq(Course)
    <3>1. CASE courses = <<>>
      BY <3>1
    <3>2. ASSUME NEW runs \in SUBSET Runs, courses = <<[last |-> 0, runs |-> runs]>>
          PROVE  courses \in Seq(Course)
      <4>1. [last |-> 0, runs |-> runs] \in Course
        BY DEF Course
      <4> QED
        BY <3>2, <4>1
    <3> QED
      BY <3>1, <3>2 DEF Init
  <2>2. TasksTyped
    BY DEF Init, TasksTyped
  <2>3. videos \in Seq(Video)
    BY DEF Init
  <2>4. sent \in [Uploads -> 0..MaxNotices] /\ notices \in [Uploads -> Nat]
    <3>1. 0 \in 0..MaxNotices
      OBVIOUS
    <3> QED
      BY <3>1 DEF Init
  <2>5. key \in [Uploads -> {"ingest", "processed", "rejected"}]
    BY DEF Init
  <2>8. left \subseteq Places \X Uploads /\ taken \subseteq Uploads
    BY DEF Init
  <2>6. files \subseteq Places \X Uploads /\ queued \subseteq Nat /\ rewound \in BOOLEAN
    BY DEF Init
  <2>7. shared \in BOOLEAN
    BY DEF Init
  <2> QED
    BY <2>1, <2>2, <2>3, <2>4, <2>5, <2>6, <2>7, <2>8 DEF TypeOK
<1>2. videos = <<>> /\ DOMAIN videos = {}
  BY DEF Init
<1>3. \A w \in Ingesters : iw[w].pc = "idle"
  BY DEF Init, Idle
<1>4. \A u \in Uploads : key[u] = "ingest"
  BY DEF Init
<1> QED
  BY <1>1, <1>2, <1>3, <1>4
  DEF IngestInv, CourseThere, IdsDistinct, NumbersFresh, NoUploadLost,
      RowsMade, ProcessedIsQueued, FilesKept

LEMMA IngestStep ==
  ASSUME IngestInv, [Next]_vars
  PROVE  IngestInv'
<1>1. CASE Next
  <2>1. TypeOK' /\ CourseThere'
    BY <1>1, TypeStep, CourseStep DEF IngestInv
  <2>2. IdsDistinct' /\ NumbersFresh'
    BY <1>1, NumbersStep DEF IngestInv
  <2>3. NoUploadLost' /\ RowsMade'
    BY <1>1, RowsStep DEF IngestInv
  <2>4. ProcessedIsQueued' /\ FilesKept'
    BY <1>1, QueueStep DEF IngestInv
  <2> QED
    BY <2>1, <2>2, <2>3, <2>4 DEF IngestInv
<1>2. CASE UNCHANGED vars
  <2>1. TypeOK'
    BY <1>2 DEF IngestInv, TypeOK, TasksTyped, vars
  <2>2. CourseThere'
    BY <1>2 DEF IngestInv, CourseThere, vars
  <2>3. NumbersFresh' /\ IdsDistinct'
    BY <1>2, Zenon DEF IngestInv, NumbersFresh, IdsDistinct, vars
  <2>4. RowsMade'
    BY <1>2, Zenon DEF IngestInv, RowsMade, RowsOf, Taken, File, Place, vars
  <2>5. FilesKept'
    BY <1>2, Zenon DEF IngestInv, FilesKept, RowsOf, Queued, File, Place, vars
  <2>6. NoUploadLost' /\ ProcessedIsQueued'
    BY <1>2, Zenon DEF IngestInv, NoUploadLost, ProcessedIsQueued, RowsOf,
       Taken, Queued, vars
  <2> QED
    BY <2>1, <2>2, <2>3, <2>4, <2>5, <2>6 DEF IngestInv
<1> QED
  BY <1>1, <1>2

(* IngestInv holds throughout, for every number of uploads, notifications    *)
(* and tasks.                                                                *)
THEOREM IngestInvariance == Spec => []IngestInv
BY IngestInit, IngestStep, PTL DEF Spec

(* No two Video rows have the same VEDA id (_generate_veda_id), unless a     *)
(* stale Course row was saved (get_or_create_course).                        *)
THEOREM IdsAreDistinct == Spec => []IdsDistinct
<1>1. IngestInv => IdsDistinct
  BY DEF IngestInv
<1> QED
  BY <1>1, IngestInvariance, PTL

(* An upload that ingest moved to the processed folder has a Video row       *)
(* (database_record, http_ingest_celeryapp), also where tasks share a work   *)
(* directory and rename each other's files, except where the failed download *)
(* of one (download_video_to_working_directory) removed the file of another  *)
(* on its way to it.                                                         *)
THEOREM NoUploadIsLost == Spec => []NoUploadLost
<1>1. IngestInv => NoUploadLost
  BY DEF IngestInv
<1> QED
  BY <1>1, IngestInvariance, PTL

(* With work directories of their own the tasks have also queued the encodes *)
(* of such an upload (queue_job), whatever task died where.                  *)
THEOREM ProcessedAreQueued == Spec => []ProcessedIsQueued
<1>1. IngestInv => ProcessedIsQueued
  BY DEF IngestInv
<1> QED
  BY <1>1, IngestInvariance, PTL
=============================================================================

----------------------------- MODULE AboutVideo -----------------------------
(* About videos: the upload page (frontend/views.py, abvid_validate.py,      *)
(* templates/js/uploads.js) keeps a VedaUpload row per upload, by its serial;*)
(* the ingest daemon (bin/loop.py, veda_file_discovery.py,                   *)
(* veda_file_ingest.py) crawls the upload bucket and gives what it finds a   *)
(* Video of the course EDXABVID; that daemon and the one of the YouTube      *)
(* callback (sftp_id_retrieve.py) report how it went, in the row and by mail *)
(* (veda_utils.py, abvid_reporting.py). The posts of the page and the files  *)
(* it sends, any number of them under one serial, arrive in any order; the   *)
(* daemons die anywhere.                                                     *)
EXTENDS CourseForm, FiniteSets

CONSTANTS
  Uploads,   \* the serials
  AboutCode, \* "ABVID"
  MaxSends,  \* bound: how often a file is sent under one serial
  MaxStops   \* bound: how often the daemons stop

ASSUME AboutAssumption ==
  /\ AboutCode \in Codes
  /\ MaxSends \in Nat
  /\ MaxStops \in Nat

Daemons == {"ingest", "youtube"}

VARIABLES
  records,  \* the VedaUpload row of each serial
  sends,    \* how many files the browser has sent under each serial
  folders,  \* which of them lies in each folder of the bucket, 0: none
  videos,   \* the Video rows, by primary key
  reports,  \* what YouTube reported: <<primary key, outcome>>
  mails,    \* the mails about each upload, in the order they were sent
  dm,       \* what the daemons are doing
  stops,    \* why they stopped, so far
  again,    \* for each upload, the stops between its Video and its move
  unsaid,   \* for each upload, the mails of success a stop swallowed
  raced     \* uploads whose success was written within the report of a failure

aboutVars ==
  <<records, sends, folders, videos, reports, mails, dm, stops, again, unsaid, raced>>

vars == <<formVars, aboutVars>>

Outcomes == {"FAILED", "SUCCESS"}
None == "none"

(* upload_filename: none, empty, one whose download insert() finds again, or *)
(* another (no extension, one of more than four letters, or one twice).      *)
Names == {"null", "empty", "plain", "odd"}

(* file_valid and the comment are left out: nothing reads them.              *)
Record == [there : BOOLEAN, name : Names, complete : BOOLEAN, final : BOOLEAN]
Folders == [upload : Nat, process : Nat]

(* file: which of the files sent under the serial it was made from.          *)
Video == [up : Uploads, file : Nat, corrupt : BOOLEAN, url : BOOLEAN]

(* file: the one downloaded; name: upload_filename as read; out: the outcome *)
(* to be reported.                                                           *)
Work == [pc : {"idle", "insert", "read", "update", "mail", "copy", "delete", "down"},
         up : Uploads \cup {None}, file : Nat, name : Names, out : Outcomes]

At(pc) == [pc |-> pc, up |-> None, file |-> 0, name |-> "null", out |-> "FAILED"]

AboutTypeOK ==
  /\ records \in [Uploads -> Record]
  /\ sends \in [Uploads -> 0..MaxSends]
  /\ folders \in [Uploads -> Folders]
  /\ videos \in Seq(Video)
  /\ reports \subseteq (1..Len(videos)) \X {"Successful", "Duplicate"}
  /\ mails \in [Uploads -> Seq(Outcomes)]
  /\ dm \in [Daemons -> Work]
  /\ stops \in Seq({"none", "courses", "name", "report", "died"})
  /\ again \in [Uploads -> Nat]
  /\ unsaid \in [Uploads -> Nat]
  /\ raced \subseteq Uploads

(* The course of the about videos was entered already, or not.               *)
Init ==
  /\ FormInit
  /\ courses \in {<<>>, <<AboutCode>>}
  /\ records = [u \in Uploads |-> [there |-> FALSE, name |-> "null",
                                   complete |-> FALSE, final |-> FALSE]]
  /\ sends = [u \in Uploads |-> 0]
  /\ folders = [u \in Uploads |-> [upload |-> 0, process |-> 0]]
  /\ videos = <<>>
  /\ reports = {}
  /\ mails = [u \in Uploads |-> <<>>]
  /\ dm = [d \in Daemons |-> At("idle")]
  /\ stops = <<>>
  /\ again = [u \in Uploads |-> 0]
  /\ unsaid = [u \in Uploads |-> 0]
  /\ raced = {}

RowsOf(u) == {i \in DOMAIN videos : videos[i].up = u}

-----------------------------------------------------------------------------
(* The posts about_input hands on, and the file. The third post, that a file *)
(* was sent or was not, writes what nothing reads.                           *)
Posted ==
  UNCHANGED <<formVars, sends, folders, videos, reports, mails, dm, stops, again, unsaid,
              raced>>

(* Details without a file name come from another client, once: the form on   *)
(* the page sends an empty name with them (uploads.js:219), which makes them *)
(* a post for ValidateIncoming.                                              *)
CreateRecord(u) ==
  /\ ~records[u].there
  /\ records' = [records EXCEPT ![u].there = TRUE]
  /\ Posted

(* An update of the rows with the serial, so nothing happens without one: the*)
(* name of each file the page is given, or the empty one.                    *)
ValidateIncoming(u) ==
  /\ records[u].there
  /\ \E n \in Names \ {"null"} : records' = [records EXCEPT ![u].name = n]
  /\ Posted

(* The browser sends a file to S3, under the key of the serial: the page     *)
(* takes any number of files, and the policy holds for a day (views.py:181). *)
(* It replaces the one before it, if that is still there.                    *)
Upload(u) ==
  /\ sends[u] < MaxSends
  /\ sends' = [sends EXCEPT ![u] = @ + 1]
  /\ folders' = [folders EXCEPT ![u].upload = sends[u] + 1]
  /\ UNCHANGED <<formVars, records, videos, reports, mails, dm, stops, again, unsaid,
                 raced>>

-----------------------------------------------------------------------------
(* A daemon stops, for good until somebody starts it again: it is no failure *)
(* to its service that the loop it runs has ended.                           *)
Stop(d, reason) ==
  /\ Len(stops) < MaxStops
  /\ stops' = Append(stops, reason)
  /\ dm' = [dm EXCEPT ![d] = At("down")]

Holding(d) == d = "ingest" /\ dm[d].pc \in {"read", "update", "mail", "copy", "delete"}

Succeeding(d, u) == dm[d].pc \in {"update", "mail"} /\ dm[d].up = u /\ dm[d].out = "SUCCESS"

StopAtWork(d, reason) ==
  LET u == dm[d].up
  IN  /\ Stop(d, reason)
      /\ again' = IF Holding(d) THEN [again EXCEPT ![u] = @ + 1] ELSE again
      /\ unsaid' = IF Succeeding(d, u) THEN [unsaid EXCEPT ![u] = @ + 1] ELSE unsaid
      /\ UNCHANGED <<formVars, records, sends, folders, videos, reports, mails, raced>>

Die(d) == dm[d].pc \notin {"idle", "down"} /\ StopAtWork(d, "died")

Restart(d) ==
  /\ dm[d].pc = "down"
  /\ dm' = [dm EXCEPT ![d] = At("idle")]
  /\ UNCHANGED <<formVars, records, sends, folders, videos, reports, mails, stops, again,
                 unsaid, raced>>

(* What was read and is not used again is left out.                          *)
Goto(d, pc) ==
  dm' = [dm EXCEPT ![d] = IF pc = "idle" THEN At(pc)
                          ELSE [@ EXCEPT !.pc = pc,
                                         !.name = IF pc = "mail" THEN dm[d].name
                                                  ELSE "null"]]

(* about_video_validate: an upload without record stays where it is. The     *)
(* daemon stops at a name it cannot download to, and at Course.objects.get,  *)
(* unless there is one course of about videos.                               *)
AboutCourses == {i \in DOMAIN courses : courses[i] = AboutCode}

Discover(u) ==
  /\ dm["ingest"].pc = "idle"
  /\ folders[u].upload # 0
  /\ records[u].there
  /\ IF records[u].name = "empty" THEN Stop("ingest", "name")
     ELSE IF AboutCourses = {} THEN Stop("ingest", "none")
     ELSE IF Cardinality(AboutCourses) > 1 THEN Stop("ingest", "courses")
     ELSE /\ dm' = [dm EXCEPT !["ingest"] =
               [At("insert") EXCEPT !.up = u, !.file = folders[u].upload,
                                    !.name = records[u].name]]
          /\ UNCHANGED stops
  /\ UNCHANGED <<formVars, records, sends, folders, videos, reports, mails, again,
                 unsaid, raced>>

(* VedaIngest.insert: no Video where the download is not found under the     *)
(* name put together again, and no look for the Video of an earlier attempt. *)
(* The validation may fail.                                                  *)
Insert ==
  LET w == dm["ingest"]
  IN  /\ w.pc = "insert"
      /\ IF w.name = "odd" THEN Goto("ingest", "read") /\ UNCHANGED videos
         ELSE \E corrupt \in BOOLEAN :
                /\ videos' = Append(videos, [up |-> w.up, file |-> w.file,
                                             corrupt |-> corrupt, url |-> FALSE])
                /\ Goto("ingest", IF corrupt THEN "read" ELSE "copy")
      /\ UNCHANGED <<formVars, records, sends, folders, reports, mails, stops, again,
                     unsaid, raced>>

(* Bug: the upload is deleted before it is copied.                           *)
CopyAfterDelete ==
  /\ dm["ingest"].pc = "copy"
  /\ folders' = [folders EXCEPT ![dm["ingest"].up].upload = 0]
  /\ Goto("ingest", "delete")
  /\ UNCHANGED <<formVars, records, sends, videos, reports, mails, stops, again, unsaid,
                 raced>>

(* What lies there now is moved, whatever was downloaded.                    *)
Copy ==
  /\ dm["ingest"].pc = "copy"
  /\ LET u == dm["ingest"].up
     IN  folders' = [folders EXCEPT ![u].process = folders[u].upload]
  /\ Goto("ingest", "delete")
  /\ UNCHANGED <<formVars, records, sends, videos, reports, mails, stops, again, unsaid,
                 raced>>

(* Bug: the upload is copied, not moved.                                     *)
DeleteNever ==
  /\ dm["ingest"].pc = "delete"
  /\ Goto("ingest", "idle")
  /\ UNCHANGED <<formVars, records, sends, folders, videos, reports, mails, stops, again,
                 unsaid, raced>>

Delete ==
  /\ dm["ingest"].pc = "delete"
  /\ folders' = [folders EXCEPT ![dm["ingest"].up].upload = 0]
  /\ Goto("ingest", "idle")
  /\ UNCHANGED <<formVars, records, sends, videos, reports, mails, stops, again, unsaid,
                 raced>>

-----------------------------------------------------------------------------
(* YouTube reports on a video delivered to it: its id there, or that it has  *)
(* the video already.                                                        *)
YoutubeProcesses(i) ==
  /\ ~videos[i].corrupt
  /\ \E o \in {"Successful", "Duplicate"} : reports' = reports \cup {<<i, o>>}
  /\ reports' # reports
  /\ UNCHANGED <<formVars, records, sends, folders, videos, mails, dm, stops, again,
                 unsaid, raced>>

(* Bug: the URL row is not looked for, every crawl reports a success.        *)
UrlPatchAgain(i) ==
  /\ dm["youtube"].pc = "idle"
  /\ <<i, "Successful">> \in reports
  /\ videos' = [videos EXCEPT ![i].url = TRUE]
  /\ dm' = [dm EXCEPT !["youtube"] =
       [At("update") EXCEPT !.up = videos[i].up, !.out = "SUCCESS"]]
  /\ UNCHANGED <<formVars, records, sends, folders, reports, mails, stops, again, unsaid,
                 raced>>

(* urlpatch, as far as the uploader is told: a report is read again at every *)
(* crawl, and matters while the video has no URL row.                        *)
UrlPatch(i) ==
  /\ dm["youtube"].pc = "idle"
  /\ ~videos[i].url
  /\ \/ /\ <<i, "Successful">> \in reports
        /\ videos' = [videos EXCEPT ![i].url = TRUE]
        /\ dm' = [dm EXCEPT !["youtube"] =
             [At("update") EXCEPT !.up = videos[i].up, !.out = "SUCCESS"]]
     \/ /\ <<i, "Duplicate">> \in reports
        /\ dm' = [dm EXCEPT !["youtube"] = [At("read") EXCEPT !.up = videos[i].up]]
        /\ UNCHANGED videos
  /\ UNCHANGED <<formVars, records, sends, folders, reports, mails, stops, again, unsaid,
                 raced>>

-----------------------------------------------------------------------------
(* Report.upload_status and report_status, the same steps twice. A failure   *)
(* is reported unless there was a final report when the row was read.        *)
Done(d) == IF d = "ingest" THEN "copy" ELSE "idle"

ReportOn(d) ==
  dm' = [dm EXCEPT ![d] = [@ EXCEPT !.pc = "update", !.name = records[dm[d].up].name]]

(* Bug: every failure is reported.                                           *)
ReportReadsAlways(d) ==
  /\ dm[d].pc = "read"
  /\ ReportOn(d)
  /\ UNCHANGED <<formVars, records, sends, folders, videos, reports, mails, stops,
                 again, unsaid, raced>>

ReportReads(d) ==
  /\ dm[d].pc = "read"
  /\ IF records[dm[d].up].final THEN Goto(d, Done(d)) ELSE ReportOn(d)
  /\ UNCHANGED <<formVars, records, sends, folders, videos, reports, mails, stops,
                 again, unsaid, raced>>

Failing(d, u) == dm[d].pc = "update" /\ dm[d].up = u /\ dm[d].out = "FAILED"

(* Bug: a report of a failure is not final.                                  *)
ReportUpdatesOpen(d) ==
  LET u == dm[d].up
      good == dm[d].out = "SUCCESS"
  IN  /\ dm[d].pc = "update"
      /\ records' = [records EXCEPT ![u] =
           [@ EXCEPT !.complete = good, !.final = @ \/ good]]
      /\ Goto(d, "mail")
      /\ raced' = IF good /\ (\E e \in Daemons \ {d} : Failing(e, u))
                  THEN raced \cup {u} ELSE raced
      /\ UNCHANGED <<formVars, sends, folders, videos, reports, mails, stops, again, unsaid>>

ReportUpdates(d) ==
  LET u == dm[d].up
      good == dm[d].out = "SUCCESS"
  IN  /\ dm[d].pc = "update"
      /\ records' = [records EXCEPT ![u] =
           [@ EXCEPT !.complete = good, !.final = TRUE]]
      /\ Goto(d, "mail")
      /\ raced' = IF good /\ (\E e \in Daemons \ {d} : Failing(e, u))
                  THEN raced \cup {u} ELSE raced
      /\ UNCHANGED <<formVars, sends, folders, videos, reports, mails, stops, again, unsaid>>

(* report_status sends the mail.                                             *)
ReportMails ==
  LET w == dm["youtube"]
  IN  /\ w.pc = "mail"
      /\ mails' = [mails EXCEPT ![w.up] = Append(@, w.out)]
      /\ Goto("youtube", "idle")
      /\ UNCHANGED <<formVars, records, sends, folders, videos, reports, stops, again,
                     unsaid, raced>>

(* Report.upload_status never sends one. It stops the daemon where there is  *)
(* no name to be put into it, and in production, where the recipients are    *)
(* what list.append returns, None. Elsewhere, and without access to the mail *)
(* service, the daemon goes on.                                              *)
EmailAlertFails == dm["ingest"].pc = "mail" /\ StopAtWork("ingest", "report")

EmailAlertPasses ==
  /\ dm["ingest"].pc = "mail"
  /\ dm["ingest"].name # "null"
  /\ Goto("ingest", "copy")
  /\ UNCHANGED <<formVars, records, sends, folders, videos, reports, mails, stops, again,
                 unsaid, raced>>

Next ==
  \/ \E f \in Forms : FormNext(f) /\ UNCHANGED aboutVars
  \/ \E u \in Uploads : CreateRecord(u) \/ ValidateIncoming(u) \/ Upload(u) \/ Discover(u)
  \/ Insert \/ Copy \/ Delete
  \/ \E i \in DOMAIN videos : YoutubeProcesses(i) \/ UrlPatch(i)
  \/ \E d \in Daemons : ReportReads(d) \/ ReportUpdates(d) \/ Die(d) \/ Restart(d)
  \/ ReportMails \/ EmailAlertFails \/ EmailAlertPasses

Spec == Init /\ [][Next]_vars

-----------------------------------------------------------------------------
(* A failure is mailed before anything else or not at all, however often     *)
(* files are sent again and the reports of YouTube are read, and wherever the*)
(* daemons stop: both look at final_report first (veda_utils.py:87,          *)
(* abvid_reporting.py:43).                                                   *)
FailedFirst ==
  \A u \in Uploads : \A k \in DOMAIN mails[u] : mails[u][k] = "FAILED" => k = 1

(* A row that says the about video is complete is not set back by the report *)
(* of a failure, of another file of the upload or another report of YouTube, *)
(* unless the success was written between its look and its update            *)
(* (veda_utils.py:87-102, abvid_reporting.py:43-56).                         *)
SuccessStands ==
  [][\A u \in Uploads : records[u].complete /\ ~records'[u].complete => u \in raced]_vars

(* One mail of success for each URL row and none without: "this will only go *)
(* past once, as the URL will be added only once" (veda_utils.py:108). It is *)
(* gone for good if the daemon stops before it is sent.                      *)
Told(u) == {k \in DOMAIN mails[u] : mails[u][k] = "SUCCESS"}

SuccessOnce ==
  \A u \in Uploads :
    Cardinality({i \in RowsOf(u) : videos[i].url})
      = Cardinality(Told(u)) + unsaid[u] + Cardinality({d \in Daemons : Succeeding(d, u)})

(* An upload has more Videos than files were sent only if the ingest daemon  *)
(* stopped between a Video and the move of its key, once for each            *)
(* (veda_file_ingest.py:218).                                                *)
OneVideo == \A u \in Uploads : Cardinality(RowsOf(u)) <= sends[u] + again[u]

(* A file the daemon downloaded leaves the folder it crawls only when its    *)
(* copy is in the other one, and when a Video was made from it or a final    *)
(* report exists. One that replaced it in the meantime leaves with it        *)
(* (veda_file_discovery.py:126-127).                                         *)
Shown(u, n) == \E i \in RowsOf(u) : videos[i].file = n

NoneLost ==
  [][\A u \in Uploads :
       LET n == folders[u].upload
       IN  n # 0 /\ folders'[u].upload = 0 /\ n = dm["ingest"].file =>
             /\ folders'[u].process = n
             /\ Shown(u, n) \/ records[u].final]_vars

(* The daemon finds two courses of about videos only if two requests of the  *)
(* form looked the code up at the same time (veda_file_discovery.py:107).    *)
CourseFound ==
  \A k \in DOMAIN stops : stops[k] = "courses" => AboutCode \in overlapped

(* What they rest on: which daemon does what; no mail and no success without *)
(* final report; no failure is reported after one; what moves is in the      *)
(* folder it comes from; an upload the ingest daemon is not past the Video of*)
(* has fewer Videos than files sent and stops.                               *)
Working ==
  /\ \A d \in Daemons : dm[d].pc \notin {"idle", "down"} => dm[d].up \in Uploads
  /\ dm["ingest"].out = "FAILED"
  /\ dm["youtube"].pc \in {"idle", "read", "update", "mail", "down"}
  /\ dm["youtube"].pc = "read" => dm["youtube"].out = "FAILED"

Reporting ==
  LET y == dm["youtube"]
  IN  /\ \A u \in Uploads : records[u].complete \/ mails[u] # <<>> => records[u].final
      /\ \A d \in Daemons : dm[d].pc = "mail" => records[dm[d].up].final
      /\ \A d \in Daemons, u \in Uploads :
           Failing(d, u) /\ records[u].complete => u \in raced
      /\ y.pc \in {"update", "mail"} /\ y.out = "FAILED" => mails[y.up] = <<>>

Moving ==
  LET w == dm["ingest"]
  IN  /\ \A u \in Uploads : folders[u].upload <= sends[u]
      /\ w.pc \in {"insert", "read", "update", "mail", "copy", "delete"} =>
           folders[w.up].upload # 0 /\ w.file \in 1..sends[w.up]
      /\ w.pc = "delete" /\ folders[w.up].upload = w.file => folders[w.up].process = w.file
      /\ w.pc \in {"copy", "delete"} => Shown(w.up, w.file) \/ records[w.up].final
      /\ \A u \in Uploads : folders[u].upload # 0 /\ ~(Holding("ingest") /\ w.up = u)
                             => Cardinality(RowsOf(u)) < sends[u] + again[u]

AboutInv ==
  AboutTypeOK /\ FormInv /\ CourseFound /\ Working /\ Reporting /\ Moving
=============================================================================

----------------------------- MODULE ThreePlay -----------------------------
(* The transcript and the translations of one video at 3PlayMedia            *)
(* (control/veda_deliver_3play.py, VEDA_OS01/transcripts.py). A delivery     *)
(* submits the video and gets a file id. 3Play calls back when the transcript*)
(* of the file is done; the callback orders a translation for each other     *)
(* language. Nobody calls back for a translation: the runs of heal ask for   *)
(* them, and the one that retrieves the last announces the video.            *)
EXTENDS Naturals, Sequences

CONSTANTS
  Languages,    \* the languages of the platform, numbered as in the lists
  Source,       \* the language spoken in the video
  Preferences,  \* the sets of languages a course team may prefer
  Orders,       \* the deliveries that submit the video, and the files at 3Play
  Handlers,     \* the requests of 3Play the web server handles at a time
  Sweeps,       \* the runs of heal that retrieve translations side by side
  MaxCalls,     \* bound: calls of 3Play
  MaxSweeps     \* bound: retrievals

ASSUME ThreePlayAssumption ==
  /\ Languages \subseteq Nat
  /\ Source \in Languages
  /\ Preferences \subseteq SUBSET Languages
  /\ MaxCalls \in Nat
  /\ MaxSweeps \in Nat

VARIABLES
  preferred,     \* preferred_languages of the Video row
  vstatus,       \* its transcript_status
  rows,          \* the TranscriptProcessMetadata of the video
  orders,        \* what each delivery is doing
  accepted,      \* the files 3Play transcribes
  translations,  \* the translations 3Play was ordered to make, by their id
  handlers,      \* what each request is doing
  sweeps,        \* what each retrieval is doing
  calls,         \* how often 3Play called back
  retrievals,    \* how often heal asked
  dropped,       \* rows whose process ended between READY and its last step
  garbled,       \* rows for which an error text of 3Play was put on S3
  overlapped,    \* files with two requests at work at the same time
  orphaned       \* translations whose request died before it saved their id

store == <<preferred, vstatus, rows>>
provider == <<accepted, translations, calls>>
history == <<dropped, garbled, overlapped, orphaned>>
vars == <<preferred, vstatus, rows, orders, accepted, translations, handlers,
          sweeps, calls, retrievals, dropped, garbled, overlapped, orphaned>>

Jobs == 1..Len(rows)
Translations == 1..Len(translations)

(* file: process_id. translation: translation_id, 0 is null. onS3: whether a *)
(* transcript was uploaded for it.                                           *)
Row == [file : Orders, lang : Languages, translation : Nat, onS3 : BOOLEAN,
        status : {"PENDING", "IN PROGRESS", "FAILED", "READY"}]

OrderStep == {"none", "submit", "row", "done"}

(* row: the process at hand. todo: target_languages still to come. ordered:  *)
(* the id of the translation just ordered.                                   *)
Idle == [pc |-> "idle", row |-> 0, todo |-> {}, ordered |-> 0]
Request ==
  [pc : {"idle", "fetch", "upload", "garble", "create", "services", "order",
         "place", "mark", "announce"},
   row : Nat, todo : SUBSET Languages, ordered : Nat]

(* row: the process at hand, at first any of the file; id: its translation   *)
(* when it was read. todo: the completed translations still to come.         *)
Asleep == [pc |-> "idle", row |-> 0, id |-> 0, todo |-> {}]
Retrieval ==
  [pc : {"idle", "list", "each", "fetch", "upload", "check", "announce"},
   row : Nat, id : Nat, todo : SUBSET Nat]

TypeOK ==
  /\ preferred \in SUBSET Languages
  /\ vstatus \in {"PENDING", "IN PROGRESS", "READY"}
  /\ rows \in Seq(Row)
  /\ \A j \in Jobs : rows[j].translation \in 0..Len(translations)
  /\ orders \in [Orders -> OrderStep]
  /\ accepted \subseteq Orders
  /\ translations \in Seq([file : Orders, lang : Languages])
  /\ handlers \in [Handlers -> Request]
  /\ \A h \in Handlers :
       /\ handlers[h].pc # "idle" => handlers[h].row \in Jobs
       /\ handlers[h].ordered \in 0..Len(translations)
  /\ sweeps \in [Sweeps -> Retrieval]
  /\ \A s \in Sweeps :
       /\ sweeps[s].pc # "idle" => sweeps[s].row \in Jobs
       /\ sweeps[s].todo \subseteq Translations
       /\ sweeps[s].id \in 0..Len(translations)
  /\ calls \in 0..MaxCalls
  /\ retrievals \in 0..MaxSweeps
  /\ dropped \subseteq Jobs
  /\ garbled \subseteq Jobs
  /\ overlapped \subseteq Orders
  /\ orphaned \subseteq Translations

Init ==
  /\ preferred \in Preferences
  /\ vstatus = "PENDING"
  /\ rows = <<>>
  /\ orders = [o \in Orders |-> "none"]
  /\ accepted = {}
  /\ translations = <<>>
  /\ handlers = [h \in Handlers |-> Idle]
  /\ sweeps = [s \in Sweeps |-> Asleep]
  /\ calls = 0
  /\ retrievals = 0
  /\ dropped = {}
  /\ garbled = {}
  /\ overlapped = {}
  /\ orphaned = {}

AllReady == \A j \in Jobs : rows[j].status = "READY"

(* TranscriptProcessMetadata.update saves the whole row; of the other columns*)
(* only the translation's ever change.                                       *)
Mark(j, status) == rows' = [rows EXCEPT ![j].status = status]
MarkTranslation(j, status, id) ==
  rows' = [rows EXCEPT ![j].status = status, ![j].translation = id]

(* get_in_progress_translation_processes.                                    *)
InProgress(j) == rows[j].status = "IN PROGRESS" /\ rows[j].translation # 0

-----------------------------------------------------------------------------
(* A delivery: the video is IN PROGRESS before 3Play has it.                 *)
Start(o) ==
  /\ orders[o] = "none"
  /\ vstatus' = "IN PROGRESS"
  /\ orders' = [orders EXCEPT ![o] = "submit"]
  /\ UNCHANGED <<preferred, rows, provider, handlers, sweeps, retrievals, history>>

Submit(o) ==
  /\ orders[o] = "submit"
  /\ accepted' = accepted \cup {o}
  /\ orders' = [orders EXCEPT ![o] = "row"]
  /\ UNCHANGED <<store, translations, calls, handlers, sweeps, retrievals, history>>

(* The media URL, the languages or the answer are not as they should be, or  *)
(* an answer is lost: no row, and the video stays as it is.                  *)
SubmitFails(o) ==
  /\ orders[o] = "submit"
  /\ \/ accepted' = accepted
     \/ accepted' = accepted \cup {o}
  /\ orders' = [orders EXCEPT ![o] = "done"]
  /\ UNCHANGED <<store, translations, calls, handlers, sweeps, retrievals, history>>

SaveRow(o) ==
  /\ orders[o] = "row"
  /\ rows' = Append(rows, [file |-> o, lang |-> Source, translation |-> 0,
                           onS3 |-> FALSE, status |-> "IN PROGRESS"])
  /\ orders' = [orders EXCEPT ![o] = "done"]
  /\ UNCHANGED <<preferred, vstatus, provider, handlers, sweeps, retrievals, history>>

-----------------------------------------------------------------------------
(* ThreePlayMediaCallbackHandlerView. 3Play gets its 200 whatever happens,   *)
(* and may call again.                                                       *)
Called(h, o) ==
  /\ handlers[h].pc = "idle"
  /\ o \in accepted
  /\ calls < MaxCalls
  /\ calls' = calls + 1

SourceRow(j, o) == rows[j].file = o /\ rows[j].lang = Source

(* No row yet, or never.                                                     *)
Unknown(h, o) ==
  /\ Called(h, o)
  /\ ~\E j \in Jobs : SourceRow(j, o)
  /\ UNCHANGED <<store, orders, accepted, translations, handlers, sweeps,
                 retrievals, history>>

(* state "error", or the organization has no credentials any more.           *)
Refuse(h, o) ==
  /\ Called(h, o)
  /\ \E j \in Jobs : SourceRow(j, o) /\ Mark(j, "FAILED")
  /\ UNCHANGED <<preferred, vstatus, orders, accepted, translations, handlers,
                 sweeps, retrievals, history>>

Busy(o) == \E h \in Handlers : handlers[h].pc # "idle" /\ rows[handlers[h].row].file = o

Receive(h, o) ==
  /\ Called(h, o)
  /\ \E j \in Jobs :
       /\ SourceRow(j, o)
       /\ handlers' = [handlers EXCEPT
            ![h] = [pc |-> "fetch", row |-> j, todo |-> {}, ordered |-> 0]]
  /\ overlapped' = IF Busy(o) THEN overlapped \cup {o} ELSE overlapped
  /\ UNCHANGED <<store, orders, accepted, translations, sweeps, retrievals,
                 dropped, garbled, orphaned>>

FetchFails(h) ==
  /\ handlers[h].pc = "fetch"
  /\ Mark(handlers[h].row, "FAILED")
  /\ handlers' = [handlers EXCEPT ![h] = Idle]
  /\ UNCHANGED <<preferred, vstatus, orders, provider, sweeps, retrievals, history>>

(* An error text instead of a transcript makes the row FAILED; the callback  *)
(* goes on with it all the same.                                             *)
Validate(h) ==
  /\ handlers[h].pc = "fetch"
  /\ \/ /\ Mark(handlers[h].row, "READY")
        /\ handlers' = [handlers EXCEPT ![h].pc = "upload"]
     \/ /\ Mark(handlers[h].row, "FAILED")
        /\ handlers' = [handlers EXCEPT ![h].pc = "garble"]
  /\ UNCHANGED <<preferred, vstatus, orders, provider, sweeps, retrievals, history>>

(* The source language has to be one of the preferred: remove raises.        *)
GoOn(h) ==
  IF Source \in preferred
  THEN handlers' = [handlers EXCEPT
         ![h].pc = IF preferred = {Source} THEN "announce" ELSE "create",
         ![h].todo = preferred \ {Source}]
  ELSE handlers' = [handlers EXCEPT ![h] = Idle]

Upload(h) ==
  /\ handlers[h].pc = "upload"
  /\ rows' = [rows EXCEPT ![handlers[h].row].onS3 = TRUE]
  /\ GoOn(h)
  /\ dropped' = IF Source \in preferred THEN dropped
                ELSE dropped \cup {handlers[h].row}
  /\ UNCHANGED <<preferred, vstatus, orders, provider, sweeps, retrievals,
                 garbled, overlapped, orphaned>>

UploadError(h) ==
  /\ handlers[h].pc = "garble"
  /\ garbled' = garbled \cup {handlers[h].row}
  /\ GoOn(h)
  /\ UNCHANGED <<store, orders, provider, sweeps, retrievals, dropped,
                 overlapped, orphaned>>

(* The loops go through target_languages in the order of the list.           *)
First(l, todo) == l \in todo /\ \A k \in todo : l <= k

(* The tracking process of a target language.                                *)
CreateRow(h) ==
  /\ handlers[h].pc = "create"
  /\ \E l \in handlers[h].todo :
       /\ First(l, handlers[h].todo)
       /\ rows' = Append(rows,
            [file |-> rows[handlers[h].row].file, lang |-> l, translation |-> 0,
             onS3 |-> FALSE, status |-> "PENDING"])
       /\ handlers' = [handlers EXCEPT
            ![h].pc = IF handlers[h].todo = {l} THEN "services" ELSE "create",
            ![h].todo = IF handlers[h].todo = {l}
                        THEN preferred \ {Source} ELSE handlers[h].todo \ {l}]
  /\ UNCHANGED <<preferred, vstatus, orders, provider, sweeps, retrievals, history>>

(* The latest of the pending processes of a language.                        *)
Pending(o, j) == rows[j].file = o /\ rows[j].status = "PENDING" /\ rows[j].lang # Source

(* Bug: the first process of the language, pending or not.                   *)
FirstOfAny(o, l, j) ==
  /\ rows[j].file = o /\ rows[j].lang = l
  /\ \A i \in Jobs : rows[i].file = o /\ rows[i].lang = l => j <= i

Latest(o, l, j) ==
  /\ Pending(o, j) /\ rows[j].lang = l
  /\ \A i \in Jobs : Pending(o, i) /\ rows[i].lang = l => i <= j

GetServices(h) ==
  /\ handlers[h].pc = "services"
  /\ handlers' = [handlers EXCEPT ![h].pc = "order"]
  /\ UNCHANGED <<store, orders, provider, sweeps, retrievals, history>>

(* Every pending process of the file fails, those of other requests too.     *)
ServicesFail(h) ==
  /\ handlers[h].pc = "services"
  /\ LET o == rows[handlers[h].row].file IN
       rows' = [j \in Jobs |-> IF Pending(o, j)
                               THEN [rows[j] EXCEPT !.status = "FAILED"]
                               ELSE rows[j]]
  /\ handlers' = [handlers EXCEPT ![h] = Idle]
  /\ UNCHANGED <<preferred, vstatus, orders, provider, sweeps, retrievals, history>>

NextLanguage(h) ==
  handlers' = [handlers EXCEPT
    ![h] = IF handlers[h].todo = {} THEN Idle
           ELSE [handlers[h] EXCEPT !.pc = "order", !.ordered = 0]]

Find(h) ==
  /\ handlers[h].pc = "order"
  /\ LET o == rows[handlers[h].row].file IN
     \E l \in handlers[h].todo :
       \/ \E j \in Jobs :
            /\ First(l, handlers[h].todo)
            /\ Latest(o, l, j)
            /\ handlers' = [handlers EXCEPT ![h].pc = "place", ![h].row = j,
                              ![h].todo = handlers[h].todo \ {l}]
       \/ /\ First(l, handlers[h].todo)
          /\ ~\E j \in Jobs : Latest(o, l, j)
          /\ handlers' = [handlers EXCEPT ![h] =
               IF handlers[h].todo = {l} THEN Idle
               ELSE [handlers[h] EXCEPT !.todo = handlers[h].todo \ {l}]]
  /\ UNCHANGED <<store, orders, provider, sweeps, retrievals, history>>

Place(h) ==
  /\ handlers[h].pc = "place"
  /\ translations' = Append(translations,
       [file |-> rows[handlers[h].row].file, lang |-> rows[handlers[h].row].lang])
  /\ handlers' = [handlers EXCEPT ![h].pc = "mark",
                                  ![h].ordered = Len(translations) + 1]
  /\ UNCHANGED <<store, orders, accepted, calls, sweeps, retrievals, history>>

(* No service for the language, or 3Play refuses.                            *)
PlaceFails(h) ==
  /\ handlers[h].pc = "place"
  /\ MarkTranslation(handlers[h].row, "FAILED", 0)
  /\ NextLanguage(h)
  /\ UNCHANGED <<preferred, vstatus, orders, provider, sweeps, retrievals, history>>

MarkOrdered(h) ==
  /\ handlers[h].pc = "mark"
  /\ MarkTranslation(handlers[h].row, "IN PROGRESS", handlers[h].ordered)
  /\ NextLanguage(h)
  /\ UNCHANGED <<preferred, vstatus, orders, provider, sweeps, retrievals, history>>

(* update_video_status, when there is nothing to translate.                  *)
Announce(h) ==
  /\ handlers[h].pc = "announce"
  /\ vstatus' = "READY"
  /\ handlers' = [handlers EXCEPT ![h] = Idle]
  /\ UNCHANGED <<preferred, rows, orders, provider, sweeps, retrievals, history>>

(* Any other error: send_robust swallows it. Or the web server goes down.    *)
(* What a request leaves undone counts for a transcript, not an error text.  *)
Die(h) ==
  /\ handlers[h].pc # "idle"
  /\ handlers' = [handlers EXCEPT ![h] = Idle]
  /\ dropped' = IF \/ handlers[h].pc = "upload"
                   \/ /\ handlers[h].pc \in {"create", "announce"}
                      /\ rows[handlers[h].row].onS3
                THEN dropped \cup {handlers[h].row} ELSE dropped
  /\ orphaned' = IF handlers[h].pc = "mark"
                 THEN orphaned \cup {handlers[h].ordered} ELSE orphaned
  /\ UNCHANGED <<store, orders, provider, sweeps, retrievals, garbled,
                 overlapped>>

-----------------------------------------------------------------------------
(* retrieve_three_play_translations, as far as this video goes: it is a      *)
(* candidate, and the file of its first process is asked about.              *)
Begin(s) ==
  /\ sweeps[s].pc = "idle"
  /\ retrievals < MaxSweeps
  /\ retrievals' = retrievals + 1
  /\ vstatus = "IN PROGRESS"
  /\ \E j \in Jobs :
       /\ InProgress(j) /\ \A i \in Jobs : InProgress(i) => j <= i
       /\ sweeps' = [sweeps EXCEPT ![s] =
            [pc |-> "list", row |-> j, id |-> 0, todo |-> {}]]
  /\ UNCHANGED <<store, orders, provider, handlers, history>>

(* No credentials or no list: every process in progress now fails, of        *)
(* whichever file.                                                           *)
ListFails(s) ==
  /\ sweeps[s].pc = "list"
  /\ rows' = [j \in Jobs |-> IF InProgress(j)
                             THEN [rows[j] EXCEPT !.status = "FAILED"]
                             ELSE rows[j]]
  /\ sweeps' = [sweeps EXCEPT ![s] = Asleep]
  /\ UNCHANGED <<preferred, vstatus, orders, provider, handlers, retrievals, history>>

(* The translations of the file that are complete by now.                    *)
List(s) ==
  /\ sweeps[s].pc = "list"
  /\ \E done \in SUBSET {t \in Translations :
                           translations[t].file = rows[sweeps[s].row].file} :
       sweeps' = [sweeps EXCEPT ![s] =
         IF done = {} THEN Asleep ELSE [sweeps[s] EXCEPT !.pc = "each", !.todo = done]]
  /\ UNCHANGED <<store, orders, provider, handlers, retrievals, history>>

NextTranslation(s) ==
  sweeps' = [sweeps EXCEPT ![s] = IF sweeps[s].todo = {} THEN Asleep
                                  ELSE [sweeps[s] EXCEPT !.pc = "each", !.id = 0]]

(* get_in_progress_translation_process.                                      *)
Tracks(j, t) ==
  /\ InProgress(j)
  /\ rows[j].translation = t
  /\ rows[j].lang = translations[t].lang
  /\ rows[j].file = translations[t].file

Pick(s) ==
  /\ sweeps[s].pc = "each"
  /\ \E t \in sweeps[s].todo :
       \/ \E j \in Jobs :
            /\ Tracks(j, t)
            /\ sweeps' = [sweeps EXCEPT ![s] =
                 [pc |-> "fetch", row |-> j, id |-> t, todo |-> sweeps[s].todo \ {t}]]
       \/ /\ ~\E j \in Jobs : Tracks(j, t)
          /\ sweeps' = [sweeps EXCEPT ![s] =
               IF sweeps[s].todo = {t} THEN Asleep
               ELSE [sweeps[s] EXCEPT !.todo = sweeps[s].todo \ {t}]]
  /\ UNCHANGED <<store, orders, provider, handlers, retrievals, history>>

(* The download fails: the next run of heal tries again.                     *)
DownloadFails(s) ==
  /\ sweeps[s].pc = "fetch"
  /\ NextTranslation(s)
  /\ UNCHANGED <<store, orders, provider, handlers, retrievals, history>>

Retrieve(s) ==
  /\ sweeps[s].pc = "fetch"
  /\ MarkTranslation(sweeps[s].row, "READY", sweeps[s].id)
  /\ sweeps' = [sweeps EXCEPT ![s].pc = "upload", ![s].id = 0]
  /\ UNCHANGED <<preferred, vstatus, orders, provider, handlers, retrievals, history>>

(* An error text instead of a transcript.                                    *)
RetrieveInvalid(s) ==
  /\ sweeps[s].pc = "fetch"
  /\ MarkTranslation(sweeps[s].row, "FAILED", sweeps[s].id)
  /\ NextTranslation(s)
  /\ UNCHANGED <<preferred, vstatus, orders, provider, handlers, retrievals, history>>

(* convert_to_sjson_and_upload_to_s3 and update_val_transcript.              *)
UploadTranslation(s) ==
  /\ sweeps[s].pc = "upload"
  /\ rows' = [rows EXCEPT ![sweeps[s].row].onS3 = TRUE]
  /\ sweeps' = [sweeps EXCEPT ![s].pc = "check"]
  /\ UNCHANGED <<preferred, vstatus, orders, provider, handlers, retrievals, history>>

(* Bug: a process that failed does not count.                                *)
CheckInProgress(s) ==
  /\ sweeps[s].pc = "check"
  /\ IF \A j \in Jobs : rows[j].status \in {"READY", "FAILED"}
     THEN sweeps' = [sweeps EXCEPT ![s].pc = "announce"]
     ELSE NextTranslation(s)
  /\ UNCHANGED <<store, orders, provider, handlers, retrievals, history>>

(* Bug: only the last translation of the list looks.                         *)
CheckAtLast(s) ==
  /\ sweeps[s].pc = "check"
  /\ IF AllReady /\ sweeps[s].todo = {}
     THEN sweeps' = [sweeps EXCEPT ![s].pc = "announce"]
     ELSE NextTranslation(s)
  /\ UNCHANGED <<store, orders, provider, handlers, retrievals, history>>

(* Every process of the video, of whatever file.                             *)
Check(s) ==
  /\ sweeps[s].pc = "check"
  /\ IF AllReady
     THEN sweeps' = [sweeps EXCEPT ![s].pc = "announce"]
     ELSE NextTranslation(s)
  /\ UNCHANGED <<store, orders, provider, handlers, retrievals, history>>

AnnounceTranslations(s) ==
  /\ sweeps[s].pc = "announce"
  /\ vstatus' = "READY"
  /\ NextTranslation(s)
  /\ UNCHANGED <<preferred, rows, orders, provider, handlers, retrievals, history>>

(* An error of the upload, or any other, ends the run of heal.               *)
Abort(s) ==
  /\ sweeps[s].pc # "idle"
  /\ sweeps' = [sweeps EXCEPT ![s] = Asleep]
  /\ dropped' = IF sweeps[s].pc \in {"upload", "check", "announce"}
                THEN dropped \cup {sweeps[s].row} ELSE dropped
  /\ UNCHANGED <<store, orders, provider, handlers, retrievals, garbled,
                 overlapped, orphaned>>

-----------------------------------------------------------------------------
OrderNext(o) == Start(o) \/ Submit(o) \/ SubmitFails(o) \/ SaveRow(o)

CallNext(h, o) == Unknown(h, o) \/ Refuse(h, o) \/ Receive(h, o)

HandlerNext(h) ==
  \/ FetchFails(h) \/ Validate(h) \/ Upload(h) \/ UploadError(h)
  \/ CreateRow(h) \/ GetServices(h) \/ ServicesFail(h) \/ Find(h) \/ Place(h) \/ PlaceFails(h)
  \/ MarkOrdered(h) \/ Announce(h) \/ Die(h)

SweepNext(s) ==
  \/ Begin(s) \/ ListFails(s) \/ List(s) \/ Pick(s) \/ DownloadFails(s)
  \/ Retrieve(s) \/ RetrieveInvalid(s) \/ UploadTranslation(s) \/ Check(s)
  \/ AnnounceTranslations(s) \/ Abort(s)

Next ==
  \/ \E o \in Orders : OrderNext(o)
  \/ \E h \in Handlers, o \in Orders : CallNext(h, o)
  \/ \E h \in Handlers : HandlerNext(h)
  \/ \E s \in Sweeps : SweepNext(s)

Spec == Init /\ [][Next]_vars

-----------------------------------------------------------------------------
(* Somebody holds the row and has not done with it what READY stands for.    *)
Uploading(j) ==
  \/ \E h \in Handlers : handlers[h].pc = "upload" /\ handlers[h].row = j
  \/ \E s \in Sweeps : sweeps[s].pc = "upload" /\ sweeps[s].row = j

(* A READY video has a transcript on S3 in every language the course team    *)
(* prefers, although rows are READY before anything is uploaded, translations*)
(* are retrieved by several runs of heal, the processes are created one by   *)
(* one, and requests repeat: unless a row is just being uploaded, or its     *)
(* process ended in between. An error text does not count as a transcript;   *)
(* but where nothing is to be translated a request that got one announces    *)
(* the video with it.                                                        *)
Covered(l) ==
  \E j \in Jobs : rows[j].lang = l /\ (rows[j].onS3 \/ Uploading(j) \/ j \in dropped)

AllCovered == \A l \in preferred : Covered(l)
OnlyAnError == preferred = {Source} /\ garbled # {}

ReadyHasLanguages == vstatus = "READY" => AllCovered \/ OnlyAnError

(* Of retrievals that finish side by side the last to look announces: when   *)
(* every process is READY and nobody is at work, the video is READY, unless  *)
(* a process ended between READY and its last step, or a delivery that has no*)
(* row said IN PROGRESS.                                                     *)
AtWork ==
  \/ \E h \in Handlers : handlers[h].pc \in {"upload", "create", "announce"}
  \/ \E s \in Sweeps : sweeps[s].pc \in {"upload", "check", "announce"}
Rowless(o) == orders[o] # "none" /\ ~\E j \in Jobs : rows[j].file = o

LastRetrievalAnnounces ==
  rows # <<>> /\ AllReady /\ vstatus # "READY"
    => AtWork \/ dropped # {} \/ \E o \in Orders : Rowless(o)

(* No translation the organization pays for is lost sight of: a process      *)
(* carries its id, unless the request died on the way or two requests were at*)
(* work on the file at the same time. Requests that repeat one after the     *)
(* other order again, and lose nothing.                                      *)
Tracked(t) == \E j \in Jobs : rows[j].translation = t

OrdersTracked ==
  \A t \in Translations :
    \/ Tracked(t)
    \/ t \in orphaned
    \/ translations[t].file \in overlapped
    \/ \E h \in Handlers : handlers[h].pc = "mark" /\ handlers[h].ordered = t

(* What the three rest on. There is a row of each preferred language before  *)
(* the first translation is ordered, and a READY row is on S3 or on the way. *)
RowsMade(todo) == \A l \in preferred \ todo : \E j \in Jobs : rows[j].lang = l

CreatedFirst ==
  /\ \A j \in Jobs : rows[j].translation # 0 => RowsMade({})
  /\ \A h \in Handlers :
       /\ handlers[h].pc = "create" => RowsMade(handlers[h].todo)
       /\ handlers[h].pc \in {"services", "order", "place", "mark"} => RowsMade({})
  /\ \A s \in Sweeps : sweeps[s].pc # "idle" => RowsMade({})

CoveredFirst ==
  /\ \A j \in Jobs :
       rows[j].status = "READY" => rows[j].onS3 \/ Uploading(j) \/ j \in dropped
  /\ \A h \in Handlers :
       /\ handlers[h].pc \in {"fetch", "upload", "garble"} =>
            rows[handlers[h].row].lang = Source
       /\ handlers[h].pc = "announce" => AllCovered \/ OnlyAnError
  /\ \A s \in Sweeps : sweeps[s].pc = "announce" => AllCovered

RowsAfterOrders == \A j \in Jobs : orders[rows[j].file] = "done"

(* A row gets a second id only from a second request at work on its file.    *)
IdsKept ==
  /\ \A j \in Jobs :
       /\ rows[j].status = "PENDING" => rows[j].translation = 0
       /\ rows[j].translation # 0 =>
            translations[rows[j].translation].file = rows[j].file
  /\ \A h \in Handlers : handlers[h].pc = "mark" =>
       /\ handlers[h].ordered \in Translations
       /\ translations[handlers[h].ordered].file = rows[handlers[h].row].file
  /\ \A h \in Handlers : handlers[h].pc \in {"place", "mark"} =>
       \/ rows[handlers[h].row].translation = 0
       \/ rows[handlers[h].row].file \in overlapped
  /\ \A g, h \in Handlers :
       /\ g # h
       /\ handlers[g].pc # "idle"
       /\ handlers[h].pc # "idle"
       /\ rows[handlers[g].row].file = rows[handlers[h].row].file
       => rows[handlers[h].row].file \in overlapped
  /\ \A s \in Sweeps : sweeps[s].pc = "fetch" =>
       /\ sweeps[s].id \in Translations
       /\ translations[sweeps[s].id].file = rows[sweeps[s].row].file
       /\ \/ rows[sweeps[s].row].translation = sweeps[s].id
          \/ rows[sweeps[s].row].file \in overlapped

(* A file has a row only after 3Play has it, and the translation at hand is  *)
(* in the language of its row. Who goes on after an upload has one on S3.    *)
OrderedFirst ==
  /\ \A o \in Orders : orders[o] = "row" => o \in accepted
  /\ \A j \in Jobs : rows[j].file \in accepted
  /\ \A s \in Sweeps : sweeps[s].pc = "fetch" =>
       rows[sweeps[s].row].lang = translations[sweeps[s].id].lang

ShippedFirst ==
  /\ \A h \in Handlers :
       handlers[h].pc = "announce" => rows[handlers[h].row].onS3 \/ OnlyAnError
  /\ \A s \in Sweeps :
       sweeps[s].pc \in {"check", "announce"} => rows[sweeps[s].row].onS3

(* The inductive invariant.                                                  *)
ThreePlayInv ==
  /\ TypeOK
  /\ CreatedFirst
  /\ CoveredFirst
  /\ RowsAfterOrders
  /\ IdsKept
  /\ ReadyHasLanguages
  /\ LastRetrievalAnnounces
  /\ OrdersTracked
  /\ OrderedFirst
  /\ ShippedFirst

-----------------------------------------------------------------------------
(* What 3Play was told to make: the transcripts of its files, and the        *)
(* translations.                                                             *)
OrderedLanguages ==
  {l \in {Source} : accepted # {}} \cup {translations[t].lang : t \in Translations}
ReceivedLanguages == {l \in Languages : Covered(l)}
ShippedLanguages == {rows[j].lang : j \in {i \in Jobs : rows[i].onS3}}
Announced == vstatus = "READY" /\ ~OnlyAnError

(* ThreePlay keeps the promise of TranscriptPromise although a request and   *)
(* several runs of heal work on the languages: none is received that was not *)
(* ordered, one received or on S3 stays so, whatever becomes of its row, and *)
(* the video is announced with one on S3 and every preferred one received. An*)
(* error text is no transcript; a video with nothing to translate for which  *)
(* one was put on S3 is not ready (OnlyAnError): it may be all it has.       *)
Promise == INSTANCE TranscriptPromise WITH
  wanted <- preferred,
  ordered <- OrderedLanguages,
  received <- ReceivedLanguages,
  shipped <- ShippedLanguages,
  ready <- Announced

ThreePlayKeepsPromise == Promise!PromiseSpec
=============================================================================

------------------------------ MODULE Cielo24 ------------------------------
(* The transcripts of one video at Cielo24 (control/veda_deliver_cielo.py,   *)
(* cielo24_transcript_callback in VEDA_OS01/transcripts.py). A delivery that *)
(* finds the encodes done orders a job for each language; Cielo24 calls back *)
(* for each job, in any order and perhaps again, and the callback that finds *)
(* every job ready says so in the Video row. Orders and callbacks run side by*)
(* side in different processes, and each of their writes is of one row.      *)
EXTENDS Naturals, Sequences

CONSTANTS
  LastLanguage,  \* the preferred languages are 1..LastLanguage, in order
  Orders,        \* the deliveries that start a transcription of the video
  Handlers,      \* the requests of Cielo24 the web server handles at a time
  MaxCalls       \* bound: calls of Cielo24

ASSUME Cielo24Assumption == LastLanguage \in Nat \ {0} /\ MaxCalls \in Nat

VARIABLES
  rows,      \* the TranscriptProcessMetadata of the video, by process_id
  vstatus,   \* the transcript_status of its Video row
  orders,    \* what each order is doing
  accepted,  \* the jobs Cielo24 was told to perform
  calls,     \* how often Cielo24 called back
  handlers,  \* what each request is doing
  dropped    \* the jobs with a request that ended between READY and the check

vars == <<rows, vstatus, orders, accepted, calls, handlers, dropped>>

Languages == 1..LastLanguage
Jobs == 1..Len(rows)

(* uploaded: the transcript is on S3.                                        *)
Row == [lang : Languages, status : {"IN PROGRESS", "FAILED", "READY"},
        uploaded : BOOLEAN]

(* job: job_id, and with it transcript_process_metadata, of the last language*)
(* that got one; 0 is None.                                                  *)
Order == [pc : {"none", "create", "place", "done"}, lang : Languages, job : Nat]

Idle == [pc |-> "idle", job |-> 0]
Request == [pc : {"idle", "fetch", "upload", "check", "announce"}, job : Nat]

TypeOK ==
  /\ rows \in Seq(Row)
  /\ vstatus \in {"PENDING", "IN PROGRESS", "READY"}
  /\ orders \in [Orders -> Order]
  /\ \A o \in Orders :
       /\ orders[o].job \in 0..Len(rows)
       /\ orders[o].pc = "place" => orders[o].job \in Jobs
  /\ accepted \subseteq Jobs
  /\ calls \in 0..MaxCalls
  /\ handlers \in [Handlers -> Request]
  /\ \A h \in Handlers : handlers[h].pc # "idle" => handlers[h].job \in Jobs
  /\ dropped \subseteq Jobs

Init ==
  /\ rows = <<>>
  /\ vstatus = "PENDING"
  /\ orders = [o \in Orders |-> [pc |-> "none", lang |-> 1, job |-> 0]]
  /\ accepted = {}
  /\ calls = 0
  /\ handlers = [h \in Handlers |-> Idle]
  /\ dropped = {}

AllReady == \A j \in Jobs : rows[j].status = "READY"

Mark(j, status) == rows' = [rows EXCEPT ![j].status = status]

-----------------------------------------------------------------------------
(* cielo24_transcription_flow: the video is IN PROGRESS before any job is.   *)
Start(o) ==
  /\ orders[o].pc = "none"
  /\ vstatus' = "IN PROGRESS"
  /\ orders' = [orders EXCEPT ![o].pc = "create"]
  /\ UNCHANGED <<rows, accepted, calls, handlers, dropped>>

NextLanguage(o) ==
  orders' = [orders EXCEPT
    ![o] = [pc |-> IF orders[o].lang = LastLanguage THEN "done" ELSE "create",
            lang |-> IF orders[o].lang = LastLanguage
                     THEN LastLanguage ELSE orders[o].lang + 1,
            job |-> orders[o].job]]

CreateJob(o) ==
  /\ orders[o].pc = "create"
  /\ rows' = Append(rows, [lang |-> orders[o].lang, status |-> "IN PROGRESS",
                           uploaded |-> FALSE])
  /\ orders' = [orders EXCEPT ![o].pc = "place", ![o].job = Len(rows) + 1]
  /\ UNCHANGED <<vstatus, accepted, calls, handlers, dropped>>

(* The job_id in the handler of the error is still that of the language      *)
(* before: it is that one's row, ready or not, which becomes FAILED.         *)
CreateFails(o) ==
  /\ orders[o].pc = "create"
  /\ IF orders[o].job # 0 THEN Mark(orders[o].job, "FAILED") ELSE UNCHANGED rows
  /\ NextLanguage(o)
  /\ UNCHANGED <<vstatus, accepted, calls, handlers, dropped>>

(* embed_media_url and perform_transcript.                                   *)
Place(o) ==
  /\ orders[o].pc = "place"
  /\ accepted' = accepted \cup {orders[o].job}
  /\ NextLanguage(o)
  /\ UNCHANGED <<rows, vstatus, calls, handlers, dropped>>

PlaceFails(o) ==
  /\ orders[o].pc = "place"
  /\ Mark(orders[o].job, "FAILED")
  /\ NextLanguage(o)
  /\ UNCHANGED <<vstatus, accepted, calls, handlers, dropped>>

(* Any error but Cielo24Error, a lost answer among them, ends the delivery.  *)
Abort(o) ==
  /\ orders[o].pc \in {"create", "place"}
  /\ orders' = [orders EXCEPT ![o].pc = "done"]
  /\ \/ UNCHANGED accepted
     \/ /\ orders[o].pc = "place"
        /\ accepted' = accepted \cup {orders[o].job}
  /\ UNCHANGED <<rows, vstatus, calls, handlers, dropped>>

-----------------------------------------------------------------------------
(* Cielo24CallbackHandlerView, for a job that Cielo24 worked off; it may call*)
(* again for a job, whatever came of the call before.                        *)
Called(h, j) ==
  /\ handlers[h].pc = "idle"
  /\ j \in accepted
  /\ calls < MaxCalls
  /\ calls' = calls + 1

Receive(h, j) ==
  /\ Called(h, j)
  /\ handlers' = [handlers EXCEPT ![h] = [pc |-> "fetch", job |-> j]]
  /\ UNCHANGED <<rows, vstatus, orders, accepted, dropped>>

(* The organization has no credentials any more.                             *)
Refuse(h, j) ==
  /\ Called(h, j)
  /\ Mark(j, "FAILED")
  /\ UNCHANGED <<vstatus, orders, accepted, handlers, dropped>>

FetchFails(h) ==
  /\ handlers[h].pc = "fetch"
  /\ Mark(handlers[h].job, "FAILED")
  /\ handlers' = [handlers EXCEPT ![h] = Idle]
  /\ UNCHANGED <<vstatus, orders, accepted, calls, dropped>>

(* The row is READY before the transcript is converted and uploaded.         *)
MarkReady(h) ==
  /\ handlers[h].pc = "fetch"
  /\ Mark(handlers[h].job, "READY")
  /\ handlers' = [handlers EXCEPT ![h].pc = "upload"]
  /\ UNCHANGED <<vstatus, orders, accepted, calls, dropped>>

(* Bug: the callback goes on to the check.                                   *)
UploadFailsUnseen(h) ==
  /\ handlers[h].pc = "upload"
  /\ handlers' = [handlers EXCEPT ![h].pc = "check"]
  /\ UNCHANGED <<rows, vstatus, orders, accepted, calls, dropped>>

(* The signal is sent robustly: the error is swallowed, Cielo24 gets its 200.*)
UploadFails(h) ==
  /\ handlers[h].pc = "upload"
  /\ handlers' = [handlers EXCEPT ![h] = Idle]
  /\ dropped' = dropped \cup {handlers[h].job}
  /\ UNCHANGED <<rows, vstatus, orders, accepted, calls>>

(* upload_sjson_to_s3 and update_val_transcript; a refusal is only logged.   *)
Upload(h) ==
  /\ handlers[h].pc = "upload"
  /\ rows' = [rows EXCEPT ![handlers[h].job].uploaded = TRUE]
  /\ handlers' = [handlers EXCEPT ![h].pc = "check"]
  /\ UNCHANGED <<vstatus, orders, accepted, calls, dropped>>

(* Bug: a job for each preferred language is expected.                       *)
CheckLanguages(h) ==
  /\ handlers[h].pc = "check"
  /\ handlers' = [handlers EXCEPT ![h] =
       IF AllReady /\ \A l \in Languages : \E j \in Jobs : rows[j].lang = l
       THEN [pc |-> "announce", job |-> handlers[h].job] ELSE Idle]
  /\ UNCHANGED <<rows, vstatus, orders, accepted, calls, dropped>>

(* All jobs of the video that there are.                                     *)
Check(h) ==
  /\ handlers[h].pc = "check"
  /\ handlers' = [handlers EXCEPT ![h] =
       IF AllReady
       THEN [pc |-> "announce", job |-> handlers[h].job] ELSE Idle]
  /\ UNCHANGED <<rows, vstatus, orders, accepted, calls, dropped>>

(* update_video_status tells edx-val and saves the video.                    *)
Announce(h) ==
  /\ handlers[h].pc = "announce"
  /\ vstatus' = "READY"
  /\ handlers' = [handlers EXCEPT ![h] = Idle]
  /\ UNCHANGED <<rows, orders, accepted, calls, dropped>>

(* The web server goes down, or the database refuses.                        *)
Die(h) ==
  /\ handlers[h].pc # "idle"
  /\ handlers' = [handlers EXCEPT ![h] = Idle]
  /\ dropped' = IF handlers[h].pc = "fetch" THEN dropped
                ELSE dropped \cup {handlers[h].job}
  /\ UNCHANGED <<rows, vstatus, orders, accepted, calls>>

OrderNext(o) ==
  \/ Start(o) \/ CreateJob(o) \/ CreateFails(o) \/ Place(o) \/ PlaceFails(o)
  \/ Abort(o)

HandlerNext(h) ==
  \/ \E j \in Jobs : Receive(h, j)
  \/ \E j \in Jobs : Refuse(h, j)
  \/ FetchFails(h) \/ MarkReady(h) \/ UploadFails(h) \/ Upload(h)
  \/ Check(h) \/ Announce(h) \/ Die(h)

Next == (\E o \in Orders : OrderNext(o)) \/ (\E h \in Handlers : HandlerNext(h))

Spec == Init /\ [][Next]_vars

-----------------------------------------------------------------------------
(* Of callbacks that finish side by side the last to look announces: once    *)
(* every job is READY and no callback is at work, the video is READY, unless *)
(* a callback ended between its READY and its look, or an order that has not *)
(* got a job for any language said IN PROGRESS last.                         *)
AtWork == \E h \in Handlers : handlers[h].pc \in {"upload", "check", "announce"}
Jobless == \E o \in Orders : orders[o].pc # "none" /\ orders[o].job = 0

LastCallbackAnnounces ==
  rows # <<>> /\ AllReady /\ vstatus # "READY"
    => AtWork \/ dropped # {} \/ Jobless

(* A video is only READY when at least one of its transcripts is on S3,      *)
(* although rows are READY before anything is uploaded and stay so when the  *)
(* upload fails.                                                             *)
ReadyHasTranscript ==
  vstatus = "READY" => \E j \in Jobs : rows[j].uploaded

(* A callback that looks at the rows has uploaded its own transcript.        *)
UploadedFirst ==
  \A h \in Handlers : handlers[h].pc \in {"check", "announce"} =>
    rows[handlers[h].job].uploaded

(* A callback is only ever about a job Cielo24 was told to perform.          *)
AcceptedFirst ==
  \A h \in Handlers : handlers[h].pc # "idle" => handlers[h].job \in accepted

(* The inductive invariant.                                                  *)
CieloInv ==
  /\ TypeOK
  /\ \A o \in Orders : orders[o].pc = "none" => orders[o].job = 0
  /\ LastCallbackAnnounces
  /\ ReadyHasTranscript
  /\ UploadedFirst
  /\ AcceptedFirst

-----------------------------------------------------------------------------
(* A transcript that was fetched is on S3, on its way, or was dropped there. *)
Received(j) ==
  \/ rows[j].uploaded
  \/ j \in dropped
  \/ \E h \in Handlers : handlers[h].pc = "upload" /\ handlers[h].job = j

LanguagesOf(S) == {rows[j].lang : j \in S}
OrderedLanguages == LanguagesOf(accepted)
ReceivedLanguages == LanguagesOf({j \in Jobs : Received(j)})
ShippedLanguages == LanguagesOf({j \in Jobs : rows[j].uploaded})

(* Cielo24 keeps the promise of TranscriptPromise, whatever rows are marked  *)
(* FAILED again and callbacks repeated: no transcript is received that was   *)
(* not ordered, one received or on S3 stays so, and the video is announced   *)
(* with one of them on S3. Which languages are wanted is no part of it: the  *)
(* callback only looks at the jobs there are.                                *)
Promise == INSTANCE TranscriptPromise WITH
  wanted <- {},
  ordered <- OrderedLanguages,
  received <- ReceivedLanguages,
  shipped <- ShippedLanguages,
  ready <- vstatus = "READY"

CieloKeepsPromise == Promise!PromiseSpec
=============================================================================

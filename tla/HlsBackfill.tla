---------------------------- MODULE HlsBackfill ----------------------------
(* The command re_encode_videos_missing_hls beside the deliveries it causes, *)
(* the other calls of edx-val and the other writers of a Video row. A run    *)
(* asks edx-val for videos without HLS, sends edx-val what the database has, *)
(* and has the others encoded, with their transcription switched off.        *)
EXTENDS ValClient

CONSTANTS
  Runs,       \* the runs of the command side by side
  Writers,    \* processes that save a Video row whole
  BatchSize,  \* batch_size
  Hls,        \* the profile
  MaxRuns,    \* bound: runs
  MaxWrites   \* bound: rows saved by others

ASSUME BackfillAssumption ==
  /\ BatchSize \in Nat
  /\ Hls \in Encodes
  /\ MaxRuns \in Nat
  /\ MaxWrites \in Nat

VARIABLES
  transcribe,  \* process_transcription of the Video rows
  offset,      \* of the latest configuration row
  queue,       \* how often the HLS of a video waits in the low queue
  runs,        \* what each run is doing
  begun,       \* runs so far
  snap,        \* process_transcription as each delivery read it
  writers,     \* the object each writer holds
  writes,      \* writes so far
  byHand,      \* videos enqueued with --veda_id
  ordered,     \* videos whose HLS delivery ordered a transcription
  switched     \* videos whose transcription was switched on again

fillVars == <<offset, queue, runs, begun>>
rowVars == <<transcribe, snap, writers, writes, byHand, ordered, switched>>
vars == <<valVars, fillVars, rowVars>>

(* todo: veda_video_ids. found: videos_with_hls_encodes.                     *)
Run ==
  [pc : {"idle", "ask", "look", "each", "check", "restore", "switch",
         "enqueue", "advance"},
   video : Videos, todo : SUBSET Videos, found : SUBSET Videos,
   offset : Nat]

Writer == [busy : BOOLEAN, video : Videos, read : BOOLEAN]

TypeOK ==
  /\ ValTypeOK
  /\ transcribe \in [Videos -> BOOLEAN]
  /\ offset \in Nat
  /\ queue \in [Videos -> Nat]
  /\ runs \in [Runs -> Run]
  /\ begun \in 0..MaxRuns
  /\ snap \in [Callers -> BOOLEAN]
  /\ writers \in [Writers -> Writer]
  /\ writes \in 0..MaxWrites
  /\ byHand \subseteq Videos
  /\ ordered \subseteq Videos
  /\ switched \subseteq Videos

Init ==
  /\ ValInit
  /\ transcribe \in [Videos -> BOOLEAN]
  /\ offset = 0
  /\ queue = [v \in Videos |-> 0]
  /\ \E v \in Videos :
       /\ \A w \in Videos : v <= w
       /\ runs = [r \in Runs |-> [pc |-> "idle", video |-> v, todo |-> {},
                                  found |-> {}, offset |-> 0]]
       /\ writers = [w \in Writers |-> [busy |-> FALSE, video |-> v, read |-> FALSE]]
  /\ begun = 0
  /\ snap = [c \in Callers |-> FALSE]
  /\ writes = 0
  /\ byHand = {}
  /\ ordered = {}
  /\ switched = {}

-----------------------------------------------------------------------------
(* edx-val: the videos without HLS, and their position.                      *)
MissingHls == {v \in Videos : val[v].known /\ Hls \notin val[v].encodes}
Position(v) == Cardinality({w \in MissingHls : w < v})

Begin(r) ==
  /\ runs[r].pc = "idle"
  /\ begun < MaxRuns
  /\ begun' = begun + 1
  /\ runs' = [runs EXCEPT ![r].pc = "ask", ![r].offset = offset]
  /\ UNCHANGED <<valVars, offset, queue, rowVars>>

(* No token, no answer: the configuration stays as it is.                    *)
AskFails(r) ==
  /\ runs[r].pc \in {"ask", "look"}
  /\ runs' = [runs EXCEPT ![r].pc = "idle"]
  /\ UNCHANGED <<valVars, offset, queue, begun, rowVars>>

(* all: all_videos of the configuration, an operator's choice; else its      *)
(* course_ids are asked for, which know no offset.                           *)
Ask(r, all) ==
  /\ runs[r].pc = "ask"
  /\ runs' = [runs EXCEPT ![r].pc = "look", ![r].todo =
       IF all
       THEN {v \in MissingHls : Position(v) \in
               runs[r].offset .. (runs[r].offset + BatchSize) - 1}
       ELSE MissingHls]
  /\ UNCHANGED <<valVars, offset, queue, begun, rowVars>>

(* The videos with a URL row for HLS, evaluated once. A dry run ends here.   *)
Look(r) ==
  /\ runs[r].pc = "look"
  /\ runs' = [runs EXCEPT ![r].pc = "each",
                          ![r].found = {v \in runs[r].todo : Has(v, Hls)}]
  /\ UNCHANGED <<valVars, offset, queue, begun, rowVars>>

Load(r) ==
  /\ runs[r].pc = "each"
  /\ \E v \in runs[r].todo :
       runs' = [runs EXCEPT
         ![r].pc = IF v \in runs[r].found THEN "check" ELSE "switch",
         ![r].video = v, ![r].todo = runs[r].todo \ {v}]
  /\ UNCHANGED <<valVars, offset, queue, begun, rowVars>>

(* _validate_video_encode of the latest row for HLS.                         *)
Sound(v) ==
  \E i \in 1..Len(urls[v]) :
    /\ urls[v][i].encode = Hls /\ urls[v][i].sound
    /\ \A k \in 1..Len(urls[v]) : urls[v][k].encode = Hls => k <= i

(* Bug: a row that is not sound is encoded again as it is.                   *)
CheckEnqueues(r) ==
  /\ runs[r].pc = "check"
  /\ runs' = [runs EXCEPT
       ![r].pc = IF Sound(runs[r].video) THEN "restore" ELSE "enqueue"]
  /\ UNCHANGED <<valVars, offset, queue, begun, rowVars>>

Check(r) ==
  /\ runs[r].pc = "check"
  /\ runs' = [runs EXCEPT
       ![r].pc = IF Sound(runs[r].video) THEN "restore" ELSE "switch"]
  /\ UNCHANGED <<valVars, offset, queue, begun, rowVars>>

(* update_hls_profile_in_val: edx-val adds the profile to what it has.       *)
Restore(r) ==
  /\ runs[r].pc = "restore"
  /\ LET v == runs[r].video IN Write(v, val[v].encodes \cup {Hls})
  /\ runs' = [runs EXCEPT ![r].pc = "each"]
  /\ UNCHANGED <<urls, callers, calls, raced, offset, queue, begun, rowVars>>

(* Only logged.                                                              *)
RestoreFails(r) ==
  /\ runs[r].pc = "restore"
  /\ runs' = [runs EXCEPT ![r].pc = "each"]
  /\ UNCHANGED <<valVars, offset, queue, begun, rowVars>>

(* The row of the Video object, with its flag off.                           *)
SwitchOff(r) ==
  /\ runs[r].pc = "switch"
  /\ transcribe' = [transcribe EXCEPT ![runs[r].video] = FALSE]
  /\ runs' = [runs EXCEPT ![r].pc = "enqueue"]
  /\ UNCHANGED <<valVars, offset, queue, begun, snap, writers, writes,
                 byHand, ordered, switched>>

Enqueue(r) ==
  /\ runs[r].pc = "enqueue"
  /\ queue' = [queue EXCEPT ![runs[r].video] = @ + 1]
  /\ runs' = [runs EXCEPT ![r].pc = "each"]
  /\ UNCHANGED <<valVars, offset, begun, rowVars>>

(* increment_run saves the configuration object the run began with.          *)
IncrementRun(r) ==
  /\ runs[r].pc = "each"
  /\ runs[r].todo = {}
  /\ offset' = runs[r].offset
  /\ runs' = [runs EXCEPT ![r].pc = "advance", ![r].found = {}]
  /\ UNCHANGED <<valVars, queue, begun, rowVars>>

UpdateOffset(r) ==
  /\ runs[r].pc = "advance"
  /\ offset' = runs[r].offset + BatchSize
  /\ runs' = [runs EXCEPT ![r].pc = "idle"]
  /\ UNCHANGED <<valVars, queue, begun, rowVars>>

RunNext(r) ==
  \/ Begin(r) \/ AskFails(r) \/ Look(r) \/ Load(r) \/ Check(r)
  \/ Restore(r) \/ RestoreFails(r) \/ SwitchOff(r) \/ Enqueue(r)
  \/ IncrementRun(r) \/ UpdateOffset(r)
  \/ \E all \in BOOLEAN : Ask(r, all)

(* The option --veda_id: the encode alone.                                   *)
EnqueueOne(v) ==
  /\ begun < MaxRuns
  /\ begun' = begun + 1
  /\ queue' = [queue EXCEPT ![v] = @ + 1]
  /\ byHand' = byHand \cup {v}
  /\ UNCHANGED <<valVars, offset, runs, transcribe, snap, writers,
                 writes, ordered, switched>>

-----------------------------------------------------------------------------
(* The encode worker, another program, gives up.                             *)
EncodeFails(v) ==
  /\ queue[v] > 0
  /\ queue' = [queue EXCEPT ![v] = @ - 1]
  /\ UNCHANGED <<valVars, offset, runs, begun, rowVars>>

(* hls_run: the delivery of an encode of the low queue.                      *)
TakeHls(c, v) ==
  /\ queue[v] > 0
  /\ queue' = [queue EXCEPT ![v] = @ - 1]
  /\ Take(c, v, Hls)
  /\ snap' = [snap EXCEPT ![c] = transcribe[v]]
  /\ UNCHANGED <<calls, offset, runs, begun, transcribe, writers,
                 writes, byHand, ordered, switched>>

(* Another delivery, or a report of heal.                                    *)
TakeOther(c, v, e) ==
  /\ calls < MaxCalls
  /\ calls' = calls + 1
  /\ e # Hls
  /\ Take(c, v, e)
  /\ snap' = [snap EXCEPT ![c] = transcribe[v]]
  /\ UNCHANGED <<fillVars, transcribe, writers, writes, byHand, ordered, switched>>

ReportStatus(c, v) ==
  /\ calls < MaxCalls
  /\ calls' = calls + 1
  /\ Report(c, v)
  /\ UNCHANGED <<fillVars, rowVars>>

Calling(c) == CallNext(c) /\ UNCHANGED <<fillVars, rowVars>>

(* is_video_ready.                                                           *)
Ready(v) == \A e \in Encodes : Has(v, e)

(* start_transcription: the Video object read at the beginning is saved.     *)
StartTranscription(c) ==
  /\ callers[c].pc = "done"
  /\ callers[c].encode # None
  /\ LET v == callers[c].video IN
       /\ Ready(v)
       /\ snap[c]
       /\ transcribe' = [transcribe EXCEPT ![v] = TRUE]
       /\ switched' = IF transcribe[v] THEN switched ELSE switched \cup {v}
       /\ ordered' = IF callers[c].encode = Hls THEN ordered \cup {v} ELSE ordered
  /\ callers' = [callers EXCEPT ![c].pc = "idle"]
  /\ UNCHANGED <<urls, val, calls, reported, unreported, raced, fillVars, snap,
                 writers, writes, byHand>>

Return(c) ==
  /\ callers[c].pc = "done"
  /\ callers[c].encode = None \/ ~Ready(callers[c].video) \/ ~snap[c]
  /\ callers' = [callers EXCEPT ![c].pc = "idle"]
  /\ UNCHANGED <<urls, val, calls, reported, unreported, raced, fillVars, rowVars>>

-----------------------------------------------------------------------------
(* update_video_status of a callback, or VideoSerializer.update: the whole   *)
(* row, as it was when it was read.                                          *)
LoadRow(w, v) ==
  /\ ~writers[w].busy
  /\ writes < MaxWrites
  /\ writes' = writes + 1
  /\ writers' = [writers EXCEPT
       ![w] = [busy |-> TRUE, video |-> v, read |-> transcribe[v]]]
  /\ UNCHANGED <<valVars, fillVars, transcribe, snap, byHand, ordered, switched>>

SaveRow(w) ==
  /\ writers[w].busy
  /\ LET v == writers[w].video IN
       /\ transcribe' = [transcribe EXCEPT ![v] = writers[w].read]
       /\ switched' = IF writers[w].read /\ ~transcribe[v]
                      THEN switched \cup {v} ELSE switched
  /\ writers' = [writers EXCEPT ![w].busy = FALSE]
  /\ UNCHANGED <<valVars, fillVars, snap, writes, byHand, ordered>>

-----------------------------------------------------------------------------
Next ==
  \/ \E r \in Runs : RunNext(r)
  \/ \E v \in Videos : EnqueueOne(v) \/ EncodeFails(v)
  \/ \E c \in Callers, v \in Videos : TakeHls(c, v) \/ ReportStatus(c, v)
  \/ \E c \in Callers, v \in Videos, e \in Encodes : TakeOther(c, v, e)
  \/ \E c \in Callers : Calling(c) \/ StartTranscription(c) \/ Return(c)
  \/ \E w \in Writers, v \in Videos : LoadRow(w, v)
  \/ \E w \in Writers : SaveRow(w)

Spec == Init /\ [][Next]_vars

-----------------------------------------------------------------------------
(* "to avoid unintentional transcription" (the command): the delivery of an  *)
(* encode a run enqueued orders no transcription, however many runs, other   *)
(* deliveries and writers of the row there are, unless one of them saved over*)
(* the flag the row it had read before. The option --veda_id does not switch *)
(* it off.                                                                   *)
TranscriptionStaysOff == ordered \subseteq switched \cup byHand

(* While an encode of a run waits or is delivered the flag is off, and so it *)
(* is in the Video object of its delivery.                                   *)
Restoring == \A r \in Runs : runs[r].pc = "restore" => urls[runs[r].video] # <<>>

StaysOff ==
  \A v \in Videos \ (switched \cup byHand) :
    /\ queue[v] > 0 => ~transcribe[v]
    /\ \A r \in Runs : runs[r].pc = "enqueue" /\ runs[r].video = v => ~transcribe[v]
    /\ \A c \in Callers :
         callers[c].pc # "idle" /\ callers[c].video = v /\ callers[c].encode = Hls
           => ~snap[c]

(* The inductive invariant.                                                  *)
BackfillInv ==
  TypeOK /\ ValInv /\ Restoring /\ StaysOff /\ TranscriptionStaysOff
=============================================================================

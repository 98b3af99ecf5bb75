----------------------------- MODULE ValClient -----------------------------
(* How the encodes of a video get into edx-val (control/veda_val.py). A call *)
(* reads what edx-val has of the video, adds the encode just delivered and   *)
(* the latest of the database, and puts the whole list back. Deliveries, heal*)
(* and the YouTube daemon call side by side, and nothing locks the record.   *)
EXTENDS Naturals, Sequences, FiniteSets

CONSTANTS
  Videos,    \* numbered in the order edx-val lists them
  Encodes,   \* the profiles every video is encoded to
  Callers,   \* the processes that call edx-val
  MaxCalls   \* bound: deliveries and reports

ASSUME ValAssumption ==
  /\ Videos \subseteq Nat
  /\ "none" \notin Encodes
  /\ MaxCalls \in Nat

VARIABLES
  urls,        \* the URL rows of each video by date
  val,         \* what edx-val has of each video
  callers,     \* what each caller is doing
  calls,       \* deliveries and reports so far
  reported,    \* the encodes edx-val acknowledged
  unreported,  \* the encodes whose call failed since
  raced        \* videos two calls changed on top of each other

valVars == <<urls, val, callers, calls, reported, unreported, raced>>

None == "none"

(* sound: size, bit rate and address are there.                              *)
Url == [encode : Encodes, sound : BOOLEAN]

(* known: edx-val has the video.                                             *)
Record == [known : BOOLEAN, encodes : SUBSET Encodes]

(* encode: the one delivered. complete: the status is one of                 *)
(* FILE_COMPLETE_STATUSES. got: the record read, then the list to send.      *)
Call ==
  [pc : {"idle", "save", "get", "determine", "send", "done"}, video : Videos,
   encode : Encodes \cup {None}, complete : BOOLEAN, got : Record,
   data : SUBSET Encodes]

Has(v, e) == \E i \in 1..Len(urls[v]) : urls[v][i].encode = e
Latest(v) == {urls[v][i].encode : i \in {Len(urls[v])} \ {0}}

ValTypeOK ==
  /\ urls \in [Videos -> Seq(Url)]
  /\ val \in [Videos -> Record]
  /\ callers \in [Callers -> Call]
  /\ calls \in 0..MaxCalls
  /\ reported \in [Videos -> SUBSET Encodes]
  /\ unreported \in [Videos -> SUBSET Encodes]
  /\ raced \subseteq Videos

(* Videos of any age: what edx-val has of a video is of its URL rows. What it*)
(* should have and has not was lost before.                                  *)
ValInit ==
  /\ urls \in [Videos -> {<<>>} \cup {<<u>> : u \in Url}]
  /\ val \in [Videos -> Record]
  /\ \A v \in Videos :
       /\ \A e \in val[v].encodes : Has(v, e)
       /\ val[v].encodes # {} => val[v].known
  /\ \E v \in Videos, none \in Record :
       /\ none = [known |-> FALSE, encodes |-> {}]
       /\ callers = [c \in Callers |->
            [pc |-> "idle", video |-> v, encode |-> None, complete |-> FALSE,
             got |-> none, data |-> {}]]
       /\ \A w \in Videos : v <= w
  /\ calls = 0
  /\ reported = [v \in Videos |-> val[v].encodes]
  /\ unreported = [v \in Videos |-> {e \in Encodes : Has(v, e)} \ val[v].encodes]
  /\ raced = {}

-----------------------------------------------------------------------------
(* A delivery takes its message and reads the Video row.                     *)
Take(c, v, e) ==
  /\ callers[c].pc = "idle"
  /\ callers' = [callers EXCEPT ![c].pc = "save", ![c].video = v, ![c].encode = e]
  /\ UNCHANGED <<urls, val, reported, unreported, raced>>

(* The URL row comes first; it says later whether the video is complete.     *)
SaveUrl(c) ==
  /\ callers[c].pc = "save"
  /\ \E complete \in BOOLEAN :
       callers' = [callers EXCEPT ![c].pc = "get", ![c].complete = complete]
  /\ urls' = [urls EXCEPT ![callers[c].video] =
                Append(@, [encode |-> callers[c].encode, sound |-> TRUE])]
  /\ UNCHANGED <<val, calls, reported, unreported, raced>>

(* Heal, ingest: a status, and no encode.                                    *)
Report(c, v) ==
  /\ callers[c].pc = "idle"
  /\ \E complete \in BOOLEAN :
       callers' = [callers EXCEPT ![c].pc = "get", ![c].video = v,
                                  ![c].encode = None, ![c].complete = complete]
  /\ UNCHANGED <<urls, val, reported, unreported, raced>>

Own(c) == {callers[c].encode} \ {None}

Failed(c) ==
  /\ unreported' = [unreported EXCEPT ![callers[c].video] =
                      @ \cup (Own(c) \ reported[callers[c].video])]
  /\ callers' = [callers EXCEPT ![c].pc = "done"]

Get(c) ==
  /\ callers[c].pc = "get"
  /\ callers' = [callers EXCEPT ![c].pc = "determine",
                                ![c].got = val[callers[c].video]]
  /\ UNCHANGED <<urls, val, calls, reported, unreported, raced>>

(* Neither 200 nor 404.                                                      *)
GetFails(c) ==
  /\ callers[c].pc = "get"
  /\ Failed(c)
  /\ UNCHANGED <<urls, val, calls, reported, raced>>

(* Bug: what edx-val returned is left out.                                   *)
DetermineWithoutReturned(c) ==
  /\ callers[c].pc = "determine"
  /\ LET data == Own(c) \cup Latest(callers[c].video) IN
       callers' = [callers EXCEPT
         ![c].pc = IF data = {} /\ callers[c].complete THEN "done" ELSE "send",
         ![c].data = data]
  /\ UNCHANGED <<urls, val, calls, reported, unreported, raced>>

(* Bug: only the latest encode of the database is added.                     *)
DetermineLatest(c) ==
  /\ callers[c].pc = "determine"
  /\ LET sent == Latest(callers[c].video)
         data == IF sent = {} THEN {} ELSE sent \cup callers[c].got.encodes IN
       callers' = [callers EXCEPT
         ![c].pc = IF data = {} /\ callers[c].complete THEN "done" ELSE "send",
         ![c].data = data]
  /\ UNCHANGED <<urls, val, calls, reported, unreported, raced>>

(* profile_determiner and should_update_status: without an encode of its own *)
(* to send, what edx-val returned is left out.                               *)
Determine(c) ==
  /\ callers[c].pc = "determine"
  /\ LET sent == Own(c) \cup Latest(callers[c].video)
         data == IF sent = {} THEN {} ELSE sent \cup callers[c].got.encodes IN
       callers' = [callers EXCEPT
         ![c].pc = IF data = {} /\ callers[c].complete THEN "done" ELSE "send",
         ![c].data = data]
  /\ UNCHANGED <<urls, val, calls, reported, unreported, raced>>

Write(v, data) ==
  /\ val' = [val EXCEPT ![v] = [known |-> TRUE, encodes |-> data]]
  /\ reported' = [reported EXCEPT ![v] = @ \cup data]
  /\ unreported' = [unreported EXCEPT ![v] = @ \ data]

(* PUT replaces the list of a known video; POST makes a new one.             *)
Send(c) ==
  /\ callers[c].pc = "send"
  /\ LET v == callers[c].video IN
       /\ callers[c].got.known \/ ~val[v].known
       /\ Write(v, callers[c].data)
       /\ raced' = IF callers[c].got = val[v] THEN raced ELSE raced \cup {v}
  /\ callers' = [callers EXCEPT ![c].pc = "done"]
  /\ UNCHANGED <<urls, calls>>

(* Refused or lost: only logged.                                             *)
SendFails(c) ==
  /\ callers[c].pc = "send"
  /\ Failed(c)
  /\ UNCHANGED <<urls, val, calls, reported, raced>>

CallNext(c) ==
  \/ SaveUrl(c) \/ Get(c) \/ GetFails(c) \/ Determine(c) \/ Send(c) \/ SendFails(c)

-----------------------------------------------------------------------------
(* Although a PUT replaces the whole list, an encode edx-val has acknowledged*)
(* stays there, unless two calls for the video raced.                        *)
EncodesStay == \A v \in Videos \ raced : reported[v] \subseteq val[v].encodes

(* An encode in the database that edx-val does not have is one somebody is   *)
(* about to send, or whose call failed and was not made good.                *)
AtWork(v, e) ==
  \E c \in Callers : /\ callers[c].pc \notin {"idle", "save", "done"}
                     /\ callers[c].video = v
                     /\ callers[c].encode = e

EncodesReported ==
  \A v \in Videos \ raced, e \in Encodes :
    Has(v, e) => e \in val[v].encodes \/ AtWork(v, e) \/ e \in unreported[v]

(* What they rest on: a list to send has all that was read and the encode of *)
(* the caller, and edx-val has encodes only of a video that has URL rows.    *)
Merged ==
  \A c \in Callers : callers[c].pc = "send" =>
    callers[c].got.encodes \cup Own(c) \subseteq callers[c].data

Backed ==
  /\ \A v \in Videos : val[v].encodes # {} => urls[v] # <<>>
  /\ \A c \in Callers :
       /\ callers[c].pc \in {"determine", "send"} /\ callers[c].got.encodes # {}
            => urls[callers[c].video] # <<>>
       /\ callers[c].pc = "send" /\ callers[c].data # {}
            => urls[callers[c].video] # <<>>
       /\ callers[c].pc = "save" => callers[c].encode # None
       /\ callers[c].pc \in {"get", "determine", "send"} /\ callers[c].encode # None
            => urls[callers[c].video] # <<>>

ValInv == ValTypeOK /\ EncodesStay /\ EncodesReported /\ Merged /\ Backed
=============================================================================

----------------------------- MODULE Transfers ------------------------------
(* The moving of files (control/veda_deliver.py, veda_deliver_youtube.py,    *)
(* veda_hotstore.py): deliveries fetch an encode into the work directory of  *)
(* their machine and send it to the S3 bucket of the end points or, with a   *)
(* sidecar of metadata, to the drop box of YouTube; ingest tasks send the    *)
(* source to the hot store, cut into parts if it is large. Celery runs       *)
(* several of these processes on one machine. They share its work directory, *)
(* every delivery empties it first, and they die anywhere.                   *)
EXTENDS Naturals, Sequences

CONSTANTS
  Jobs,       \* the encodes to deliver: [video, profile]
  Sources,    \* the ingested files
  Deliverers, \* the processes that deliver
  Storers,    \* the processes that store
  MaxTasks    \* bound: deliveries and stores

ASSUME TransfersAssumption ==
  /\ \A j \in Jobs : j = [video |-> j.video, profile |-> j.profile]
  /\ "none" \notin Sources
  /\ MaxTasks \in Nat

VARIABLES
  disk,    \* the work directory: [name, is] for each file, part and directory
  dv,      \* what each delivery is doing
  st,      \* what each store is doing
  s3,      \* the delivered objects: none, whole, torn
  hot,     \* the objects in the hot store
  drops,   \* the directories in the drop box, in the order they were made
  tasks,   \* deliveries and stores so far
  raced,   \* jobs two deliveries had at the same time
  crossed, \* videos two deliveries to YouTube had at the same time
  emptied  \* sources a delivery emptied the directory of while they were stored

vars == <<disk, dv, st, s3, hot, drops, tasks, raced, crossed, emptied>>

NoJob == [video |-> "none", profile |-> "none"]
NoSource == "none"

ToYoutube(j) == j.profile \in {"youtube", "review"}
Account(j) == IF j.profile = "review" THEN "review" ELSE "course"

(* Bug: encodes are named after their video only.                            *)
FileOfVideo(j) == <<"file", j.video>>

(* encoded_file: VEDA id and suffix of the profile.                          *)
File(j) == <<"file", j.video, j.profile>>

(* Bug: one name for the sidecars of all videos.                             *)
SidecarOfAll(j) == <<"csv">>

(* The id of the video and "_100.csv", whatever the profile.                 *)
Sidecar(j) == <<"csv", j.video>>

Source(u) == <<"source", u>>
Directory(n) == <<"dir", n>>
Part(n, k) == <<"part", n, k>>

(* What a file holds: an encode, the download of a process until it is done, *)
(* the metadata of an encode, a source or one of its two parts.              *)
Encode(j) == <<"encode", j.video, j.profile>>
Download(p) == <<"download", p>>
Metadata(j) == <<"metadata", j.video, j.profile>>
Piece(u, k) == <<"piece", u, k>>
Nothing == <<"nothing">>

Names ==
  {File(j) : j \in Jobs} \cup {Sidecar(j) : j \in Jobs} \cup {Source(u) : u \in Sources}
    \cup {Directory(n) : n \in 1..MaxTasks} \cup {Part(n, k) : n \in 1..MaxTasks, k \in 1..2}

Contents ==
  {Encode(j) : j \in Jobs} \cup {Download(p) : p \in Deliverers}
    \cup {Metadata(j) : j \in Jobs} \cup {Piece(u, k) : u \in Sources, k \in 1..2} \cup {Nothing}

Present == {x.name : x \in disk}
Is(name) == (CHOOSE x \in disk : x.name = name).is
Without(names) == {x \in disk : x.name \notin names}
With(name, is) == Without({name}) \cup {[name |-> name, is |-> is]}

(* The names in a directory; none in anything else.                          *)
Inside(name) ==
  IF name[1] = "dir" THEN {n \in Present : n[1] = "part" /\ n[2] = name[2]} ELSE {}

Delivery ==
  [pc : {"idle", "empty", "fetch", "download", "validate", "upload", "sidecar",
         "connect", "put_file", "put_sidecar", "put_complete", "unlink"},
   job : Jobs \cup {NoJob}, todo : SUBSET Names, drop : Nat]

Resting == [pc |-> "idle", job |-> NoJob, todo |-> {}, drop |-> 0]

Store ==
  [pc : {"idle", "exists", "single", "mkdtemp", "split", "list", "parts", "rmtree"},
   up : Sources \cup {NoSource}, dir : Nat, list : SUBSET Names]

Waiting == [pc |-> "idle", up |-> NoSource, dir |-> 0, list |-> {}]

Drop == [job : Jobs, file : {"none", "other", "own"}, csv : {"none", "other", "own"},
         complete : BOOLEAN]

TypeOK ==
  /\ disk \subseteq [name : Names, is : Contents]
  /\ dv \in [Deliverers -> Delivery]
  /\ st \in [Storers -> Store]
  /\ s3 \in [Jobs -> {"none", "other", "own"}]
  /\ hot \in [Sources -> {"none", "torn", "whole"}]
  /\ drops \in Seq(Drop)
  /\ tasks \in 0..MaxTasks
  /\ raced \subseteq Jobs
  /\ crossed \subseteq {j.video : j \in Jobs}
  /\ emptied \subseteq Sources

Init ==
  /\ disk = {}
  /\ dv = [p \in Deliverers |-> Resting]
  /\ st = [s \in Storers |-> Waiting]
  /\ s3 = [j \in Jobs |-> "none"]
  /\ hot = [u \in Sources |-> "none"]
  /\ drops = <<>>
  /\ tasks = 0
  /\ raced = {} /\ crossed = {} /\ emptied = {}

stVars == <<st, hot, emptied>>
dvVars == <<dv, s3, drops, raced, crossed>>

-----------------------------------------------------------------------------
(* VedaDelivery.run: what is in the work directory is listed, and deleted one*)
(* by one; what is gone by then is passed over.                              *)
DvGoto(p, pc) == dv' = [dv EXCEPT ![p].pc = pc]

DvEnd(p) == dv' = [dv EXCEPT ![p] = Resting]

Begin(p) ==
  /\ dv[p].pc = "idle"
  /\ tasks < MaxTasks
  /\ tasks' = tasks + 1
  /\ \E j \in Jobs :
       LET others == {dv[q].job : q \in Deliverers \ {p}}
       IN  /\ dv' = [dv EXCEPT ![p] =
                [pc |-> "empty", job |-> j, drop |-> 0,
                 todo |-> {n \in Present : n[1] # "part"}]]
           /\ raced' = IF j \in others THEN raced \cup {j} ELSE raced
           /\ crossed' = IF \E o \in others : o.video = j.video /\ ToYoutube(o) /\ ToYoutube(j)
                         THEN crossed \cup {j.video} ELSE crossed
  /\ UNCHANGED <<disk, s3, drops, stVars>>

Empty(p) ==
  /\ dv[p].pc = "empty"
  /\ \/ /\ dv[p].todo = {}
        /\ DvGoto(p, "fetch")
        /\ UNCHANGED <<disk, emptied>>
     \/ \E n \in dv[p].todo :
          /\ emptied' = emptied \cup ({st[s].up : s \in Storers} \ {NoSource})
          /\ \/ /\ Inside(n) = {}
                /\ disk' = Without({n})
                /\ dv' = [dv EXCEPT ![p].todo = @ \ {n}]
             \/ \E m \in Inside(n) : disk' = Without({m}) /\ UNCHANGED dv
  /\ UNCHANGED <<st, hot, s3, drops, tasks, raced, crossed>>

(* _INFORM_INTAKE opens the file for writing, downloads and probes it: a file*)
(* that was deleted meanwhile ends the task.                                 *)
Fetch(p) ==
  /\ dv[p].pc = "fetch"
  /\ disk' = With(File(dv[p].job), Download(p))
  /\ DvGoto(p, "download")
  /\ UNCHANGED <<s3, drops, tasks, raced, crossed, stVars>>

Fetched(p) ==
  LET j == dv[p].job
  IN  /\ dv[p].pc = "download"
      /\ File(j) \in Present
      /\ disk' = IF Is(File(j)) = Download(p) THEN With(File(j), Encode(j)) ELSE disk
      /\ DvGoto(p, "validate")
      /\ UNCHANGED <<s3, drops, tasks, raced, crossed, stVars>>

(* _VALIDATE may refuse any file, whose delivery ends here unless it is for  *)
(* YouTube; _DETERMINE_ROUTE. One over multi_upload_barrier is never         *)
(* delivered: it should be cut into parts, but self.deliverable, the file to *)
(* cut, is an attribute nothing sets (veda_deliver.py:464), the task dies.   *)
Validate(p) ==
  LET j == dv[p].job
  IN  /\ dv[p].pc = "validate"
      /\ File(j) \in Present
      /\ IF ToYoutube(j) THEN DvGoto(p, "sidecar")
         ELSE DvEnd(p) \/ DvGoto(p, "upload")
      /\ UNCHANGED <<disk, s3, drops, tasks, raced, crossed, stVars>>

OwnIf(b) == IF b THEN "own" ELSE "other"

(* _BOTO_SINGLEPART: the object is there as soon as all of it is.            *)
Upload(p) ==
  LET j == dv[p].job
  IN  /\ dv[p].pc = "upload"
      /\ File(j) \in Present
      /\ s3' = [s3 EXCEPT ![j] = OwnIf(Is(File(j)) = Encode(j))]
      /\ DvEnd(p)
      /\ UNCHANGED <<disk, drops, tasks, raced, crossed, stVars>>

(* DeliverYoutube.csv_metadata.                                              *)
WriteSidecar(p) ==
  LET j == dv[p].job
  IN  /\ dv[p].pc = "sidecar"
      /\ disk' = With(Sidecar(j), Metadata(j))
      /\ DvGoto(p, "connect")
      /\ UNCHANGED <<s3, drops, tasks, raced, crossed, stVars>>

(* Bug: a directory of this second that is there already is used.            *)
MakeDirectoryOrUse(p) ==
  /\ dv[p].pc = "connect"
  /\ \/ /\ drops' = Append(drops, [job |-> dv[p].job, file |-> "none",
                                   csv |-> "none", complete |-> FALSE])
        /\ dv' = [dv EXCEPT ![p].pc = "put_file", ![p].drop = Len(drops) + 1]
     \/ \E i \in DOMAIN drops :
          /\ Account(drops[i].job) = Account(dv[p].job)
          /\ dv' = [dv EXCEPT ![p].pc = "put_file", ![p].drop = i]
          /\ UNCHANGED drops
     \/ DvGoto(p, "unlink") /\ UNCHANGED drops
  /\ UNCHANGED <<disk, s3, tasks, raced, crossed, stVars>>

(* batch_uploader names the directory after the second: mkdir raises when    *)
(* another upload to the account took it. A refused login is logged only, and*)
(* the delivery ends as if the file were there.                              *)
MakeDirectory(p) ==
  /\ dv[p].pc = "connect"
  /\ \/ /\ drops' = Append(drops, [job |-> dv[p].job, file |-> "none",
                                   csv |-> "none", complete |-> FALSE])
        /\ dv' = [dv EXCEPT ![p].pc = "put_file", ![p].drop = Len(drops) + 1]
     \/ /\ \E i \in DOMAIN drops : Account(drops[i].job) = Account(dv[p].job)
        /\ DvEnd(p)
        /\ UNCHANGED drops
     \/ DvGoto(p, "unlink") /\ UNCHANGED drops
  /\ UNCHANGED <<disk, s3, tasks, raced, crossed, stVars>>

PutFile(p) ==
  LET j == dv[p].job
  IN  /\ dv[p].pc = "put_file"
      /\ File(j) \in Present
      /\ drops' = [drops EXCEPT ![dv[p].drop].file = OwnIf(Is(File(j)) = Encode(j))]
      /\ DvGoto(p, "put_sidecar")
      /\ UNCHANGED <<disk, s3, tasks, raced, crossed, stVars>>

PutSidecar(p) ==
  LET j == dv[p].job
  IN  /\ dv[p].pc = "put_sidecar"
      /\ Sidecar(j) \in Present
      /\ drops' = [drops EXCEPT ![dv[p].drop].csv = OwnIf(Is(Sidecar(j)) = Metadata(j))]
      /\ DvGoto(p, "put_complete")
      /\ UNCHANGED <<disk, s3, tasks, raced, crossed, stVars>>

(* delivery.complete: the partner takes the directory from now on.           *)
PutComplete(p) ==
  /\ dv[p].pc = "put_complete"
  /\ drops' = [drops EXCEPT ![dv[p].drop].complete = TRUE]
  /\ DvGoto(p, "unlink")
  /\ UNCHANGED <<disk, s3, tasks, raced, crossed, stVars>>

Unlink(p) ==
  /\ dv[p].pc = "unlink"
  /\ disk' = Without({Sidecar(dv[p].job)})
  /\ DvEnd(p)
  /\ UNCHANGED <<s3, drops, tasks, raced, crossed, stVars>>

(* The worker goes down, a connection fails, or a file to be read is gone.   *)
DeliveryDies(p) ==
  /\ dv[p].pc # "idle"
  /\ DvEnd(p)
  /\ UNCHANGED <<disk, s3, drops, tasks, raced, crossed, stVars>>

-----------------------------------------------------------------------------
(* VedaIngest puts the source into the directory under its VEDA id, and      *)
(* Hotstore.upload looks for it, and for its size.                           *)
StGoto(s, pc) == st' = [st EXCEPT ![s].pc = pc]

StEnd(s) == st' = [st EXCEPT ![s] = Waiting]

BeginStore(s) ==
  /\ st[s].pc = "idle"
  /\ tasks < MaxTasks
  /\ tasks' = tasks + 1
  /\ \E u \in Sources :
       /\ st' = [st EXCEPT ![s].pc = "exists", ![s].up = u]
       /\ disk' = With(Source(u), Nothing)
       /\ emptied' = IF \E p \in Deliverers : dv[p].pc = "empty"
                     THEN emptied \cup {u} ELSE emptied
  /\ UNCHANGED <<hot, dvVars>>

Exists(s) ==
  LET u == st[s].up
  IN  /\ st[s].pc = "exists"
      /\ IF Source(u) \notin Present THEN StEnd(s)
         ELSE StGoto(s, "mkdtemp") \/ StGoto(s, "single")
      /\ UNCHANGED <<disk, hot, tasks, emptied, dvVars>>

(* Tried twice; insert removes the source of what is in the hot store.       *)
StoreSingle(s) ==
  LET u == st[s].up
  IN  /\ st[s].pc = "single"
      /\ Source(u) \in Present
      /\ hot' = [hot EXCEPT ![u] = "whole"]
      /\ disk' = Without({Source(u)})
      /\ StEnd(s)
      /\ UNCHANGED <<tasks, emptied, dvVars>>

Unused == {n \in 1..MaxTasks : Directory(n) \notin Present
                                /\ \A s \in Storers : st[s].dir # n}

(* Bug: all the processes cut their files in one directory.                  *)
MkdtempCommon(s) ==
  /\ st[s].pc = "mkdtemp"
  /\ disk' = With(Directory(1), Nothing)
  /\ st' = [st EXCEPT ![s].pc = "split", ![s].dir = 1]
  /\ UNCHANGED <<hot, tasks, emptied, dvVars>>

(* A directory nobody has. There are as many names as tasks.                 *)
Mkdtemp(s) ==
  LET n == CHOOSE n \in Unused : TRUE
  IN  /\ st[s].pc = "mkdtemp"
      /\ Unused # {}
      /\ disk' = With(Directory(n), Nothing)
      /\ st' = [st EXCEPT ![s].pc = "split", ![s].dir = n]
      /\ UNCHANGED <<hot, tasks, emptied, dvVars>>

(* Nobody looks whether split found the source, or the directory.            *)
Split(s) ==
  LET n == st[s].dir
      u == st[s].up
  IN  /\ st[s].pc = "split"
      /\ disk' = IF {Source(u), Directory(n)} \subseteq Present
                 THEN Without({Part(n, k) : k \in 1..2})
                        \cup {[name |-> Part(n, k), is |-> Piece(u, k)] : k \in 1..2}
                 ELSE disk
      /\ StGoto(s, "list")
      /\ UNCHANGED <<hot, tasks, emptied, dvVars>>

List(s) ==
  /\ st[s].pc = "list"
  /\ Directory(st[s].dir) \in Present
  /\ st' = [st EXCEPT ![s].pc = "parts", ![s].list = Inside(Directory(st[s].dir))]
  /\ UNCHANGED <<disk, hot, tasks, emptied, dvVars>>

(* Every part of the list is opened and sent, and the object completed. One  *)
(* that is gone ends the task; none at all S3 refuses.                       *)
UploadParts(s) ==
  LET u == st[s].up
  IN  /\ st[s].pc = "parts"
      /\ st[s].list # {}
      /\ st[s].list \subseteq Present
      /\ hot' = [hot EXCEPT ![u] = IF {Is(n) : n \in st[s].list} = {Piece(u, k) : k \in 1..2}
                                   THEN "whole" ELSE "torn"]
      /\ StGoto(s, "rmtree")
      /\ UNCHANGED <<disk, tasks, emptied, dvVars>>

Rmtree(s) ==
  LET d == Directory(st[s].dir)
  IN  /\ st[s].pc = "rmtree"
      /\ disk' = Without({d, Source(st[s].up)} \cup Inside(d))
      /\ StEnd(s)
      /\ UNCHANGED <<hot, tasks, emptied, dvVars>>

StoreDies(s) ==
  /\ st[s].pc # "idle"
  /\ StEnd(s)
  /\ UNCHANGED <<disk, hot, tasks, emptied, dvVars>>

Next ==
  \/ \E p \in Deliverers :
       \/ Begin(p) \/ Empty(p) \/ Fetch(p) \/ Fetched(p) \/ Validate(p) \/ Upload(p)
       \/ WriteSidecar(p) \/ MakeDirectory(p) \/ PutFile(p) \/ PutSidecar(p)
       \/ PutComplete(p) \/ Unlink(p) \/ DeliveryDies(p)
  \/ \E s \in Storers :
       \/ BeginStore(s) \/ Exists(s) \/ StoreSingle(s) \/ Mkdtemp(s) \/ Split(s)
       \/ List(s) \/ UploadParts(s) \/ Rmtree(s) \/ StoreDies(s)

Spec == Init /\ [][Next]_vars

-----------------------------------------------------------------------------
(* However the deliveries of other encodes empty the directory, what is      *)
(* delivered to S3 is the encode, unless two deliveries of the same encode   *)
(* ran on the machine at once (veda_deliver.py:79).                          *)
ObjectsOwn == \A j \in Jobs : s3[j] = "other" => j \in raced

(* What the partner takes, a directory with delivery.complete, holds the     *)
(* encode it was made for, and the metadata of that encode unless the        *)
(* video went to YouTube and to the review channel at once: the two sidecars *)
(* have one name (veda_deliver_youtube.py:159).                              *)
DropsOwn ==
  \A i \in DOMAIN drops :
    drops[i].complete =>
      /\ drops[i].file = "own" \/ drops[i].job \in raced
      /\ drops[i].csv = "own" \/ drops[i].job.video \in crossed

(* The object in the hot store is all of the source and nothing else: stores *)
(* side by side, and what a dead one left, do not mix; only a delivery that  *)
(* emptied the directory meanwhile can tear it (veda_hotstore.py:142).       *)
HotWhole == \A u \in Sources : hot[u] = "torn" => u \in emptied

(* No two processes write into one directory, here or in the drop box.       *)
OwnDrops ==
  /\ \A p, q \in Deliverers : dv[p].drop = dv[q].drop /\ dv[p].drop # 0 => p = q
  /\ \A p \in Deliverers : dv[p].drop # 0 =>
       dv[p].drop \in DOMAIN drops /\ drops[dv[p].drop].job = dv[p].job

OwnDirectories == \A s, t \in Storers : st[s].dir = st[t].dir /\ st[s].dir # 0 => s = t

(* What they rest on. Two deliveries of one encode, or of one video to       *)
(* YouTube, count as raced or crossed while both are there.                  *)
Counted ==
  \A p, q \in Deliverers : p # q /\ dv[p].pc # "idle" /\ dv[q].pc # "idle" =>
    /\ dv[p].job = dv[q].job => dv[p].job \in raced
    /\ dv[p].job.video = dv[q].job.video /\ ToYoutube(dv[p].job) /\ ToYoutube(dv[q].job)
         => dv[p].job.video \in crossed

Only(name, is) == \A x \in disk : x.name = name => x.is = is

Running(p) ==
  /\ dv[p].pc # "idle" => dv[p].job \in Jobs
  /\ \A n \in dv[p].todo : n[1] # "part"
  /\ dv[p].pc \in {"sidecar", "connect", "put_file", "put_sidecar", "put_complete", "unlink"}
       => ToYoutube(dv[p].job)
  /\ dv[p].pc \in {"put_file", "put_sidecar", "put_complete"} => dv[p].drop # 0

(* The file of a delivery, and its sidecar, are its own if they are there.   *)
FileOwn(p) ==
  /\ dv[p].pc = "download" =>
       Only(File(dv[p].job), Download(p)) \/ dv[p].job \in raced
  /\ dv[p].pc \in {"validate", "upload", "sidecar", "connect", "put_file"} =>
       Only(File(dv[p].job), Encode(dv[p].job)) \/ dv[p].job \in raced

SidecarOwn(p) ==
  dv[p].pc \in {"connect", "put_file", "put_sidecar"} =>
    Only(Sidecar(dv[p].job), Metadata(dv[p].job)) \/ dv[p].job.video \in crossed

Sent(p) ==
  /\ dv[p].pc \in {"put_sidecar", "put_complete"} => drops[dv[p].drop].file # "none"
  /\ dv[p].pc = "put_complete" => drops[dv[p].drop].csv # "none"

Delivering == \A p \in Deliverers : Running(p) /\ FileOwn(p) /\ SidecarOwn(p) /\ Sent(p)

Dropped ==
  \A i \in DOMAIN drops :
    /\ drops[i].file = "other" => drops[i].job \in raced
    /\ drops[i].csv = "other" => drops[i].job.video \in crossed
    /\ drops[i].complete => drops[i].file # "none" /\ drops[i].csv # "none"

(* The parts in the directory of a store are none or all of its source.      *)
NoParts(n) == \A k \in 1..2 : Part(n, k) \notin Present

AllParts(n, u) == \A k \in 1..2 : Part(n, k) \in Present /\ Only(Part(n, k), Piece(u, k))

Emptied == \A n \in 1..MaxTasks : Directory(n) \notin Present => NoParts(n)

Cutting(s) ==
  /\ st[s].pc # "idle" => st[s].up \in Sources
  /\ st[s].pc \in {"split", "list", "parts", "rmtree"} => st[s].dir \in 1..MaxTasks
  /\ st[s].pc = "split" => NoParts(st[s].dir)
  /\ st[s].pc \in {"list", "parts"} /\ st[s].up \notin emptied =>
       NoParts(st[s].dir) \/ AllParts(st[s].dir, st[s].up)
  /\ st[s].pc = "parts" /\ st[s].up \notin emptied /\ st[s].list # {} =>
       AllParts(st[s].dir, st[s].up) /\ st[s].list = {Part(st[s].dir, k) : k \in 1..2}

TransfersInv ==
  /\ TypeOK /\ OwnDrops /\ OwnDirectories /\ Counted /\ Delivering /\ Dropped
  /\ Emptied /\ \A s \in Storers : Cutting(s)
=============================================================================

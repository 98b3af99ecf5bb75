-------------------------- MODULE Transfers_proofs --------------------------
(* That TransfersInv, ObjectsOwn, DropsOwn and HotWhole hold of Transfers,   *)
(* for any number of encodes, sources, processes and tasks.                  *)
EXTENDS Transfers, SequenceTheorems, TLAPS

USE TransfersAssumption

(* What concerns the deliveries, and what concerns the stores. Both share the*)
(* disk and do not touch each other's files there, except for Empty.         *)
DiskOK == disk \subseteq [name : Names, is : Contents]

DeliveryInv ==
  /\ dv \in [Deliverers -> Delivery]
  /\ s3 \in [Jobs -> {"none", "other", "own"}]
  /\ drops \in Seq(Drop)
  /\ raced \subseteq Jobs
  /\ crossed \subseteq {j.video : j \in Jobs}
  /\ OwnDrops /\ Counted /\ Delivering /\ Dropped /\ ObjectsOwn

StoreInv ==
  /\ st \in [Storers -> Store]
  /\ hot \in [Sources -> {"none", "torn", "whole"}]
  /\ emptied \subseteq Sources
  /\ OwnDirectories /\ Emptied /\ HotWhole
  /\ \A s \in Storers : Cutting(s)

Inv == DiskOK /\ tasks \in 0..MaxTasks /\ DeliveryInv /\ StoreInv

-----------------------------------------------------------------------------
(* Names.                                                                    *)
LEMMA Heads ==
  /\ \A j : File(j)[1] = "file" /\ Sidecar(j)[1] = "csv"
  /\ \A u : Source(u)[1] = "source"
  /\ \A n : Directory(n)[1] = "dir" /\ Directory(n)[2] = n
  /\ \A n, k : Part(n, k)[1] = "part" /\ Part(n, k)[2] = n /\ Part(n, k)[3] = k
BY DEF File, Sidecar, Source, Directory, Part

LEMMA Different ==
  /\ \A j, k \in Jobs : File(j) = File(k) => j = k
  /\ \A j, k \in Jobs : Sidecar(j) = Sidecar(k) => j.video = k.video
  /\ \A j, k : File(j) # Sidecar(k)
BY Heads DEF File, Sidecar

LEMMA PartNames ==
  ASSUME NEW x \in Names, x[1] = "part"
  PROVE  \E n \in 1..MaxTasks, k \in 1..2 : x = Part(n, k)
BY Heads DEF Names

LEMMA NameTypes ==
  /\ \A j \in Jobs : File(j) \in Names /\ Sidecar(j) \in Names
  /\ \A u \in Sources : Source(u) \in Names
  /\ \A n \in 1..MaxTasks : Directory(n) \in Names
  /\ \A n \in 1..MaxTasks, k \in 1..2 : Part(n, k) \in Names
  /\ \A j \in Jobs : Encode(j) \in Contents /\ Metadata(j) \in Contents
  /\ \A p \in Deliverers : Download(p) \in Contents
  /\ \A u \in Sources, k \in 1..2 : Piece(u, k) \in Contents
  /\ Nothing \in Contents
BY DEF Names, Contents

LEMMA Pieces ==
  \A u, v : \A k, l : Piece(u, k) = Piece(v, l) => u = v /\ k = l
BY DEF Piece

-----------------------------------------------------------------------------
(* The disk.                                                                 *)
LEMMA PutOne ==
  ASSUME DiskOK, NEW name \in Names, NEW is \in Contents, disk' = With(name, is)
  PROVE  /\ DiskOK'
         /\ \A x \in disk' : x \in disk \/ (x.name = name /\ x.is = is)
         /\ \A x \in disk' : x.name = name => x.is = is
         /\ \A x \in disk : x.name # name => x \in disk'
         /\ name \in Present'
         /\ \A x : x.name # name => (x \in disk <=> x \in disk')
<1> DEFINE f == [name |-> name, is |-> is]
<1>1. f \in [name : Names, is : Contents] /\ f.name = name /\ f.is = is
  OBVIOUS
<1>2. disk' = {x \in disk : x.name # name} \cup {f}
  BY DEF With, Without
<1> HIDE DEF f
<1> QED
  BY <1>1, <1>2 DEF DiskOK, Present

LEMMA Removed ==
  ASSUME DiskOK, NEW names, disk' = Without(names)
  PROVE  /\ DiskOK' /\ disk' \subseteq disk
         /\ \A x \in disk : x.name \notin names => x \in disk'
         /\ \A x \in disk' : x.name \notin names
BY DEF DiskOK, Without

(* What is read of a file is what it is known to be.                         *)
LEMMA Read ==
  ASSUME NEW name \in Present, NEW is, Only(name, is)
  PROVE  Is(name) = is
BY DEF Present, Only, Is

(* Nothing of the stores' directories changes.                               *)
SameParts == \A x : x.name[1] \in {"dir", "part"} => (x \in disk <=> x \in disk')

LEMMA PutOther ==
  ASSUME DiskOK, NEW name \in Names, NEW is \in Contents, disk' = With(name, is),
         name[1] \notin {"dir", "part"}
  PROVE  SameParts
BY PutOne DEF SameParts

LEMMA RemovedOther ==
  ASSUME DiskOK, NEW name, disk' = Without({name}), name[1] \notin {"dir", "part"}
  PROVE  SameParts
BY Removed DEF SameParts

LEMMA SamePresent ==
  ASSUME SameParts, NEW name, name[1] \in {"dir", "part"}
  PROVE  name \in Present <=> name \in Present'
BY DEF SameParts, Present

LEMMA EmptiedKept ==
  ASSUME StoreInv, SameParts
  PROVE  Emptied'
<1>1. ASSUME NEW n \in 1..MaxTasks, Directory(n) \notin Present' PROVE NoParts(n)'
  <2>1. Directory(n) \notin Present
    BY <1>1, Heads, SamePresent
  <2>2. NoParts(n)
    BY <2>1 DEF StoreInv, Emptied
  <2> QED
    BY <2>2, Heads, SamePresent DEF NoParts
<1> QED
  BY <1>1 DEF Emptied

(* A step that leaves the stores and their directories alone.                *)
LEMMA StoreKept ==
  ASSUME StoreInv, SameParts, UNCHANGED stVars
  PROVE  StoreInv'
<1>1. \A n : NoParts(n) <=> NoParts(n)'
  BY Heads, SamePresent DEF NoParts
<1>2. \A n, u : AllParts(n, u) => AllParts(n, u)'
  <2>1. ASSUME NEW n, NEW k, NEW is, Only(Part(n, k), is)
        PROVE  Only(Part(n, k), is)'
    BY <2>1, Heads DEF Only, SameParts
  <2> QED
    BY <2>1, Heads, SamePresent DEF AllParts
<1>4. Emptied'
  BY EmptiedKept
<1>5. ASSUME NEW s \in Storers PROVE Cutting(s)'
  <2>1. Cutting(s) /\ st' = st /\ emptied' = emptied
    BY DEF StoreInv, stVars
  <2> QED
    BY <1>1, <1>2, <2>1 DEF Cutting
<1> QED
  BY <1>4, <1>5 DEF StoreInv, stVars, OwnDirectories, HotWhole

-----------------------------------------------------------------------------
(* The deliveries. What a step of one adds to the disk is its own.           *)
Adds(p) ==
  \A x \in disk' : \/ x \in disk
                   \/ /\ dv[p].pc # "idle"
                      /\ \/ x.name = File(dv[p].job)
                         \/ x.name = Sidecar(dv[p].job) /\ ToYoutube(dv[p].job)

(* And what it writes into a directory of the drop box, too.                 *)
Writes(p) ==
  /\ drops' \in Seq(Drop)
  /\ \A i \in DOMAIN drops :
       /\ i \in DOMAIN drops' /\ drops'[i].job = drops[i].job
       /\ i # dv[p].drop => drops'[i] = drops[i]

LEMMA OthersKept ==
  ASSUME DeliveryInv, NEW p \in Deliverers, NEW q \in Deliverers, q # p, dv'[q] = dv[q],
         Adds(p), Writes(p), raced \subseteq raced', crossed \subseteq crossed'
  PROVE  Running(q)' /\ FileOwn(q)' /\ SidecarOwn(q)' /\ Sent(q)'
<1>1. /\ Running(q) /\ FileOwn(q) /\ SidecarOwn(q) /\ Sent(q) /\ Running(p)
      /\ Counted /\ OwnDrops
  BY DEF DeliveryInv, Delivering
<1>2. Running(q)'
  BY <1>1 DEF Running
<1>3. ASSUME dv[q].pc # "idle", NEW is, Only(File(dv[q].job), is)
      PROVE  Only(File(dv[q].job), is)' \/ dv[q].job \in raced
  <2>1. CASE dv[p].pc # "idle" /\ dv[p].job = dv[q].job
    BY <1>1, <1>3, <2>1 DEF Counted
  <2>2. CASE ~(dv[p].pc # "idle" /\ dv[p].job = dv[q].job)
    <3>1. \A x \in disk' : x.name = File(dv[q].job) => x \in disk
      BY <1>1, <1>3, <2>2, Different DEF Adds, Running
    <3>2. Only(File(dv[q].job), is)'
      BY <1>3, <3>1 DEF Only
    <3> QED
      BY <3>2
  <2> QED
    BY <2>1, <2>2
<1>4. FileOwn(q)'
  <2>1. dv[q].pc = "download" =>
          Only(File(dv[q].job), Download(q))' \/ dv[q].job \in raced
    BY <1>1, <1>3 DEF FileOwn
  <2>2. dv[q].pc \in {"validate", "upload", "sidecar", "connect", "put_file"} =>
          Only(File(dv[q].job), Encode(dv[q].job))' \/ dv[q].job \in raced
    BY <1>1, <1>3 DEF FileOwn
  <2> QED
    BY <2>1, <2>2 DEF FileOwn, Only
<1>5. ASSUME dv[q].pc \in {"connect", "put_file", "put_sidecar"}, NEW is,
             Only(Sidecar(dv[q].job), is)
      PROVE  Only(Sidecar(dv[q].job), is)' \/ dv[q].job.video \in crossed
  <2>1. CASE /\ dv[p].pc # "idle" /\ dv[p].job.video = dv[q].job.video
             /\ ToYoutube(dv[p].job)
    BY <1>1, <1>5, <2>1 DEF Counted, Running
  <2>2. CASE ~(/\ dv[p].pc # "idle" /\ dv[p].job.video = dv[q].job.video
               /\ ToYoutube(dv[p].job))
    <3>1. \A x \in disk' : x.name = Sidecar(dv[q].job) => x \in disk
      BY <1>1, <1>5, <2>2, Different DEF Adds, Running
    <3>2. Only(Sidecar(dv[q].job), is)'
      BY <1>5, <3>1 DEF Only
    <3> QED
      BY <3>2
  <2> QED
    BY <2>1, <2>2
<1>6. SidecarOwn(q)'
  <2>1. dv[q].pc \in {"connect", "put_file", "put_sidecar"} =>
          Only(Sidecar(dv[q].job), Metadata(dv[q].job))' \/ dv[q].job.video \in crossed
    BY <1>1, <1>5 DEF SidecarOwn
  <2> QED
    BY <2>1 DEF SidecarOwn, Only
<1>7. Sent(q)'
  <2>1. dv[q].pc \in {"put_sidecar", "put_complete"} =>
          dv[q].drop \in DOMAIN drops /\ dv[q].drop # dv[p].drop
    BY <1>1 DEF Running, OwnDrops
  <2> QED
    BY <1>1, <2>1 DEF Writes, Sent
<1> QED
  BY <1>2, <1>4, <1>6, <1>7

(* A step of a delivery at work, which keeps its job and its directory or    *)
(* ends. Left to show is what it does for itself.                            *)
LEMMA DeliveryStep ==
  ASSUME Inv, NEW p \in Deliverers, NEW r \in Delivery, dv[p].pc # "idle",
         dv' = [dv EXCEPT ![p] = r],
         r.pc # "idle" => r.job = dv[p].job,
         r.drop # 0 => r.job = dv[p].job /\ r.drop = dv[p].drop,
         Adds(p), Writes(p), DiskOK', Dropped', StoreInv',
         s3' = s3 \/ (s3' \in [Jobs -> {"none", "other", "own"}] /\ ObjectsOwn'),
         UNCHANGED <<tasks, raced, crossed>>,
         Running(p)', FileOwn(p)', SidecarOwn(p)', Sent(p)'
  PROVE  Inv'
<1>1. DeliveryInv
  BY DEF Inv
<1>2. /\ dv' \in [Deliverers -> Delivery] /\ dv'[p] = r
      /\ \A q \in Deliverers : q # p => dv'[q] = dv[q]
  BY <1>1 DEF DeliveryInv
<1>3. Delivering'
  <2>1. ASSUME NEW q \in Deliverers, q # p
        PROVE  Running(q)' /\ FileOwn(q)' /\ SidecarOwn(q)' /\ Sent(q)'
    BY <1>1, <1>2, <2>1, OthersKept
  <2> QED
    BY <2>1 DEF Delivering
<1>4. Counted'
  <2>1. \A q \in Deliverers : dv'[q].pc # "idle" => dv[q].pc # "idle" /\ dv'[q].job = dv[q].job
    BY <1>2
  <2> QED
    BY <1>1, <2>1 DEF DeliveryInv, Counted
<1>5. OwnDrops'
  <2>1. \A q \in Deliverers : dv'[q].drop # 0 =>
          dv'[q].drop = dv[q].drop /\ dv'[q].job = dv[q].job
    BY <1>2
  <2> QED
    BY <1>1, <2>1 DEF DeliveryInv, OwnDrops, Writes
<1>6. s3' \in [Jobs -> {"none", "other", "own"}] /\ ObjectsOwn'
  BY <1>1 DEF DeliveryInv, ObjectsOwn
<1>7. DeliveryInv'
  BY <1>1, <1>2, <1>3, <1>4, <1>5, <1>6 DEF DeliveryInv, Writes
<1> QED
  BY <1>7 DEF Inv

(* It goes to its next step, or ends.                                        *)
LEMMA Gone ==
  ASSUME DeliveryInv, NEW p \in Deliverers,
         NEW pc \in {"empty", "fetch", "download", "validate", "upload", "sidecar",
                     "connect", "put_file", "put_sidecar", "put_complete", "unlink"},
         DvGoto(p, pc)
  PROVE  \E r \in Delivery : /\ dv' = [dv EXCEPT ![p] = r] /\ dv'[p] = r
                             /\ r.pc = pc /\ r.job = dv[p].job
                             /\ r.drop = dv[p].drop /\ r.todo = dv[p].todo
<1>1. dv \in [Deliverers -> Delivery] /\ dv[p] \in Delivery
  BY DEF DeliveryInv
<1> DEFINE r == [dv[p] EXCEPT !.pc = pc]
<1>2. dv' = [dv EXCEPT ![p] = r]
  BY DEF DvGoto
<1>3. r \in Delivery /\ r.pc = pc /\ r.job = dv[p].job
      /\ r.drop = dv[p].drop /\ r.todo = dv[p].todo
  BY <1>1 DEF Delivery
<1> HIDE DEF r
<1>4. dv'[p] = r
  BY <1>1, <1>2
<1> QED
  BY <1>2, <1>3, <1>4

LEMMA Goes ==
  ASSUME Inv, NEW p \in Deliverers, dv[p].pc # "idle",
         NEW pc \in {"empty", "fetch", "download", "validate", "upload", "sidecar",
                     "connect", "put_file", "put_sidecar", "put_complete", "unlink"},
         DvGoto(p, pc), Adds(p), Writes(p), DiskOK', Dropped', StoreInv',
         UNCHANGED <<s3, tasks, raced, crossed>>,
         Running(p)', FileOwn(p)', SidecarOwn(p)', Sent(p)'
  PROVE  Inv'
<1>1. PICK r \in Delivery : /\ dv' = [dv EXCEPT ![p] = r] /\ dv'[p] = r
                            /\ r.pc = pc /\ r.job = dv[p].job
                            /\ r.drop = dv[p].drop /\ r.todo = dv[p].todo
  BY Gone DEF Inv
<1> QED
  BY <1>1, DeliveryStep

LEMMA RestingType ==
  Resting \in Delivery /\ Resting.pc = "idle" /\ Resting.drop = 0 /\ Resting.todo = {}
BY DEF Resting, Delivery

LEMMA Ends ==
  ASSUME Inv, NEW p \in Deliverers, dv[p].pc # "idle", DvEnd(p),
         Adds(p), Writes(p), DiskOK', Dropped', StoreInv',
         s3' = s3 \/ (s3' \in [Jobs -> {"none", "other", "own"}] /\ ObjectsOwn'),
         UNCHANGED <<tasks, raced, crossed>>
  PROVE  Inv'
<1>1. dv' = [dv EXCEPT ![p] = Resting] /\ dv \in [Deliverers -> Delivery]
  BY DEF DvEnd, Inv, DeliveryInv
<1>2. dv'[p] = Resting
  BY <1>1
<1>3. Running(p)' /\ FileOwn(p)' /\ SidecarOwn(p)' /\ Sent(p)'
  BY <1>2, RestingType DEF Running, FileOwn, SidecarOwn, Sent
<1> QED
  BY <1>1, <1>3, RestingType, DeliveryStep

LEMMA NoWrites ==
  ASSUME Inv, NEW p, UNCHANGED <<drops, raced, crossed>>
  PROVE  Writes(p) /\ Dropped'
BY DEF Inv, DeliveryInv, Writes, Dropped

LEMMA SameDisk ==
  ASSUME Inv, NEW p, disk' = disk
  PROVE  Adds(p) /\ DiskOK' /\ SameParts
BY DEF Inv, Adds, DiskOK, SameParts

(* What a delivery deletes is lost to the stores at work.                    *)
LEMMA EmptyStores ==
  ASSUME Inv, NEW n, disk' = Without({n}), st' = st, hot' = hot,
         emptied' = emptied \cup ({st[s].up : s \in Storers} \ {NoSource}),
         \A k \in 1..MaxTasks : n = Directory(k) => Inside(n) = {}
  PROVE  StoreInv'
<1>1. StoreInv /\ DiskOK
  BY DEF Inv
<1>2. /\ DiskOK' /\ disk' \subseteq disk /\ \A x \in disk : x.name # n => x \in disk'
      /\ Present' \subseteq Present
  BY <1>1, Removed DEF Present
<1>3. \A k : NoParts(k) => NoParts(k)'
  BY <1>2 DEF NoParts
<1>4. \A s \in Storers : st[s].up \in Sources => st[s].up \in emptied'
  BY DEF NoSource
<1>5. emptied' \subseteq Sources
  <2>1. \A s \in Storers : st[s].up \in Sources \/ st[s].up = NoSource
    BY <1>1 DEF StoreInv, Store
  <2> QED
    BY <1>1, <2>1 DEF StoreInv
<1>6. Emptied'
  <2>1. ASSUME NEW k \in 1..MaxTasks, Directory(k) \notin Present' PROVE NoParts(k)'
    <3>1. CASE Directory(k) \notin Present
      BY <1>1, <1>3, <3>1 DEF StoreInv, Emptied
    <3>2. CASE Directory(k) \in Present
      <4>1. n = Directory(k)
        BY <1>2, <2>1, <3>2 DEF Present
      <4>2. {m \in Present : m[1] = "part" /\ m[2] = k} = {}
        BY <4>1, Heads DEF Inside
      <4>3. NoParts(k)
        BY <4>2, Heads DEF NoParts
      <4> QED
        BY <1>3, <4>3
    <3> QED
      BY <3>1, <3>2
  <2> QED
    BY <2>1 DEF Emptied
<1>7. ASSUME NEW s \in Storers PROVE Cutting(s)'
  <2>1. Cutting(s)
    BY <1>1 DEF StoreInv
  <2> QED
    BY <1>3, <1>4, <2>1 DEF Cutting
<1> QED
  BY <1>1, <1>5, <1>6, <1>7 DEF StoreInv, OwnDirectories, HotWhole

LEMMA EmptyStep ==
  ASSUME Inv, NEW p \in Deliverers, Empty(p)
  PROVE  Inv'
<1>1. dv[p].pc = "empty" /\ DeliveryInv /\ DiskOK /\ dv[p] \in Delivery /\ Running(p)
  BY DEF Empty, Inv, DeliveryInv, Delivering
<1>2. UNCHANGED <<s3, tasks, raced, crossed, drops>> /\ st' = st /\ hot' = hot
  BY DEF Empty
<1>3. Writes(p) /\ Dropped'
  BY <1>2, NoWrites
<1>4. CASE dv[p].todo = {} /\ DvGoto(p, "fetch") /\ UNCHANGED <<disk, emptied>>
  <2>1. PICK r \in Delivery : /\ dv' = [dv EXCEPT ![p] = r] /\ dv'[p] = r
                              /\ r.pc = "fetch" /\ r.job = dv[p].job
                              /\ r.drop = dv[p].drop /\ r.todo = dv[p].todo
    BY <1>1, <1>4, Gone
  <2>2. Running(p)' /\ FileOwn(p)' /\ SidecarOwn(p)' /\ Sent(p)'
    BY <1>1, <2>1 DEF Running, FileOwn, SidecarOwn, Sent
  <2>3. Adds(p) /\ DiskOK' /\ StoreInv'
    BY <1>2, <1>4, SameDisk, StoreKept DEF Inv, stVars
  <2> QED
    BY <1>1, <1>2, <1>3, <1>4, <2>2, <2>3, Goes
<1>5. ASSUME NEW n \in dv[p].todo,
             emptied' = emptied \cup ({st[s].up : s \in Storers} \ {NoSource}),
             \/ /\ Inside(n) = {}
                /\ disk' = Without({n})
                /\ dv' = [dv EXCEPT ![p].todo = @ \ {n}]
             \/ \E m \in Inside(n) : disk' = Without({m}) /\ UNCHANGED dv
      PROVE  Inv'
  <2>1. PICK m, r :
          /\ r \in Delivery /\ disk' = Without({m})
          /\ \A k \in 1..MaxTasks : m = Directory(k) => Inside(m) = {}
          /\ dv' = [dv EXCEPT ![p] = r]
          /\ r.pc = "empty" /\ r.job = dv[p].job /\ r.drop = dv[p].drop
          /\ r.todo \subseteq dv[p].todo
    <3>1. CASE /\ Inside(n) = {}
               /\ disk' = Without({n})
               /\ dv' = [dv EXCEPT ![p].todo = @ \ {n}]
      <4> DEFINE r == [dv[p] EXCEPT !.todo = @ \ {n}]
      <4>1. dv' = [dv EXCEPT ![p] = r]
        BY <3>1
      <4>2. r \in Delivery /\ r.pc = "empty" /\ r.job = dv[p].job /\ r.drop = dv[p].drop
            /\ r.todo \subseteq dv[p].todo
        BY <1>1 DEF Delivery
      <4> HIDE DEF r
      <4> QED
        BY <3>1, <4>1, <4>2
    <3>2. CASE \E m \in Inside(n) : disk' = Without({m}) /\ UNCHANGED dv
      <4>1. PICK m \in Inside(n) : disk' = Without({m}) /\ dv' = dv
        BY <3>2
      <4>2. m[1] = "part"
        BY <4>1 DEF Inside
      <4>3. \A k : m # Directory(k)
        BY <4>2, Heads
      <4>4. dv' = [dv EXCEPT ![p] = dv[p]]
        BY <1>1, <4>1 DEF DeliveryInv
      <4> QED
        BY <1>1, <4>1, <4>3, <4>4
    <3> QED
      BY <1>5, <3>1, <3>2
  <2>2. dv'[p] = r
    BY <1>1, <2>1 DEF DeliveryInv
  <2>3. Running(p)' /\ FileOwn(p)' /\ SidecarOwn(p)' /\ Sent(p)'
    BY <1>1, <2>1, <2>2 DEF Running, FileOwn, SidecarOwn, Sent
  <2>4. Adds(p) /\ DiskOK'
    BY <1>1, <2>1, Removed DEF Adds
  <2>5. StoreInv'
    BY <1>2, <1>5, <2>1, EmptyStores
  <2> QED
    BY <1>1, <1>2, <1>3, <2>1, <2>3, <2>4, <2>5, DeliveryStep
<1> QED
  BY <1>4, <1>5 DEF Empty

LEMMA AtWork ==
  ASSUME Inv, NEW p \in Deliverers, dv[p].pc # "idle"
  PROVE  /\ DiskOK /\ DeliveryInv /\ StoreInv /\ dv[p].job \in Jobs
         /\ Running(p) /\ FileOwn(p) /\ SidecarOwn(p) /\ Sent(p)
         /\ File(dv[p].job) \in Names /\ Sidecar(dv[p].job) \in Names
         /\ Encode(dv[p].job) \in Contents /\ Metadata(dv[p].job) \in Contents
         /\ Download(p) \in Contents
<1>1. DiskOK /\ DeliveryInv /\ StoreInv
  BY DEF Inv
<1>2. Running(p) /\ FileOwn(p) /\ SidecarOwn(p) /\ Sent(p)
  BY <1>1 DEF DeliveryInv, Delivering
<1>3. dv[p].job \in Jobs
  BY <1>2 DEF Running
<1> QED
  BY <1>1, <1>2, <1>3, NameTypes

LEMMA FetchStep ==
  ASSUME Inv, NEW p \in Deliverers, Fetch(p)
  PROVE  Inv'
<1>1. /\ dv[p].pc = "fetch" /\ disk' = With(File(dv[p].job), Download(p))
      /\ DvGoto(p, "download") /\ UNCHANGED <<s3, tasks, raced, crossed, drops>>
      /\ UNCHANGED stVars
  BY DEF Fetch
<1>2. /\ DiskOK /\ DeliveryInv /\ StoreInv /\ Running(p)
      /\ File(dv[p].job) \in Names /\ Download(p) \in Contents
  BY <1>1, AtWork
<1>3. /\ DiskOK'
      /\ \A x \in disk' : x \in disk \/ x.name = File(dv[p].job)
      /\ \A x \in disk' : x.name = File(dv[p].job) => x.is = Download(p)
  BY <1>1, <1>2, PutOne
<1>4. Adds(p)
  BY <1>1, <1>3 DEF Adds
<1>5. SameParts
  BY <1>1, <1>2, PutOther, Heads
<1>6. StoreInv'
  BY <1>1, <1>2, <1>5, StoreKept
<1>7. PICK r \in Delivery : /\ dv' = [dv EXCEPT ![p] = r] /\ dv'[p] = r
                            /\ r.pc = "download" /\ r.job = dv[p].job
                            /\ r.drop = dv[p].drop /\ r.todo = dv[p].todo
  BY <1>1, <1>2, Gone
<1>8. Running(p)' /\ FileOwn(p)' /\ SidecarOwn(p)' /\ Sent(p)'
  BY <1>2, <1>3, <1>7, <1>1 DEF Running, FileOwn, SidecarOwn, Sent, Only
<1>9. Writes(p) /\ Dropped'
  BY <1>1, NoWrites
<1> QED
  BY <1>1, <1>3, <1>4, <1>6, <1>8, <1>9, Goes

LEMMA FetchedStep ==
  ASSUME Inv, NEW p \in Deliverers, Fetched(p)
  PROVE  Inv'
<1>1. /\ dv[p].pc = "download" /\ File(dv[p].job) \in Present
      /\ disk' = IF Is(File(dv[p].job)) = Download(p)
                 THEN With(File(dv[p].job), Encode(dv[p].job)) ELSE disk
      /\ DvGoto(p, "validate") /\ UNCHANGED <<s3, tasks, raced, crossed, drops>>
      /\ UNCHANGED stVars
  BY DEF Fetched
<1>2. /\ DiskOK /\ DeliveryInv /\ StoreInv /\ Running(p) /\ FileOwn(p)
      /\ File(dv[p].job) \in Names /\ Encode(dv[p].job) \in Contents
  BY <1>1, AtWork
<1>3. Only(File(dv[p].job), Download(p)) \/ dv[p].job \in raced
  BY <1>1, <1>2 DEF FileOwn
<1>4. /\ DiskOK' /\ Adds(p) /\ SameParts
      /\ Only(File(dv[p].job), Encode(dv[p].job))' \/ dv[p].job \in raced
  <2>1. CASE Is(File(dv[p].job)) = Download(p)
    <3>1. /\ DiskOK'
          /\ \A x \in disk' : x \in disk \/ x.name = File(dv[p].job)
          /\ \A x \in disk' : x.name = File(dv[p].job) => x.is = Encode(dv[p].job)
          /\ SameParts
      BY <1>1, <1>2, <2>1, PutOne, PutOther, Heads
    <3>2. \A x \in disk' : x.name = File(dv'[p].job) => x.is = Encode(dv'[p].job)
      <4>1. dv'[p].job = dv[p].job
        BY <1>1, <1>2 DEF DvGoto, DeliveryInv, Delivery
      <4> QED
        BY <3>1, <4>1
    <3> QED
      BY <1>1, <3>1, <3>2 DEF Adds, Only
  <2>2. CASE Is(File(dv[p].job)) # Download(p)
    <3>1. dv[p].job \in raced
      BY <1>1, <1>3, <2>2, Read
    <3>2. disk' = disk
      BY <1>1, <2>2
    <3> QED
      BY <3>1, <3>2, SameDisk
  <2> QED
    BY <2>1, <2>2
<1>6. StoreInv'
  BY <1>1, <1>2, <1>4, StoreKept
<1>7. PICK r \in Delivery : /\ dv' = [dv EXCEPT ![p] = r] /\ dv'[p] = r
                            /\ r.pc = "validate" /\ r.job = dv[p].job
                            /\ r.drop = dv[p].drop /\ r.todo = dv[p].todo
  BY <1>1, <1>2, Gone
<1>8. Running(p)' /\ FileOwn(p)' /\ SidecarOwn(p)' /\ Sent(p)'
  BY <1>2, <1>4, <1>7, <1>1 DEF Running, FileOwn, SidecarOwn, Sent, Only
<1>9. Writes(p) /\ Dropped'
  BY <1>1, NoWrites
<1> QED
  BY <1>1, <1>4, <1>6, <1>8, <1>9, Goes

LEMMA ValidateStep ==
  ASSUME Inv, NEW p \in Deliverers, Validate(p)
  PROVE  Inv'
<1>1. /\ dv[p].pc = "validate"
      /\ IF ToYoutube(dv[p].job) THEN DvGoto(p, "sidecar")
         ELSE DvEnd(p) \/ DvGoto(p, "upload")
      /\ disk' = disk /\ UNCHANGED <<s3, tasks, raced, crossed, drops>> /\ UNCHANGED stVars
  BY DEF Validate
<1>2. DeliveryInv /\ StoreInv /\ Running(p) /\ FileOwn(p)
  BY <1>1, AtWork
<1>3. Adds(p) /\ DiskOK' /\ StoreInv' /\ Writes(p) /\ Dropped'
  BY <1>1, <1>2, SameDisk, StoreKept, NoWrites
<1>4. CASE DvEnd(p)
  BY <1>1, <1>3, <1>4, Ends
<1>5. ASSUME NEW pc \in {"sidecar", "upload"}, DvGoto(p, pc),
             pc = "sidecar" => ToYoutube(dv[p].job)
      PROVE  Inv'
  <2>1. PICK r \in Delivery : /\ dv' = [dv EXCEPT ![p] = r] /\ dv'[p] = r
                              /\ r.pc = pc /\ r.job = dv[p].job
                              /\ r.drop = dv[p].drop /\ r.todo = dv[p].todo
    BY <1>2, <1>5, Gone
  <2>2. Running(p)' /\ FileOwn(p)' /\ SidecarOwn(p)' /\ Sent(p)'
    BY <1>1, <1>2, <1>5, <2>1 DEF Running, FileOwn, SidecarOwn, Sent, Only
  <2> QED
    BY <1>1, <1>3, <1>5, <2>2, Goes
<1> QED
  BY <1>1, <1>4, <1>5

LEMMA WriteSidecarStep ==
  ASSUME Inv, NEW p \in Deliverers, WriteSidecar(p)
  PROVE  Inv'
<1>1. /\ dv[p].pc = "sidecar" /\ disk' = With(Sidecar(dv[p].job), Metadata(dv[p].job))
      /\ DvGoto(p, "connect") /\ UNCHANGED <<s3, tasks, raced, crossed, drops>>
      /\ UNCHANGED stVars
  BY DEF WriteSidecar
<1>2. /\ DiskOK /\ DeliveryInv /\ StoreInv /\ Running(p) /\ FileOwn(p)
      /\ Sidecar(dv[p].job) \in Names /\ Metadata(dv[p].job) \in Contents
  BY <1>1, AtWork
<1>3. /\ DiskOK'
      /\ \A x \in disk' : x \in disk \/ x.name = Sidecar(dv[p].job)
      /\ \A x \in disk' : x.name = Sidecar(dv[p].job) => x.is = Metadata(dv[p].job)
  BY <1>1, <1>2, PutOne
<1>4. Adds(p)
  BY <1>1, <1>2, <1>3 DEF Adds, Running
<1>5. SameParts
  BY <1>1, <1>2, PutOther, Heads
<1>6. StoreInv'
  BY <1>1, <1>2, <1>5, StoreKept
<1>7. PICK r \in Delivery : /\ dv' = [dv EXCEPT ![p] = r] /\ dv'[p] = r
                            /\ r.pc = "connect" /\ r.job = dv[p].job
                            /\ r.drop = dv[p].drop /\ r.todo = dv[p].todo
  BY <1>1, <1>2, Gone
<1>8. Only(File(dv[p].job), Encode(dv[p].job)) =>
        \A x \in disk' : x.name = File(dv[p].job) => x.is = Encode(dv[p].job)
  BY <1>3, Different DEF Only
<1>9. Running(p)' /\ Sent(p)'
  BY <1>1, <1>2, <1>7 DEF Running, Sent
<1>10. SidecarOwn(p)'
  BY <1>3, <1>7 DEF SidecarOwn, Only
<1>11. FileOwn(p)'
  BY <1>1, <1>2, <1>7, <1>8 DEF FileOwn, Only
<1>12. Writes(p) /\ Dropped'
  BY <1>1, NoWrites
<1> QED
  BY <1>1, <1>3, <1>4, <1>6, <1>9, <1>10, <1>11, <1>12, Goes

LEMMA UnlinkStep ==
  ASSUME Inv, NEW p \in Deliverers, Unlink(p)
  PROVE  Inv'
<1>1. /\ dv[p].pc = "unlink" /\ disk' = Without({Sidecar(dv[p].job)})
      /\ DvEnd(p) /\ UNCHANGED <<s3, tasks, raced, crossed, drops>> /\ UNCHANGED stVars
  BY DEF Unlink
<1>2. DiskOK /\ StoreInv
  BY DEF Inv
<1>3. DiskOK' /\ Adds(p) /\ SameParts
  BY <1>1, <1>2, Removed, RemovedOther, Heads DEF Adds
<1>4. StoreInv' /\ Writes(p) /\ Dropped'
  BY <1>1, <1>2, <1>3, StoreKept, NoWrites
<1> QED
  BY <1>1, <1>3, <1>4, Ends

LEMMA DeliveryDiesStep ==
  ASSUME Inv, NEW p \in Deliverers, DeliveryDies(p)
  PROVE  Inv'
<1>1. /\ dv[p].pc # "idle" /\ disk' = disk
      /\ DvEnd(p) /\ UNCHANGED <<s3, tasks, raced, crossed, drops>> /\ UNCHANGED stVars
  BY DEF DeliveryDies
<1>2. StoreInv
  BY DEF Inv
<1>3. Adds(p) /\ DiskOK' /\ StoreInv' /\ Writes(p) /\ Dropped'
  BY <1>1, <1>2, SameDisk, StoreKept, NoWrites
<1> QED
  BY <1>1, <1>3, Ends

LEMMA UploadStep ==
  ASSUME Inv, NEW p \in Deliverers, Upload(p)
  PROVE  Inv'
<1>1. /\ dv[p].pc = "upload" /\ File(dv[p].job) \in Present
      /\ s3' = [s3 EXCEPT ![dv[p].job] =
                  OwnIf(Is(File(dv[p].job)) = Encode(dv[p].job))]
      /\ disk' = disk /\ DvEnd(p) /\ UNCHANGED <<tasks, raced, crossed, drops>>
      /\ UNCHANGED stVars
  BY DEF Upload
<1>2. DeliveryInv /\ StoreInv /\ FileOwn(p) /\ dv[p].job \in Jobs
  BY <1>1, AtWork
<1>3. Adds(p) /\ DiskOK' /\ StoreInv' /\ Writes(p) /\ Dropped'
  BY <1>1, <1>2, SameDisk, StoreKept, NoWrites
<1>4. PICK b \in {"other", "own"} :
        /\ s3' = [s3 EXCEPT ![dv[p].job] = b]
        /\ b = "other" => Is(File(dv[p].job)) # Encode(dv[p].job)
  BY <1>1 DEF OwnIf
<1>5. s3' \in [Jobs -> {"none", "other", "own"}]
  BY <1>2, <1>4 DEF DeliveryInv
<1>6. b = "other" => dv[p].job \in raced
  <2>1. Only(File(dv[p].job), Encode(dv[p].job)) \/ dv[p].job \in raced
    BY <1>1, <1>2 DEF FileOwn
  <2> QED
    BY <1>1, <1>4, <2>1, Read
<1>7. ObjectsOwn'
  BY <1>1, <1>2, <1>4, <1>6 DEF DeliveryInv, ObjectsOwn
<1> QED
  BY <1>1, <1>3, <1>5, <1>7, Ends

(* A directory of the drop box is filled.                                    *)
LEMMA Filled ==
  ASSUME DeliveryInv, NEW p \in Deliverers, dv[p].drop # 0, NEW e \in Drop,
         drops' = [drops EXCEPT ![dv[p].drop] = e], e.job = drops[dv[p].drop].job
  PROVE  /\ Writes(p) /\ dv[p].drop \in DOMAIN drops' /\ drops'[dv[p].drop] = e
         /\ e.job = dv[p].job
         /\ \A i \in DOMAIN drops' : i \in DOMAIN drops
                                     /\ (i # dv[p].drop => drops'[i] = drops[i])
<1>1. /\ drops \in Seq(Drop) /\ dv[p].drop \in DOMAIN drops
      /\ drops[dv[p].drop].job = dv[p].job
  BY DEF DeliveryInv, OwnDrops
<1>2. /\ drops' \in Seq(Drop) /\ DOMAIN drops' = DOMAIN drops
      /\ drops'[dv[p].drop] = e
      /\ \A i \in DOMAIN drops : i # dv[p].drop => drops'[i] = drops[i]
  BY <1>1
<1> QED
  BY <1>1, <1>2 DEF Writes

LEMMA PutFileStep ==
  ASSUME Inv, NEW p \in Deliverers, PutFile(p)
  PROVE  Inv'
<1>1. /\ dv[p].pc = "put_file" /\ File(dv[p].job) \in Present
      /\ drops' = [drops EXCEPT ![dv[p].drop].file =
                     OwnIf(Is(File(dv[p].job)) = Encode(dv[p].job))]
      /\ disk' = disk /\ DvGoto(p, "put_sidecar")
      /\ UNCHANGED <<s3, tasks, raced, crossed>> /\ UNCHANGED stVars
  BY DEF PutFile
<1>2. /\ DeliveryInv /\ StoreInv /\ Running(p) /\ FileOwn(p) /\ SidecarOwn(p)
      /\ dv[p].job \in Jobs /\ dv[p].drop # 0
  BY <1>1, AtWork DEF Running
<1>3. Adds(p) /\ DiskOK' /\ StoreInv'
  BY <1>1, <1>2, SameDisk, StoreKept
<1>4. PICK b \in {"other", "own"} :
        /\ drops' = [drops EXCEPT ![dv[p].drop].file = b]
        /\ b = "other" => Is(File(dv[p].job)) # Encode(dv[p].job)
  BY <1>1 DEF OwnIf
<1> DEFINE d == drops[dv[p].drop]
           e == [d EXCEPT !.file = b]
<1>5. d \in Drop
  BY <1>2 DEF DeliveryInv, OwnDrops
<1>6. /\ e \in Drop /\ e.job = d.job /\ e.file = b /\ e.csv = d.csv
      /\ e.complete = d.complete
  BY <1>5 DEF Drop
<1>7. drops' = [drops EXCEPT ![dv[p].drop] = e]
  BY <1>4
<1> HIDE DEF e
<1>8. /\ Writes(p) /\ dv[p].drop \in DOMAIN drops' /\ drops'[dv[p].drop] = e
      /\ e.job = dv[p].job
      /\ \A i \in DOMAIN drops' : i \in DOMAIN drops
                                  /\ (i # dv[p].drop => drops'[i] = drops[i])
  BY <1>2, <1>6, <1>7, Filled
<1>9. b = "other" => dv[p].job \in raced
  <2>1. Only(File(dv[p].job), Encode(dv[p].job)) \/ dv[p].job \in raced
    BY <1>1, <1>2 DEF FileOwn
  <2> QED
    BY <1>1, <1>4, <2>1, Read
<1>10. Dropped'
  <2>1. dv[p].drop \in DOMAIN drops /\ drops[dv[p].drop].job = dv[p].job
    BY <1>2 DEF DeliveryInv, OwnDrops
  <2>2. ASSUME NEW i \in DOMAIN drops', i # dv[p].drop
        PROVE  /\ drops'[i].file = "other" => drops'[i].job \in raced'
               /\ drops'[i].csv = "other" => drops'[i].job.video \in crossed'
               /\ drops'[i].complete => drops'[i].file # "none" /\ drops'[i].csv # "none"
    BY <1>1, <1>2, <1>8, <2>2 DEF DeliveryInv, Dropped
  <2>3. /\ e.file = "other" => dv[p].job \in raced
        /\ e.csv = "other" => dv[p].job.video \in crossed
        /\ e.complete => e.file # "none" /\ e.csv # "none"
    BY <1>2, <1>5, <1>6, <1>9, <2>1 DEF DeliveryInv, Dropped
  <2>4. raced' = raced /\ crossed' = crossed
    BY <1>1
  <2>5. ASSUME NEW i \in DOMAIN drops', i = dv[p].drop
        PROVE  /\ drops'[i].file = "other" => drops'[i].job \in raced'
               /\ drops'[i].csv = "other" => drops'[i].job.video \in crossed'
               /\ drops'[i].complete => drops'[i].file # "none" /\ drops'[i].csv # "none"
    <3>1. drops'[i] = e /\ e.job = dv[p].job
      BY <1>8, <2>5
    <3> QED
      BY <2>3, <2>4, <3>1
  <2> QED
    BY <2>2, <2>5 DEF Dropped
<1>11. PICK r \in Delivery : /\ dv' = [dv EXCEPT ![p] = r] /\ dv'[p] = r
                             /\ r.pc = "put_sidecar" /\ r.job = dv[p].job
                             /\ r.drop = dv[p].drop /\ r.todo = dv[p].todo
  BY <1>1, <1>2, Gone
<1>12. Running(p)' /\ FileOwn(p)' /\ SidecarOwn(p)'
  BY <1>1, <1>2, <1>11 DEF Running, FileOwn, SidecarOwn, Only
<1>13. Sent(p)'
  BY <1>6, <1>8, <1>11 DEF Sent
<1> QED
  BY <1>1, <1>3, <1>8, <1>10, <1>12, <1>13, Goes

LEMMA PutSidecarStep ==
  ASSUME Inv, NEW p \in Deliverers, PutSidecar(p)
  PROVE  Inv'
<1>1. /\ dv[p].pc = "put_sidecar" /\ Sidecar(dv[p].job) \in Present
      /\ drops' = [drops EXCEPT ![dv[p].drop].csv =
                     OwnIf(Is(Sidecar(dv[p].job)) = Metadata(dv[p].job))]
      /\ disk' = disk /\ DvGoto(p, "put_complete")
      /\ UNCHANGED <<s3, tasks, raced, crossed>> /\ UNCHANGED stVars
  BY DEF PutSidecar
<1>2. /\ DeliveryInv /\ StoreInv /\ Running(p) /\ SidecarOwn(p) /\ Sent(p)
      /\ dv[p].job \in Jobs /\ dv[p].drop # 0
  BY <1>1, AtWork DEF Running
<1>3. Adds(p) /\ DiskOK' /\ StoreInv'
  BY <1>1, <1>2, SameDisk, StoreKept
<1>4. PICK b \in {"other", "own"} :
        /\ drops' = [drops EXCEPT ![dv[p].drop].csv = b]
        /\ b = "other" => Is(Sidecar(dv[p].job)) # Metadata(dv[p].job)
  BY <1>1 DEF OwnIf
<1> DEFINE d == drops[dv[p].drop]
           e == [d EXCEPT !.csv = b]
<1>5. d \in Drop /\ d.file # "none"
  BY <1>1, <1>2 DEF DeliveryInv, OwnDrops, Sent
<1>6. /\ e \in Drop /\ e.job = d.job /\ e.csv = b /\ e.file = d.file
      /\ e.complete = d.complete
  BY <1>5 DEF Drop
<1>7. drops' = [drops EXCEPT ![dv[p].drop] = e]
  BY <1>4
<1> HIDE DEF e
<1>8. /\ Writes(p) /\ dv[p].drop \in DOMAIN drops' /\ drops'[dv[p].drop] = e
      /\ e.job = dv[p].job
      /\ \A i \in DOMAIN drops' : i \in DOMAIN drops
                                  /\ (i # dv[p].drop => drops'[i] = drops[i])
  BY <1>2, <1>6, <1>7, Filled
<1>9. b = "other" => dv[p].job.video \in crossed
  <2>1. Only(Sidecar(dv[p].job), Metadata(dv[p].job)) \/ dv[p].job.video \in crossed
    BY <1>1, <1>2 DEF SidecarOwn
  <2> QED
    BY <1>1, <1>4, <2>1, Read
<1>10. Dropped'
  <2>1. dv[p].drop \in DOMAIN drops /\ drops[dv[p].drop].job = dv[p].job
    BY <1>2 DEF DeliveryInv, OwnDrops
  <2>2. ASSUME NEW i \in DOMAIN drops', i # dv[p].drop
        PROVE  /\ drops'[i].file = "other" => drops'[i].job \in raced'
               /\ drops'[i].csv = "other" => drops'[i].job.video \in crossed'
               /\ drops'[i].complete => drops'[i].file # "none" /\ drops'[i].csv # "none"
    BY <1>1, <1>2, <1>8, <2>2 DEF DeliveryInv, Dropped
  <2>3. /\ e.file = "other" => dv[p].job \in raced
        /\ e.csv = "other" => dv[p].job.video \in crossed
        /\ e.complete => e.file # "none" /\ e.csv # "none"
    BY <1>2, <1>5, <1>6, <1>9, <2>1 DEF DeliveryInv, Dropped
  <2>4. raced' = raced /\ crossed' = crossed
    BY <1>1
  <2>5. ASSUME NEW i \in DOMAIN drops', i = dv[p].drop
        PROVE  /\ drops'[i].file = "other" => drops'[i].job \in raced'
               /\ drops'[i].csv = "other" => drops'[i].job.video \in crossed'
               /\ drops'[i].complete => drops'[i].file # "none" /\ drops'[i].csv # "none"
    <3>1. drops'[i] = e /\ e.job = dv[p].job
      BY <1>8, <2>5
    <3> QED
      BY <2>3, <2>4, <3>1
  <2> QED
    BY <2>2, <2>5 DEF Dropped
<1>11. PICK r \in Delivery : /\ dv' = [dv EXCEPT ![p] = r] /\ dv'[p] = r
                             /\ r.pc = "put_complete" /\ r.job = dv[p].job
                             /\ r.drop = dv[p].drop /\ r.todo = dv[p].todo
  BY <1>1, <1>2, Gone
<1>12. Running(p)' /\ FileOwn(p)' /\ SidecarOwn(p)'
  BY <1>1, <1>2, <1>11 DEF Running, FileOwn, SidecarOwn, Only
<1>13. Sent(p)'
  BY <1>5, <1>6, <1>8, <1>11 DEF Sent
<1> QED
  BY <1>1, <1>3, <1>8, <1>10, <1>12, <1>13, Goes

LEMMA PutCompleteStep ==
  ASSUME Inv, NEW p \in Deliverers, PutComplete(p)
  PROVE  Inv'
<1>1. /\ dv[p].pc = "put_complete"
      /\ drops' = [drops EXCEPT ![dv[p].drop].complete = TRUE]
      /\ disk' = disk /\ DvGoto(p, "unlink")
      /\ UNCHANGED <<s3, tasks, raced, crossed>> /\ UNCHANGED stVars
  BY DEF PutComplete
<1>2. /\ DeliveryInv /\ StoreInv /\ Running(p) /\ Sent(p)
      /\ dv[p].job \in Jobs /\ dv[p].drop # 0
  BY <1>1, AtWork DEF Running
<1>3. Adds(p) /\ DiskOK' /\ StoreInv'
  BY <1>1, <1>2, SameDisk, StoreKept
<1> DEFINE d == drops[dv[p].drop]
           e == [d EXCEPT !.complete = TRUE]
<1>4. d \in Drop /\ d.file # "none" /\ d.csv # "none"
  BY <1>1, <1>2 DEF DeliveryInv, OwnDrops, Sent
<1>5. e \in Drop /\ e.job = d.job /\ e.csv = d.csv /\ e.file = d.file
  BY <1>4 DEF Drop
<1>6. drops' = [drops EXCEPT ![dv[p].drop] = e]
  BY <1>1
<1> HIDE DEF e
<1>7. /\ Writes(p) /\ dv[p].drop \in DOMAIN drops' /\ drops'[dv[p].drop] = e
      /\ e.job = dv[p].job
      /\ \A i \in DOMAIN drops' : i \in DOMAIN drops
                                  /\ (i # dv[p].drop => drops'[i] = drops[i])
  BY <1>2, <1>5, <1>6, Filled
<1>8. Dropped'
  <2>1. dv[p].drop \in DOMAIN drops /\ drops[dv[p].drop].job = dv[p].job
    BY <1>2 DEF DeliveryInv, OwnDrops
  <2> QED
    BY <1>1, <1>2, <1>4, <1>5, <1>7, <2>1 DEF DeliveryInv, Dropped
<1>9. PICK r \in Delivery : /\ dv' = [dv EXCEPT ![p] = r] /\ dv'[p] = r
                            /\ r.pc = "unlink" /\ r.job = dv[p].job
                            /\ r.drop = dv[p].drop /\ r.todo = dv[p].todo
  BY <1>1, <1>2, Gone
<1>10. Running(p)' /\ FileOwn(p)' /\ SidecarOwn(p)' /\ Sent(p)'
  BY <1>1, <1>2, <1>9 DEF Running, FileOwn, SidecarOwn, Sent
<1> QED
  BY <1>1, <1>3, <1>7, <1>8, <1>10, Goes

LEMMA MakeDirectoryStep ==
  ASSUME Inv, NEW p \in Deliverers, MakeDirectory(p)
  PROVE  Inv'
<1>1. /\ dv[p].pc = "connect" /\ disk' = disk
      /\ UNCHANGED <<s3, tasks, raced, crossed>> /\ UNCHANGED stVars
  BY DEF MakeDirectory
<1>2. /\ DeliveryInv /\ StoreInv /\ Running(p) /\ FileOwn(p) /\ SidecarOwn(p)
      /\ dv[p].job \in Jobs /\ dv[p] \in Delivery
  BY <1>1, AtWork DEF DeliveryInv
<1>3. Adds(p) /\ DiskOK' /\ StoreInv'
  BY <1>1, <1>2, SameDisk, StoreKept
<1>4. CASE drops' = drops /\ DvEnd(p)
  <2>1. Writes(p) /\ Dropped'
    BY <1>1, <1>4, NoWrites
  <2> QED
    BY <1>1, <1>3, <1>4, <2>1, Ends
<1>5. CASE drops' = drops /\ DvGoto(p, "unlink")
  <2>1. Writes(p) /\ Dropped'
    BY <1>1, <1>5, NoWrites
  <2>2. PICK r \in Delivery : /\ dv' = [dv EXCEPT ![p] = r] /\ dv'[p] = r
                              /\ r.pc = "unlink" /\ r.job = dv[p].job
                              /\ r.drop = dv[p].drop /\ r.todo = dv[p].todo
    BY <1>2, <1>5, Gone
  <2>3. Running(p)' /\ FileOwn(p)' /\ SidecarOwn(p)' /\ Sent(p)'
    BY <1>1, <1>2, <2>2 DEF Running, FileOwn, SidecarOwn, Sent
  <2> QED
    BY <1>1, <1>3, <1>5, <2>1, <2>3, Goes
<1>6. CASE /\ drops' = Append(drops, [job |-> dv[p].job, file |-> "none",
                                      csv |-> "none", complete |-> FALSE])
           /\ dv' = [dv EXCEPT ![p].pc = "put_file", ![p].drop = Len(drops) + 1]
  <2> DEFINE n == Len(drops) + 1
             e == [job |-> dv[p].job, file |-> "none", csv |-> "none", complete |-> FALSE]
             r == [dv[p] EXCEPT !.pc = "put_file", !.drop = n]
  <2>1. drops \in Seq(Drop) /\ Len(drops) \in Nat /\ DOMAIN drops = 1..Len(drops)
    BY <1>2 DEF DeliveryInv
  <2>2. /\ e \in Drop /\ e.job = dv[p].job /\ e.file = "none" /\ e.csv = "none"
        /\ e.complete = FALSE
    BY <1>2 DEF Drop
  <2>3. n \in Nat /\ n # 0 /\ n \notin DOMAIN drops
    BY <2>1
  <2>4. /\ drops' \in Seq(Drop) /\ DOMAIN drops' = DOMAIN drops \cup {n}
        /\ drops'[n] = e /\ \A i \in DOMAIN drops : drops'[i] = drops[i]
    <3>1. drops' = Append(drops, e)
      BY <1>6
    <3> HIDE DEF e
    <3> QED
      BY <2>1, <2>2, <3>1
  <2>5. /\ r \in Delivery /\ r.pc = "put_file" /\ r.job = dv[p].job /\ r.drop = n
        /\ r.todo = dv[p].todo
    BY <1>2, <2>3 DEF Delivery
  <2>6. dv' = [dv EXCEPT ![p] = r]
    BY <1>6
  <2> HIDE DEF n, e, r
  <2>7. /\ dv' \in [Deliverers -> Delivery] /\ dv'[p] = r
        /\ \A q \in Deliverers : q # p => dv'[q] = dv[q]
    BY <1>2, <2>5, <2>6 DEF DeliveryInv
  <2>8. Writes(p)
    BY <2>4 DEF Writes
  <2>9. Running(p)' /\ FileOwn(p)' /\ SidecarOwn(p)' /\ Sent(p)'
    BY <1>1, <1>2, <2>3, <2>5, <2>7 DEF Running, FileOwn, SidecarOwn, Sent, Only
  <2>10. Delivering'
    <3>1. ASSUME NEW q \in Deliverers, q # p
          PROVE  Running(q)' /\ FileOwn(q)' /\ SidecarOwn(q)' /\ Sent(q)'
      BY <1>1, <1>2, <1>3, <2>7, <2>8, <3>1, OthersKept
    <3> QED
      BY <2>9, <3>1 DEF Delivering
  <2>11. Counted'
    <3>1. \A q \in Deliverers : dv'[q].job = dv[q].job
                                /\ (dv'[q].pc # "idle" => dv[q].pc # "idle")
      BY <1>1, <2>5, <2>7
    <3> QED
      BY <1>1, <1>2, <3>1 DEF DeliveryInv, Counted
  <2>12. OwnDrops'
    <3>1. \A q \in Deliverers : q # p /\ dv'[q].drop # 0 =>
            /\ dv'[q].drop \in DOMAIN drops /\ dv'[q].drop # n
            /\ drops'[dv'[q].drop].job = dv'[q].job
      BY <1>2, <2>3, <2>4, <2>7 DEF DeliveryInv, OwnDrops
    <3>2. dv'[p].drop = n /\ dv'[p].job = drops'[n].job /\ n \in DOMAIN drops'
      BY <2>2, <2>4, <2>5, <2>7
    <3>3. \A q, t \in Deliverers : dv'[q].drop = dv'[t].drop /\ dv'[q].drop # 0 => q = t
      BY <1>2, <2>7, <3>1, <3>2 DEF DeliveryInv, OwnDrops
    <3> QED
      BY <2>4, <3>1, <3>2, <3>3 DEF OwnDrops
  <2>13. Dropped'
    BY <1>1, <1>2, <2>2, <2>4 DEF DeliveryInv, Dropped
  <2>14. DeliveryInv'
    BY <1>1, <1>2, <2>4, <2>7, <2>10, <2>11, <2>12, <2>13 DEF DeliveryInv, ObjectsOwn
  <2> QED
    BY <1>1, <1>3, <2>14 DEF Inv
<1> QED
  BY <1>4, <1>5, <1>6 DEF MakeDirectory

LEMMA BeginStep ==
  ASSUME Inv, NEW p \in Deliverers, Begin(p)
  PROVE  Inv'
<1> DEFINE others == {dv[q].job : q \in Deliverers \ {p}}
<1>1. PICK j \in Jobs :
        /\ dv' = [dv EXCEPT ![p] = [pc |-> "empty", job |-> j, drop |-> 0,
                                    todo |-> {n \in Present : n[1] # "part"}]]
        /\ raced' = IF j \in others THEN raced \cup {j} ELSE raced
        /\ crossed' = IF \E o \in others : o.video = j.video /\ ToYoutube(o) /\ ToYoutube(j)
                      THEN crossed \cup {j.video} ELSE crossed
  BY DEF Begin
<1>2. /\ dv[p].pc = "idle" /\ tasks < MaxTasks /\ tasks' = tasks + 1
      /\ disk' = disk /\ UNCHANGED <<s3, drops>> /\ UNCHANGED stVars
  BY DEF Begin
<1>3. DeliveryInv /\ StoreInv /\ DiskOK /\ tasks \in 0..MaxTasks
  BY DEF Inv
<1>4. tasks' \in 0..MaxTasks
  BY <1>2, <1>3
<1>5. Adds(p) /\ DiskOK' /\ StoreInv'
  BY <1>2, <1>3, SameDisk, StoreKept
<1>6. Writes(p)
  BY <1>2, <1>3 DEF Writes, DeliveryInv
<1> DEFINE todo == {n \in Present : n[1] # "part"}
<1>7. todo \subseteq Names /\ \A n \in todo : n[1] # "part"
  BY <1>3 DEF Present, DiskOK
<1> DEFINE r == [pc |-> "empty", job |-> j, drop |-> 0, todo |-> todo]
<1>8. /\ r \in Delivery /\ r.pc = "empty" /\ r.job = j /\ r.drop = 0 /\ r.todo = todo
      /\ dv' = [dv EXCEPT ![p] = r]
  BY <1>1, <1>7 DEF Delivery
<1> HIDE DEF r
<1>9. /\ dv' \in [Deliverers -> Delivery] /\ dv'[p] = r
      /\ \A q \in Deliverers : q # p => dv'[q] = dv[q]
  BY <1>3, <1>8 DEF DeliveryInv
<1>10. /\ raced \subseteq raced' /\ raced' \subseteq Jobs
       /\ crossed \subseteq crossed' /\ crossed' \subseteq {o.video : o \in Jobs}
  BY <1>1, <1>3 DEF DeliveryInv
<1>11. Running(p)' /\ FileOwn(p)' /\ SidecarOwn(p)' /\ Sent(p)'
  BY <1>7, <1>8, <1>9 DEF Running, FileOwn, SidecarOwn, Sent
<1>12. Delivering'
  <2>1. ASSUME NEW q \in Deliverers, q # p
        PROVE  Running(q)' /\ FileOwn(q)' /\ SidecarOwn(q)' /\ Sent(q)'
    BY <1>3, <1>5, <1>6, <1>9, <1>10, <2>1, OthersKept
  <2> QED
    BY <1>11, <2>1 DEF Delivering
<1>13. Counted'
  <2>1. ASSUME NEW q \in Deliverers, q # p
        PROVE  /\ dv[q].job = j => j \in raced'
               /\ dv[q].job.video = j.video /\ ToYoutube(dv[q].job) /\ ToYoutube(j)
                    => j.video \in crossed'
    <3>1. dv[q].job \in others
      BY <2>1
    <3> QED
      BY <1>1, <3>1
  <2> HIDE DEF others
  <2>2. ASSUME NEW q \in Deliverers, NEW t \in Deliverers, q # t, q # p, t # p,
               dv[q].pc # "idle", dv[t].pc # "idle"
        PROVE  /\ dv[q].job = dv[t].job => dv[q].job \in raced'
               /\ dv[q].job.video = dv[t].job.video /\ ToYoutube(dv[q].job)
                    /\ ToYoutube(dv[t].job) => dv[q].job.video \in crossed'
    BY <1>3, <1>10, <2>2 DEF DeliveryInv, Counted
  <2> QED
    BY <1>8, <1>9, <2>1, <2>2 DEF Counted
<1>14. OwnDrops'
  BY <1>2, <1>3, <1>8, <1>9 DEF DeliveryInv, OwnDrops
<1>15. Dropped' /\ ObjectsOwn'
  BY <1>2, <1>3, <1>10 DEF DeliveryInv, Dropped, ObjectsOwn
<1>16. DeliveryInv'
  BY <1>2, <1>3, <1>9, <1>10, <1>12, <1>13, <1>14, <1>15 DEF DeliveryInv
<1> QED
  BY <1>4, <1>5, <1>16 DEF Inv

-----------------------------------------------------------------------------
(* The stores. They add no file of a delivery.                               *)
AddsOther == \A x \in disk' : x \in disk \/ x.name[1] \notin {"file", "csv"}

LEMMA DeliveryKept ==
  ASSUME DeliveryInv, UNCHANGED dvVars, AddsOther
  PROVE  DeliveryInv'
<1>1. UNCHANGED <<dv, s3, drops, raced, crossed>>
  BY DEF dvVars
<1>2. ASSUME NEW p \in Deliverers
      PROVE  Running(p)' /\ FileOwn(p)' /\ SidecarOwn(p)' /\ Sent(p)'
  <2>1. Running(p) /\ FileOwn(p) /\ SidecarOwn(p) /\ Sent(p)
    BY DEF DeliveryInv, Delivering
  <2>2. /\ \A x \in disk' : x.name = File(dv[p].job) => x \in disk
        /\ \A x \in disk' : x.name = Sidecar(dv[p].job) => x \in disk
    BY Heads DEF AddsOther
  <2>3. Running(p)' /\ Sent(p)'
    BY <1>1, <2>1 DEF Running, Sent
  <2>4. FileOwn(p)'
    BY <1>1, <2>1, <2>2 DEF FileOwn, Only
  <2>5. SidecarOwn(p)'
    BY <1>1, <2>1, <2>2 DEF SidecarOwn, Only
  <2> QED
    BY <2>3, <2>4, <2>5
<1>3. Delivering'
  BY <1>2 DEF Delivering
<1>4. OwnDrops' /\ Counted' /\ Dropped' /\ ObjectsOwn'
  BY <1>1 DEF DeliveryInv, OwnDrops, Counted, Dropped, ObjectsOwn
<1> QED
  BY <1>1, <1>3, <1>4 DEF DeliveryInv

(* The only parts a store touches are in its directory.                      *)
Touches(s) ==
  \A x : x.name[1] = "part" /\ x.name[2] # st[s].dir => (x \in disk <=> x \in disk')

LEMMA StoresKept ==
  ASSUME StoreInv, NEW s \in Storers, NEW t \in Storers, t # s, st'[t] = st[t],
         emptied \subseteq emptied', Touches(s)
  PROVE  Cutting(t)'
<1>1. Cutting(t) /\ OwnDirectories
  BY DEF StoreInv
<1>2. st[t].pc \in {"split", "list", "parts", "rmtree"} =>
        st[t].dir \in 1..MaxTasks /\ st[t].dir # st[s].dir
  BY <1>1 DEF Cutting, OwnDirectories
<1>3. ASSUME st[t].dir # st[s].dir
      PROVE  /\ NoParts(st[t].dir) => NoParts(st[t].dir)'
             /\ AllParts(st[t].dir, st[t].up) => AllParts(st[t].dir, st[t].up)'
  <2> DEFINE n == st[t].dir
  <2>1. \A k : \A x : x.name = Part(n, k) => (x \in disk <=> x \in disk')
    BY <1>3, Heads DEF Touches
  <2>2. NoParts(n) => \A k \in 1..2 : Part(n, k) \notin Present'
    BY <2>1 DEF NoParts, Present
  <2>3. AllParts(n, st[t].up) =>
          \A k \in 1..2 : /\ Part(n, k) \in Present'
                          /\ \A x \in disk' : x.name = Part(n, k) => x.is = Piece(st[t].up, k)
    BY <2>1 DEF AllParts, Only, Present
  <2>4. st'[t].dir = st[t].dir /\ st'[t].up = st[t].up
    OBVIOUS
  <2> QED
    BY <2>2, <2>3, <2>4 DEF NoParts, AllParts, Only
<1>4. st'[t] = st[t] /\ \A u : u \in emptied => u \in emptied'
  OBVIOUS
<1> QED
  BY <1>1, <1>2, <1>3, <1>4 DEF Cutting

(* A step of a store. Left to show is what it does in its own directory.     *)
LEMMA StoreStep ==
  ASSUME Inv, NEW s \in Storers, NEW r \in Store, st' = [st EXCEPT ![s] = r],
         Touches(s), AddsOther, DiskOK', Emptied', OwnDirectories',
         hot' \in [Sources -> {"none", "torn", "whole"}], HotWhole',
         emptied \subseteq emptied', emptied' \subseteq Sources,
         tasks' \in 0..MaxTasks, UNCHANGED dvVars, Cutting(s)'
  PROVE  Inv'
<1>1. DeliveryInv /\ StoreInv
  BY DEF Inv
<1>2. /\ st' \in [Storers -> Store]
      /\ \A t \in Storers : t # s => st'[t] = st[t]
  BY <1>1 DEF StoreInv
<1>3. ASSUME NEW t \in Storers, t # s PROVE Cutting(t)'
  BY <1>1, <1>2, <1>3, StoresKept
<1>4. StoreInv'
  BY <1>2, <1>3 DEF StoreInv
<1>5. DeliveryInv'
  BY <1>1, DeliveryKept
<1> QED
  BY <1>4, <1>5 DEF Inv

(* It keeps its directory, or ends and gives it up.                          *)
LEMMA KeepsOwn ==
  ASSUME StoreInv, NEW s \in Storers, NEW r \in Store, st' = [st EXCEPT ![s] = r],
         r.dir \in {0, st[s].dir}
  PROVE  OwnDirectories' /\ st'[s] = r
<1>1. \A t \in Storers : st'[t].dir # 0 => st'[t].dir = st[t].dir
  BY DEF StoreInv
<1> QED
  BY <1>1 DEF StoreInv, OwnDirectories

LEMMA StGone ==
  ASSUME StoreInv, NEW s \in Storers,
         NEW pc \in {"exists", "single", "mkdtemp", "split", "list", "parts", "rmtree"},
         StGoto(s, pc)
  PROVE  \E r \in Store : /\ st' = [st EXCEPT ![s] = r] /\ st'[s] = r
                          /\ r.pc = pc /\ r.up = st[s].up /\ r.dir = st[s].dir
                          /\ r.list = st[s].list /\ r.dir \in {0, st[s].dir}
<1>1. st \in [Storers -> Store] /\ st[s] \in Store
  BY DEF StoreInv
<1> DEFINE r == [st[s] EXCEPT !.pc = pc]
<1>2. st' = [st EXCEPT ![s] = r]
  BY DEF StGoto
<1>3. r \in Store /\ r.pc = pc /\ r.up = st[s].up /\ r.dir = st[s].dir
      /\ r.list = st[s].list
  BY <1>1 DEF Store
<1> HIDE DEF r
<1> QED
  BY <1>1, <1>2, <1>3

LEMMA StEnds ==
  ASSUME Inv, NEW s \in Storers, StEnd(s), Touches(s), AddsOther, DiskOK', Emptied',
         hot' \in [Sources -> {"none", "torn", "whole"}], HotWhole',
         UNCHANGED <<tasks, emptied>>, UNCHANGED dvVars
  PROVE  Inv'
<1>1. st' = [st EXCEPT ![s] = Waiting] /\ StoreInv /\ tasks \in 0..MaxTasks
      /\ emptied \subseteq Sources
  BY DEF StEnd, Inv, StoreInv
<1>2. /\ Waiting \in Store /\ Waiting.dir \in {0, st[s].dir} /\ Waiting.pc = "idle"
  BY DEF Waiting, Store
<1>3. OwnDirectories' /\ st'[s] = Waiting
  BY <1>1, <1>2, KeepsOwn
<1>4. Cutting(s)'
  BY <1>2, <1>3 DEF Cutting
<1>5. emptied' = emptied /\ tasks' = tasks
  OBVIOUS
<1> QED
  BY <1>1, <1>2, <1>3, <1>4, <1>5, StoreStep

LEMMA StoreSame ==
  ASSUME Inv, disk' = disk, NEW s
  PROVE  Touches(s) /\ AddsOther /\ DiskOK' /\ Emptied'
<1>1. Emptied'
  <2>1. Emptied
    BY DEF Inv, StoreInv
  <2> QED
    BY <2>1 DEF Emptied, NoParts, Present
<1> QED
  BY <1>1 DEF Inv, Touches, AddsOther, DiskOK

LEMMA HotSame ==
  ASSUME Inv, hot' = hot, emptied \subseteq emptied'
  PROVE  hot' \in [Sources -> {"none", "torn", "whole"}] /\ HotWhole'
BY DEF Inv, StoreInv, HotWhole

LEMMA StoreDiesStep ==
  ASSUME Inv, NEW s \in Storers, StoreDies(s)
  PROVE  Inv'
<1>1. /\ StEnd(s) /\ disk' = disk /\ hot' = hot /\ UNCHANGED <<tasks, emptied>>
      /\ UNCHANGED dvVars
  BY DEF StoreDies
<1>2. Touches(s) /\ AddsOther /\ DiskOK' /\ Emptied'
  BY <1>1, StoreSame
<1>3. hot' \in [Sources -> {"none", "torn", "whole"}] /\ HotWhole'
  BY <1>1, HotSame
<1> QED
  BY <1>1, <1>2, <1>3, StEnds

LEMMA ExistsStep ==
  ASSUME Inv, NEW s \in Storers, Exists(s)
  PROVE  Inv'
<1>1. /\ st[s].pc = "exists" /\ disk' = disk /\ hot' = hot
      /\ UNCHANGED <<tasks, emptied>> /\ UNCHANGED dvVars
      /\ StEnd(s) \/ StGoto(s, "mkdtemp") \/ StGoto(s, "single")
  BY DEF Exists
<1>2. Touches(s) /\ AddsOther /\ DiskOK' /\ Emptied'
  BY <1>1, StoreSame
<1>3. hot' \in [Sources -> {"none", "torn", "whole"}] /\ HotWhole'
  BY <1>1, HotSame
<1>4. CASE StEnd(s)
  BY <1>1, <1>2, <1>3, <1>4, StEnds
<1>5. ASSUME NEW pc \in {"mkdtemp", "single"}, StGoto(s, pc) PROVE Inv'
  <2>1. StoreInv /\ Cutting(s) /\ tasks \in 0..MaxTasks /\ emptied \subseteq Sources
    BY DEF Inv, StoreInv
  <2>2. PICK r \in Store : /\ st' = [st EXCEPT ![s] = r] /\ st'[s] = r
                           /\ r.pc = pc /\ r.up = st[s].up /\ r.dir = st[s].dir
                           /\ r.list = st[s].list /\ r.dir \in {0, st[s].dir}
    BY <1>5, <2>1, StGone
  <2>3. OwnDirectories'
    BY <2>1, <2>2, KeepsOwn
  <2>4. Cutting(s)'
    BY <1>1, <2>1, <2>2 DEF Cutting
  <2>5. emptied' = emptied /\ tasks' = tasks
    BY <1>1
  <2> QED
    BY <1>1, <1>2, <1>3, <2>1, <2>2, <2>3, <2>4, <2>5, StoreStep
<1> QED
  BY <1>1, <1>4, <1>5

LEMMA StoreSingleStep ==
  ASSUME Inv, NEW s \in Storers, StoreSingle(s)
  PROVE  Inv'
<1>1. /\ st[s].pc = "single" /\ hot' = [hot EXCEPT ![st[s].up] = "whole"]
      /\ disk' = Without({Source(st[s].up)}) /\ StEnd(s)
      /\ UNCHANGED <<tasks, emptied>> /\ UNCHANGED dvVars
  BY DEF StoreSingle
<1>2. DiskOK /\ StoreInv
  BY DEF Inv
<1>3. /\ DiskOK' /\ disk' \subseteq disk
      /\ \A x \in disk : x.name # Source(st[s].up) => x \in disk'
  BY <1>1, <1>2, Removed
<1>4. Touches(s) /\ AddsOther
  BY <1>3, Heads DEF Touches, AddsOther
<1>5. Emptied'
  BY <1>1, <1>2, RemovedOther, Heads, EmptiedKept
<1>6. hot' \in [Sources -> {"none", "torn", "whole"}] /\ HotWhole'
  BY <1>1, <1>2 DEF StoreInv, HotWhole
<1> QED
  BY <1>1, <1>3, <1>4, <1>5, <1>6, StEnds

LEMMA BeginStoreStep ==
  ASSUME Inv, NEW s \in Storers, BeginStore(s)
  PROVE  Inv'
<1>1. PICK u \in Sources :
        /\ st' = [st EXCEPT ![s].pc = "exists", ![s].up = u]
        /\ disk' = With(Source(u), Nothing)
        /\ emptied' = IF \E p \in Deliverers : dv[p].pc = "empty"
                      THEN emptied \cup {u} ELSE emptied
  BY DEF BeginStore
<1>2. /\ tasks < MaxTasks /\ tasks' = tasks + 1 /\ hot' = hot /\ UNCHANGED dvVars
  BY DEF BeginStore
<1>3. /\ DiskOK /\ StoreInv /\ tasks \in 0..MaxTasks /\ st[s] \in Store
      /\ emptied \subseteq Sources
  BY DEF Inv, StoreInv
<1>4. tasks' \in 0..MaxTasks
  BY <1>2, <1>3
<1>5. emptied \subseteq emptied' /\ emptied' \subseteq Sources
  BY <1>1, <1>3
<1> DEFINE r == [st[s] EXCEPT !.pc = "exists", !.up = u]
<1>6. /\ r \in Store /\ r.pc = "exists" /\ r.up = u /\ r.dir \in {0, st[s].dir}
      /\ st' = [st EXCEPT ![s] = r]
  BY <1>1, <1>3 DEF Store
<1> HIDE DEF r
<1>7. OwnDirectories' /\ st'[s] = r
  BY <1>3, <1>6, KeepsOwn
<1>8. Cutting(s)'
  BY <1>6, <1>7 DEF Cutting
<1>9. /\ DiskOK' /\ SameParts
      /\ \A x \in disk' : x \in disk \/ x.name = Source(u)
  BY <1>1, <1>3, NameTypes, PutOne, PutOther, Heads
<1>10. Touches(s) /\ AddsOther
  BY <1>9, Heads DEF Touches, AddsOther, SameParts
<1>11. Emptied'
  BY <1>3, <1>9, EmptiedKept
<1>12. hot' \in [Sources -> {"none", "torn", "whole"}] /\ HotWhole'
  BY <1>2, <1>5, HotSame
<1> QED
  BY <1>2, <1>4, <1>5, <1>6, <1>7, <1>8, <1>9, <1>10, <1>11, <1>12, StoreStep

LEMMA MkdtempStep ==
  ASSUME Inv, NEW s \in Storers, Mkdtemp(s)
  PROVE  Inv'
<1>1. /\ st[s].pc = "mkdtemp" /\ Unused # {} /\ hot' = hot
      /\ UNCHANGED <<tasks, emptied>> /\ UNCHANGED dvVars
  BY DEF Mkdtemp
<1>2. PICK n \in Unused : /\ disk' = With(Directory(n), Nothing)
                          /\ st' = [st EXCEPT ![s].pc = "split", ![s].dir = n]
  BY <1>1 DEF Mkdtemp
<1>3. /\ n \in 1..MaxTasks /\ n # 0 /\ n \in Nat /\ Directory(n) \notin Present
      /\ \A t \in Storers : st[t].dir # n
  BY <1>2 DEF Unused
<1>4. /\ DiskOK /\ StoreInv /\ tasks \in 0..MaxTasks /\ st[s] \in Store
      /\ st \in [Storers -> Store] /\ emptied \subseteq Sources /\ Cutting(s)
  BY DEF Inv, StoreInv
<1> DEFINE r == [st[s] EXCEPT !.pc = "split", !.dir = n]
<1>5. /\ r \in Store /\ r.pc = "split" /\ r.up = st[s].up /\ r.dir = n
      /\ st' = [st EXCEPT ![s] = r]
  BY <1>2, <1>3, <1>4 DEF Store
<1> HIDE DEF r
<1>6. st'[s] = r /\ \A t \in Storers : t # s => st'[t] = st[t]
  BY <1>4, <1>5
<1>7. OwnDirectories'
  BY <1>3, <1>4, <1>5, <1>6 DEF StoreInv, OwnDirectories
<1>8. /\ DiskOK' /\ \A x \in disk' : x \in disk \/ x.name = Directory(n)
      /\ \A x \in disk : x.name # Directory(n) => x \in disk'
      /\ Directory(n) \in Present'
  BY <1>2, <1>3, <1>4, NameTypes, PutOne
<1>9. Touches(s) /\ AddsOther
  BY <1>8, Heads DEF Touches, AddsOther
<1>10. \A m : NoParts(m) => NoParts(m)'
  BY <1>8, Heads DEF NoParts, Present
<1>11. NoParts(n)
  BY <1>3, <1>4 DEF StoreInv, Emptied
<1>12. Emptied'
  <2>1. ASSUME NEW m \in 1..MaxTasks, Directory(m) \notin Present' PROVE NoParts(m)'
    <3>1. m # n
      BY <1>8, <2>1
    <3>2. Directory(m) # Directory(n)
      BY <3>1, Heads
    <3>3. Directory(m) \notin Present
      BY <1>8, <2>1, <3>2 DEF Present
    <3> QED
      BY <1>4, <1>10, <3>3 DEF StoreInv, Emptied
  <2> QED
    BY <2>1 DEF Emptied
<1>13. Cutting(s)'
  BY <1>1, <1>3, <1>4, <1>5, <1>6, <1>10, <1>11 DEF Cutting
<1>14. hot' \in [Sources -> {"none", "torn", "whole"}] /\ HotWhole'
  BY <1>1, HotSame
<1>15. emptied' = emptied /\ tasks' = tasks
  BY <1>1
<1> QED
  BY <1>1, <1>4, <1>5, <1>7, <1>8, <1>9, <1>12, <1>13, <1>14, <1>15, StoreStep

LEMMA SplitStep ==
  ASSUME Inv, NEW s \in Storers, Split(s)
  PROVE  Inv'
<1> DEFINE n == st[s].dir
           u == st[s].up
           new == {[name |-> Part(n, k), is |-> Piece(u, k)] : k \in 1..2}
<1>1. /\ st[s].pc = "split"
      /\ disk' = IF {Source(u), Directory(n)} \subseteq Present
                 THEN Without({Part(n, k) : k \in 1..2}) \cup new
                 ELSE disk
      /\ StGoto(s, "list") /\ hot' = hot /\ UNCHANGED <<tasks, emptied>>
      /\ UNCHANGED dvVars
  BY DEF Split
<1>2. /\ DiskOK /\ StoreInv /\ tasks \in 0..MaxTasks /\ emptied \subseteq Sources
      /\ Cutting(s) /\ u \in Sources /\ n \in 1..MaxTasks /\ NoParts(n)
  BY <1>1 DEF Inv, StoreInv, Cutting
<1>3. PICK r \in Store : /\ st' = [st EXCEPT ![s] = r] /\ st'[s] = r
                         /\ r.pc = "list" /\ r.up = u /\ r.dir = n
                         /\ r.list = st[s].list /\ r.dir \in {0, n}
  BY <1>1, <1>2, StGone
<1>4. OwnDirectories'
  BY <1>2, <1>3, KeepsOwn
<1>5. hot' \in [Sources -> {"none", "torn", "whole"}] /\ HotWhole'
  BY <1>1, HotSame
<1>6. emptied' = emptied /\ tasks' = tasks
  BY <1>1
<1> HIDE DEF n, u
<1>7. CASE {Source(u), Directory(n)} \subseteq Present
  <2>1. \A x \in new : /\ x \in [name : Names, is : Contents]
                       /\ \E k \in 1..2 : x.name = Part(n, k) /\ x.is = Piece(u, k)
    BY <1>2, NameTypes
  <2>2. ASSUME NEW k \in 1..2
        PROVE  \E x \in new : x.name = Part(n, k) /\ x.is = Piece(u, k)
    <3>1. [name |-> Part(n, k), is |-> Piece(u, k)] \in new
      OBVIOUS
    <3> HIDE DEF new
    <3> QED
      BY <3>1
  <2> HIDE DEF new
  <2>3. disk' = Without({Part(n, k) : k \in 1..2}) \cup new
    BY <1>1, <1>7
  <2>4. /\ DiskOK'
        /\ \A x \in disk' : x \in disk \/ x \in new
        /\ \A x \in disk' : x \in new \/ x.name \notin {Part(n, k) : k \in 1..2}
        /\ \A x \in disk : x.name \in {Part(n, k) : k \in 1..2} \/ x \in disk'
        /\ new \subseteq disk'
    BY <1>2, <2>1, <2>3 DEF DiskOK, Without
  <2>5. Touches(s)
    BY <2>1, <2>4, Heads DEF Touches, n
  <2>6. AddsOther
    BY <2>1, <2>4, Heads DEF AddsOther
  <2>7. \A m : Directory(m) \in Present => Directory(m) \in Present'
    BY <2>4, Heads DEF Present
  <2>8. Emptied'
    <3>1. ASSUME NEW m \in 1..MaxTasks, Directory(m) \notin Present' PROVE NoParts(m)'
      <4>1. Directory(m) \notin Present
        BY <2>7, <3>1
      <4>2. NoParts(m) /\ m # n
        BY <1>2, <1>7, <4>1 DEF StoreInv, Emptied
      <4> QED
        BY <2>1, <2>4, <4>2, Heads DEF NoParts, Present
    <3> QED
      BY <3>1 DEF Emptied
  <2>9. AllParts(n, u)'
    <3>1. \A k \in 1..2 : Part(n, k) \in Present'
      BY <2>2, <2>4 DEF Present
    <3>2. ASSUME NEW k \in 1..2, NEW x \in disk', x.name = Part(n, k)
          PROVE  x.is = Piece(u, k)
      <4>1. x \in new
        BY <2>4, <3>2
      <4>2. PICK l \in 1..2 : x.name = Part(n, l) /\ x.is = Piece(u, l)
        BY <2>1, <4>1
      <4>3. Part(n, k) = Part(n, l)
        BY <3>2, <4>2
      <4>4. k = l
        BY <4>3 DEF Part
      <4> QED
        BY <4>2, <4>4
    <3>3. n' = r.dir /\ u' = r.up
      BY <1>3 DEF n, u
    <3> QED
      BY <1>3, <3>1, <3>2, <3>3 DEF AllParts, Only
  <2>10. Cutting(s)'
    BY <1>2, <1>3, <2>9 DEF Cutting, n, u
  <2> QED
    BY <1>1, <1>2, <1>3, <1>4, <1>5, <1>6, <2>4, <2>5, <2>6, <2>8, <2>10, StoreStep
<1>8. CASE ~({Source(u), Directory(n)} \subseteq Present)
  <2>1. disk' = disk
    BY <1>1, <1>8
  <2>2. Touches(s) /\ AddsOther /\ DiskOK' /\ Emptied'
    BY <2>1, StoreSame
  <2>3. Cutting(s)'
    BY <1>2, <1>3, <2>1 DEF Cutting, NoParts, Present, n, u
  <2> QED
    BY <1>1, <1>2, <1>3, <1>4, <1>5, <1>6, <2>2, <2>3, StoreStep
<1> QED
  BY <1>7, <1>8

(* The parts of one directory, where they are all there is of it.            *)
LEMMA Listed ==
  ASSUME DiskOK, NEW n \in 1..MaxTasks
  PROVE  /\ Inside(Directory(n)) = {m \in Present : m[1] = "part" /\ m[2] = n}
         /\ NoParts(n) => Inside(Directory(n)) = {}
         /\ \A u : AllParts(n, u) => Inside(Directory(n)) = {Part(n, k) : k \in 1..2}
<1>1. Inside(Directory(n)) = {m \in Present : m[1] = "part" /\ m[2] = n}
  BY Heads DEF Inside
<1>2. ASSUME NEW m \in Inside(Directory(n)) PROVE \E k \in 1..2 : m = Part(n, k)
  <2>1. m \in Names /\ m[1] = "part" /\ m[2] = n
    BY <1>1, <1>2 DEF DiskOK, Present
  <2>2. PICK l \in 1..MaxTasks, k \in 1..2 : m = Part(l, k)
    BY <2>1, PartNames
  <2>3. l = n
    BY <2>1, <2>2, Heads
  <2> QED
    BY <2>2, <2>3
<1>3. NoParts(n) => Inside(Directory(n)) = {}
  BY <1>1, <1>2 DEF NoParts
<1>4. ASSUME NEW u, AllParts(n, u)
      PROVE  Inside(Directory(n)) = {Part(n, k) : k \in 1..2}
  BY <1>1, <1>2, <1>4, Heads DEF AllParts
<1> QED
  BY <1>1, <1>3, <1>4

LEMMA ListStep ==
  ASSUME Inv, NEW s \in Storers, List(s)
  PROVE  Inv'
<1> DEFINE n == st[s].dir
<1>1. /\ st[s].pc = "list" /\ disk' = disk /\ hot' = hot
      /\ st' = [st EXCEPT ![s].pc = "parts", ![s].list = Inside(Directory(n))]
      /\ UNCHANGED <<tasks, emptied>> /\ UNCHANGED dvVars
  BY DEF List
<1>2. /\ DiskOK /\ StoreInv /\ tasks \in 0..MaxTasks /\ emptied \subseteq Sources
      /\ Cutting(s) /\ st[s] \in Store /\ n \in 1..MaxTasks
  BY <1>1 DEF Inv, StoreInv, Cutting
<1> DEFINE files == Inside(Directory(n))
           r == [st[s] EXCEPT !.pc = "parts", !.list = files]
<1>3. files \subseteq Names
  BY <1>2, Listed DEF DiskOK, Present
<1>4. /\ NoParts(n) => files = {}
      /\ \A u : AllParts(n, u) => files = {Part(n, k) : k \in 1..2}
  BY <1>2, Listed
<1> HIDE DEF files
<1>5. /\ r \in Store /\ r.pc = "parts" /\ r.up = st[s].up /\ r.dir = n
      /\ r.list = files /\ r.dir \in {0, st[s].dir}
  BY <1>2, <1>3 DEF Store
<1>6. st' = [st EXCEPT ![s] = r]
  BY <1>1 DEF files
<1> HIDE DEF r
<1>7. OwnDirectories' /\ st'[s] = r
  BY <1>2, <1>5, <1>6, KeepsOwn
<1>8. Touches(s) /\ AddsOther /\ DiskOK' /\ Emptied'
  BY <1>1, StoreSame
<1>9. hot' \in [Sources -> {"none", "torn", "whole"}] /\ HotWhole'
  BY <1>1, HotSame
<1>10. emptied' = emptied /\ tasks' = tasks
  BY <1>1
<1>11. \A m : /\ NoParts(m) => NoParts(m)'
              /\ \A u : AllParts(m, u) => AllParts(m, u)'
  BY <1>1 DEF NoParts, AllParts, Present, Only
<1>12. Cutting(s)'
  <2>1. st[s].up \notin emptied => NoParts(n) \/ AllParts(n, st[s].up)
    BY <1>1, <1>2 DEF Cutting
  <2>2. st[s].up \in Sources
    BY <1>1, <1>2 DEF Cutting
  <2> HIDE DEF n
  <2> QED
    BY <1>2, <1>4, <1>5, <1>7, <1>10, <1>11, <2>1, <2>2 DEF Cutting
<1> QED
  BY <1>1, <1>2, <1>5, <1>6, <1>7, <1>8, <1>9, <1>10, <1>12, StoreStep

LEMMA UploadPartsStep ==
  ASSUME Inv, NEW s \in Storers, UploadParts(s)
  PROVE  Inv'
<1> DEFINE n == st[s].dir
           u == st[s].up
           list == st[s].list
<1>1. /\ st[s].pc = "parts" /\ list # {} /\ list \subseteq Present
      /\ hot' = [hot EXCEPT ![u] = IF {Is(m) : m \in list} = {Piece(u, k) : k \in 1..2}
                                   THEN "whole" ELSE "torn"]
      /\ StGoto(s, "rmtree") /\ disk' = disk /\ UNCHANGED <<tasks, emptied>>
      /\ UNCHANGED dvVars
  BY DEF UploadParts
<1>2. /\ DiskOK /\ StoreInv /\ tasks \in 0..MaxTasks /\ emptied \subseteq Sources
      /\ Cutting(s) /\ u \in Sources /\ n \in 1..MaxTasks
  BY <1>1 DEF Inv, StoreInv, Cutting
<1>3. PICK r \in Store : /\ st' = [st EXCEPT ![s] = r] /\ st'[s] = r
                         /\ r.pc = "rmtree" /\ r.up = u /\ r.dir = n
                         /\ r.list = list /\ r.dir \in {0, n}
  BY <1>1, <1>2, StGone
<1>4. OwnDirectories'
  BY <1>2, <1>3, KeepsOwn
<1>5. Touches(s) /\ AddsOther /\ DiskOK' /\ Emptied'
  BY <1>1, StoreSame
<1>6. emptied' = emptied /\ tasks' = tasks
  BY <1>1
<1>7. ASSUME u \notin emptied
      PROVE  {Is(m) : m \in list} = {Piece(u, k) : k \in 1..2}
  <2>1. AllParts(n, u) /\ list = {Part(n, k) : k \in 1..2}
    BY <1>1, <1>2, <1>7 DEF Cutting
  <2>2. \A k \in 1..2 : Is(Part(n, k)) = Piece(u, k)
    BY <2>1, Read DEF AllParts
  <2> QED
    BY <2>1, <2>2
<1>8. PICK h \in {"whole", "torn"} : /\ hot' = [hot EXCEPT ![u] = h]
                                     /\ h = "torn" => u \in emptied
  BY <1>1, <1>7
<1>9. hot' \in [Sources -> {"none", "torn", "whole"}] /\ HotWhole'
  BY <1>2, <1>6, <1>8 DEF StoreInv, HotWhole
<1>10. Cutting(s)'
  BY <1>2, <1>3 DEF Cutting
<1> QED
  BY <1>1, <1>2, <1>3, <1>4, <1>5, <1>6, <1>9, <1>10, StoreStep

LEMMA RmtreeStep ==
  ASSUME Inv, NEW s \in Storers, Rmtree(s)
  PROVE  Inv'
<1> DEFINE n == st[s].dir
           names == {Directory(n), Source(st[s].up)} \cup Inside(Directory(n))
<1>1. /\ st[s].pc = "rmtree" /\ disk' = Without(names) /\ hot' = hot /\ StEnd(s)
      /\ UNCHANGED <<tasks, emptied>> /\ UNCHANGED dvVars
  BY DEF Rmtree
<1>2. DiskOK /\ StoreInv /\ Cutting(s) /\ n \in 1..MaxTasks
  BY <1>1 DEF Inv, StoreInv, Cutting
<1>3. Inside(Directory(n)) = {m \in Present : m[1] = "part" /\ m[2] = n}
  BY <1>2, Listed
<1>4. /\ \A m : m \in names /\ m[1] = "part" => m[2] = n
      /\ \A k : Directory(k) \in names => k = n
      /\ \A k : Part(n, k) \in Present => Part(n, k) \in names
  BY <1>3, Heads
<1> HIDE DEF names
<1>5. /\ DiskOK' /\ disk' \subseteq disk
      /\ \A x \in disk : x.name \notin names => x \in disk'
      /\ \A x \in disk' : x.name \notin names
  BY <1>1, <1>2, Removed
<1>6. Touches(s) /\ AddsOther
  BY <1>4, <1>5 DEF Touches, AddsOther
<1>7. Emptied'
  <2>1. ASSUME NEW m \in 1..MaxTasks, Directory(m) \notin Present' PROVE NoParts(m)'
    <3>1. CASE m = n
      BY <1>4, <1>5, <3>1 DEF NoParts, Present
    <3>2. CASE m # n
      <4>1. Directory(m) \notin Present
        BY <1>4, <1>5, <2>1, <3>2 DEF Present
      <4>2. NoParts(m)
        BY <1>2, <4>1 DEF StoreInv, Emptied
      <4> QED
        BY <1>5, <4>2 DEF NoParts, Present
    <3> QED
      BY <3>1, <3>2
  <2> QED
    BY <2>1 DEF Emptied
<1>8. hot' \in [Sources -> {"none", "torn", "whole"}] /\ HotWhole'
  BY <1>1, HotSame
<1> QED
  BY <1>1, <1>5, <1>6, <1>7, <1>8, StEnds

-----------------------------------------------------------------------------
LEMMA InitInv == Init => Inv
<1> SUFFICES ASSUME Init PROVE Inv
  OBVIOUS
<1>1. /\ Resting \in Delivery /\ Resting.pc = "idle" /\ Resting.drop = 0
      /\ Resting.todo = {}
  BY RestingType
<1>2. Waiting \in Store /\ Waiting.pc = "idle" /\ Waiting.dir = 0
  BY DEF Waiting, Store
<1>3. \A p \in Deliverers : dv[p] = Resting
  BY DEF Init
<1>4. \A s \in Storers : st[s] = Waiting
  BY DEF Init
<1>5. drops \in Seq(Drop) /\ DOMAIN drops = {}
  BY DEF Init
<1>6. OwnDrops /\ Counted /\ Dropped /\ ObjectsOwn
  BY <1>1, <1>3, <1>5 DEF Init, OwnDrops, Counted, Dropped, ObjectsOwn
<1>7. Delivering
  BY <1>1, <1>3 DEF Delivering, Running, FileOwn, SidecarOwn, Sent
<1>8. DeliveryInv
  BY <1>1, <1>5, <1>6, <1>7 DEF Init, DeliveryInv
<1>9. OwnDirectories /\ Emptied /\ HotWhole /\ \A s \in Storers : Cutting(s)
  BY <1>2, <1>4 DEF Init, OwnDirectories, Emptied, NoParts, Present, HotWhole, Cutting
<1>10. StoreInv
  BY <1>2, <1>9 DEF Init, StoreInv
<1> QED
  BY <1>8, <1>10 DEF Init, Inv, DiskOK

(* Everything together is inductive: what concerns the deliveries, what      *)
(* concerns the stores, and the disk between them (all of Next).             *)
THEOREM TransfersInvariance == Spec => []Inv
<1>1. Init => Inv
  BY InitInv
<1>2. Inv /\ [Next]_vars => Inv'
  <2> SUFFICES ASSUME Inv, [Next]_vars PROVE Inv'
    OBVIOUS
  <2>1. CASE UNCHANGED vars
    <3>1. disk' = disk /\ tasks' = tasks /\ UNCHANGED dvVars /\ UNCHANGED stVars
      BY <2>1 DEF vars, dvVars, stVars
    <3>2. SameParts /\ AddsOther /\ DiskOK'
      BY <3>1 DEF SameParts, AddsOther, DiskOK, Inv
    <3> QED
      BY <3>1, <3>2, StoreKept, DeliveryKept DEF Inv
  <2>2. ASSUME NEW p \in Deliverers,
               \/ Begin(p) \/ Empty(p) \/ Fetch(p) \/ Fetched(p) \/ Validate(p)
               \/ Upload(p) \/ WriteSidecar(p) \/ MakeDirectory(p) \/ PutFile(p)
               \/ PutSidecar(p) \/ PutComplete(p) \/ Unlink(p) \/ DeliveryDies(p)
        PROVE  Inv'
    BY <2>2, BeginStep, EmptyStep, FetchStep, FetchedStep, ValidateStep, UploadStep,
       WriteSidecarStep, MakeDirectoryStep, PutFileStep, PutSidecarStep,
       PutCompleteStep, UnlinkStep, DeliveryDiesStep
  <2>3. ASSUME NEW s \in Storers,
               \/ BeginStore(s) \/ Exists(s) \/ StoreSingle(s) \/ Mkdtemp(s) \/ Split(s)
               \/ List(s) \/ UploadParts(s) \/ Rmtree(s) \/ StoreDies(s)
        PROVE  Inv'
    BY <2>3, BeginStoreStep, ExistsStep, StoreSingleStep, MkdtempStep, SplitStep,
       ListStep, UploadPartsStep, RmtreeStep, StoreDiesStep
  <2> QED
    BY <2>1, <2>2, <2>3 DEF Next
<1> QED
  BY <1>1, <1>2, PTL DEF Spec

(* The types, what a process owns and what it may rely on (every file it     *)
(* reads is its own or counts as raced, crossed or emptied).                 *)
THEOREM TransfersCorrect == Spec => []TransfersInv
<1>1. Inv => TransfersInv
  BY DEF Inv, DeliveryInv, StoreInv, DiskOK, TransfersInv, TypeOK
<1> QED
  BY <1>1, TransfersInvariance, PTL

(* What is delivered to S3 is the encode (Upload), unless two deliveries of  *)
(* it ran on the machine at once.                                            *)
THEOREM DeliveredIsEncode == Spec => []ObjectsOwn
<1>1. Inv => ObjectsOwn
  BY DEF Inv, DeliveryInv
<1> QED
  BY <1>1, TransfersInvariance, PTL

(* A directory of the drop box that is complete holds its own encode and     *)
(* metadata (PutFile, PutSidecar, PutComplete).                              *)
THEOREM DropIsOwn == Spec => []DropsOwn
<1>1. Inv => DropsOwn
  <2>1. ASSUME Inv, NEW i \in DOMAIN drops
        PROVE  /\ drops[i].file \in {"none", "other", "own"}
               /\ drops[i].csv \in {"none", "other", "own"}
    <3>1. drops[i] \in Drop
      BY <2>1 DEF Inv, DeliveryInv
    <3> QED
      BY <3>1 DEF Drop
  <2> QED
    BY <2>1 DEF Inv, DeliveryInv, Dropped, DropsOwn
<1> QED
  BY <1>1, TransfersInvariance, PTL

(* Only a delivery that empties the directory meanwhile tears an object of   *)
(* the hot store (UploadParts).                                              *)
THEOREM HotIsWhole == Spec => []HotWhole
<1>1. Inv => HotWhole
  BY DEF Inv, StoreInv
<1> QED
  BY <1>1, TransfersInvariance, PTL
==============================================================================

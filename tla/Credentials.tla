---------------------------- MODULE Credentials ----------------------------
(* The accounts of organizations at the transcript providers                 *)
(* (VEDA_OS01/views.py, models.py) and the command that encrypts them anew   *)
(* (re_encrypt_transcript_credentials.py). A web process encrypts with the   *)
(* first of the keys it was started with and decrypts with any of them. The  *)
(* operator puts a new key in front, restarts the processes, runs the command*)
(* and drops the old keys; the platform posts credentials all the while.     *)
EXTENDS Naturals, Sequences

CONSTANTS
  Accounts,   \* an organization at a provider
  Cielo24,    \* those whose key is exchanged for a token
  Processes,  \* of the web server
  MaxKeys,    \* bound: keys
  MaxPosts    \* bound: posts of credentials

ASSUME CredentialsAssumption ==
  /\ Cielo24 \subseteq Accounts
  /\ MaxKeys \in Nat \ {0}
  /\ MaxPosts \in Nat

VARIABLES
  keys,     \* FERNET_KEYS of the settings, numbered as they were added
  newest,   \* the number of the last key added
  proc,     \* the keys each process was started with
  rows,     \* the TranscriptCredentials
  posts,    \* what each process is doing
  asked,    \* posts so far
  written,  \* the last post that was answered with 201
  job,      \* what the command is doing
  rotated,  \* the command was completed under the keys there are
  late,     \* rows written since by a process that has not the new key
  during    \* accounts last posted while the command held what it had read

settings == <<keys, newest, rotated>>
vars == <<keys, newest, proc, rows, posts, asked, written, job, rotated, late, during>>

(* value: the post the key and the secret are from, 0 for no row. key: the   *)
(* one they are encrypted with.                                              *)
Row == [value : 0..MaxPosts, key : 0..MaxKeys]
NoRow == [value |-> 0, key |-> 0]

KeyList == {ks \in Seq(1..MaxKeys) : ks # <<>>}
Has(ks, k) == \E i \in 1..Len(ks) : ks[i] = k

Post == [pc : {"idle", "exchange", "write"}, account : Accounts, value : 0..MaxPosts]

(* snap: the values read. saved: the rows its transaction has changed, which *)
(* are locked until it ends.                                                 *)
Job == [pc : {"idle", "read", "save"}, keys : KeyList,
        snap : [Accounts -> 0..MaxPosts], saved : SUBSET Accounts]

TypeOK ==
  /\ keys \in KeyList
  /\ newest \in 1..MaxKeys
  /\ proc \in [Processes -> KeyList]
  /\ rows \in [Accounts -> Row]
  /\ posts \in [Processes -> Post]
  /\ asked \in 0..MaxPosts
  /\ written \in [Accounts -> 0..MaxPosts]
  /\ job \in Job
  /\ rotated \in BOOLEAN
  /\ late \subseteq Accounts
  /\ during \subseteq Accounts

Init ==
  /\ keys = <<1>>
  /\ newest = 1
  /\ proc = [p \in Processes |-> <<1>>]
  /\ rows = [o \in Accounts |-> NoRow]
  /\ \E o \in Accounts :
       posts = [p \in Processes |-> [pc |-> "idle", account |-> o, value |-> 0]]
  /\ asked = 0
  /\ written = [o \in Accounts |-> 0]
  /\ job = [pc |-> "idle", keys |-> <<1>>, snap |-> [o \in Accounts |-> 0], saved |-> {}]
  /\ rotated = FALSE
  /\ late = {}
  /\ during = {}

Exists(o) == rows[o].value # 0

-----------------------------------------------------------------------------
(* The operator.                                                             *)
AddKey ==
  /\ newest < MaxKeys
  /\ newest' = newest + 1
  /\ keys' = <<newest + 1>> \o keys
  /\ rotated' = FALSE
  /\ UNCHANGED <<proc, rows, posts, asked, written, job, late, during>>

DropOld ==
  /\ rotated
  /\ Len(keys) > 1
  /\ keys' = <<Head(keys)>>
  /\ UNCHANGED <<newest, rotated, proc, rows, posts, asked, written, job, late, during>>

(* A process that goes down loses its request.                               *)
Restart(p) ==
  /\ proc' = [proc EXCEPT ![p] = keys]
  /\ posts' = [posts EXCEPT ![p].pc = "idle", ![p].value = 0]
  /\ UNCHANGED <<settings, rows, asked, written, job, late, during>>

-----------------------------------------------------------------------------
(* TranscriptCredentialsView.post. An unknown provider and missing attributes*)
(* are answered with 400.                                                    *)
PostCredentials(p, o) ==
  /\ posts[p].pc = "idle"
  /\ asked < MaxPosts
  /\ asked' = asked + 1
  /\ posts' = [posts EXCEPT
       ![p] = [pc |-> IF o \in Cielo24 THEN "exchange" ELSE "write",
               account |-> o, value |-> asked + 1]]
  /\ UNCHANGED <<settings, proc, rows, written, job, late, during>>

Exchange(p) ==
  /\ posts[p].pc = "exchange"
  /\ posts' = [posts EXCEPT ![p].pc = "write"]
  /\ UNCHANGED <<settings, proc, rows, asked, written, job, late, during>>

Refuse(p) ==
  /\ posts[p].pc = "exchange"
  /\ posts' = [posts EXCEPT ![p].pc = "idle", ![p].value = 0]
  /\ UNCHANGED <<settings, proc, rows, asked, written, job, late, during>>

Locked(o) == job.pc = "save" /\ o \in job.saved

SaveAs(p, value) ==
  LET o == posts[p].account IN
  /\ rows' = [rows EXCEPT ![o] = [value |-> value, key |-> Head(proc[p])]]
  /\ written' = [written EXCEPT ![o] = posts[p].value]
  /\ late' = IF Head(proc[p]) = Head(keys) THEN late \ {o} ELSE late \cup {o}
  /\ during' = IF job.pc = "save" THEN during \cup {o} ELSE during \ {o}
  /\ posts' = [posts EXCEPT ![p].pc = "idle", ![p].value = 0]

(* Bug: the requests share the dictionary of validated credentials.          *)
SaveShared(p) == SaveAs(p, asked)

(* update_or_create: the row is read for update, decrypted, and saved whole. *)
Save(p) == SaveAs(p, posts[p].value)

Write(p) ==
  /\ posts[p].pc = "write"
  /\ ~Locked(posts[p].account)
  /\ Exists(posts[p].account) => Has(proc[p], rows[posts[p].account].key)
  /\ Save(p)
  /\ UNCHANGED <<settings, proc, asked, job>>

(* InvalidToken: a process without the key of the row answers 500.           *)
WriteFails(p) ==
  /\ posts[p].pc = "write"
  /\ ~Locked(posts[p].account)
  /\ Exists(posts[p].account)
  /\ ~Has(proc[p], rows[posts[p].account].key)
  /\ posts' = [posts EXCEPT ![p].pc = "idle", ![p].value = 0]
  /\ UNCHANGED <<settings, proc, rows, asked, written, job, late, during>>

-----------------------------------------------------------------------------
(* Bug: the keys that were cached before the settings changed.               *)
JobStartCached ==
  /\ job.pc = "idle"
  /\ \E p \in Processes :
       job' = [job EXCEPT !.pc = "read", !.keys = proc[p], !.saved = {}]
  /\ UNCHANGED <<settings, proc, rows, posts, asked, written, late, during>>

(* invalidate_fernet_cached_properties: the keys of the settings.            *)
JobStart ==
  /\ job.pc = "idle"
  /\ job' = [job EXCEPT !.pc = "read", !.keys = keys, !.saved = {}]
  /\ UNCHANGED <<settings, proc, rows, posts, asked, written, late, during>>

Decryptable == \A o \in Accounts : Exists(o) => Has(job.keys, rows[o].key)

(* All rows are read and decrypted before the first is saved.                *)
JobRead ==
  /\ job.pc = "read"
  /\ Decryptable
  /\ job' = [job EXCEPT !.pc = "save", !.snap = [o \in Accounts |-> rows[o].value]]
  /\ UNCHANGED <<settings, proc, rows, posts, asked, written, late, during>>

(* "Process halted."                                                         *)
JobHalts ==
  /\ job.pc = "read"
  /\ ~Decryptable
  /\ job' = [job EXCEPT !.pc = "idle"]
  /\ UNCHANGED <<settings, proc, rows, posts, asked, written, late, during>>

JobSave(o) ==
  /\ job.pc = "save"
  /\ job.snap[o] # 0
  /\ o \notin job.saved
  /\ job' = [job EXCEPT !.saved = job.saved \cup {o}]
  /\ UNCHANGED <<settings, proc, rows, posts, asked, written, late, during>>

(* The transaction ends: the rows as they were read, under the new key.      *)
JobCommit ==
  /\ job.pc = "save"
  /\ \A o \in Accounts : job.snap[o] # 0 => o \in job.saved
  /\ rows' = [o \in Accounts |->
       IF o \in job.saved THEN [value |-> job.snap[o], key |-> Head(job.keys)]
       ELSE rows[o]]
  /\ rotated' = (job.keys = keys)
  /\ late' = IF job.keys = keys THEN late \ job.saved ELSE late
  /\ job' = [job EXCEPT !.pc = "idle", !.snap = [o \in Accounts |-> 0], !.saved = {}]
  /\ UNCHANGED <<keys, newest, proc, posts, asked, written, during>>

(* Killed, or the database fails: the transaction is rolled back.            *)
JobDies ==
  /\ job.pc # "idle"
  /\ job' = [job EXCEPT !.pc = "idle", !.snap = [o \in Accounts |-> 0], !.saved = {}]
  /\ UNCHANGED <<settings, proc, rows, posts, asked, written, late, during>>

-----------------------------------------------------------------------------
OperatorNext == AddKey \/ DropOld \/ \E p \in Processes : Restart(p)

PostNext(p) ==
  \/ \E o \in Accounts : PostCredentials(p, o)
  \/ Exchange(p) \/ Refuse(p) \/ Write(p) \/ WriteFails(p)

JobNext ==
  \/ JobStart \/ JobRead \/ JobHalts \/ JobCommit \/ JobDies
  \/ \E o \in Accounts : JobSave(o)

Next == OperatorNext \/ JobNext \/ \E p \in Processes : PostNext(p)

Spec == Init /\ [][Next]_vars

-----------------------------------------------------------------------------
(* Dropping the old keys once the command was completed leaves no row behind *)
(* that the settings cannot decrypt, whatever was posted meanwhile, unless a *)
(* process that was not restarted wrote it since (views.py, 267): with its   *)
(* old keys, after the command had read.                                     *)
Readable == \A o \in Accounts \ late : Exists(o) => Has(keys, rows[o].key)

(* The command saves whole rows it has read before. Only a post that is      *)
(* written in between is taken back: any other that was answered with 201 is *)
(* in the row.                                                               *)
UpdateKept == \A o \in Accounts : rows[o].value # written[o] => o \in during

(* What they rest on.                                                        *)
UnderNewest ==
  /\ rotated => \A o \in Accounts \ late : Exists(o) => rows[o].key = Head(keys)
  /\ job.pc = "save" /\ job.keys = keys =>
       \A o \in Accounts \ late :
         Exists(o) /\ job.snap[o] = 0 => rows[o].key = Head(keys)
  /\ job.pc # "idle" => Has(keys, Head(job.keys))

(* Keys are in the order they were added, the settings have the last. What   *)
(* the command was started with is of then.                                  *)
KeyOrder ==
  /\ Head(keys) = newest
  /\ job.pc # "idle" =>
       \/ Head(job.keys) < newest /\ ~rotated
       \/ Head(job.keys) = newest

Held ==
  /\ job.pc = "save" =>
       /\ \A o \in Accounts \ during : job.snap[o] = written[o]
       /\ \A o \in job.saved : job.snap[o] # 0
  /\ job.pc # "save" => job.saved = {}
  /\ \A o \in Accounts : rows[o].value = 0 <=> rows[o].key = 0
  /\ \A p \in Processes : posts[p].pc # "idle" => posts[p].value # 0

(* The inductive invariant.                                                  *)
CredentialsInv ==
  TypeOK /\ UnderNewest /\ KeyOrder /\ Held /\ Readable /\ UpdateKept
=============================================================================

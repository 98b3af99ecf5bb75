------------------------- MODULE Credentials_proofs -------------------------
(* That CredentialsInv is an invariant of Credentials, for every set of      *)
(* accounts and processes and every number of keys and posts.                *)
EXTENDS Credentials, SequenceTheorems, TLAPS

USE CredentialsAssumption

-----------------------------------------------------------------------------
(* The key a process encrypts with is one it decrypts with.                  *)
LEMMA HeadKey ==
  ASSUME NEW ks \in KeyList
  PROVE  Head(ks) \in 1..MaxKeys /\ Has(ks, Head(ks))
<1>1. ks \in Seq(1..MaxKeys) /\ ks # <<>>
  BY DEF KeyList
<1>2. Len(ks) \in Nat /\ Len(ks) # 0
  BY <1>1
<1>3. Head(ks) = ks[1] /\ 1 \in 1..Len(ks) /\ ks[1] \in 1..MaxKeys
  BY <1>1, <1>2
<1> QED
  BY <1>3 DEF Has

(* A key more, in front.                                                     *)
LEMMA KeyAdded ==
  ASSUME NEW ks \in KeyList, NEW k \in 1..MaxKeys
  PROVE  /\ <<k>> \o ks \in KeyList
         /\ Head(<<k>> \o ks) = k
         /\ \A n : Has(ks, n) => Has(<<k>> \o ks, n)
<1> DEFINE m == <<k>> \o ks
<1>1. ks \in Seq(1..MaxKeys) /\ <<k>> \in Seq(1..MaxKeys) /\ Len(<<k>>) = 1
  BY DEF KeyList
<1>2. Len(ks) \in Nat
  BY <1>1
<1>3. /\ m \in Seq(1..MaxKeys) /\ Len(m) = Len(ks) + 1
      /\ \A i \in 1..(Len(ks) + 1) : m[i] = IF i <= 1 THEN k ELSE ks[i - 1]
  BY <1>1, <1>2, ConcatProperties
<1>4. m # <<>> /\ Head(m) = k
  BY <1>2, <1>3
<1>5. ASSUME NEW n, Has(ks, n) PROVE Has(m, n)
  <2>1. PICK i \in 1..Len(ks) : ks[i] = n
    BY <1>5 DEF Has
  <2>2. i + 1 \in 1..(Len(ks) + 1) /\ ~(i + 1 <= 1) /\ (i + 1) - 1 = i
    BY <1>2
  <2>3. m[i + 1] = n
    BY <1>3, <2>1, <2>2
  <2> QED
    BY <1>3, <2>2, <2>3 DEF Has
<1> QED
  BY <1>3, <1>4, <1>5 DEF KeyList

(* The newest key alone.                                                     *)
LEMMA KeyKept ==
  ASSUME NEW k \in 1..MaxKeys
  PROVE  <<k>> \in KeyList /\ Head(<<k>>) = k /\ Has(<<k>>, k)
BY DEF KeyList, Has

LEMMA Counted ==
  ASSUME NEW n \in Nat, NEW c \in 0..n, c < n
  PROVE  c + 1 \in 0..n /\ c + 1 # 0
OBVIOUS

LEMMA Older ==
  ASSUME NEW n \in Nat, NEW k \in 1..n, NEW h \in 1..n, k < n, h < k \/ h = k
  PROVE  k + 1 \in 1..n /\ h < k + 1 /\ h # k + 1
OBVIOUS

LEMMA KeyNumbers ==
  /\ \A k \in 1..MaxKeys : k \in 0..MaxKeys /\ k # 0
  /\ 0 \in 0..MaxKeys /\ 0 \in 0..MaxPosts
OBVIOUS

USE DEF settings

-----------------------------------------------------------------------------
(* The operator.                                                             *)
LEMMA AddKeyKeeps ==
  ASSUME CredentialsInv, AddKey
  PROVE  CredentialsInv'
<1>1. TypeOK /\ UnderNewest /\ KeyOrder /\ Held /\ Readable /\ UpdateKept
  BY DEF CredentialsInv
<1>2. keys \in KeyList /\ newest \in 1..MaxKeys /\ newest < MaxKeys /\ job.keys \in KeyList
  BY <1>1 DEF TypeOK, AddKey, Job
<1>3. newest + 1 \in 1..MaxKeys
  BY <1>2, Older
<1>4. /\ keys' = <<newest + 1>> \o keys /\ newest' = newest + 1 /\ rotated' = FALSE
      /\ UNCHANGED <<proc, rows, posts, asked, written, job, late, during>>
  BY DEF AddKey
<1>5. /\ keys' \in KeyList /\ Head(keys') = newest' /\ newest' \in 1..MaxKeys
      /\ \A n : Has(keys, n) => Has(keys', n)
  BY <1>2, <1>3, <1>4, KeyAdded
<1>6. TypeOK'
  BY <1>1, <1>4, <1>5 DEF TypeOK
<1>7. job.pc # "idle" => Head(job.keys) < newest' /\ Head(job.keys) # newest'
  <2>1. Head(job.keys) \in 1..MaxKeys
    BY <1>2, HeadKey
  <2> QED
    BY <1>1, <1>2, <1>4, <2>1, Older DEF KeyOrder
<1>8. KeyOrder'
  BY <1>4, <1>5, <1>7 DEF KeyOrder
<1>9. UnderNewest'
  <2>1. job.pc = "save" => job.keys # keys'
    BY <1>5, <1>7
  <2> QED
    BY <1>1, <1>4, <1>5, <2>1 DEF UnderNewest, Exists
<1>10. Readable' /\ Held' /\ UpdateKept'
  BY <1>1, <1>4, <1>5 DEF Readable, Held, UpdateKept, Exists
<1> QED
  BY <1>6, <1>8, <1>9, <1>10 DEF CredentialsInv

LEMMA DropOldKeeps ==
  ASSUME CredentialsInv, DropOld
  PROVE  CredentialsInv'
<1>1. TypeOK /\ UnderNewest /\ KeyOrder /\ Held /\ Readable /\ UpdateKept
  BY DEF CredentialsInv
<1>2. keys \in KeyList /\ newest \in 1..MaxKeys /\ rotated
  BY <1>1 DEF TypeOK, DropOld
<1>3. /\ keys' = <<Head(keys)>>
      /\ UNCHANGED <<newest, rotated, proc, rows, posts, asked, written, job, late, during>>
  BY DEF DropOld
<1>4. Head(keys) = newest
  BY <1>1 DEF KeyOrder
<1>5. keys' \in KeyList /\ Head(keys') = newest /\ Has(keys', newest)
  BY <1>2, <1>3, <1>4, KeyKept
<1>6. TypeOK'
  BY <1>1, <1>3, <1>5 DEF TypeOK
<1>7. \A o \in Accounts \ late : Exists(o) => rows[o].key = newest
  BY <1>1, <1>2, <1>4 DEF UnderNewest
<1>8. job.pc # "idle" => Head(job.keys) = newest
  BY <1>1, <1>2 DEF KeyOrder
<1>9. UnderNewest'
  BY <1>3, <1>5, <1>7, <1>8 DEF UnderNewest, Exists
<1>10. KeyOrder' /\ Readable' /\ Held' /\ UpdateKept'
  BY <1>1, <1>3, <1>5, <1>7, <1>8 DEF KeyOrder, Readable, Held, UpdateKept, Exists
<1> QED
  BY <1>6, <1>9, <1>10 DEF CredentialsInv

(* A request that ends.                                                      *)
LEMMA PostEnds ==
  ASSUME posts \in [Processes -> Post], NEW p \in Processes,
         posts' = [posts EXCEPT ![p].pc = "idle", ![p].value = 0]
  PROVE  /\ posts' \in [Processes -> Post] /\ posts'[p].pc = "idle"
         /\ \A q \in Processes : q # p => posts'[q] = posts[q]
<1> DEFINE r == [posts[p] EXCEPT !.pc = "idle", !.value = 0]
<1>1. r \in Post /\ r.pc = "idle"
  BY KeyNumbers DEF Post
<1>2. posts' = [posts EXCEPT ![p] = r]
  OBVIOUS
<1> HIDE DEF r
<1> QED
  BY <1>1, <1>2

LEMMA RestartKeeps ==
  ASSUME CredentialsInv, NEW p \in Processes, Restart(p)
  PROVE  CredentialsInv'
<1>1. TypeOK /\ UnderNewest /\ KeyOrder /\ Held /\ Readable /\ UpdateKept
  BY DEF CredentialsInv
<1>2. /\ proc' = [proc EXCEPT ![p] = keys]
      /\ posts' = [posts EXCEPT ![p].pc = "idle", ![p].value = 0]
      /\ UNCHANGED <<keys, newest, rotated, rows, asked, written, job, late, during>>
  BY DEF Restart
<1>3. proc' \in [Processes -> KeyList]
  BY <1>1, <1>2 DEF TypeOK
<1>4. posts' \in [Processes -> Post]
      /\ \A q \in Processes : posts'[q] = posts[q] \/ posts'[q].pc = "idle"
  BY <1>1, <1>2, PostEnds DEF TypeOK
<1>5. TypeOK'
  BY <1>1, <1>2, <1>3, <1>4 DEF TypeOK
<1>6. Held'
  BY <1>1, <1>2, <1>4 DEF Held
<1>7. UnderNewest' /\ KeyOrder' /\ Readable' /\ UpdateKept'
  BY <1>1, <1>2 DEF UnderNewest, KeyOrder, Readable, UpdateKept, Exists
<1> QED
  BY <1>5, <1>6, <1>7 DEF CredentialsInv

-----------------------------------------------------------------------------
(* The posts.                                                                *)
LEMMA PostCredentialsKeeps ==
  ASSUME CredentialsInv, NEW p \in Processes, NEW o \in Accounts, PostCredentials(p, o)
  PROVE  CredentialsInv'
<1>1. TypeOK /\ UnderNewest /\ KeyOrder /\ Held /\ Readable /\ UpdateKept
  BY DEF CredentialsInv
<1> DEFINE r == [pc |-> IF o \in Cielo24 THEN "exchange" ELSE "write",
                 account |-> o, value |-> asked + 1]
<1>2. /\ asked < MaxPosts /\ asked' = asked + 1 /\ posts' = [posts EXCEPT ![p] = r]
      /\ UNCHANGED <<keys, newest, rotated, proc, rows, written, job, late, during>>
  BY DEF PostCredentials
<1>3. asked + 1 \in 0..MaxPosts /\ asked + 1 # 0
  BY <1>1, <1>2, Counted DEF TypeOK
<1>4. r \in Post /\ r.value # 0
  BY <1>3 DEF Post
<1> HIDE DEF r
<1>5. posts' \in [Processes -> Post]
      /\ \A q \in Processes : posts'[q] = posts[q] \/ posts'[q].value # 0
  BY <1>1, <1>2, <1>4 DEF TypeOK
<1>6. TypeOK'
  BY <1>1, <1>2, <1>3, <1>5 DEF TypeOK
<1>7. Held'
  BY <1>1, <1>2, <1>5 DEF Held
<1>8. UnderNewest' /\ KeyOrder' /\ Readable' /\ UpdateKept'
  BY <1>1, <1>2 DEF UnderNewest, KeyOrder, Readable, UpdateKept, Exists
<1> QED
  BY <1>6, <1>7, <1>8 DEF CredentialsInv

(* A request that goes on or ends without a write.                           *)
LEMMA RequestKeeps ==
  ASSUME CredentialsInv, NEW p \in Processes,
         Exchange(p) \/ Refuse(p) \/ WriteFails(p)
  PROVE  CredentialsInv'
<1>1. TypeOK /\ UnderNewest /\ KeyOrder /\ Held /\ Readable /\ UpdateKept
  BY DEF CredentialsInv
<1>2. UNCHANGED <<keys, newest, rotated, proc, rows, asked, written, job, late, during>>
  BY DEF Exchange, Refuse, WriteFails
<1>3. \/ posts[p].pc # "idle" /\ posts' = [posts EXCEPT ![p].pc = "write"]
      \/ posts' = [posts EXCEPT ![p].pc = "idle", ![p].value = 0]
  BY DEF Exchange, Refuse, WriteFails
<1>4. posts' \in [Processes -> Post]
      /\ \A q \in Processes :
           posts'[q].pc # "idle" => posts[q].pc # "idle" /\ posts'[q].value = posts[q].value
  <2>1. CASE posts[p].pc # "idle" /\ posts' = [posts EXCEPT ![p].pc = "write"]
    BY <1>1, <2>1 DEF TypeOK, Post
  <2>2. CASE posts' = [posts EXCEPT ![p].pc = "idle", ![p].value = 0]
    BY <1>1, <2>2, PostEnds DEF TypeOK
  <2> QED
    BY <1>3, <2>1, <2>2
<1>5. TypeOK'
  BY <1>1, <1>2, <1>4 DEF TypeOK
<1>6. Held'
  BY <1>1, <1>2, <1>4 DEF Held
<1>7. UnderNewest' /\ KeyOrder' /\ Readable' /\ UpdateKept'
  BY <1>1, <1>2 DEF UnderNewest, KeyOrder, Readable, UpdateKept, Exists
<1> QED
  BY <1>5, <1>6, <1>7 DEF CredentialsInv

(* What a process with old keys writes is late, what is written while the    *)
(* command saves is of then.                                                 *)
LEMMA WriteKeeps ==
  ASSUME CredentialsInv, NEW p \in Processes, Write(p)
  PROVE  CredentialsInv'
<1>1. TypeOK /\ UnderNewest /\ KeyOrder /\ Held /\ Readable /\ UpdateKept
  BY DEF CredentialsInv
<1> DEFINE o == posts[p].account
           v == posts[p].value
           k == Head(proc[p])
<1>2. /\ posts[p].pc = "write"
      /\ rows' = [rows EXCEPT ![o] = [value |-> v, key |-> k]]
      /\ written' = [written EXCEPT ![o] = v]
      /\ late' = IF k = Head(keys) THEN late \ {o} ELSE late \cup {o}
      /\ during' = IF job.pc = "save" THEN during \cup {o} ELSE during \ {o}
      /\ posts' = [posts EXCEPT ![p].pc = "idle", ![p].value = 0]
      /\ UNCHANGED <<keys, newest, rotated, proc, asked, job>>
  BY DEF Write, Save, SaveAs
<1>3. /\ o \in Accounts /\ v \in 0..MaxPosts /\ v # 0
      /\ k \in 1..MaxKeys /\ Has(keys, Head(keys))
  BY <1>1, <1>2, HeadKey DEF TypeOK, Post, Held
<1>4. posts' \in [Processes -> Post]
      /\ \A q \in Processes : posts'[q] = posts[q] \/ posts'[q].pc = "idle"
  BY <1>1, <1>2, PostEnds DEF TypeOK
<1> HIDE DEF o, v, k
<1>5. /\ rows' \in [Accounts -> Row] /\ written' \in [Accounts -> 0..MaxPosts]
      /\ late' \subseteq Accounts /\ during' \subseteq Accounts
  BY <1>1, <1>2, <1>3, KeyNumbers DEF TypeOK, Row
<1>6. /\ rows'[o].value = v /\ rows'[o].key = k /\ written'[o] = v
      /\ \A x \in Accounts \ {o} : rows'[x] = rows[x] /\ written'[x] = written[x]
      /\ \A x \in Accounts \ {o} : (x \in late' <=> x \in late) /\ (x \in during' <=> x \in during)
      /\ o \notin late' => k = Head(keys)
      /\ job.pc = "save" => o \in during'
  BY <1>1, <1>2, <1>3 DEF TypeOK
<1>7. TypeOK'
  BY <1>1, <1>2, <1>4, <1>5 DEF TypeOK
<1>8. Readable'
  BY <1>1, <1>2, <1>3, <1>6 DEF Readable, Exists
<1>9. UpdateKept'
  BY <1>1, <1>6 DEF UpdateKept
<1>10. Held'
  <2>1. \A x \in Accounts : rows'[x].value = 0 <=> rows'[x].key = 0
    BY <1>1, <1>3, <1>6, KeyNumbers DEF Held
  <2> QED
    BY <1>1, <1>2, <1>4, <1>6, <2>1 DEF Held
<1>11. KeyOrder'
  BY <1>1, <1>2 DEF KeyOrder
<1>12. UnderNewest'
  BY <1>1, <1>2, <1>6 DEF UnderNewest, Exists
<1> QED
  BY <1>7, <1>8, <1>9, <1>10, <1>11, <1>12 DEF CredentialsInv

-----------------------------------------------------------------------------
(* The command.                                                              *)
LEMMA JobStartKeeps ==
  ASSUME CredentialsInv, JobStart
  PROVE  CredentialsInv'
<1>1. TypeOK /\ UnderNewest /\ KeyOrder /\ Held /\ Readable /\ UpdateKept
  BY DEF CredentialsInv
<1>2. /\ job' = [job EXCEPT !.pc = "read", !.keys = keys, !.saved = {}]
      /\ UNCHANGED <<keys, newest, rotated, proc, rows, posts, asked, written, late, during>>
  BY DEF JobStart
<1>3. job' \in Job /\ job'.pc = "read" /\ job'.keys = keys /\ job'.saved = {}
  BY <1>1, <1>2 DEF TypeOK, Job
<1>4. keys \in KeyList /\ Has(keys, Head(keys))
  BY <1>1, HeadKey DEF TypeOK
<1>5. TypeOK'
  BY <1>1, <1>2, <1>3 DEF TypeOK
<1>6. UnderNewest' /\ KeyOrder' /\ Held' /\ Readable' /\ UpdateKept'
  BY <1>1, <1>2, <1>3, <1>4
  DEF UnderNewest, KeyOrder, Held, Readable, UpdateKept, Exists
<1> QED
  BY <1>5, <1>6 DEF CredentialsInv

LEMMA JobReadKeeps ==
  ASSUME CredentialsInv, JobRead
  PROVE  CredentialsInv'
<1>1. TypeOK /\ UnderNewest /\ KeyOrder /\ Held /\ Readable /\ UpdateKept
  BY DEF CredentialsInv
<1> DEFINE values == [x \in Accounts |-> rows[x].value]
<1>2. /\ job.pc = "read"
      /\ job' = [job EXCEPT !.pc = "save", !.snap = values]
      /\ UNCHANGED <<keys, newest, rotated, proc, rows, posts, asked, written, late, during>>
  BY DEF JobRead
<1>3. values \in [Accounts -> 0..MaxPosts] /\ \A x \in Accounts : values[x] = rows[x].value
  BY <1>1 DEF TypeOK, Row
<1> HIDE DEF values
<1>4. /\ job' \in Job /\ job'.pc = "save" /\ job'.keys = job.keys
      /\ job'.snap = values /\ job'.saved = {}
  BY <1>1, <1>2, <1>3 DEF TypeOK, Job, Held
<1>5. TypeOK'
  BY <1>1, <1>2, <1>4 DEF TypeOK
<1>6. UnderNewest' /\ KeyOrder'
  BY <1>1, <1>2, <1>3, <1>4 DEF UnderNewest, KeyOrder, Exists
<1>7. Held'
  BY <1>1, <1>2, <1>3, <1>4 DEF Held, UpdateKept
<1>8. Readable' /\ UpdateKept'
  BY <1>1, <1>2 DEF Readable, UpdateKept, Exists
<1> QED
  BY <1>5, <1>6, <1>7, <1>8 DEF CredentialsInv

LEMMA JobSaveKeeps ==
  ASSUME CredentialsInv, NEW o \in Accounts, JobSave(o)
  PROVE  CredentialsInv'
<1>1. TypeOK /\ UnderNewest /\ KeyOrder /\ Held /\ Readable /\ UpdateKept
  BY DEF CredentialsInv
<1>2. /\ job.pc = "save" /\ job.snap[o] # 0
      /\ job' = [job EXCEPT !.saved = job.saved \cup {o}]
      /\ UNCHANGED <<keys, newest, rotated, proc, rows, posts, asked, written, late, during>>
  BY DEF JobSave
<1>3. /\ job' \in Job /\ job'.pc = job.pc /\ job'.keys = job.keys
      /\ job'.snap = job.snap /\ job'.saved = job.saved \cup {o}
  BY <1>1, <1>2 DEF TypeOK, Job
<1>4. TypeOK'
  BY <1>1, <1>2, <1>3 DEF TypeOK
<1>5. UnderNewest' /\ KeyOrder' /\ Held'
  BY <1>1, <1>2, <1>3 DEF UnderNewest, KeyOrder, Held, Exists
<1>6. Readable' /\ UpdateKept'
  BY <1>1, <1>2 DEF Readable, UpdateKept, Exists
<1> QED
  BY <1>4, <1>5, <1>6 DEF CredentialsInv

(* Halted or killed.                                                         *)
LEMMA JobEndsKeeps ==
  ASSUME CredentialsInv, JobHalts \/ JobDies
  PROVE  CredentialsInv'
<1>1. TypeOK /\ UnderNewest /\ KeyOrder /\ Held /\ Readable /\ UpdateKept
  BY DEF CredentialsInv
<1>2. UNCHANGED <<keys, newest, rotated, proc, rows, posts, asked, written, late, during>>
  BY DEF JobHalts, JobDies
<1>3. job' \in Job /\ job'.pc = "idle" /\ job'.saved = {}
  <2>1. CASE JobHalts
    BY <1>1, <2>1 DEF JobHalts, TypeOK, Job, Held
  <2>2. CASE JobDies
    BY <1>1, <2>2, KeyNumbers DEF JobDies, TypeOK, Job
  <2> QED
    BY <2>1, <2>2
<1>4. TypeOK'
  BY <1>1, <1>2, <1>3 DEF TypeOK
<1>5. UnderNewest' /\ KeyOrder' /\ Held' /\ Readable' /\ UpdateKept'
  BY <1>1, <1>2, <1>3
  DEF UnderNewest, KeyOrder, Held, Readable, UpdateKept, Exists
<1> QED
  BY <1>4, <1>5 DEF CredentialsInv

(* The rows the command has read are under its key from now on; what it has  *)
(* not read was written since, under the newest key or late.                 *)
LEMMA JobCommitKeeps ==
  ASSUME CredentialsInv, JobCommit
  PROVE  CredentialsInv'
<1>1. TypeOK /\ UnderNewest /\ KeyOrder /\ Held /\ Readable /\ UpdateKept
  BY DEF CredentialsInv
<1> DEFINE k == Head(job.keys)
           new == [x \in Accounts |-> [value |-> job.snap[x], key |-> k]]
<1>2. /\ job.pc = "save"
      /\ \A x \in Accounts : job.snap[x] # 0 => x \in job.saved
      /\ rotated' = (job.keys = keys)
      /\ late' = IF job.keys = keys THEN late \ job.saved ELSE late
      /\ job' = [job EXCEPT !.pc = "idle", !.snap = [x \in Accounts |-> 0], !.saved = {}]
      /\ UNCHANGED <<keys, newest, proc, posts, asked, written, during>>
  BY DEF JobCommit
<1>3. rows' = [x \in Accounts |-> IF x \in job.saved THEN new[x] ELSE rows[x]]
  BY DEF JobCommit
<1>4. /\ job.keys \in KeyList /\ job.saved \subseteq Accounts
      /\ job.snap \in [Accounts -> 0..MaxPosts]
      /\ k \in 1..MaxKeys
  BY <1>1, HeadKey DEF TypeOK, Job
<1>5. \A x \in Accounts : new[x] \in Row /\ new[x].value = job.snap[x] /\ new[x].key = k
  BY <1>4, KeyNumbers DEF Row
<1> HIDE DEF new
<1>6. /\ rows' \in [Accounts -> Row]
      /\ \A x \in job.saved : rows'[x].value = job.snap[x] /\ rows'[x].key = k
      /\ \A x \in Accounts \ job.saved : rows'[x] = rows[x]
  BY <1>1, <1>3, <1>4, <1>5 DEF TypeOK
<1>7. job' \in Job /\ job'.pc = "idle" /\ job'.saved = {}
  BY <1>1, <1>2, KeyNumbers DEF TypeOK, Job
<1>8. TypeOK'
  BY <1>1, <1>2, <1>6, <1>7 DEF TypeOK
<1>9. KeyOrder'
  BY <1>1, <1>2, <1>7 DEF KeyOrder
<1>10. UnderNewest'
  <2>1. ASSUME job.keys = keys, NEW x \in Accounts \ late', rows'[x].value # 0
        PROVE  rows'[x].key = Head(keys)
    BY <1>1, <1>2, <1>6, <2>1 DEF UnderNewest, Exists
  <2> QED
    BY <1>2, <1>7, <2>1 DEF UnderNewest, Exists
<1>11. Readable'
  <2>1. Has(keys, k)
    BY <1>1, <1>2 DEF UnderNewest
  <2> QED
    BY <1>1, <1>2, <1>6, <2>1 DEF Readable, Exists
<1>12. UpdateKept'
  BY <1>1, <1>2, <1>6 DEF UpdateKept, Held
<1>13. Held'
  <2>1. \A x \in Accounts : rows'[x].value = 0 <=> rows'[x].key = 0
    BY <1>1, <1>2, <1>4, <1>6, KeyNumbers DEF Held
  <2> QED
    BY <1>1, <1>2, <1>7, <2>1 DEF Held
<1> QED
  BY <1>8, <1>9, <1>10, <1>11, <1>12, <1>13 DEF CredentialsInv

-----------------------------------------------------------------------------
(* CredentialsInv: what a row is encrypted with, what the command holds and  *)
(* what was answered stay related through every order of posts, restarts, new*)
(* keys and runs of the command.                                             *)
THEOREM CredentialsInvariance == Spec => []CredentialsInv
<1>1. Init => CredentialsInv
  <2> SUFFICES ASSUME Init PROVE CredentialsInv
    OBVIOUS
  <2>0. 1 \in 1..MaxKeys
    OBVIOUS
  <2>1. <<1>> \in KeyList /\ Head(<<1>>) = 1
    BY <2>0, KeyKept
  <2>2. TypeOK
    <3>1. PICK o \in Accounts :
            posts = [p \in Processes |-> [pc |-> "idle", account |-> o, value |-> 0]]
      BY DEF Init
    <3>2. posts \in [Processes -> Post]
      BY <3>1, KeyNumbers DEF Post
    <3>3. job \in Job /\ rows \in [Accounts -> Row]
      BY <2>1, KeyNumbers DEF Init, Job, Row, NoRow
    <3> QED
      BY <2>0, <2>1, <3>2, <3>3, KeyNumbers DEF Init, TypeOK
  <2>3. \A p \in Processes : posts[p].pc = "idle"
    BY DEF Init
  <2>4. UnderNewest /\ KeyOrder /\ Held /\ Readable /\ UpdateKept
    BY <2>1, <2>3
    DEF Init, NoRow, UnderNewest, KeyOrder, Held, Readable, UpdateKept, Exists
  <2> QED
    BY <2>2, <2>4 DEF CredentialsInv
<1>2. CredentialsInv /\ [Next]_vars => CredentialsInv'
  <2> SUFFICES ASSUME CredentialsInv, [Next]_vars PROVE CredentialsInv'
    OBVIOUS
  <2>1. CASE OperatorNext
    BY <2>1, AddKeyKeeps, DropOldKeeps, RestartKeeps DEF OperatorNext
  <2>2. CASE JobNext
    BY <2>2, JobStartKeeps, JobReadKeeps, JobSaveKeeps, JobEndsKeeps, JobCommitKeeps
    DEF JobNext
  <2>3. ASSUME NEW p \in Processes, PostNext(p) PROVE CredentialsInv'
    BY <2>3, PostCredentialsKeeps, RequestKeeps, WriteKeeps DEF PostNext
  <2>4. CASE UNCHANGED vars
    BY <2>4
    DEF vars, CredentialsInv, TypeOK, UnderNewest, KeyOrder, Held, Readable,
        UpdateKept, Exists
  <2> QED
    BY <2>1, <2>2, <2>3, <2>4 DEF Next
<1> QED
  BY <1>1, <1>2, PTL DEF Spec

(* No row becomes unreadable when the old keys are dropped after a completed *)
(* run of the command (re_encrypt_transcript_credentials.py), but those a    *)
(* process with old keys wrote.                                              *)
THEOREM RowsAreReadable == Spec => []Readable
<1>1. CredentialsInv => Readable
  BY DEF CredentialsInv
<1> QED
  BY <1>1, CredentialsInvariance, PTL

(* Credentials that were answered with 201 (views.py:267) are in the row,    *)
(* unless they were posted while the command held what it had read.          *)
THEOREM UpdatesAreKept == Spec => []UpdateKept
<1>1. CredentialsInv => UpdateKept
  BY DEF CredentialsInv
<1> QED
  BY <1>1, CredentialsInvariance, PTL
=============================================================================

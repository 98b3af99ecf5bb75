------------------------- MODULE HlsBackfill_proofs -------------------------
(* That BackfillInv is an invariant of HlsBackfill, for every set of videos, *)
(* encodes, callers, runs and writers.                                       *)
EXTENDS HlsBackfill, SequenceTheorems, TLAPS

USE ValAssumption, BackfillAssumption DEF None

-----------------------------------------------------------------------------
LEMMA Appended ==
  ASSUME NEW S, NEW q \in Seq(S), NEW e \in S, NEW p, p = Append(q, e)
  PROVE  /\ p \in Seq(S) /\ Len(p) = Len(q) + 1 /\ Len(q) \in Nat
         /\ \A i \in 1..Len(q) : p[i] = q[i]
         /\ p[Len(q) + 1] = e
BY AppendProperties, LenProperties

LEMMA OneMore ==
  ASSUME NEW n \in Nat, NEW i \in 1..(n + 1)
  PROVE  (i \in 1..n \/ i = n + 1) /\ n + 1 # 0 /\ n + 1 \in 1..(n + 1)
OBVIOUS

LEMMA OneCall ==
  ASSUME NEW n \in Nat, NEW c \in 0..n, c < n
  PROVE  c + 1 \in 0..n
OBVIOUS

LEMMA Numbers ==
  /\ 0 \in Nat /\ \A n \in Nat : n + 1 \in Nat /\ n + 1 > 0 /\ 0 \in 0..n
  /\ \A n \in Nat : n > 0 => n - 1 \in Nat
  /\ \A n \in Nat : n + BatchSize \in Nat
OBVIOUS

(* A caller that takes another step: the others do not.                      *)
LEMMA CallerStep ==
  ASSUME callers \in [Callers -> Call], NEW c \in Callers, NEW r \in Call,
         callers' = [callers EXCEPT ![c] = r]
  PROVE  /\ callers' \in [Callers -> Call]
         /\ callers'[c] = r
         /\ \A d \in Callers \ {c} : callers'[d] = callers[d]
OBVIOUS

(* A URL row more: its encode is there, and those that were.                 *)
LEMMA RowAdded ==
  ASSUME urls \in [Videos -> Seq(Url)], NEW v \in Videos, NEW e \in Encodes,
         urls' = [urls EXCEPT ![v] = Append(@, [encode |-> e, sound |-> TRUE])]
  PROVE  /\ urls' \in [Videos -> Seq(Url)]
         /\ urls'[v] # <<>>
         /\ \A w \in Videos \ {v} : urls'[w] = urls[w]
         /\ \A x : Has(v, x)' => Has(v, x) \/ x = e
<1> DEFINE u == [encode |-> e, sound |-> TRUE]
<1>1. u \in Url /\ u.encode = e
  BY DEF Url
<1>2. urls[v] \in Seq(Url) /\ urls' = [urls EXCEPT ![v] = Append(urls[v], u)]
  OBVIOUS
<1> HIDE DEF u
<1>3. /\ urls'[v] = Append(urls[v], u)
      /\ \A w \in Videos \ {v} : urls'[w] = urls[w]
  BY <1>2
<1>4. /\ urls'[v] \in Seq(Url) /\ Len(urls'[v]) = Len(urls[v]) + 1
      /\ Len(urls[v]) \in Nat
      /\ \A i \in 1..Len(urls[v]) : urls'[v][i] = urls[v][i]
      /\ urls'[v][Len(urls[v]) + 1] = u
  BY ONLY <1>1, <1>2, <1>3, Appended
<1>5. urls' \in [Videos -> Seq(Url)]
  BY <1>2, <1>3, <1>4
<1>6. urls'[v] # <<>>
  BY <1>4, OneMore
<1>7. ASSUME NEW x, NEW i \in 1..Len(urls'[v]), urls'[v][i].encode = x
      PROVE  Has(v, x) \/ x = e
  BY <1>1, <1>4, <1>7, OneMore DEF Has
<1> QED
  BY <1>3, <1>5, <1>6, <1>7 DEF Has

(* A list or record of edx-val that is put.                                  *)
LEMMA Written ==
  ASSUME ValTypeOK, NEW v \in Videos, NEW data \in SUBSET Encodes, Write(v, data)
  PROVE  /\ val' \in [Videos -> Record] /\ val'[v].encodes = data
         /\ reported' \in [Videos -> SUBSET Encodes]
         /\ reported'[v] = reported[v] \cup data
         /\ unreported' \in [Videos -> SUBSET Encodes]
         /\ unreported'[v] = unreported[v] \ data
         /\ \A w \in Videos \ {v} : /\ val'[w] = val[w]
                                    /\ reported'[w] = reported[w]
                                    /\ unreported'[w] = unreported[w]
<1> DEFINE r == [known |-> TRUE, encodes |-> data]
<1>1. r \in Record /\ r.encodes = data
  BY DEF Record
<1>2. val' = [val EXCEPT ![v] = r]
  BY DEF Write
<1> HIDE DEF r
<1>3. /\ val' \in [Videos -> Record] /\ val'[v] = r
      /\ \A w \in Videos \ {v} : val'[w] = val[w]
  BY <1>1, <1>2 DEF ValTypeOK
<1>4. /\ reported' \in [Videos -> SUBSET Encodes]
      /\ reported'[v] = reported[v] \cup data
      /\ \A w \in Videos \ {v} : reported'[w] = reported[w]
  BY DEF Write, ValTypeOK
<1>5. /\ unreported' \in [Videos -> SUBSET Encodes]
      /\ unreported'[v] = unreported[v] \ data
      /\ \A w \in Videos \ {v} : unreported'[w] = unreported[w]
  BY DEF Write, ValTypeOK
<1> QED
  BY <1>1, <1>3, <1>4, <1>5

-----------------------------------------------------------------------------
(* The calls of edx-val. The bound on their number is the caller's.          *)
LEMMA TakeKeeps ==
  ASSUME ValInv, NEW c \in Callers, NEW r \in Call,
         calls' \in 0..MaxCalls,
         callers[c].pc \in {"idle", "done"},
         r.pc \in {"idle", "save", "get"},
         r.pc = "get" => r.encode = None, r.pc = "save" => r.encode # None,
         callers' = [callers EXCEPT ![c] = r],
         UNCHANGED <<urls, val, reported, unreported, raced>>
  PROVE  ValInv'
<1>1. ValTypeOK /\ EncodesStay /\ EncodesReported /\ Merged /\ Backed
  BY DEF ValInv
<1>2. callers \in [Callers -> Call]
  BY <1>1 DEF ValTypeOK
<1>3. /\ callers' \in [Callers -> Call] /\ callers'[c] = r
      /\ \A d \in Callers \ {c} : callers'[d] = callers[d]
  BY <1>2, CallerStep
<1>4. ValTypeOK'
  BY <1>1, <1>3 DEF ValTypeOK
<1>5. EncodesStay'
  BY <1>1 DEF EncodesStay
<1>6. EncodesReported'
  <2>1. ASSUME NEW w \in Videos, NEW x, AtWork(w, x) PROVE AtWork(w, x)'
    BY <1>3, <2>1 DEF AtWork
  <2> QED
    BY <1>1, <2>1 DEF EncodesReported, Has
<1>7. Merged'
  BY <1>1, <1>3 DEF Merged, Own
<1>8. Backed'
  BY <1>1, <1>3 DEF Backed
<1> QED
  BY <1>4, <1>5, <1>6, <1>7, <1>8 DEF ValInv

LEMMA SaveUrlKeeps ==
  ASSUME ValInv, NEW c \in Callers, SaveUrl(c)
  PROVE  ValInv'
<1>1. ValTypeOK /\ EncodesStay /\ EncodesReported /\ Merged /\ Backed
  BY DEF ValInv
<1>2. /\ callers[c] \in Call /\ callers \in [Callers -> Call]
      /\ callers[c].video \in Videos /\ callers[c].encode \in Encodes
  BY <1>1 DEF ValTypeOK, Call, Backed, SaveUrl
<1>0. PICK v \in Videos, e \in Encodes : v = callers[c].video /\ e = callers[c].encode
  BY <1>2
<1>3. /\ callers[c].pc = "save"
      /\ urls' = [urls EXCEPT ![v] = Append(@, [encode |-> e, sound |-> TRUE])]
      /\ UNCHANGED <<val, calls, reported, unreported, raced>>
  BY <1>0 DEF SaveUrl
<1>4. PICK complete \in BOOLEAN :
        callers' = [callers EXCEPT ![c].pc = "get", ![c].complete = complete]
  BY DEF SaveUrl
<1> DEFINE r == [callers[c] EXCEPT !.pc = "get", !.complete = complete]
<1>5. r \in Call /\ r.pc = "get" /\ r.encode = e /\ r.video = v
  BY <1>0, <1>2 DEF Call
<1>6. callers' = [callers EXCEPT ![c] = r]
  BY <1>2, <1>4
<1> HIDE DEF r
<1>7. /\ callers' \in [Callers -> Call] /\ callers'[c] = r
      /\ \A d \in Callers \ {c} : callers'[d] = callers[d]
  BY <1>2, <1>5, <1>6, CallerStep
<1>8. /\ urls' \in [Videos -> Seq(Url)] /\ urls'[v] # <<>>
      /\ \A w \in Videos \ {v} : urls'[w] = urls[w]
      /\ \A x : Has(v, x)' => Has(v, x) \/ x = e
  BY <1>1, <1>3, RowAdded DEF ValTypeOK
<1> HIDE DEF r
<1>9. ValTypeOK'
  BY <1>1, <1>3, <1>7, <1>8 DEF ValTypeOK
<1>10. EncodesStay'
  BY <1>1, <1>3 DEF EncodesStay
<1>11. EncodesReported'
  <2>1. ASSUME NEW w \in Videos, NEW x, AtWork(w, x) PROVE AtWork(w, x)'
    BY <1>3, <1>7, <2>1 DEF AtWork
  <2>2. AtWork(v, e)'
    BY <1>5, <1>7 DEF AtWork
  <2>3. ASSUME NEW w \in Videos, NEW x, Has(w, x)' PROVE Has(w, x) \/ (w = v /\ x = e)
    BY <1>8, <2>3 DEF Has
  <2> QED
    BY <1>1, <1>3, <2>1, <2>2, <2>3 DEF EncodesReported
<1>12. Merged'
  BY <1>1, <1>5, <1>7 DEF Merged, Own
<1>13. Backed'
  <2>1. \A w \in Videos : urls[w] # <<>> => urls'[w] # <<>>
    BY <1>8
  <2>2. \A d \in Callers : callers[d].video \in Videos
    BY <1>1 DEF ValTypeOK, Call
  <2>3. \A w \in Videos : val'[w].encodes # {} => urls'[w] # <<>>
    BY <1>1, <1>3, <2>1 DEF Backed
  <2>4. ASSUME NEW d \in Callers, d # c
        PROVE  /\ (callers[d].pc \in {"determine", "send"} /\ callers[d].got.encodes # {})
                    => urls'[callers[d].video] # <<>>
               /\ (callers[d].pc = "send" /\ callers[d].data # {})
                    => urls'[callers[d].video] # <<>>
               /\ callers[d].pc = "save" => callers[d].encode # None
               /\ (callers[d].pc \in {"get", "determine", "send"}
                   /\ callers[d].encode # None) => urls'[callers[d].video] # <<>>
    BY <1>1, <2>1, <2>2 DEF Backed
  <2>5. r.pc = "get" /\ urls'[r.video] # <<>>
    BY <1>0, <1>5, <1>8
  <2> QED
    BY <1>7, <2>3, <2>4, <2>5 DEF Backed
<1> QED
  BY <1>9, <1>10, <1>11, <1>12, <1>13 DEF ValInv

LEMMA GetKeeps ==
  ASSUME ValInv, NEW c \in Callers, Get(c)
  PROVE  ValInv'
<1> DEFINE v == callers[c].video
           r == [callers[c] EXCEPT !.pc = "determine", !.got = val[v]]
<1>1. ValTypeOK /\ EncodesStay /\ EncodesReported /\ Merged /\ Backed
  BY DEF ValInv
<1>2. callers[c] \in Call /\ callers \in [Callers -> Call] /\ v \in Videos
  BY <1>1 DEF ValTypeOK, Call
<1>3. val[v] \in Record
  BY <1>1, <1>2 DEF ValTypeOK
<1>4. /\ callers[c].pc = "get"
      /\ UNCHANGED <<urls, val, calls, reported, unreported, raced>>
      /\ callers' = [callers EXCEPT ![c] = r]
  BY <1>2 DEF Get
<1>5. /\ r \in Call /\ r.pc = "determine" /\ r.encode = callers[c].encode
      /\ r.video = v /\ r.got = val[v]
  BY <1>2, <1>3 DEF Call
<1> HIDE DEF r
<1>7. /\ callers' \in [Callers -> Call] /\ callers'[c] = r
      /\ \A d \in Callers \ {c} : callers'[d] = callers[d]
  BY <1>2, <1>4, <1>5, CallerStep
<1>8. ValTypeOK'
  BY <1>1, <1>4, <1>7 DEF ValTypeOK
<1>9. EncodesStay'
  BY <1>1, <1>4 DEF EncodesStay
<1>10. EncodesReported'
  <2>1. ASSUME NEW w \in Videos, NEW x, AtWork(w, x) PROVE AtWork(w, x)'
    BY <1>4, <1>5, <1>7, <2>1 DEF AtWork
  <2> QED
    BY <1>1, <1>4, <2>1 DEF EncodesReported, Has
<1>11. Merged'
  BY <1>1, <1>5, <1>7 DEF Merged, Own
<1>12. Backed'
  BY <1>1, <1>2, <1>4, <1>5, <1>7 DEF Backed
<1> QED
  BY <1>8, <1>9, <1>10, <1>11, <1>12 DEF ValInv

(* A call that fails: what edx-val had acknowledged it still has.            *)
LEMMA FailedKeeps ==
  ASSUME ValInv, NEW c \in Callers, GetFails(c) \/ SendFails(c)
  PROVE  ValInv'
<1> DEFINE v == callers[c].video
           r == [callers[c] EXCEPT !.pc = "done"]
<1>1. ValTypeOK /\ EncodesStay /\ EncodesReported /\ Merged /\ Backed
  BY DEF ValInv
<1>2. callers[c] \in Call /\ callers \in [Callers -> Call] /\ v \in Videos
  BY <1>1 DEF ValTypeOK, Call
<1>3. /\ callers[c].pc \in {"get", "send"}
      /\ UNCHANGED <<urls, val, calls, reported, raced>>
      /\ callers' = [callers EXCEPT ![c] = r]
      /\ unreported' = [unreported EXCEPT ![v] = @ \cup (Own(c) \ reported[v])]
  BY <1>2 DEF GetFails, SendFails, Failed
<1>4. r \in Call /\ r.pc = "done"
  BY <1>2 DEF Call
<1>5. Own(c) \subseteq Encodes
  BY <1>2 DEF Own, Call
<1> HIDE DEF r
<1>6. /\ callers' \in [Callers -> Call] /\ callers'[c] = r
      /\ \A d \in Callers \ {c} : callers'[d] = callers[d]
  BY <1>2, <1>3, <1>4, CallerStep
<1>7. /\ unreported' \in [Videos -> SUBSET Encodes]
      /\ unreported'[v] = unreported[v] \cup (Own(c) \ reported[v])
      /\ \A w \in Videos \ {v} : unreported'[w] = unreported[w]
  BY <1>1, <1>2, <1>3, <1>5 DEF ValTypeOK
<1>8. ValTypeOK'
  BY <1>1, <1>3, <1>6, <1>7 DEF ValTypeOK
<1>9. EncodesStay'
  BY <1>1, <1>3 DEF EncodesStay
<1>10. EncodesReported'
  <2>1. ASSUME NEW w \in Videos \ raced, NEW x \in Encodes, AtWork(w, x)
        PROVE  AtWork(w, x)' \/ x \in val[w].encodes \/ x \in unreported'[w]
    <3>1. PICK d \in Callers :
            /\ callers[d].pc \notin {"idle", "save", "done"}
            /\ callers[d].video = w /\ callers[d].encode = x
      BY <2>1 DEF AtWork
    <3>2. CASE d = c
      <4>1. w = v /\ x \in Own(c)
        BY <3>1, <3>2 DEF Own
      <4>2. CASE x \in reported[v]
        BY <1>1, <4>1, <4>2 DEF EncodesStay
      <4>3. CASE x \notin reported[v]
        BY <1>7, <4>1, <4>3
      <4> QED
        BY <4>2, <4>3
    <3>3. CASE d # c
      BY <1>6, <3>1, <3>3 DEF AtWork
    <3> QED
      BY <3>2, <3>3
  <2>2. \A w \in Videos : unreported[w] \subseteq unreported'[w]
    BY <1>2, <1>7
  <2> QED
    BY <1>1, <1>3, <2>1, <2>2 DEF EncodesReported, Has
<1>11. Merged'
  BY <1>1, <1>4, <1>6 DEF Merged, Own
<1>12. Backed'
  BY <1>1, <1>3, <1>4, <1>6 DEF Backed
<1> QED
  BY <1>8, <1>9, <1>10, <1>11, <1>12 DEF ValInv

(* A video with URL rows has a latest one.                                   *)
LEMMA LatestRow ==
  ASSUME ValTypeOK, NEW v \in Videos
  PROVE  /\ Latest(v) \subseteq Encodes
         /\ urls[v] # <<>> => Latest(v) # {}
         /\ Latest(v) # {} => urls[v] # <<>>
<1> DEFINE s == urls[v]
<1>1. s \in Seq(Url)
  BY DEF ValTypeOK
<1> HIDE DEF s
<1>2. Len(s) \in Nat /\ (s # <<>> <=> Len(s) # 0)
  BY <1>1
<1>3. Len(s) # 0 => Len(s) \in 1..Len(s)
  BY <1>2
<1>4. Len(s) # 0 => s[Len(s)] \in Url
  BY <1>1, <1>3, ElementOfSeq
<1>5. \A i \in {Len(s)} \ {0} : s[i].encode \in Encodes
  BY <1>4 DEF Url
<1> QED
  BY <1>2, <1>5 DEF Latest, s

LEMMA DetermineKeeps ==
  ASSUME ValInv, NEW c \in Callers, Determine(c)
  PROVE  ValInv'
<1> DEFINE v == callers[c].video
           sent == Own(c) \cup Latest(v)
           data == IF sent = {} THEN {} ELSE sent \cup callers[c].got.encodes
           p == IF data = {} /\ callers[c].complete THEN "done" ELSE "send"
           r == [callers[c] EXCEPT !.pc = p, !.data = data]
<1>1. ValTypeOK /\ EncodesStay /\ EncodesReported /\ Merged /\ Backed
  BY DEF ValInv
<1>2. /\ callers[c] \in Call /\ callers \in [Callers -> Call] /\ v \in Videos
      /\ callers[c].encode \in Encodes \cup {None} /\ callers[c].got.encodes \subseteq Encodes
  BY <1>1 DEF ValTypeOK, Call, Record
<1>3. /\ callers[c].pc = "determine"
      /\ UNCHANGED <<urls, val, calls, reported, unreported, raced>>
      /\ callers' = [callers EXCEPT ![c] = r]
  BY <1>2 DEF Determine
<1>4. /\ Latest(v) \subseteq Encodes /\ Own(c) \subseteq Encodes
      /\ urls[v] # <<>> => Latest(v) # {}
      /\ Latest(v) # {} => urls[v] # <<>>
  BY <1>1, <1>2, LatestRow DEF Own
<1>5. data \subseteq Encodes /\ p \in {"done", "send"}
  BY <1>2, <1>4
<1>6. callers[c].got.encodes \cup Own(c) \subseteq data
  BY <1>1, <1>3, <1>4 DEF Backed
<1>7. Own(c) # {} => urls[v] # <<>>
  BY <1>1, <1>3 DEF Backed, Own
<1>8. data # {} => urls[v] # <<>>
  BY <1>4, <1>7
<1>9. p = "done" => callers[c].encode = None
  BY <1>6 DEF Own
<1> HIDE DEF data, p, sent
<1>10. /\ r \in Call /\ r.pc = p /\ r.data = data
       /\ r.encode = callers[c].encode /\ r.video = v /\ r.got = callers[c].got
  BY <1>2, <1>5 DEF Call
<1> HIDE DEF r
<1>11. /\ callers' \in [Callers -> Call] /\ callers'[c] = r
       /\ \A d \in Callers \ {c} : callers'[d] = callers[d]
  BY <1>2, <1>3, <1>10, CallerStep
<1>12. ValTypeOK'
  BY <1>1, <1>3, <1>11 DEF ValTypeOK
<1>13. EncodesStay'
  BY <1>1, <1>3 DEF EncodesStay
<1>14. EncodesReported'
  <2>1. ASSUME NEW w \in Videos, NEW x \in Encodes, AtWork(w, x) PROVE AtWork(w, x)'
    <3>1. PICK d \in Callers :
            /\ callers[d].pc \notin {"idle", "save", "done"}
            /\ callers[d].video = w /\ callers[d].encode = x
      BY <2>1 DEF AtWork
    <3>2. CASE d = c
      BY <1>5, <1>9, <1>10, <1>11, <3>1, <3>2 DEF AtWork
    <3>3. CASE d # c
      BY <1>11, <3>1, <3>3 DEF AtWork
    <3> QED
      BY <3>2, <3>3
  <2> QED
    BY <1>1, <1>3, <2>1 DEF EncodesReported, Has
<1>15. Merged'
  BY <1>1, <1>6, <1>10, <1>11 DEF Merged, Own
<1>16. Backed'
  BY <1>1, <1>3, <1>5, <1>7, <1>8, <1>10, <1>11 DEF Backed, Own
<1> QED
  BY <1>12, <1>13, <1>14, <1>15, <1>16 DEF ValInv

(* A PUT over what was read, or over something else: then the video raced.   *)
LEMMA SendKeeps ==
  ASSUME ValInv, NEW c \in Callers, Send(c)
  PROVE  ValInv'
<1>1. ValTypeOK /\ EncodesStay /\ EncodesReported /\ Merged /\ Backed
  BY DEF ValInv
<1>2. /\ callers[c] \in Call /\ callers \in [Callers -> Call]
      /\ callers[c].video \in Videos /\ callers[c].data \in SUBSET Encodes
  BY <1>1 DEF ValTypeOK, Call
<1>3. PICK v \in Videos, data \in SUBSET Encodes :
        v = callers[c].video /\ data = callers[c].data
  BY <1>2
<1> DEFINE r == [callers[c] EXCEPT !.pc = "done"]
<1>4. /\ callers[c].pc = "send"
      /\ Write(v, data)
      /\ raced' = IF callers[c].got = val[v] THEN raced ELSE raced \cup {v}
      /\ UNCHANGED <<urls, calls>>
      /\ callers' = [callers EXCEPT ![c] = r]
  BY <1>2, <1>3 DEF Send
<1>5. r \in Call /\ r.pc = "done"
  BY <1>2 DEF Call
<1> HIDE DEF r
<1>6. /\ callers' \in [Callers -> Call] /\ callers'[c] = r
      /\ \A d \in Callers \ {c} : callers'[d] = callers[d]
  BY <1>2, <1>4, <1>5, CallerStep
<1>7. /\ val' \in [Videos -> Record] /\ val'[v].encodes = data
      /\ reported' \in [Videos -> SUBSET Encodes]
      /\ reported'[v] = reported[v] \cup data
      /\ unreported' \in [Videos -> SUBSET Encodes]
      /\ unreported'[v] = unreported[v] \ data
      /\ \A w \in Videos \ {v} : /\ val'[w] = val[w]
                                 /\ reported'[w] = reported[w]
                                 /\ unreported'[w] = unreported[w]
  BY <1>1, <1>4, Written
<1>8. raced \subseteq raced' /\ raced' \subseteq Videos
  BY <1>1, <1>4 DEF ValTypeOK
<1>9. v \notin raced' => val[v].encodes \cup Own(c) \subseteq data
  BY <1>1, <1>3, <1>4 DEF Merged
<1>10. ValTypeOK'
  BY <1>1, <1>4, <1>6, <1>7, <1>8 DEF ValTypeOK
<1>11. EncodesStay'
  <2>1. v \notin raced' => reported'[v] \subseteq val'[v].encodes
    BY <1>1, <1>7, <1>8, <1>9 DEF EncodesStay
  <2> QED
    BY <1>1, <1>7, <1>8, <2>1 DEF EncodesStay
<1>12. EncodesReported'
  <2>1. ASSUME NEW w \in Videos \ raced', NEW x \in Encodes, Has(w, x)
        PROVE  x \in val'[w].encodes \/ AtWork(w, x)' \/ x \in unreported'[w]
    <3>1. x \in val[w].encodes \/ AtWork(w, x) \/ x \in unreported[w]
      BY <1>1, <1>8, <2>1 DEF EncodesReported
    <3>2. CASE x \in val[w].encodes \/ x \in unreported[w]
      BY <1>7, <1>9, <2>1, <3>2
    <3>3. CASE AtWork(w, x)
      <4>1. PICK d \in Callers :
              /\ callers[d].pc \notin {"idle", "save", "done"}
              /\ callers[d].video = w /\ callers[d].encode = x
        BY <3>3 DEF AtWork
      <4>2. CASE d = c
        <5>1. w = v /\ x \in Own(c)
          BY <1>3, <4>1, <4>2 DEF Own
        <5> QED
          BY <1>7, <1>9, <2>1, <5>1
      <4>3. CASE d # c
        BY <1>6, <4>1, <4>3 DEF AtWork
      <4> QED
        BY <4>2, <4>3
    <3> QED
      BY <3>1, <3>2, <3>3
  <2> QED
    BY <1>4, <2>1 DEF EncodesReported, Has
<1>13. Merged'
  BY <1>1, <1>5, <1>6 DEF Merged, Own
<1>14. Backed'
  <2>1. data # {} => urls[v] # <<>>
    BY <1>1, <1>3, <1>4 DEF Backed
  <2>2. \A w \in Videos : val'[w].encodes # {} => urls[w] # <<>>
    BY <1>1, <1>7, <2>1 DEF Backed
  <2> QED
    BY <1>1, <1>4, <1>5, <1>6, <2>2 DEF Backed
<1> QED
  BY <1>10, <1>11, <1>12, <1>13, <1>14 DEF ValInv

(* The command adds a profile to what edx-val has by now.                    *)
LEMMA AddKeeps ==
  ASSUME ValInv, NEW v \in Videos, NEW e \in Encodes, urls[v] # <<>>,
         Write(v, val[v].encodes \cup {e}),
         UNCHANGED <<urls, callers, calls, raced>>
  PROVE  ValInv'
<1>1. ValTypeOK /\ EncodesStay /\ EncodesReported /\ Merged /\ Backed
  BY DEF ValInv
<1>2. val[v].encodes \cup {e} \in SUBSET Encodes
  BY <1>1 DEF ValTypeOK, Record
<1>3. PICK data \in SUBSET Encodes :
        data = val[v].encodes \cup {e} /\ Write(v, data)
  BY <1>2
<1>4. /\ val' \in [Videos -> Record] /\ val'[v].encodes = data
      /\ reported' \in [Videos -> SUBSET Encodes]
      /\ reported'[v] = reported[v] \cup data
      /\ unreported' \in [Videos -> SUBSET Encodes]
      /\ unreported'[v] = unreported[v] \ data
      /\ \A w \in Videos \ {v} : /\ val'[w] = val[w]
                                 /\ reported'[w] = reported[w]
                                 /\ unreported'[w] = unreported[w]
  BY <1>1, <1>3, Written
<1>5. ValTypeOK'
  BY <1>1, <1>4 DEF ValTypeOK
<1>6. EncodesStay'
  BY <1>1, <1>3, <1>4 DEF EncodesStay
<1>7. EncodesReported'
  <2>1. ASSUME NEW w \in Videos \ raced, NEW x \in Encodes, Has(w, x)
        PROVE  x \in val'[w].encodes \/ AtWork(w, x) \/ x \in unreported'[w]
    <3>1. x \in val[w].encodes \/ AtWork(w, x) \/ x \in unreported[w]
      BY <1>1, <2>1 DEF EncodesReported
    <3> QED
      BY <1>3, <1>4, <2>1, <3>1
  <2> QED
    BY <2>1 DEF EncodesReported, Has, AtWork
<1>8. Merged'
  BY <1>1 DEF Merged, Own
<1>9. Backed'
  <2>1. \A w \in Videos : val'[w].encodes # {} => urls[w] # <<>>
    BY <1>1, <1>4 DEF Backed
  <2> QED
    BY <1>1, <2>1 DEF Backed
<1> QED
  BY <1>5, <1>6, <1>7, <1>8, <1>9 DEF ValInv

LEMMA ValSame ==
  ASSUME ValInv, UNCHANGED <<urls, val, callers, reported, unreported, raced>>,
         calls' \in 0..MaxCalls
  PROVE  ValInv'
<1>1. ValTypeOK /\ EncodesStay /\ EncodesReported /\ Merged /\ Backed
  BY DEF ValInv
<1>2. ValTypeOK'
  BY <1>1 DEF ValTypeOK
<1>3. EncodesStay' /\ EncodesReported' /\ Merged' /\ Backed'
  BY <1>1 DEF EncodesStay, EncodesReported, Has, AtWork, Merged, Own, Backed
<1> QED
  BY <1>2, <1>3 DEF ValInv

LEMMA CallKeeps ==
  ASSUME ValInv, NEW c \in Callers, CallNext(c)
  PROVE  ValInv'
BY SaveUrlKeeps, GetKeeps, FailedKeeps, DetermineKeeps, SendKeeps DEF CallNext

-----------------------------------------------------------------------------
(* The runs of the command. A step of a run that writes nothing others read. *)
LEMMA QuietRunKeeps ==
  ASSUME BackfillInv, NEW r \in Runs, NEW q \in Run,
         runs' = [runs EXCEPT ![r] = q],
         q.pc = "restore" => urls[q.video] # <<>>,
         q.pc # "enqueue",
         offset' \in Nat, begun' \in 0..MaxRuns,
         UNCHANGED <<valVars, queue, rowVars>>
  PROVE  BackfillInv'
<1>1. TypeOK /\ ValInv /\ Restoring /\ StaysOff /\ TranscriptionStaysOff
  BY DEF BackfillInv
<1>2. runs \in [Runs -> Run]
  BY <1>1 DEF TypeOK
<1>3. /\ runs' \in [Runs -> Run] /\ runs'[r] = q
      /\ \A s \in Runs \ {r} : runs'[s] = runs[s]
  BY <1>2
<1>4. ValInv'
  BY <1>1, ValSame DEF valVars, ValInv, ValTypeOK
<1>5. TypeOK'
  BY <1>1, <1>3, <1>4 DEF TypeOK, ValInv, rowVars
<1>6. Restoring'
  BY <1>1, <1>3 DEF Restoring, valVars
<1>7. StaysOff' /\ TranscriptionStaysOff'
  BY <1>1, <1>3 DEF StaysOff, TranscriptionStaysOff, valVars, rowVars
<1> QED
  BY <1>4, <1>5, <1>6, <1>7 DEF BackfillInv

LEMMA QuietRuns ==
  ASSUME BackfillInv, NEW r \in Runs,
         \/ Begin(r) \/ AskFails(r) \/ Look(r) \/ Load(r) \/ Check(r)
         \/ IncrementRun(r) \/ UpdateOffset(r) \/ \E all \in BOOLEAN : Ask(r, all)
  PROVE  BackfillInv'
<1>1. TypeOK /\ Restoring
  BY DEF BackfillInv
<1>2. /\ runs \in [Runs -> Run] /\ runs[r] \in Run
      /\ offset \in Nat /\ begun \in 0..MaxRuns
  BY <1>1 DEF TypeOK
<1>3. runs[r].video \in Videos /\ runs[r].offset \in Nat /\ runs[r].todo \subseteq Videos
  BY <1>2 DEF Run
<1>4. CASE Begin(r)
  <2> DEFINE q == [runs[r] EXCEPT !.pc = "ask", !.offset = offset]
  <2>1. q \in Run /\ q.pc = "ask"
    BY <1>2 DEF Run
  <2>2. runs' = [runs EXCEPT ![r] = q]
    BY <1>2, <1>4 DEF Begin
  <2>3. begun' \in 0..MaxRuns /\ offset' \in Nat
    BY <1>2, <1>4, OneCall DEF Begin
  <2> HIDE DEF q
  <2> QED
    BY <1>4, <2>1, <2>2, <2>3, QuietRunKeeps DEF Begin
<1>5. CASE AskFails(r)
  <2> DEFINE q == [runs[r] EXCEPT !.pc = "idle"]
  <2>1. q \in Run /\ q.pc = "idle"
    BY <1>2 DEF Run
  <2>2. runs' = [runs EXCEPT ![r] = q]
    BY <1>2, <1>5 DEF AskFails
  <2> HIDE DEF q
  <2> QED
    BY <1>2, <1>5, <2>1, <2>2, QuietRunKeeps DEF AskFails
<1>6. CASE \E all \in BOOLEAN : Ask(r, all)
  <2>1. PICK todo \in SUBSET Videos :
          runs' = [runs EXCEPT ![r].pc = "look", ![r].todo = todo]
    BY <1>6 DEF Ask, MissingHls
  <2> DEFINE q == [runs[r] EXCEPT !.pc = "look", !.todo = todo]
  <2>2. q \in Run /\ q.pc = "look"
    BY <1>2 DEF Run
  <2>3. runs' = [runs EXCEPT ![r] = q]
    BY <1>2, <2>1
  <2> HIDE DEF q
  <2> QED
    BY <1>2, <1>6, <2>2, <2>3, QuietRunKeeps DEF Ask
<1>7. CASE Look(r)
  <2> DEFINE q == [runs[r] EXCEPT !.pc = "each", !.found = {v \in runs[r].todo : Has(v, Hls)}]
  <2>1. q \in Run /\ q.pc = "each"
    BY <1>2, <1>3 DEF Run
  <2>2. runs' = [runs EXCEPT ![r] = q]
    BY <1>2, <1>7 DEF Look
  <2> HIDE DEF q
  <2> QED
    BY <1>2, <1>7, <2>1, <2>2, QuietRunKeeps DEF Look
<1>8. CASE Load(r)
  <2>1. PICK v \in runs[r].todo :
          runs' = [runs EXCEPT
            ![r].pc = IF v \in runs[r].found THEN "check" ELSE "switch",
            ![r].video = v, ![r].todo = runs[r].todo \ {v}]
    BY <1>8 DEF Load
  <2> DEFINE p == IF v \in runs[r].found THEN "check" ELSE "switch"
             q == [runs[r] EXCEPT !.pc = p, !.video = v, !.todo = runs[r].todo \ {v}]
  <2>2. q \in Run /\ q.pc \in {"check", "switch"}
    BY <1>2, <1>3 DEF Run
  <2>3. runs' = [runs EXCEPT ![r] = q]
    BY <1>2, <2>1
  <2> HIDE DEF q
  <2> QED
    BY <1>2, <1>8, <2>2, <2>3, QuietRunKeeps DEF Load
<1>9. CASE Check(r)
  <2> DEFINE p == IF Sound(runs[r].video) THEN "restore" ELSE "switch"
             q == [runs[r] EXCEPT !.pc = p]
  <2>1. q \in Run /\ q.pc = p /\ q.video = runs[r].video
    BY <1>2 DEF Run
  <2>2. runs' = [runs EXCEPT ![r] = q]
    BY <1>2, <1>9 DEF Check
  <2>3. Sound(runs[r].video) => urls[runs[r].video] # <<>>
    <3>1. Len(<<>>) = 0
      OBVIOUS
    <3> QED
      BY <3>1 DEF Sound
  <2> HIDE DEF q
  <2>4. q.pc \in {"restore", "switch"} /\ (q.pc = "restore" => urls[q.video] # <<>>)
    BY <2>1, <2>3
  <2> QED
    BY <1>2, <1>9, <2>1, <2>2, <2>4, QuietRunKeeps DEF Check
<1>10. CASE IncrementRun(r)
  <2> DEFINE q == [runs[r] EXCEPT !.pc = "advance", !.found = {}]
  <2>1. q \in Run /\ q.pc = "advance"
    BY <1>2 DEF Run
  <2>2. runs' = [runs EXCEPT ![r] = q]
    BY <1>2, <1>10 DEF IncrementRun
  <2> HIDE DEF q
  <2> QED
    BY <1>2, <1>3, <1>10, <2>1, <2>2, QuietRunKeeps DEF IncrementRun
<1>11. CASE UpdateOffset(r)
  <2> DEFINE q == [runs[r] EXCEPT !.pc = "idle"]
  <2>1. q \in Run /\ q.pc = "idle"
    BY <1>2 DEF Run
  <2>2. runs' = [runs EXCEPT ![r] = q]
    BY <1>2, <1>11 DEF UpdateOffset
  <2>3. offset' \in Nat
    BY <1>3, <1>11, Numbers DEF UpdateOffset
  <2> HIDE DEF q
  <2> QED
    BY <1>2, <1>11, <2>1, <2>2, <2>3, QuietRunKeeps DEF UpdateOffset
<1> QED
  BY <1>4, <1>5, <1>6, <1>7, <1>8, <1>9, <1>10, <1>11

(* What edx-val is told, or not, by the command.                             *)
LEMMA RestoreKeeps ==
  ASSUME BackfillInv, NEW r \in Runs, Restore(r) \/ RestoreFails(r)
  PROVE  BackfillInv'
<1>1. TypeOK /\ ValInv /\ Restoring /\ StaysOff /\ TranscriptionStaysOff
  BY DEF BackfillInv
<1>2. runs \in [Runs -> Run] /\ runs[r] \in Run /\ runs[r].video \in Videos
  BY <1>1 DEF TypeOK, Run
<1> DEFINE q == [runs[r] EXCEPT !.pc = "each"]
<1>3. /\ runs[r].pc = "restore" /\ runs' = [runs EXCEPT ![r] = q]
      /\ UNCHANGED <<urls, callers, calls, raced, offset, queue, begun, rowVars>>
  BY <1>2 DEF Restore, RestoreFails, valVars
<1>4. q \in Run /\ q.pc = "each"
  BY <1>2 DEF Run
<1> HIDE DEF q
<1>5. /\ runs' \in [Runs -> Run] /\ runs'[r] = q
      /\ \A s \in Runs \ {r} : runs'[s] = runs[s]
  BY <1>2, <1>3, <1>4
<1>6. ValInv'
  <2>1. CASE Restore(r)
    <3>1. urls[runs[r].video] # <<>>
      BY <1>1, <1>3 DEF Restoring
    <3>2. PICK v \in Videos : v = runs[r].video
      BY <1>2
    <3>3. Write(v, val[v].encodes \cup {Hls})
      BY <2>1, <3>2 DEF Restore
    <3> QED
      BY <1>1, <1>3, <3>1, <3>2, <3>3, AddKeeps
  <2>2. CASE RestoreFails(r)
    BY <1>1, <2>2, ValSame DEF RestoreFails, valVars, ValInv, ValTypeOK
  <2> QED
    BY <2>1, <2>2
<1>7. TypeOK'
  BY <1>1, <1>3, <1>5, <1>6 DEF TypeOK, ValInv, rowVars
<1>8. Restoring'
  BY <1>1, <1>3, <1>4, <1>5 DEF Restoring
<1>9. StaysOff' /\ TranscriptionStaysOff'
  BY <1>1, <1>3, <1>4, <1>5 DEF StaysOff, TranscriptionStaysOff, rowVars
<1> QED
  BY <1>6, <1>7, <1>8, <1>9 DEF BackfillInv

LEMMA SwitchOffKeeps ==
  ASSUME BackfillInv, NEW r \in Runs, SwitchOff(r)
  PROVE  BackfillInv'
<1>1. TypeOK /\ ValInv /\ Restoring /\ StaysOff /\ TranscriptionStaysOff
  BY DEF BackfillInv
<1>2. /\ runs \in [Runs -> Run] /\ runs[r] \in Run /\ runs[r].video \in Videos
      /\ transcribe \in [Videos -> BOOLEAN]
  BY <1>1 DEF TypeOK, Run
<1> DEFINE q == [runs[r] EXCEPT !.pc = "enqueue"]
<1>3. /\ runs' = [runs EXCEPT ![r] = q]
      /\ transcribe' = [transcribe EXCEPT ![runs[r].video] = FALSE]
      /\ UNCHANGED <<valVars, offset, queue, begun, snap, writers, writes, byHand,
                     ordered, switched>>
  BY <1>2 DEF SwitchOff
<1>4. q \in Run /\ q.pc = "enqueue" /\ q.video = runs[r].video
  BY <1>2 DEF Run
<1> HIDE DEF q
<1>5. /\ runs' \in [Runs -> Run] /\ runs'[r] = q
      /\ \A s \in Runs \ {r} : runs'[s] = runs[s]
  BY <1>2, <1>3, <1>4
<1>6. /\ transcribe' \in [Videos -> BOOLEAN] /\ ~transcribe'[runs[r].video]
      /\ \A v \in Videos : ~transcribe[v] => ~transcribe'[v]
  BY <1>2, <1>3
<1>7. ValInv'
  BY <1>1, <1>3, ValSame DEF valVars, ValInv, ValTypeOK
<1>8. TypeOK'
  BY <1>1, <1>3, <1>5, <1>6, <1>7 DEF TypeOK, ValInv
<1>9. Restoring'
  BY <1>1, <1>3, <1>4, <1>5 DEF Restoring, valVars
<1>10. StaysOff' /\ TranscriptionStaysOff'
  BY <1>1, <1>3, <1>4, <1>5, <1>6 DEF StaysOff, TranscriptionStaysOff, valVars
<1> QED
  BY <1>7, <1>8, <1>9, <1>10 DEF BackfillInv

(* The queue: what a run puts there, what --veda_id does, what fails.        *)
LEMMA QueueStep ==
  ASSUME queue \in [Videos -> Nat], NEW v \in Videos, NEW n \in Nat,
         queue' = [queue EXCEPT ![v] = n]
  PROVE  /\ queue' \in [Videos -> Nat] /\ queue'[v] = n
         /\ \A w \in Videos \ {v} : queue'[w] = queue[w]
OBVIOUS

LEMMA EnqueueKeeps ==
  ASSUME BackfillInv, NEW r \in Runs, Enqueue(r)
  PROVE  BackfillInv'
<1>1. TypeOK /\ ValInv /\ Restoring /\ StaysOff /\ TranscriptionStaysOff
  BY DEF BackfillInv
<1>2. /\ runs \in [Runs -> Run] /\ runs[r] \in Run /\ runs[r].video \in Videos
      /\ queue \in [Videos -> Nat]
  BY <1>1 DEF TypeOK, Run
<1> DEFINE q == [runs[r] EXCEPT !.pc = "each"]
<1>3. /\ runs[r].pc = "enqueue" /\ runs' = [runs EXCEPT ![r] = q]
      /\ queue' = [queue EXCEPT ![runs[r].video] = queue[runs[r].video] + 1]
      /\ UNCHANGED <<valVars, offset, begun, rowVars>>
  BY <1>2 DEF Enqueue
<1>4. q \in Run /\ q.pc = "each"
  BY <1>2 DEF Run
<1> HIDE DEF q
<1>5. /\ runs' \in [Runs -> Run] /\ runs'[r] = q
      /\ \A s \in Runs \ {r} : runs'[s] = runs[s]
  BY <1>2, <1>3, <1>4
<1>6. /\ queue' \in [Videos -> Nat]
      /\ \A w \in Videos \ {runs[r].video} : queue'[w] = queue[w]
  BY <1>2, <1>3, QueueStep, Numbers
<1>7. ValInv'
  BY <1>1, <1>3, ValSame DEF valVars, ValInv, ValTypeOK
<1>8. TypeOK'
  BY <1>1, <1>3, <1>5, <1>6, <1>7 DEF TypeOK, ValInv, rowVars
<1>9. Restoring'
  BY <1>1, <1>3, <1>4, <1>5 DEF Restoring, valVars
<1>10. StaysOff' /\ TranscriptionStaysOff'
  BY <1>1, <1>3, <1>4, <1>5, <1>6
  DEF StaysOff, TranscriptionStaysOff, valVars, rowVars
<1> QED
  BY <1>7, <1>8, <1>9, <1>10 DEF BackfillInv

LEMMA QueueKeeps ==
  ASSUME BackfillInv, NEW v \in Videos, EnqueueOne(v) \/ EncodeFails(v)
  PROVE  BackfillInv'
<1>1. TypeOK /\ ValInv /\ Restoring /\ StaysOff /\ TranscriptionStaysOff
  BY DEF BackfillInv
<1>2. queue \in [Videos -> Nat] /\ queue[v] \in Nat /\ begun \in 0..MaxRuns
  BY <1>1 DEF TypeOK
<1>3. UNCHANGED <<valVars, offset, runs, transcribe, snap, writers, writes, ordered,
                  switched>>
  BY DEF EnqueueOne, EncodeFails, rowVars
<1>4. ValInv'
  BY <1>1, <1>3, ValSame DEF valVars, ValInv, ValTypeOK
<1>5. /\ queue' \in [Videos -> Nat] /\ begun' \in 0..MaxRuns
      /\ byHand \subseteq byHand' /\ byHand' \subseteq Videos
      /\ \A w \in Videos \ byHand' : queue'[w] > 0 => queue[w] > 0
  <2>1. CASE EnqueueOne(v)
    <3>1. /\ queue' \in [Videos -> Nat]
          /\ \A w \in Videos \ {v} : queue'[w] = queue[w]
      BY <1>2, <2>1, QueueStep, Numbers DEF EnqueueOne
    <3>2. begun' \in 0..MaxRuns /\ byHand' = byHand \cup {v}
      BY <1>2, <2>1, OneCall DEF EnqueueOne
    <3> QED
      BY <1>1, <3>1, <3>2 DEF TypeOK
  <2>2. CASE EncodeFails(v)
    <3>1. /\ queue[v] > 0 /\ queue' \in [Videos -> Nat]
          /\ \A w \in Videos \ {v} : queue'[w] = queue[w]
      BY <1>2, <2>2, QueueStep, Numbers DEF EncodeFails
    <3> QED
      BY <1>1, <2>2, <3>1 DEF EncodeFails, TypeOK, rowVars
  <2> QED
    BY <2>1, <2>2
<1>6. TypeOK'
  BY <1>1, <1>3, <1>4, <1>5 DEF TypeOK, ValInv
<1>7. Restoring'
  BY <1>1, <1>3 DEF Restoring, valVars
<1>8. StaysOff' /\ TranscriptionStaysOff'
  BY <1>1, <1>3, <1>5 DEF StaysOff, TranscriptionStaysOff, valVars
<1> QED
  BY <1>4, <1>6, <1>7, <1>8 DEF BackfillInv

-----------------------------------------------------------------------------
(* The deliveries and the other callers.                                     *)
LEMMA TakeHlsKeeps ==
  ASSUME BackfillInv, NEW c \in Callers, NEW v \in Videos, TakeHls(c, v)
  PROVE  BackfillInv'
<1>1. TypeOK /\ ValInv /\ Restoring /\ StaysOff /\ TranscriptionStaysOff
  BY DEF BackfillInv
<1>2. /\ callers \in [Callers -> Call] /\ callers[c] \in Call
      /\ queue \in [Videos -> Nat] /\ queue[v] \in Nat
      /\ snap \in [Callers -> BOOLEAN] /\ transcribe[v] \in BOOLEAN
      /\ calls \in 0..MaxCalls
  BY <1>1 DEF TypeOK, ValTypeOK
<1> DEFINE q == [callers[c] EXCEPT !.pc = "save", !.video = v, !.encode = Hls]
<1>3. /\ queue[v] > 0 /\ callers[c].pc = "idle"
      /\ callers' = [callers EXCEPT ![c] = q]
      /\ queue' = [queue EXCEPT ![v] = queue[v] - 1]
      /\ snap' = [snap EXCEPT ![c] = transcribe[v]]
      /\ UNCHANGED <<urls, val, reported, unreported, raced, calls, offset, runs, begun,
                     transcribe, writers, writes, byHand, ordered, switched>>
  BY <1>2 DEF TakeHls, Take
<1>4. q \in Call /\ q.pc = "save" /\ q.video = v /\ q.encode = Hls
  BY <1>2 DEF Call
<1> HIDE DEF q
<1>5. /\ callers' \in [Callers -> Call] /\ callers'[c] = q
      /\ \A d \in Callers \ {c} : callers'[d] = callers[d]
  BY <1>2, <1>3, <1>4, CallerStep
<1>6. /\ queue' \in [Videos -> Nat]
      /\ \A w \in Videos : queue'[w] > 0 => queue[w] > 0
  BY <1>2, <1>3, QueueStep, Numbers
<1>7. /\ snap' \in [Callers -> BOOLEAN] /\ snap'[c] = transcribe[v]
      /\ \A d \in Callers \ {c} : snap'[d] = snap[d]
  BY <1>2, <1>3
<1>8. ValInv'
  BY <1>1, <1>2, <1>3, <1>4, TakeKeeps
<1>9. TypeOK'
  BY <1>1, <1>3, <1>6, <1>7, <1>8 DEF TypeOK, ValInv
<1>10. Restoring' /\ TranscriptionStaysOff'
  BY <1>1, <1>3 DEF Restoring, TranscriptionStaysOff
<1>11. StaysOff'
  BY <1>1, <1>3, <1>4, <1>5, <1>6, <1>7 DEF StaysOff
<1> QED
  BY <1>8, <1>9, <1>10, <1>11 DEF BackfillInv

LEMMA TakeOtherKeeps ==
  ASSUME BackfillInv, NEW c \in Callers, NEW v \in Videos,
         ReportStatus(c, v) \/ \E e \in Encodes : TakeOther(c, v, e)
  PROVE  BackfillInv'
<1>1. TypeOK /\ ValInv /\ Restoring /\ StaysOff /\ TranscriptionStaysOff
  BY DEF BackfillInv
<1>2. /\ callers \in [Callers -> Call] /\ callers[c] \in Call
      /\ snap \in [Callers -> BOOLEAN] /\ transcribe[v] \in BOOLEAN
      /\ calls \in 0..MaxCalls
  BY <1>1 DEF TypeOK, ValTypeOK
<1>3. PICK q \in Call :
        /\ callers[c].pc = "idle" /\ callers' = [callers EXCEPT ![c] = q]
        /\ q.pc \in {"save", "get"} /\ q.encode # Hls
        /\ q.pc = "get" => q.encode = None
        /\ q.pc = "save" => q.encode # None
  <2>1. ASSUME NEW e \in Encodes, TakeOther(c, v, e)
        PROVE  /\ callers[c].pc = "idle" /\ e # Hls
               /\ callers' = [callers EXCEPT ![c] =
                    [callers[c] EXCEPT !.pc = "save", !.video = v, !.encode = e]]
    BY <1>2, <2>1 DEF TakeOther, Take
  <2>2. ASSUME NEW e \in Encodes
        PROVE  [callers[c] EXCEPT !.pc = "save", !.video = v, !.encode = e] \in Call
    BY <1>2 DEF Call
  <2>3. ASSUME ReportStatus(c, v)
        PROVE  \E b \in BOOLEAN :
                 /\ callers[c].pc = "idle"
                 /\ callers' = [callers EXCEPT ![c] =
                      [callers[c] EXCEPT !.pc = "get", !.video = v, !.encode = None,
                                         !.complete = b]]
    BY <1>2, <2>3 DEF ReportStatus, Report
  <2>4. ASSUME NEW b \in BOOLEAN
        PROVE  [callers[c] EXCEPT !.pc = "get", !.video = v, !.encode = None,
                                  !.complete = b] \in Call
    BY <1>2 DEF Call
  <2>5. CASE ReportStatus(c, v)
    <3>1. PICK b \in BOOLEAN :
            /\ callers[c].pc = "idle"
            /\ callers' = [callers EXCEPT ![c] =
                 [callers[c] EXCEPT !.pc = "get", !.video = v, !.encode = None,
                                    !.complete = b]]
      BY <2>3, <2>5
    <3> DEFINE q == [callers[c] EXCEPT !.pc = "get", !.video = v, !.encode = None,
                                       !.complete = b]
    <3>2. q \in Call /\ q.pc = "get" /\ q.encode = None
      BY <1>2, <2>4 DEF Call
    <3>3. callers' = [callers EXCEPT ![c] = q]
      BY <3>1
    <3> HIDE DEF q
    <3> QED
      BY <3>1, <3>2, <3>3
  <2>6. CASE \E e \in Encodes : TakeOther(c, v, e)
    <3>1. PICK e \in Encodes :
            /\ callers[c].pc = "idle" /\ e # Hls
            /\ callers' = [callers EXCEPT ![c] =
                 [callers[c] EXCEPT !.pc = "save", !.video = v, !.encode = e]]
      BY <2>1, <2>6
    <3> DEFINE q == [callers[c] EXCEPT !.pc = "save", !.video = v, !.encode = e]
    <3>2. q \in Call /\ q.pc = "save" /\ q.encode = e
      BY <1>2, <2>2 DEF Call
    <3>3. callers' = [callers EXCEPT ![c] = q]
      BY <3>1
    <3> HIDE DEF q
    <3> QED
      BY <3>1, <3>2, <3>3
  <2> QED
    BY <2>5, <2>6
<1>4. /\ UNCHANGED <<urls, val, reported, unreported, raced, fillVars, transcribe, writers,
                     writes, byHand, ordered, switched>>
      /\ snap' \in [Callers -> BOOLEAN]
      /\ \A d \in Callers \ {c} : snap'[d] = snap[d]
  BY <1>2 DEF ReportStatus, Report, TakeOther, Take, rowVars
<1>5. calls' \in 0..MaxCalls
  BY <1>2, OneCall DEF ReportStatus, TakeOther
<1>6. /\ callers' \in [Callers -> Call] /\ callers'[c] = q
      /\ \A d \in Callers \ {c} : callers'[d] = callers[d]
  BY <1>2, <1>3, CallerStep
<1>7. ValInv'
  BY <1>1, <1>3, <1>4, <1>5, TakeKeeps
<1>8. TypeOK'
  BY <1>1, <1>4, <1>7 DEF TypeOK, ValInv, fillVars
<1>9. Restoring' /\ TranscriptionStaysOff'
  BY <1>1, <1>4 DEF Restoring, TranscriptionStaysOff, fillVars
<1>10. StaysOff'
  BY <1>1, <1>3, <1>4, <1>6 DEF StaysOff, fillVars
<1> QED
  BY <1>7, <1>8, <1>9, <1>10 DEF BackfillInv

(* Within a call neither its video nor its encode changes.                   *)
LEMMA CallingKeeps ==
  ASSUME BackfillInv, NEW c \in Callers, Calling(c)
  PROVE  BackfillInv'
<1>1. TypeOK /\ ValInv /\ Restoring /\ StaysOff /\ TranscriptionStaysOff
  BY DEF BackfillInv
<1>2. callers \in [Callers -> Call] /\ callers[c] \in Call
  BY <1>1 DEF TypeOK, ValTypeOK
<1>3. CallNext(c) /\ UNCHANGED <<fillVars, rowVars>>
  BY DEF Calling
<1>4. ValInv'
  BY <1>1, <1>3, CallKeeps
<1>5. TypeOK'
  BY <1>1, <1>3, <1>4 DEF TypeOK, ValInv, fillVars, rowVars
<1>6. \A v \in Videos : urls[v] # <<>> => urls'[v] # <<>>
  <2>1. CASE SaveUrl(c)
    <3>1. callers[c].video \in Videos /\ callers[c].encode \in Encodes
      BY <1>1, <1>2, <2>1 DEF Call, ValInv, Backed, SaveUrl
    <3>2. PICK w \in Videos, e \in Encodes : w = callers[c].video /\ e = callers[c].encode
      BY <3>1
    <3>3. urls' = [urls EXCEPT ![w] = Append(@, [encode |-> e, sound |-> TRUE])]
      BY <2>1, <3>2 DEF SaveUrl
    <3> QED
      BY <1>1, <3>3, RowAdded DEF ValInv, ValTypeOK
  <2>2. CASE ~SaveUrl(c)
    BY <1>3, <2>2 DEF CallNext, Get, GetFails, Determine, Send, SendFails
  <2> QED
    BY <2>1, <2>2
<1>7. /\ callers[c].pc # "idle"
      /\ \A d \in Callers \ {c} : callers'[d] = callers[d]
      /\ callers'[c].video = callers[c].video /\ callers'[c].encode = callers[c].encode
  BY <1>2, <1>3 DEF CallNext, SaveUrl, Get, GetFails, Determine, Send, SendFails, Failed, Call
<1>8. Restoring'
  <2>1. \A r \in Runs : runs[r].video \in Videos
    BY <1>1 DEF TypeOK, Run
  <2> QED
    BY <1>1, <1>3, <1>6, <2>1 DEF Restoring, fillVars
<1>9. StaysOff' /\ TranscriptionStaysOff'
  BY <1>1, <1>3, <1>7 DEF StaysOff, TranscriptionStaysOff, fillVars, rowVars
<1> QED
  BY <1>4, <1>5, <1>8, <1>9 DEF BackfillInv

(* A delivery that ends: one of an encode of the command read the flag off.  *)
LEMMA EndKeeps ==
  ASSUME BackfillInv, NEW c \in Callers, StartTranscription(c) \/ Return(c)
  PROVE  BackfillInv'
<1>1. TypeOK /\ ValInv /\ Restoring /\ StaysOff /\ TranscriptionStaysOff
  BY DEF BackfillInv
<1>2. /\ callers \in [Callers -> Call] /\ callers[c] \in Call
      /\ callers[c].video \in Videos /\ calls \in 0..MaxCalls
      /\ transcribe \in [Videos -> BOOLEAN]
  BY <1>1 DEF TypeOK, ValTypeOK, Call
<1> DEFINE q == [callers[c] EXCEPT !.pc = "idle"]
<1>3. /\ callers[c].pc = "done" /\ callers' = [callers EXCEPT ![c] = q]
      /\ UNCHANGED <<urls, val, calls, reported, unreported, raced, fillVars, snap, writers,
                     writes, byHand>>
  BY <1>2 DEF StartTranscription, Return, rowVars
<1>4. q \in Call /\ q.pc = "idle"
  BY <1>2 DEF Call
<1> HIDE DEF q
<1>5. /\ callers' \in [Callers -> Call] /\ callers'[c] = q
      /\ \A d \in Callers \ {c} : callers'[d] = callers[d]
  BY <1>2, <1>3, <1>4, CallerStep
<1>6. ValInv'
  BY <1>1, <1>2, <1>3, <1>4, TakeKeeps
<1>7. /\ transcribe' \in [Videos -> BOOLEAN]
      /\ switched \subseteq switched' /\ switched' \subseteq Videos
      /\ ordered' \subseteq Videos
      /\ \A v \in Videos \ switched' : transcribe'[v] = transcribe[v]
      /\ ordered' \subseteq switched' \cup byHand'
  <2>1. CASE Return(c)
    BY <1>1, <2>1 DEF Return, rowVars, TypeOK, TranscriptionStaysOff
  <2>2. CASE StartTranscription(c)
    <3>1. PICK v \in Videos : v = callers[c].video
      BY <1>2
    <3>2. /\ snap[c] /\ transcribe' = [transcribe EXCEPT ![v] = TRUE]
          /\ switched' = IF transcribe[v] THEN switched ELSE switched \cup {v}
          /\ ordered' = IF callers[c].encode = Hls THEN ordered \cup {v} ELSE ordered
          /\ byHand' = byHand
      BY <2>2, <3>1 DEF StartTranscription
    <3>3. callers[c].encode = Hls => v \in switched \cup byHand
      BY <1>1, <1>3, <3>1, <3>2 DEF StaysOff
    <3>4. transcribe' \in [Videos -> BOOLEAN] /\ transcribe'[v] = TRUE
          /\ \A w \in Videos \ {v} : transcribe'[w] = transcribe[w]
      BY <1>2, <3>2
    <3>5. /\ switched \subseteq switched' /\ switched' \subseteq Videos
          /\ ordered' \subseteq Videos
      BY <1>1, <3>2 DEF TypeOK
    <3>6. \A w \in Videos \ switched' : transcribe'[w] = transcribe[w]
      <4>1. CASE transcribe[v]
        <5>1. transcribe[v] = TRUE
          BY <1>2, <4>1
        <5> QED
          BY <3>4, <5>1
      <4>2. CASE ~transcribe[v]
        BY <3>2, <3>4, <4>2
      <4> QED
        BY <4>1, <4>2
    <3>7. ordered' \subseteq switched' \cup byHand'
      BY <1>1, <3>2, <3>3, <3>5 DEF TranscriptionStaysOff
    <3> QED
      BY <3>4, <3>5, <3>6, <3>7
  <2> QED
    BY <2>1, <2>2
<1>8. TypeOK'
  BY <1>1, <1>3, <1>6, <1>7 DEF TypeOK, ValInv, fillVars
<1>9. Restoring' /\ TranscriptionStaysOff'
  BY <1>1, <1>3, <1>7 DEF Restoring, TranscriptionStaysOff, fillVars
<1>10. StaysOff'
  BY <1>1, <1>3, <1>4, <1>5, <1>7 DEF StaysOff, fillVars
<1> QED
  BY <1>6, <1>8, <1>9, <1>10 DEF BackfillInv

(* A whole row saved: it switches the flag on, and counts as that, or off.   *)
LEMMA WritersKeep ==
  ASSUME BackfillInv, NEW w \in Writers, SaveRow(w) \/ \E v \in Videos : LoadRow(w, v)
  PROVE  BackfillInv'
<1>1. TypeOK /\ ValInv /\ Restoring /\ StaysOff /\ TranscriptionStaysOff
  BY DEF BackfillInv
<1>2. /\ writers \in [Writers -> Writer] /\ writers[w] \in Writer
      /\ writers[w].video \in Videos /\ writers[w].read \in BOOLEAN
      /\ transcribe \in [Videos -> BOOLEAN] /\ writes \in 0..MaxWrites
  BY <1>1 DEF TypeOK, Writer
<1>3. UNCHANGED <<valVars, fillVars, snap, byHand, ordered>>
  BY DEF SaveRow, LoadRow
<1>4. ValInv'
  BY <1>1, <1>3, ValSame DEF valVars, ValInv, ValTypeOK
<1>5. writers' \in [Writers -> Writer] /\ writes' \in 0..MaxWrites
  <2>1. CASE SaveRow(w)
    BY <1>2, <2>1 DEF SaveRow, Writer
  <2>2. ASSUME NEW v \in Videos, LoadRow(w, v)
        PROVE  writers' \in [Writers -> Writer] /\ writes' \in 0..MaxWrites
    <3>1. [busy |-> TRUE, video |-> v, read |-> transcribe[v]] \in Writer
      BY <1>2 DEF Writer
    <3> QED
      BY <1>2, <2>2, <3>1, OneCall DEF LoadRow
  <2> QED
    BY <2>1, <2>2
<1>6. /\ transcribe' \in [Videos -> BOOLEAN]
      /\ switched \subseteq switched' /\ switched' \subseteq Videos
      /\ \A v \in Videos \ switched' : ~transcribe[v] => ~transcribe'[v]
  <2>1. CASE SaveRow(w)
    <3>1. PICK v \in Videos, b \in BOOLEAN : v = writers[w].video /\ b = writers[w].read
      BY <1>2
    <3>2. /\ transcribe' = [transcribe EXCEPT ![v] = b]
          /\ switched' = IF b /\ ~transcribe[v] THEN switched \cup {v} ELSE switched
      BY <2>1, <3>1 DEF SaveRow
    <3>3. /\ transcribe' \in [Videos -> BOOLEAN] /\ transcribe'[v] = b
          /\ \A x \in Videos \ {v} : transcribe'[x] = transcribe[x]
      BY <1>2, <3>2
    <3> QED
      BY <1>1, <3>2, <3>3 DEF TypeOK
  <2>2. CASE \E v \in Videos : LoadRow(w, v)
    BY <1>1, <2>2 DEF LoadRow, TypeOK
  <2> QED
    BY <2>1, <2>2
<1>7. TypeOK'
  BY <1>1, <1>3, <1>4, <1>5, <1>6 DEF TypeOK, ValInv, fillVars
<1>8. Restoring' /\ TranscriptionStaysOff'
  BY <1>1, <1>3, <1>6 DEF Restoring, TranscriptionStaysOff, fillVars, valVars
<1>9. StaysOff'
  BY <1>1, <1>3, <1>6 DEF StaysOff, fillVars, valVars
<1> QED
  BY <1>4, <1>7, <1>8, <1>9 DEF BackfillInv

-----------------------------------------------------------------------------
LEMMA InitHolds ==
  ASSUME Init
  PROVE  BackfillInv
<1>1. ValInit
  BY DEF Init
<1>2. PICK v \in Videos, none \in Record :
        /\ none = [known |-> FALSE, encodes |-> {}]
        /\ callers = [c \in Callers |->
             [pc |-> "idle", video |-> v, encode |-> None, complete |-> FALSE,
              got |-> none, data |-> {}]]
  BY <1>1 DEF ValInit
<1>3. callers \in [Callers -> Call] /\ \A c \in Callers : callers[c].pc = "idle"
  BY <1>2 DEF Call
<1>4. urls \in [Videos -> Seq(Url)]
  <2>1. \A u \in Url : <<u>> \in Seq(Url)
    OBVIOUS
  <2>2. <<>> \in Seq(Url)
    OBVIOUS
  <2>3. {<<>>} \cup {<<u>> : u \in Url} \subseteq Seq(Url)
    BY <2>1, <2>2, Zenon
  <2>4. urls \in [Videos -> {<<>>} \cup {<<u>> : u \in Url}]
    BY <1>1 DEF ValInit
  <2> QED
    BY <2>3, <2>4, Zenon
<1>5. /\ val \in [Videos -> Record] /\ calls = 0 /\ raced = {}
      /\ \A w \in Videos : \A e \in val[w].encodes : Has(w, e)
      /\ reported = [w \in Videos |-> val[w].encodes]
      /\ unreported = [w \in Videos |-> {e \in Encodes : Has(w, e)} \ val[w].encodes]
  BY <1>1 DEF ValInit
<1>6. \A w \in Videos : val[w].encodes \subseteq Encodes
  BY <1>5 DEF Record
<1>7. ValTypeOK
  BY <1>3, <1>4, <1>5, <1>6, Numbers DEF ValTypeOK
<1>8. EncodesStay /\ EncodesReported
  BY <1>5 DEF EncodesStay, EncodesReported
<1>9. Merged /\ Backed
  <2>1. ASSUME NEW w \in Videos, NEW e, Has(w, e) PROVE urls[w] # <<>>
    <3>1. Len(<<>>) = 0
      OBVIOUS
    <3> QED
      BY <2>1, <3>1 DEF Has
  <2>2. \A w \in Videos : val[w].encodes # {} => urls[w] # <<>>
    BY <1>5, <2>1
  <2> QED
    BY <1>3, <2>2 DEF Merged, Backed
<1>10. PICK x \in Videos :
         /\ runs = [r \in Runs |-> [pc |-> "idle", video |-> x, todo |-> {},
                                    found |-> {}, offset |-> 0]]
         /\ writers = [w \in Writers |-> [busy |-> FALSE, video |-> x, read |-> FALSE]]
  BY DEF Init
<1>11. /\ runs \in [Runs -> Run] /\ \A r \in Runs : runs[r].pc = "idle"
       /\ writers \in [Writers -> Writer]
  BY <1>10, Numbers DEF Run, Writer
<1>12. /\ queue \in [Videos -> Nat] /\ \A w \in Videos : ~(queue[w] > 0)
       /\ snap \in [Callers -> BOOLEAN] /\ offset \in Nat
       /\ begun \in 0..MaxRuns /\ writes \in 0..MaxWrites
  BY Numbers DEF Init
<1>13. TypeOK
  BY <1>7, <1>11, <1>12 DEF TypeOK, Init
<1>14. Restoring /\ StaysOff /\ TranscriptionStaysOff
  BY <1>3, <1>11, <1>12 DEF Restoring, StaysOff, TranscriptionStaysOff, Init
<1> QED
  BY <1>7, <1>8, <1>9, <1>13, <1>14 DEF BackfillInv, ValInv

(* What edx-val has, what callers are about to put there, and the flag of    *)
(* each video stay related however the command, deliveries, reports and      *)
(* writers of whole rows interleave.                                         *)
THEOREM BackfillInvariance == Spec => []BackfillInv
<1>1. Init => BackfillInv
  BY InitHolds
<1>2. BackfillInv /\ [Next]_vars => BackfillInv'
  <2> SUFFICES ASSUME BackfillInv, [Next]_vars PROVE BackfillInv'
    OBVIOUS
  <2>1. ASSUME NEW r \in Runs, RunNext(r) PROVE BackfillInv'
    BY <2>1, QuietRuns, RestoreKeeps, SwitchOffKeeps, EnqueueKeeps DEF RunNext
  <2>2. ASSUME NEW v \in Videos, EnqueueOne(v) \/ EncodeFails(v) PROVE BackfillInv'
    BY <2>2, QueueKeeps
  <2>3. ASSUME NEW c \in Callers, NEW v \in Videos,
               \/ TakeHls(c, v) \/ ReportStatus(c, v)
               \/ \E e \in Encodes : TakeOther(c, v, e)
        PROVE  BackfillInv'
    BY <2>3, TakeHlsKeeps, TakeOtherKeeps
  <2>4. ASSUME NEW c \in Callers, Calling(c) \/ StartTranscription(c) \/ Return(c)
        PROVE  BackfillInv'
    BY <2>4, CallingKeeps, EndKeeps
  <2>5. ASSUME NEW w \in Writers, SaveRow(w) \/ \E v \in Videos : LoadRow(w, v)
        PROVE  BackfillInv'
    BY <2>5, WritersKeep
  <2>6. CASE UNCHANGED vars
    <3>1. UNCHANGED <<valVars, fillVars, rowVars>>
      BY <2>6 DEF vars
    <3>2. ValInv'
      BY <3>1, ValSame DEF BackfillInv, valVars, ValInv, ValTypeOK
    <3>3. TypeOK'
      BY <3>1, <3>2 DEF BackfillInv, TypeOK, ValInv, fillVars, rowVars
    <3>4. Restoring' /\ StaysOff' /\ TranscriptionStaysOff'
      BY <3>1
      DEF BackfillInv, Restoring, StaysOff, TranscriptionStaysOff, valVars, fillVars, rowVars
    <3> QED
      BY <3>2, <3>3, <3>4 DEF BackfillInv
  <2> QED
    BY <2>1, <2>2, <2>3, <2>4, <2>5, <2>6 DEF Next
<1> QED
  BY <1>1, <1>2, PTL DEF Spec

(* An encode edx-val has acknowledged stays there although every PUT replaces*)
(* the list (veda_val.py:328), unless two calls for the video raced.         *)
THEOREM EncodesAreKept == Spec => []EncodesStay
<1>1. BackfillInv => EncodesStay
  BY DEF BackfillInv, ValInv
<1> QED
  BY <1>1, BackfillInvariance, PTL

(* An encode in the database is in edx-val, on its way there, or known to    *)
(* have failed on the way.                                                   *)
THEOREM EncodesAreReported == Spec => []EncodesReported
<1>1. BackfillInv => EncodesReported
  BY DEF BackfillInv, ValInv
<1> QED
  BY <1>1, BackfillInvariance, PTL

(* The encodes of the command order no transcription                         *)
(* (re_encode_videos_missing_hls.py:319), but for the ways the property names*)
THEOREM TranscriptionIsOff == Spec => []TranscriptionStaysOff
<1>1. BackfillInv => TranscriptionStaysOff
  BY DEF BackfillInv
<1> QED
  BY <1>1, BackfillInvariance, PTL
=============================================================================

-------------------------- MODULE AboutVideo_proofs --------------------------
(* That AboutInv, FailedFirst, SuccessStands, SuccessOnce, OneVideo and      *)
(* NoneLost hold of AboutVideo, for any number of uploads, files, forms,     *)
(* codes and stops.                                                          *)
EXTENDS AboutVideo, FiniteSetTheorems, SequenceTheorems, TLAPS

USE CourseFormAssumption, AboutAssumption

-----------------------------------------------------------------------------
(* What Append does, element by element.                                     *)
LEMMA Appended ==
  ASSUME NEW S, NEW s \in Seq(S), NEW c \in S
  PROVE  /\ Append(s, c) \in Seq(S)
         /\ Len(s) \in Nat
         /\ Len(Append(s, c)) = Len(s) + 1
         /\ DOMAIN s = 1..Len(s)
         /\ DOMAIN Append(s, c) = 1..(Len(s) + 1)
         /\ \A i \in 1..Len(s) : Append(s, c)[i] = s[i]
         /\ Append(s, c)[Len(s) + 1] = c
  OBVIOUS

LEMMA LastIndex ==
  ASSUME NEW n \in Nat
  PROVE  /\ n + 1 \in 1..(n + 1)
         /\ \A i \in 1..(n + 1) : i \in 1..n \/ i = n + 1
         /\ \A i \in 1..n : i \in 1..(n + 1) /\ i # n + 1
  OBVIOUS

-----------------------------------------------------------------------------
(* The form. A request that goes anywhere but to its save.                   *)
LEMMA FormGoes ==
  ASSUME FormInv, NEW f \in Forms, NEW r \in Form,
         forms' = [forms EXCEPT ![f] = r], r.pc # "save",
         r.pc \in {"typed", "recheck"} => r.code # NoCode,
         r.pc \in {"typed", "generate"} => r.seed # NoCode,
         courses' = courses, overlapped' = overlapped, sent' \in 0..MaxForms
  PROVE  FormInv'
<1>1. forms \in [Forms -> Form]
  BY DEF FormInv, FormTypeOK
<1>2. /\ forms' \in [Forms -> Form] /\ forms'[f] = r
      /\ \A g \in Forms : g # f => forms'[g] = forms[g]
  BY <1>1
<1>3. FormTypeOK'
  BY <1>2 DEF FormInv, FormTypeOK
<1>4. Saving'
  BY <1>2 DEF FormInv, Saving, Taken
<1>5. CodesDistinct'
  BY DEF FormInv, CodesDistinct
<1> QED
  BY <1>3, <1>4, <1>5 DEF FormInv

LEMMA FormStep ==
  ASSUME FormInv, NEW f \in Forms, FormNext(f)
  PROVE  FormInv' /\ overlapped \subseteq overlapped'
<1>1. /\ courses \in Seq(Codes) /\ forms \in [Forms -> Form] /\ sent \in 0..MaxForms
      /\ overlapped \subseteq Codes /\ forms[f] \in Form
  BY DEF FormInv, FormTypeOK
<1>2. Idle \in Form
  BY DEF Idle, Form
<1>3. CASE Submit(f)
  <2>1. PICK typed \in Codes \cup {NoCode}, seed \in Codes :
          forms' = [forms EXCEPT ![f] =
            [pc |-> IF typed = NoCode THEN "generate" ELSE "typed", code |-> typed,
             seed |-> seed]]
    BY <1>3 DEF Submit
  <2> DEFINE r == [pc |-> IF typed = NoCode THEN "generate" ELSE "typed", code |-> typed,
                   seed |-> seed]
  <2>2. /\ r \in Form /\ r.pc # "save"
        /\ (r.pc \in {"typed", "recheck"} => r.code # NoCode)
        /\ (r.pc \in {"typed", "generate"} => r.seed # NoCode)
    BY DEF Form, NoCode
  <2>3. forms' = [forms EXCEPT ![f] = r]
    BY <2>1
  <2>4. courses' = courses /\ overlapped' = overlapped /\ sent' \in 0..MaxForms
    BY <1>1, <1>3 DEF Submit
  <2> HIDE DEF r
  <2> QED
    BY <2>2, <2>3, <2>4, FormGoes
<1>4. CASE CheckTyped(f)
  <2> DEFINE r == IF Taken(forms[f].code)
                  THEN [forms[f] EXCEPT !.pc = "generate", !.code = NoCode]
                  ELSE [forms[f] EXCEPT !.pc = "recheck", !.seed = NoCode]
  <2>1. /\ r \in Form /\ r.pc # "save"
        /\ (r.pc \in {"typed", "recheck"} => r.code # NoCode)
        /\ (r.pc \in {"typed", "generate"} => r.seed # NoCode)
    BY <1>1, <1>4 DEF CheckTyped, Form, FormInv, Saving
  <2>2. /\ forms' = [forms EXCEPT ![f] = r]
        /\ courses' = courses /\ overlapped' = overlapped /\ sent' \in 0..MaxForms
    BY <1>1, <1>4 DEF CheckTyped
  <2> HIDE DEF r
  <2> QED
    BY <2>1, <2>2, FormGoes
<1>5. CASE GenerateCode(f)
  <2> DEFINE r == IF Taken(forms[f].seed)
                  THEN [Idle EXCEPT !.pc = "random"]
                  ELSE [Idle EXCEPT !.pc = "recheck", !.code = forms[f].seed]
  <2>1. /\ r \in Form /\ r.pc # "save"
        /\ (r.pc \in {"typed", "recheck"} => r.code # NoCode)
        /\ (r.pc \in {"typed", "generate"} => r.seed # NoCode)
    BY <1>1, <1>5 DEF GenerateCode, Form, FormInv, Saving, Idle
  <2>2. /\ forms' = [forms EXCEPT ![f] = r]
        /\ courses' = courses /\ overlapped' = overlapped /\ sent' \in 0..MaxForms
    BY <1>1, <1>5 DEF GenerateCode
  <2> HIDE DEF r
  <2> QED
    BY <2>1, <2>2, FormGoes
<1>6. CASE RandGen(f)
  <2>1. PICK c \in Codes :
          forms' = [forms EXCEPT ![f].pc = "recheck", ![f].code = c]
    BY <1>6 DEF RandGen
  <2> DEFINE r == [forms[f] EXCEPT !.pc = "recheck", !.code = c]
  <2>2. /\ r \in Form /\ r.pc # "save"
        /\ (r.pc \in {"typed", "recheck"} => r.code # NoCode)
        /\ (r.pc \in {"typed", "generate"} => r.seed # NoCode)
    <3>1. c # NoCode
      BY DEF NoCode
    <3>2. r \in Form
      BY <1>1 DEF Form
    <3>3. r.pc = "recheck" /\ r.code = c
      BY <1>1 DEF Form
    <3> QED
      BY <3>1, <3>2, <3>3
  <2>3. forms' = [forms EXCEPT ![f] = r]
    BY <1>1, <2>1
  <2>4. courses' = courses /\ overlapped' = overlapped /\ sent' \in 0..MaxForms
    BY <1>1, <1>6 DEF RandGen
  <2> HIDE DEF r
  <2> QED
    BY <2>2, <2>3, <2>4, FormGoes
<1>7. CASE Recheck(f)
  <2>1. CASE Taken(forms[f].code)
    BY <1>1, <1>2, <1>7, <2>1, FormGoes DEF Recheck, Idle
  <2>2. CASE ~Taken(forms[f].code)
    <3> DEFINE c == forms[f].code
    <3>1. /\ forms' = [forms EXCEPT ![f].pc = "save"]
          /\ overlapped' = IF ToSave(c) THEN overlapped \cup {c} ELSE overlapped
          /\ courses' = courses /\ sent' = sent
      BY <1>7, <2>2 DEF Recheck
    <3>2. /\ forms' \in [Forms -> Form] /\ forms'[f].pc = "save" /\ forms'[f].code = c
          /\ \A g \in Forms : g # f => forms'[g] = forms[g]
      BY <1>1, <3>1 DEF Form
    <3>3. c \in Codes /\ c # NoCode
      BY <1>1, <1>7 DEF Recheck, Form, FormInv, Saving, NoCode
    <3>4. overlapped \subseteq overlapped' /\ overlapped' \subseteq Codes
      BY <1>1, <3>1, <3>3
    <3>5. FormTypeOK'
      BY <1>1, <3>1, <3>2, <3>4 DEF FormTypeOK
    <3>6. ASSUME NEW g \in Forms, g # f, forms[g].pc = "save", forms[g].code = c
          PROVE  c \in overlapped'
      BY <3>1, <3>6 DEF ToSave
    <3>7. Saving'
      <4>1. \A g \in Forms :
              /\ forms'[g].pc \in {"typed", "recheck", "save"} => forms'[g].code # NoCode
              /\ forms'[g].pc \in {"typed", "generate"} => forms'[g].seed # NoCode
        BY <3>2, <3>3 DEF FormInv, Saving
      <4>2. ASSUME NEW g \in Forms, forms'[g].pc = "save", Taken(forms'[g].code)
            PROVE  forms'[g].code \in overlapped'
        BY <2>2, <3>2, <3>4, <4>2 DEF FormInv, Saving
      <4>3. ASSUME NEW g \in Forms, NEW h \in Forms, g # h, forms'[g].pc = "save",
                   forms'[h].pc = "save", forms'[g].code = forms'[h].code
            PROVE  forms'[g].code \in overlapped'
        BY <3>2, <3>4, <3>6, <4>3 DEF FormInv, Saving
      <4> QED
        BY <3>1, <4>1, <4>2, <4>3 DEF Saving, Taken
    <3>8. CodesDistinct'
      BY <3>1, <3>4 DEF FormInv, CodesDistinct
    <3> QED
      BY <3>4, <3>5, <3>7, <3>8 DEF FormInv
  <2> QED
    BY <2>1, <2>2
<1>8. CASE SaveCourse(f)
  <2> DEFINE c == forms[f].code
             n == Len(courses)
  <2>1. /\ forms' = [forms EXCEPT ![f] = Idle] /\ courses' = Append(courses, c)
        /\ overlapped' = overlapped /\ sent' = sent /\ forms[f].pc = "save"
    BY <1>8 DEF SaveCourse
  <2>2. c \in Codes
    BY <1>1, <2>1 DEF Form, FormInv, Saving, NoCode
  <2>3. /\ courses' \in Seq(Codes) /\ n \in Nat /\ Len(courses') = n + 1
        /\ \A i \in 1..n : courses'[i] = courses[i]
        /\ courses'[n + 1] = c
    BY <1>1, <2>1, <2>2, Appended
  <2>4. /\ forms' \in [Forms -> Form] /\ forms'[f] = Idle
        /\ \A g \in Forms : g # f => forms'[g] = forms[g]
    BY <1>1, <1>2, <2>1
  <2>5. FormTypeOK'
    BY <1>1, <2>1, <2>3, <2>4 DEF FormTypeOK
  <2> HIDE DEF c, n
  <2>6. \A i \in 1..Len(courses') : i \in 1..n \/ i = n + 1
    BY <2>3, LastIndex
  <2>7. \A i \in 1..n : courses[i] = c => c \in overlapped
    BY <2>1 DEF c, n, FormInv, Saving, Taken
  <2>8. Saving'
    <3>1. Idle.pc = "idle"
      BY DEF Idle
    <3>2. ASSUME NEW g \in Forms, forms'[g].pc = "save",
                 NEW i \in 1..Len(courses'), courses'[i] = forms'[g].code
          PROVE  forms'[g].code \in overlapped
      <4>1. g # f /\ forms'[g] = forms[g]
        BY <2>4, <3>1, <3>2
      <4>2. CASE i \in 1..n
        BY <2>3, <3>2, <4>1, <4>2 DEF n, FormInv, Saving, Taken
      <4>3. CASE i = n + 1
        BY <2>1, <2>3, <3>2, <4>1, <4>3 DEF c, FormInv, Saving
      <4> QED
        BY <2>6, <4>2, <4>3
    <3> QED
      BY <2>1, <2>4, <3>1, <3>2 DEF FormInv, Saving, Taken
  <2>9. CodesDistinct'
    <3> SUFFICES ASSUME NEW i \in 1..Len(courses'), NEW j \in 1..Len(courses'),
                        i # j, courses'[i] = courses'[j]
                 PROVE  courses'[i] \in overlapped
      BY <2>1 DEF CodesDistinct
    <3>1. CASE i \in 1..n /\ j \in 1..n
      BY <2>3, <3>1 DEF n, FormInv, CodesDistinct
    <3>2. CASE i \in 1..n /\ j = n + 1
      BY <2>3, <2>7, <3>2
    <3>3. CASE i = n + 1 /\ j \in 1..n
      BY <2>3, <2>7, <3>3
    <3> QED
      BY <2>6, <3>1, <3>2, <3>3
  <2> QED
    BY <2>1, <2>5, <2>8, <2>9 DEF FormInv
<1>9. CASE FormFails(f)
  BY <1>1, <1>2, <1>9, FormGoes DEF FormFails, Idle
<1>10. overlapped \subseteq overlapped'
  BY FormNext(f)
     DEF FormNext, Submit, CheckTyped, GenerateCode, RandGen, Recheck, SaveCourse, FormFails
<1> QED
  BY <1>3, <1>4, <1>5, <1>6, <1>7, <1>8, <1>9, <1>10, FormNext(f) DEF FormNext

-----------------------------------------------------------------------------
(* The daemons.                                                              *)
Pcs == {"idle", "insert", "read", "update", "mail", "copy", "delete", "down"}

LEMMA TwoDaemons ==
  /\ "ingest" \in Daemons /\ "youtube" \in Daemons
  /\ \A d \in Daemons : d = "ingest" \/ d = "youtube"
BY DEF Daemons

LEMMA AtIsWork ==
  ASSUME NEW pc \in Pcs
  PROVE  At(pc) \in Work /\ At(pc).pc = pc /\ At(pc).up = None /\ At(pc).out = "FAILED"
BY DEF At, Work, Pcs, Names, Outcomes

LEMMA DaemonGoes ==
  ASSUME dm \in [Daemons -> Work], NEW d \in Daemons, NEW w \in Work,
         dm' = [dm EXCEPT ![d] = w]
  PROVE  /\ dm' \in [Daemons -> Work] /\ dm'[d] = w
         /\ \A e \in Daemons : e # d => dm'[e] = dm[e]
OBVIOUS

LEMMA GotoDoes ==
  ASSUME dm \in [Daemons -> Work], NEW d \in Daemons, NEW pc \in Pcs, Goto(d, pc)
  PROVE  /\ dm' \in [Daemons -> Work] /\ dm'[d].pc = pc
         /\ \A e \in Daemons : e # d => dm'[e] = dm[e]
         /\ pc # "idle" => /\ dm'[d].up = dm[d].up /\ dm'[d].out = dm[d].out
                           /\ dm'[d].file = dm[d].file
         /\ pc = "idle" => dm'[d].up = None /\ dm'[d].out = "FAILED"
<1> DEFINE w == IF pc = "idle" THEN At(pc)
                ELSE [dm[d] EXCEPT !.pc = pc,
                                   !.name = IF pc = "mail" THEN dm[d].name ELSE "null"]
<1>1. w \in Work /\ w.pc = pc
  <2>1. CASE pc = "idle"
    BY <2>1, AtIsWork
  <2>2. CASE pc # "idle"
    BY <2>2 DEF Work, Pcs, Names
  <2> QED
    BY <2>1, <2>2
<1>2. pc # "idle" => w.up = dm[d].up /\ w.out = dm[d].out /\ w.file = dm[d].file
  BY DEF Work
<1>3. pc = "idle" => w.up = None /\ w.out = "FAILED"
  BY AtIsWork
<1>4. dm' = [dm EXCEPT ![d] = w]
  <2>1. CASE pc = "idle"
    BY <2>1 DEF Goto
  <2>2. CASE pc # "idle"
    BY <2>2 DEF Goto
  <2> QED
    BY <2>1, <2>2
<1> HIDE DEF w
<1>5. /\ dm' \in [Daemons -> Work] /\ dm'[d] = w
      /\ \A e \in Daemons : e # d => dm'[e] = dm[e]
  BY <1>1, <1>4, DaemonGoes
<1> QED
  BY <1>1, <1>2, <1>3, <1>5

(* The rows of an upload, and how an insert adds one.                        *)
LEMMA RowsFinite ==
  ASSUME videos \in Seq(Video), NEW u
  PROVE  IsFiniteSet(RowsOf(u)) /\ Cardinality(RowsOf(u)) \in Nat
<1>1. IsFiniteSet(1..Len(videos))
  <2>1. 1 \in Int /\ Len(videos) \in Int
    OBVIOUS
  <2> QED
    BY <2>1, FS_Interval
<1>2. RowsOf(u) \subseteq 1..Len(videos)
  BY DEF RowsOf
<1> QED
  BY <1>1, <1>2, FS_Subset, FS_CardinalityType

LEMMA RowAdded ==
  ASSUME videos \in Seq(Video), NEW v \in Video, videos' = Append(videos, v), NEW u
  PROVE  RowsOf(u)' = IF v.up = u THEN RowsOf(u) \cup {Len(videos) + 1} ELSE RowsOf(u)
<1>1. /\ Len(videos) \in Nat /\ DOMAIN videos = 1..Len(videos)
      /\ DOMAIN videos' = 1..(Len(videos) + 1)
      /\ \A i \in 1..Len(videos) : videos'[i] = videos[i]
      /\ videos'[Len(videos) + 1] = v
  BY Appended
<1>2. /\ \A i \in 1..(Len(videos) + 1) : i \in 1..Len(videos) \/ i = Len(videos) + 1
      /\ \A i \in 1..Len(videos) : i \in 1..(Len(videos) + 1)
      /\ Len(videos) + 1 \in 1..(Len(videos) + 1)
  BY <1>1, LastIndex
<1> DEFINE n == Len(videos)
<1>3. RowsOf(u)' = {i \in 1..(n + 1) : videos'[i].up = u}
  BY <1>1 DEF RowsOf
<1>4. RowsOf(u) = {i \in 1..n : videos[i].up = u}
  BY <1>1 DEF RowsOf
<1> HIDE DEF n
<1>5. /\ \A i \in 1..(n + 1) : i \in 1..n \/ i = n + 1
      /\ \A i \in 1..n : i \in 1..(n + 1) /\ videos'[i] = videos[i]
      /\ n + 1 \in 1..(n + 1) /\ videos'[n + 1] = v
  BY <1>1, <1>2 DEF n
<1> QED
  BY <1>3, <1>4, <1>5 DEF n

LEMMA RowCounted ==
  ASSUME videos \in Seq(Video), NEW v \in Video, videos' = Append(videos, v), NEW u
  PROVE  Cardinality(RowsOf(u)') <= Cardinality(RowsOf(u)) + (IF v.up = u THEN 1 ELSE 0)
<1>1. IsFiniteSet(RowsOf(u)) /\ Cardinality(RowsOf(u)) \in Nat
  BY RowsFinite
<1>2. CASE v.up = u
  <2>1. RowsOf(u)' = RowsOf(u) \cup {Len(videos) + 1}
    BY <1>2, RowAdded
  <2>2. Cardinality(RowsOf(u) \cup {Len(videos) + 1})
          = IF Len(videos) + 1 \in RowsOf(u) THEN Cardinality(RowsOf(u))
            ELSE Cardinality(RowsOf(u)) + 1
    BY <1>1, FS_AddElement
  <2> QED
    BY <1>1, <1>2, <2>1, <2>2
<1>3. CASE v.up # u
  BY <1>1, <1>3, RowAdded
<1> QED
  BY <1>2, <1>3

LEMMA RowPatched ==
  ASSUME videos \in Seq(Video), NEW i \in DOMAIN videos,
         videos' = [videos EXCEPT ![i].url = TRUE]
  PROVE  /\ videos' \in Seq(Video) /\ DOMAIN videos' = DOMAIN videos
         /\ Len(videos') = Len(videos)
         /\ \A j \in DOMAIN videos :
              /\ videos'[j].up = videos[j].up /\ videos'[j].file = videos[j].file
              /\ videos'[j].url = (videos[j].url \/ j = i)
         /\ \A u : RowsOf(u)' = RowsOf(u)
         /\ \A u, n : Shown(u, n)' <=> Shown(u, n)
<1> DEFINE v == [videos[i] EXCEPT !.url = TRUE]
           n == Len(videos)
<1>1. n \in Nat /\ DOMAIN videos = 1..n /\ videos \in [1..n -> Video]
  BY LenProperties
<1>2. v \in Video /\ v.up = videos[i].up /\ v.file = videos[i].file /\ v.url = TRUE
  BY <1>1 DEF Video
<1>3. videos' = [videos EXCEPT ![i] = v]
  OBVIOUS
<1> HIDE DEF v, n
<1>4. videos' \in [1..n -> Video]
  BY <1>1, <1>2, <1>3
<1>5. videos' \in Seq(Video)
  BY <1>1, <1>4, SeqDef
<1>6. DOMAIN videos' = 1..n
  BY <1>4
<1>7. Len(videos') = n
  BY <1>1, <1>5, <1>6
<1>8. ASSUME NEW j \in DOMAIN videos
      PROVE  /\ videos'[j].up = videos[j].up /\ videos'[j].file = videos[j].file
             /\ videos'[j].url = (videos[j].url \/ j = i)
  <2>1. CASE j = i
    BY <1>1, <1>2, <1>3, <2>1
  <2>2. CASE j # i
    <3>1. videos'[j] = videos[j]
      BY <1>1, <1>3, <2>2
    <3>2. videos[j].url \in BOOLEAN
      BY <1>1 DEF Video
    <3> QED
      BY <2>2, <3>1, <3>2
  <2> QED
    BY <2>1, <2>2
<1>9. \A u : RowsOf(u)' = RowsOf(u)
  BY <1>1, <1>6, <1>8 DEF RowsOf
<1>10. \A u : RowsOf(u) \subseteq DOMAIN videos
  BY DEF RowsOf
<1>11. \A u, k : Shown(u, k)' <=> Shown(u, k)
  BY <1>8, <1>9, <1>10 DEF Shown
<1> QED
  BY <1>1, <1>5, <1>6, <1>7, <1>8, <1>9, <1>11 DEF n

-----------------------------------------------------------------------------
(* The inductive invariant, and what SuccessOnce counts.                     *)
Inv == AboutInv /\ FailedFirst /\ OneVideo /\ SuccessOnce

Urls(u) == {i \in RowsOf(u) : videos[i].url}

Due(u) == {d \in Daemons : Succeeding(d, u)}

LEMMA InvParts ==
  Inv => /\ AboutTypeOK /\ FormInv /\ CourseFound /\ Working /\ Reporting /\ Moving
         /\ FailedFirst /\ OneVideo /\ SuccessOnce
BY DEF Inv, AboutInv

LEMMA Counts ==
  SuccessOnce <=>
    \A u \in Uploads : Cardinality(Urls(u)) = Cardinality(Told(u)) + unsaid[u]
                                                + Cardinality(Due(u))
BY DEF SuccessOnce, Urls, Due, Succeeding

(* Only the daemon of the YouTube callback has a success to tell.            *)
DueCounted == \A u : Cardinality(Due(u)) = IF Succeeding("youtube", u) THEN 1 ELSE 0

LEMMA DueNumber == Working => DueCounted
<1> SUFFICES ASSUME Working, NEW u
             PROVE  Cardinality(Due(u)) = IF Succeeding("youtube", u) THEN 1 ELSE 0
  BY DEF DueCounted
<1>1. ~Succeeding("ingest", u)
  BY DEF Working, Succeeding
<1>2. CASE Succeeding("youtube", u)
  <2>1. Due(u) = {"youtube"}
    BY <1>1, <1>2, TwoDaemons DEF Due
  <2> QED
    BY <1>2, <2>1, FS_Singleton
<1>3. CASE ~Succeeding("youtube", u)
  <2>1. Due(u) = {}
    BY <1>1, <1>3, TwoDaemons DEF Due
  <2> QED
    BY <1>3, <2>1, FS_EmptySet
<1> QED
  BY <1>2, <1>3

(* Nothing is counted otherwise while videos, mails and the daemon of the    *)
(* YouTube callback stay as they are.                                        *)
LEMMA CountsKept ==
  ASSUME SuccessOnce, Working, Working',
         \A u \in Uploads : Succeeding("youtube", u)' <=> Succeeding("youtube", u),
         UNCHANGED <<videos, mails, unsaid>>
  PROVE  SuccessOnce'
<1>1. \A u \in Uploads : Urls(u)' = Urls(u) /\ Cardinality(Told(u))' = Cardinality(Told(u))
  BY DEF Urls, RowsOf, Told
<1>2. DueCounted /\ DueCounted'
  BY DueNumber, PTL
<1>3. \A u \in Uploads : Cardinality(Due(u))' = Cardinality(Due(u))
  BY <1>2 DEF DueCounted
<1>4. SuccessOnce' <=>
        \A u \in Uploads : Cardinality(Urls(u))' = Cardinality(Told(u))' + unsaid'[u]
                                                     + Cardinality(Due(u))'
  BY DEF SuccessOnce, Urls, Due, Succeeding, Told
<1> QED
  BY <1>1, <1>3, <1>4, Counts

(* No daemon begins a report, and none is made.                              *)
LEMMA ReportingKept ==
  ASSUME Reporting, Working,
         \A u \in Uploads : /\ records'[u].final = records[u].final
                           /\ records'[u].complete = records[u].complete,
         \A d \in Daemons : dm'[d].pc \in {"update", "mail"} =>
           /\ dm'[d].pc = dm[d].pc /\ dm'[d].up = dm[d].up /\ dm'[d].out = dm[d].out,
         raced \subseteq raced', mails' = mails
  PROVE  Reporting'
<1>1. \A u \in Uploads : records'[u].complete \/ mails'[u] # <<>> => records'[u].final
  BY DEF Reporting
<1>2. ASSUME NEW d \in Daemons, dm'[d].pc = "mail"
      PROVE  records'[dm'[d].up].final
  <2>1. dm[d].pc = "mail" /\ dm'[d].up = dm[d].up
    BY <1>2
  <2>2. dm[d].up \in Uploads /\ records[dm[d].up].final
    BY <2>1 DEF Reporting, Working
  <2> QED
    BY <2>1, <2>2
<1>3. ASSUME NEW d \in Daemons, NEW u \in Uploads, Failing(d, u)', records'[u].complete
      PROVE  u \in raced'
  <2>1. Failing(d, u) /\ records[u].complete
    BY <1>3 DEF Failing
  <2> QED
    BY <2>1 DEF Reporting
<1>4. ASSUME dm'["youtube"].pc \in {"update", "mail"}, dm'["youtube"].out = "FAILED"
      PROVE  mails'[dm'["youtube"].up] = <<>>
  BY <1>4, TwoDaemons DEF Reporting
<1> QED
  BY <1>1, <1>2, <1>3, <1>4 DEF Reporting, Failing

(* The ingest daemon stays where it is, and the bucket as it is.             *)
LEMMA MovingKept ==
  ASSUME Moving, Working,
         \A u \in Uploads : records[u].final => records'[u].final,
         dm'["ingest"].pc = dm["ingest"].pc, dm'["ingest"].up = dm["ingest"].up,
         dm'["ingest"].file = dm["ingest"].file,
         \A u : RowsOf(u)' = RowsOf(u), \A u, n : Shown(u, n)' <=> Shown(u, n),
         UNCHANGED <<again, folders, sends>>
  PROVE  Moving'
<1> DEFINE w == dm["ingest"]
<1>1. Holding("ingest")' = Holding("ingest")
  BY DEF Holding
<1>2. w.pc \in {"copy", "delete"} => w.up \in Uploads
  BY TwoDaemons DEF Working
<1>3. \A u \in Uploads : folders'[u].upload <= sends'[u]
  BY DEF Moving
<1>4. dm'["ingest"].pc \in {"insert", "read", "update", "mail", "copy", "delete"} =>
        /\ folders'[dm'["ingest"].up].upload # 0
        /\ dm'["ingest"].file \in 1..sends'[dm'["ingest"].up]
  BY DEF Moving
<1>5. dm'["ingest"].pc = "delete" /\ folders'[w.up].upload = w.file =>
        folders'[w.up].process = w.file
  BY DEF Moving
<1>6. dm'["ingest"].pc \in {"copy", "delete"} =>
        (Shown(w.up, w.file) \/ records[w.up].final)'
  <2>1. PICK v, n : v = w.up /\ n = w.file
    OBVIOUS
  <2>2. (Shown(v, n)' <=> Shown(v, n)) /\ (v \in Uploads /\ records[v].final => records'[v].final)
    OBVIOUS
  <2>3. w.pc \in {"copy", "delete"} => Shown(v, n) \/ records[v].final
    BY <2>1 DEF Moving
  <2>4. (Shown(w.up, w.file) \/ records[w.up].final)' <=> Shown(v, n)' \/ records'[v].final
    BY <2>1 DEF Shown, RowsOf
  <2> QED
    BY <1>2, <2>1, <2>2, <2>3, <2>4
<1>7. \A u \in Uploads :
        folders'[u].upload # 0 /\ ~(Holding("ingest")' /\ dm'["ingest"].up = u)
          => Cardinality(RowsOf(u)') < sends'[u] + again'[u]
  BY <1>1 DEF Moving
<1> QED
  BY <1>3, <1>4, <1>5, <1>6, <1>7 DEF Moving, RowsOf

-----------------------------------------------------------------------------
(* The page.                                                                 *)
LEMMA PageKeeps ==
  ASSUME Inv, NEW u \in Uploads, Posted, NEW r \in Record,
         r.final = records[u].final, r.complete = records[u].complete,
         records' = [records EXCEPT ![u] = r]
  PROVE  Inv'
<1>1. /\ AboutTypeOK /\ FormInv /\ CourseFound /\ Working /\ Reporting /\ Moving
      /\ FailedFirst /\ OneVideo /\ SuccessOnce
  BY InvParts
<1>2. UNCHANGED <<formVars, sends, folders, videos, reports, mails, dm, stops, again, unsaid,
                  raced>>
  BY DEF Posted
<1>3. /\ records' \in [Uploads -> Record]
      /\ \A v \in Uploads : /\ records'[v].final = records[v].final
                           /\ records'[v].complete = records[v].complete
  BY <1>1 DEF AboutTypeOK
<1>4. AboutTypeOK'
  BY <1>1, <1>2, <1>3 DEF AboutTypeOK
<1>5. FormInv' /\ CourseFound'
  BY <1>1, <1>2 DEF formVars, FormInv, FormTypeOK, Saving, Taken, CodesDistinct, CourseFound
<1>6. Working'
  BY <1>1, <1>2 DEF Working
<1>7. Reporting'
  BY <1>1, <1>2, <1>3, ReportingKept
<1>8. Moving'
  <2>1. (\A v : RowsOf(v)' = RowsOf(v)) /\ (\A v, n : Shown(v, n)' <=> Shown(v, n))
    BY <1>2 DEF RowsOf, Shown
  <2> QED
    BY <1>1, <1>2, <1>3, <2>1, MovingKept
<1>9. FailedFirst' /\ OneVideo' /\ SuccessOnce'
  BY <1>1, <1>2 DEF FailedFirst, OneVideo, SuccessOnce, RowsOf, Told, Succeeding
<1> QED
  BY <1>4, <1>5, <1>6, <1>7, <1>8, <1>9 DEF Inv, AboutInv

LEMMA PageStep ==
  ASSUME Inv, NEW u \in Uploads, CreateRecord(u) \/ ValidateIncoming(u)
  PROVE  Inv'
<1>1. records \in [Uploads -> Record]
  BY InvParts DEF AboutTypeOK
<1>2. CASE CreateRecord(u)
  <2> DEFINE r == [records[u] EXCEPT !.there = TRUE]
  <2>1. r \in Record /\ r.final = records[u].final /\ r.complete = records[u].complete
    BY <1>1 DEF Record
  <2>2. Posted /\ records' = [records EXCEPT ![u] = r]
    BY <1>2 DEF CreateRecord
  <2> HIDE DEF r
  <2> QED
    BY <2>1, <2>2, PageKeeps
<1>3. CASE ValidateIncoming(u)
  <2>1. PICK n \in Names \ {"null"} : records' = [records EXCEPT ![u].name = n]
    BY <1>3 DEF ValidateIncoming
  <2> DEFINE r == [records[u] EXCEPT !.name = n]
  <2>2. r \in Record /\ r.final = records[u].final /\ r.complete = records[u].complete
    BY <1>1 DEF Record
  <2>3. Posted /\ records' = [records EXCEPT ![u] = r]
    BY <1>3, <2>1 DEF ValidateIncoming
  <2> HIDE DEF r
  <2> QED
    BY <2>2, <2>3, PageKeeps
<1> QED
  BY <1>2, <1>3

LEMMA UploadStep ==
  ASSUME Inv, NEW u \in Uploads, Upload(u)
  PROVE  Inv'
<1> DEFINE n == sends[u]
<1>1. /\ AboutTypeOK /\ FormInv /\ CourseFound /\ Working /\ Reporting /\ Moving
      /\ FailedFirst /\ OneVideo /\ SuccessOnce
  BY InvParts
<1>2. /\ n < MaxSends /\ sends' = [sends EXCEPT ![u] = n + 1]
      /\ folders' = [folders EXCEPT ![u].upload = n + 1]
      /\ UNCHANGED <<formVars, records, videos, reports, mails, dm, stops, again, unsaid,
                     raced>>
  BY DEF Upload
<1>3. n \in Nat /\ n + 1 \in 0..MaxSends
  BY <1>1, <1>2 DEF AboutTypeOK
<1> HIDE DEF n
<1>4. /\ sends' \in [Uploads -> 0..MaxSends] /\ sends'[u] = n + 1
      /\ \A v \in Uploads : v # u => sends'[v] = sends[v]
  BY <1>1, <1>2, <1>3 DEF AboutTypeOK
<1>5. /\ folders' \in [Uploads -> Folders] /\ folders'[u].upload = n + 1
      /\ \A v \in Uploads : v # u => folders'[v] = folders[v]
  <2> DEFINE r == [folders[u] EXCEPT !.upload = n + 1]
  <2>1. folders \in [Uploads -> Folders]
    BY <1>1 DEF AboutTypeOK
  <2>2. r \in Folders /\ r.upload = n + 1
    BY <1>3, <2>1 DEF Folders
  <2>3. folders' = [folders EXCEPT ![u] = r]
    BY <1>2
  <2> HIDE DEF r
  <2> QED
    BY <2>1, <2>2, <2>3
<1>6. AboutTypeOK'
  BY <1>1, <1>2, <1>4, <1>5 DEF AboutTypeOK
<1>7. FormInv' /\ CourseFound'
  BY <1>1, <1>2 DEF formVars, FormInv, FormTypeOK, Saving, Taken, CodesDistinct, CourseFound
<1>8. Working' /\ Reporting'
  BY <1>1, <1>2 DEF Working, Reporting, Failing
<1>9. \A v \in Uploads : /\ again[v] \in Nat /\ sends[v] \in Nat
                        /\ Cardinality(RowsOf(v)) \in Nat
                        /\ Cardinality(RowsOf(v)) <= sends[v] + again[v]
  BY <1>1, RowsFinite DEF AboutTypeOK, OneVideo
<1>10. Moving'
  <2>1. (\A v : RowsOf(v)' = RowsOf(v)) /\ Holding("ingest")' = Holding("ingest")
    BY <1>2 DEF RowsOf, Holding
  <2>2. \A v \in Uploads : folders'[v].upload <= sends'[v]
    BY <1>1, <1>3, <1>4, <1>5 DEF Moving
  <2>3. ASSUME dm["ingest"].pc \in {"insert", "read", "update", "mail", "copy", "delete"}
        PROVE  /\ folders'[dm["ingest"].up].upload # 0
               /\ dm["ingest"].file \in 1..sends'[dm["ingest"].up]
               /\ dm["ingest"].up = u => folders'[u].upload # dm["ingest"].file
    <3>1. PICK v \in Uploads : v = dm["ingest"].up
      BY <1>1, <2>3, TwoDaemons DEF Working
    <3>2. folders[v].upload # 0 /\ dm["ingest"].file \in 1..sends[v]
      BY <1>1, <2>3, <3>1 DEF Moving
    <3>3. CASE v = u
      BY <1>3, <1>4, <1>5, <3>1, <3>2, <3>3 DEF n
    <3>4. CASE v # u
      BY <1>4, <1>5, <3>1, <3>2, <3>4
    <3> QED
      BY <3>3, <3>4
  <2>4. dm["ingest"].pc = "delete" /\ folders'[dm["ingest"].up].upload = dm["ingest"].file
          => folders'[dm["ingest"].up].process = dm["ingest"].file
    <3>1. ASSUME dm["ingest"].pc = "delete",
                 folders'[dm["ingest"].up].upload = dm["ingest"].file
          PROVE  folders'[dm["ingest"].up].process = dm["ingest"].file
      <4>1. dm["ingest"].up \in Uploads /\ dm["ingest"].up # u
        BY <1>1, <2>3, <3>1, TwoDaemons DEF Working
      <4> QED
        BY <1>1, <1>5, <3>1, <4>1 DEF Moving
    <3> QED
      BY <3>1
  <2>5. dm["ingest"].pc \in {"copy", "delete"} =>
          (Shown(dm["ingest"].up, dm["ingest"].file) \/ records[dm["ingest"].up].final)'
    BY <1>1, <1>2 DEF Moving, Shown, RowsOf
  <2>6. ASSUME NEW v \in Uploads, folders'[v].upload # 0,
               ~(Holding("ingest") /\ dm["ingest"].up = v)
        PROVE  Cardinality(RowsOf(v)) < sends'[v] + again[v]
    <3>1. CASE v = u
      <4>1. Cardinality(RowsOf(u)) <= n + again[u]
        BY <1>9 DEF n
      <4> QED
        BY <1>3, <1>4, <1>9, <3>1, <4>1
    <3>2. CASE v # u
      BY <1>1, <1>4, <1>5, <2>6, <3>2 DEF Moving
    <3> QED
      BY <3>1, <3>2
  <2>7. dm' = dm /\ again' = again
    BY <1>2
  <2> QED
    BY <2>1, <2>2, <2>3, <2>4, <2>5, <2>6, <2>7 DEF Moving
<1>11. OneVideo'
  <2>1. ASSUME NEW v \in Uploads PROVE Cardinality(RowsOf(v)) <= sends'[v] + again[v]
    <3>1. sends'[v] = sends[v] \/ sends'[v] = sends[v] + 1
      BY <1>4 DEF n
    <3> QED
      BY <1>9, <3>1
  <2> QED
    BY <1>2, <2>1 DEF OneVideo, RowsOf
<1>12. FailedFirst' /\ SuccessOnce'
  BY <1>1, <1>2 DEF FailedFirst, SuccessOnce, RowsOf, Told, Succeeding
<1> QED
  BY <1>6, <1>7, <1>8, <1>10, <1>11, <1>12 DEF Inv, AboutInv

-----------------------------------------------------------------------------
(* The stops of the daemons.                                                 *)
Reasons == {"none", "courses", "name", "report", "died"}

LEMMA StopAdded ==
  ASSUME AboutTypeOK, CourseFound, NEW reason \in Reasons, stops' = Append(stops, reason),
         overlapped' = overlapped, reason = "courses" => AboutCode \in overlapped
  PROVE  stops' \in Seq(Reasons) /\ CourseFound'
<1>1. stops \in Seq(Reasons)
  BY DEF AboutTypeOK, Reasons
<1>2. /\ stops' \in Seq(Reasons) /\ Len(stops) \in Nat
      /\ DOMAIN stops = 1..Len(stops) /\ DOMAIN stops' = 1..(Len(stops) + 1)
      /\ \A i \in 1..Len(stops) : stops'[i] = stops[i]
      /\ stops'[Len(stops) + 1] = reason
  BY <1>1, Appended
<1>3. \A i \in 1..(Len(stops) + 1) : i \in 1..Len(stops) \/ i = Len(stops) + 1
  BY <1>2, LastIndex
<1> QED
  BY <1>2, <1>3 DEF CourseFound

(* Two courses of about videos are there by two requests at once.            *)
LEMMA TwoCourses ==
  ASSUME FormInv, Cardinality(AboutCourses) > 1
  PROVE  AboutCode \in overlapped
<1>1. courses \in Seq(Codes) /\ Len(courses) \in Nat /\ DOMAIN courses = 1..Len(courses)
  BY LenProperties DEF FormInv, FormTypeOK
<1>2. AboutCourses \subseteq 1..Len(courses)
  BY <1>1 DEF AboutCourses
<1>3. CASE AboutCourses = {}
  BY <1>3, FS_EmptySet
<1>4. CASE \E i \in AboutCourses : AboutCourses = {i}
  <2>1. PICK i \in AboutCourses : AboutCourses = {i}
    BY <1>4
  <2>2. Cardinality({i}) = 1
    BY FS_Singleton
  <2> QED
    BY <2>1, <2>2
<1>5. CASE \E i, j \in AboutCourses : i # j
  <2>1. PICK i \in AboutCourses, j \in AboutCourses : i # j
    BY <1>5
  <2>2. i \in 1..Len(courses) /\ j \in 1..Len(courses)
        /\ courses[i] = AboutCode /\ courses[j] = AboutCode
    BY <1>2 DEF AboutCourses
  <2> QED
    BY <2>1, <2>2 DEF FormInv, CodesDistinct
<1>6. AboutCourses = {} \/ (\E i \in AboutCourses : AboutCourses = {i})
      \/ (\E i, j \in AboutCourses : i # j)
  OBVIOUS
<1> QED
  BY <1>3, <1>4, <1>5, <1>6

LEMMA ToldNumber ==
  ASSUME NEW m \in Seq(Outcomes), NEW o
  PROVE  /\ IsFiniteSet({k \in DOMAIN m : m[k] = o})
         /\ Cardinality({k \in DOMAIN m : m[k] = o}) \in Nat
<1>1. Len(m) \in Int /\ 1 \in Int /\ DOMAIN m = 1..Len(m)
  OBVIOUS
<1>2. IsFiniteSet(1..Len(m))
  BY <1>1, FS_Interval
<1>3. {k \in DOMAIN m : m[k] = o} \subseteq 1..Len(m)
  BY <1>1
<1> QED
  BY <1>2, <1>3, FS_Subset, FS_CardinalityType

LEMMA StopKeeps ==
  ASSUME Inv, NEW d \in Daemons, dm[d].pc \notin {"idle", "down"},
         NEW reason \in {"report", "died"}, StopAtWork(d, reason)
  PROVE  Inv'
<1> DEFINE u == dm[d].up
           o == dm[d].out
<1>1. /\ AboutTypeOK /\ FormInv /\ CourseFound /\ Working /\ Reporting /\ Moving
      /\ FailedFirst /\ OneVideo /\ SuccessOnce
  BY InvParts
<1>2. u \in Uploads /\ o \in Outcomes
  BY <1>1 DEF Working, AboutTypeOK, Work
<1>3. /\ stops' = Append(stops, reason) /\ dm' = [dm EXCEPT ![d] = At("down")]
      /\ again' = IF Holding(d) THEN [again EXCEPT ![u] = @ + 1] ELSE again
      /\ unsaid' = IF Succeeding(d, u) THEN [unsaid EXCEPT ![u] = @ + 1] ELSE unsaid
      /\ UNCHANGED <<formVars, records, sends, folders, videos, reports, mails, raced>>
  BY DEF StopAtWork, Stop
<1>4. /\ dm' \in [Daemons -> Work] /\ dm'[d] = At("down")
      /\ At("down").pc = "down" /\ At("down").up = None /\ At("down").out = "FAILED"
      /\ \A e \in Daemons : e # d => dm'[e] = dm[e]
  <2>1. At("down") \in Work /\ At("down").pc = "down" /\ At("down").up = None
        /\ At("down").out = "FAILED"
    BY AtIsWork DEF Pcs
  <2> QED
    BY <1>1, <1>3, <2>1, DaemonGoes DEF AboutTypeOK
<1>5. stops' \in Seq(Reasons) /\ CourseFound'
  <2>1. reason \in Reasons /\ reason # "courses" /\ overlapped' = overlapped
    BY <1>3 DEF Reasons, formVars
  <2> QED
    BY <1>1, <1>3, <2>1, StopAdded
<1>6. /\ again' \in [Uploads -> Nat] /\ again'[u] = (IF Holding(d) THEN again[u] + 1 ELSE again[u])
      /\ \A v \in Uploads : v # u => again'[v] = again[v]
  <2>0. again \in [Uploads -> Nat]
    BY <1>1 DEF AboutTypeOK
  <2>1. CASE Holding(d)
    <3>1. again' = [again EXCEPT ![u] = @ + 1]
      BY <1>3, <2>1
    <3> QED
      BY <1>2, <2>0, <2>1, <3>1
  <2>2. CASE ~Holding(d)
    BY <1>2, <1>3, <2>0, <2>2
  <2> QED
    BY <2>1, <2>2
<1>7. /\ unsaid' \in [Uploads -> Nat]
      /\ unsaid'[u] = (IF Succeeding(d, u) THEN unsaid[u] + 1 ELSE unsaid[u])
      /\ \A v \in Uploads : v # u => unsaid'[v] = unsaid[v]
  <2>0. unsaid \in [Uploads -> Nat]
    BY <1>1 DEF AboutTypeOK
  <2>1. CASE Succeeding(d, u)
    <3>1. unsaid' = [unsaid EXCEPT ![u] = @ + 1]
      BY <1>3, <2>1
    <3> QED
      BY <1>2, <2>0, <2>1, <3>1
  <2>2. CASE ~Succeeding(d, u)
    BY <1>2, <1>3, <2>0, <2>2
  <2> QED
    BY <2>1, <2>2
<1> HIDE DEF u, o
<1>8. AboutTypeOK'
  BY <1>1, <1>3, <1>4, <1>5, <1>6, <1>7 DEF AboutTypeOK, Reasons
<1>9. FormInv'
  BY <1>1, <1>3 DEF formVars, FormInv, FormTypeOK, Saving, Taken, CodesDistinct
<1>10. Working'
  BY <1>1, <1>4, TwoDaemons DEF Working
<1>11. Reporting'
  <2>1. \A e \in Daemons : dm'[e].pc \in {"update", "mail"} => dm'[e] = dm[e]
    BY <1>4
  <2> QED
    BY <1>1, <1>3, <2>1, ReportingKept
<1>12. (\A v : RowsOf(v)' = RowsOf(v)) /\ (\A v, n : Shown(v, n)' <=> Shown(v, n))
  BY <1>3 DEF RowsOf, Shown
<1>13. \A v \in Uploads : /\ again[v] \in Nat /\ sends[v] \in Nat
                         /\ Cardinality(RowsOf(v)) \in Nat
                         /\ Cardinality(RowsOf(v)) <= sends[v] + again[v]
  BY <1>1, RowsFinite DEF AboutTypeOK, OneVideo
<1>14. Moving'
  <2>1. CASE d = "youtube"
    <3>1. again' = again
      BY <1>3, <2>1 DEF Holding
    <3>2. dm'["ingest"] = dm["ingest"]
      BY <1>4, <2>1, TwoDaemons
    <3> QED
      BY <1>1, <1>3, <1>12, <3>1, <3>2, MovingKept
  <2>2. CASE d = "ingest"
    <3>1. dm'["ingest"].pc = "down"
      BY <1>4, <2>2
    <3>2. \A v \in Uploads : folders'[v].upload <= sends'[v]
      BY <1>1, <1>3 DEF Moving
    <3>3. ASSUME NEW v \in Uploads, folders[v].upload # 0
          PROVE  Cardinality(RowsOf(v)) < sends[v] + again'[v]
      <4>1. CASE Holding("ingest") /\ v = u
        <5>1. again'[v] = again[v] + 1
          BY <1>6, <2>2, <4>1
        <5> QED
          BY <1>13, <5>1
      <4>2. CASE ~(Holding("ingest") /\ v = u)
        <5>1. Cardinality(RowsOf(v)) < sends[v] + again[v]
          BY <1>1, <2>2, <3>3, <4>2 DEF Moving, u
        <5>2. again'[v] = again[v]
          BY <1>6, <2>2, <4>2
        <5> QED
          BY <5>1, <5>2
      <4> QED
        BY <4>1, <4>2
    <3> QED
      BY <1>3, <1>12, <3>1, <3>2, <3>3 DEF Moving
  <2> QED
    BY <2>1, <2>2, TwoDaemons
<1>15. FailedFirst'
  BY <1>1, <1>3 DEF FailedFirst
<1>16. OneVideo'
  <2>1. ASSUME NEW v \in Uploads PROVE Cardinality(RowsOf(v)) <= sends[v] + again'[v]
    <3>1. again'[v] = again[v] \/ again'[v] = again[v] + 1
      BY <1>6
    <3> QED
      BY <1>13, <3>1
  <2> QED
    BY <1>3, <1>12, <2>1 DEF OneVideo
<1>17. SuccessOnce'
  <2>1. DueCounted /\ DueCounted'
    BY <1>1, <1>10, DueNumber, PTL
  <2>2. \A v \in Uploads : Urls(v)' = Urls(v) /\ Cardinality(Told(v))' = Cardinality(Told(v))
    BY <1>3 DEF Urls, RowsOf, Told
  <2>3. ASSUME NEW v \in Uploads
        PROVE  unsaid'[v] + Cardinality(Due(v))' = unsaid[v] + Cardinality(Due(v))
    <3>1. unsaid[v] \in Nat
      BY <1>1 DEF AboutTypeOK
    <3>2. CASE d = "youtube"
      <4>1. ~Succeeding("youtube", v)'
        BY <1>4, <3>2 DEF Succeeding
      <4>2. CASE Succeeding("youtube", v)
        <5>1. Succeeding(d, u) /\ v = u
          BY <3>2, <4>2 DEF Succeeding, u
        <5>2. unsaid'[v] = unsaid[v] + 1
          BY <1>7, <5>1
        <5>3. Cardinality(Due(v)) = 1 /\ Cardinality(Due(v))' = 0
          BY <2>1, <4>1, <4>2 DEF DueCounted
        <5> QED
          BY <3>1, <5>2, <5>3
      <4>3. CASE ~Succeeding("youtube", v)
        <5>1. unsaid'[v] = unsaid[v]
          <6>1. ~(v = u /\ Succeeding(d, u))
            BY <3>2, <4>3
          <6> QED
            BY <1>7, <6>1
        <5>2. Cardinality(Due(v)) = 0 /\ Cardinality(Due(v))' = 0
          BY <2>1, <4>1, <4>3 DEF DueCounted
        <5> QED
          BY <3>1, <5>1, <5>2
      <4> QED
        BY <4>2, <4>3
    <3>3. CASE d = "ingest"
      <4>1. ~Succeeding(d, u)
        BY <1>1, <3>3 DEF Working, Succeeding
      <4>2. unsaid'[v] = unsaid[v]
        BY <1>7, <4>1
      <4>3. Succeeding("youtube", v)' <=> Succeeding("youtube", v)
        BY <1>4, <3>3, TwoDaemons DEF Succeeding
      <4>4. Cardinality(Due(v))' = Cardinality(Due(v))
        BY <2>1, <4>3 DEF DueCounted
      <4> QED
        BY <4>2, <4>4
    <3> QED
      BY <3>2, <3>3, TwoDaemons
  <2>4. ASSUME NEW v \in Uploads
        PROVE  Cardinality(Told(v)) \in Nat /\ unsaid[v] \in Nat /\ unsaid'[v] \in Nat
    <3>1. mails[v] \in Seq(Outcomes)
      BY <1>1 DEF AboutTypeOK
    <3>2. Cardinality(Told(v)) \in Nat
      BY <3>1, ToldNumber DEF Told
    <3>3. unsaid[v] \in Nat /\ unsaid'[v] \in Nat
      BY <1>1, <1>7 DEF AboutTypeOK
    <3> QED
      BY <3>2, <3>3
  <2>5. ASSUME NEW v \in Uploads
        PROVE  Cardinality(Due(v)) \in Nat /\ Cardinality(Due(v))' \in Nat
    BY <2>1 DEF DueCounted
  <2>6. ASSUME NEW v \in Uploads
        PROVE  Cardinality(Urls(v))' = Cardinality(Told(v))' + unsaid'[v]
                                         + Cardinality(Due(v))'
    <3>1. Cardinality(Urls(v)) = Cardinality(Told(v)) + unsaid[v]
                                   + Cardinality(Due(v))
      BY <1>1, Counts
    <3> QED
      BY <2>2, <2>3, <2>4, <2>5, <3>1
  <2> QED
    BY <2>6 DEF SuccessOnce, Urls, Due, Succeeding, Told
<1> QED
  BY <1>5, <1>8, <1>9, <1>10, <1>11, <1>14, <1>15, <1>16, <1>17 DEF Inv, AboutInv

-----------------------------------------------------------------------------
(* The ingest daemon.                                                        *)
LEMMA MovingIdle ==
  ASSUME Moving, ~Holding("ingest"), dm'["ingest"].pc \in {"idle", "down", "insert"},
         dm'["ingest"].pc = "insert" =>
           /\ folders'[dm'["ingest"].up].upload # 0
           /\ dm'["ingest"].file \in 1..sends'[dm'["ingest"].up],
         \A u : RowsOf(u)' = RowsOf(u), UNCHANGED <<again, folders, sends>>
  PROVE  Moving'
<1>1. \A u \in Uploads : folders'[u].upload <= sends'[u]
  BY DEF Moving
<1>2. \A u \in Uploads :
        folders'[u].upload # 0 => Cardinality(RowsOf(u)') < sends'[u] + again'[u]
  BY DEF Moving
<1> QED
  BY <1>1, <1>2 DEF Moving

LEMMA RestartStep ==
  ASSUME Inv, NEW d \in Daemons, Restart(d)
  PROVE  Inv'
<1>1. /\ AboutTypeOK /\ FormInv /\ CourseFound /\ Working /\ Reporting /\ Moving
      /\ FailedFirst /\ OneVideo /\ SuccessOnce
  BY InvParts
<1>2. /\ dm[d].pc = "down" /\ dm' = [dm EXCEPT ![d] = At("idle")]
      /\ UNCHANGED <<formVars, records, sends, folders, videos, reports, mails, stops, again,
                     unsaid, raced>>
  BY DEF Restart
<1>3. At("idle") \in Work /\ At("idle").pc = "idle" /\ At("idle").up = None
      /\ At("idle").out = "FAILED"
  BY AtIsWork DEF Pcs
<1>4. /\ dm' \in [Daemons -> Work] /\ dm'[d] = At("idle")
      /\ \A e \in Daemons : e # d => dm'[e] = dm[e]
  BY <1>1, <1>2, <1>3, DaemonGoes DEF AboutTypeOK
<1>5. AboutTypeOK'
  BY <1>1, <1>2, <1>4 DEF AboutTypeOK
<1>6. FormInv' /\ CourseFound' /\ FailedFirst' /\ OneVideo'
  BY <1>1, <1>2 DEF formVars, FormInv, FormTypeOK, Saving, Taken, CodesDistinct, CourseFound,
                    FailedFirst, OneVideo, RowsOf
<1>7. Working'
  BY <1>1, <1>3, <1>4, TwoDaemons DEF Working
<1>8. Reporting'
  <2>1. \A e \in Daemons : dm'[e].pc \in {"update", "mail"} => dm'[e] = dm[e]
    BY <1>3, <1>4
  <2> QED
    BY <1>1, <1>2, <2>1, ReportingKept
<1>9. Moving'
  <2>1. (\A v : RowsOf(v)' = RowsOf(v)) /\ (\A v, n : Shown(v, n)' <=> Shown(v, n))
    BY <1>2 DEF RowsOf, Shown
  <2>2. CASE d = "ingest"
    <3>1. ~Holding("ingest") /\ dm'["ingest"].pc = "idle"
      BY <1>2, <1>3, <1>4, <2>2 DEF Holding
    <3> QED
      BY <1>1, <1>2, <2>1, <3>1, MovingIdle
  <2>3. CASE d # "ingest"
    <3>1. dm'["ingest"] = dm["ingest"]
      BY <1>4, <2>3, TwoDaemons
    <3> QED
      BY <1>1, <1>2, <2>1, <3>1, MovingKept
  <2> QED
    BY <2>2, <2>3
<1>10. SuccessOnce'
  <2>1. \A u \in Uploads : Succeeding("youtube", u)' <=> Succeeding("youtube", u)
    BY <1>2, <1>3, <1>4, TwoDaemons DEF Succeeding
  <2> QED
    BY <1>1, <1>2, <1>7, <2>1, CountsKept
<1> QED
  BY <1>5, <1>6, <1>7, <1>8, <1>9, <1>10 DEF Inv, AboutInv

LEMMA DiscoverStep ==
  ASSUME Inv, NEW u \in Uploads, Discover(u)
  PROVE  Inv'
<1>1. /\ AboutTypeOK /\ FormInv /\ CourseFound /\ Working /\ Reporting /\ Moving
      /\ FailedFirst /\ OneVideo /\ SuccessOnce
  BY InvParts
<1>2. /\ dm["ingest"].pc = "idle" /\ folders[u].upload # 0
      /\ UNCHANGED <<formVars, records, sends, folders, videos, reports, mails, again,
                     unsaid, raced>>
  BY DEF Discover
<1> DEFINE begin == [At("insert") EXCEPT !.up = u, !.file = folders[u].upload,
                                         !.name = records[u].name]
<1>3. /\ begin \in Work /\ begin.pc = "insert" /\ begin.up = u /\ begin.out = "FAILED"
      /\ begin.file = folders[u].upload
      /\ At("down") \in Work /\ At("down").pc = "down" /\ At("down").out = "FAILED"
  <2>1. records[u].name \in Names /\ folders[u].upload \in Nat
    BY <1>1 DEF AboutTypeOK, Record, Folders
  <2>2. At("down") \in Work /\ At("down").pc = "down" /\ At("down").out = "FAILED"
    BY AtIsWork DEF Pcs
  <2>3. begin \in Work
    BY <2>1 DEF At, Work, Names, Outcomes
  <2>4. /\ begin.pc = "insert" /\ begin.up = u /\ begin.out = "FAILED"
        /\ begin.file = folders[u].upload
    BY DEF At
  <2> HIDE DEF begin
  <2> QED
    BY <2>2, <2>3, <2>4
<1>4. PICK w \in {begin, At("down")} :
        /\ dm' = [dm EXCEPT !["ingest"] = w]
        /\ \/ stops' = stops
           \/ \E reason \in Reasons :
                /\ stops' = Append(stops, reason)
                /\ reason = "courses" => Cardinality(AboutCourses) > 1
  <2>1. CASE records[u].name = "empty"
    BY <2>1 DEF Discover, Stop, Reasons
  <2>2. CASE records[u].name # "empty" /\ AboutCourses = {}
    BY <2>2 DEF Discover, Stop, Reasons
  <2>3. CASE records[u].name # "empty" /\ AboutCourses # {} /\ Cardinality(AboutCourses) > 1
    BY <2>3 DEF Discover, Stop, Reasons
  <2>4. CASE records[u].name # "empty" /\ AboutCourses # {} /\ ~(Cardinality(AboutCourses) > 1)
    BY <2>4 DEF Discover
  <2> QED
    BY <2>1, <2>2, <2>3, <2>4
<1>5. /\ w \in Work /\ w.pc \in {"insert", "down"} /\ w.out = "FAILED"
      /\ w.pc = "insert" => w.up = u /\ w.file = folders[u].upload
  BY <1>3
<1> HIDE DEF begin
<1>6. /\ dm' \in [Daemons -> Work] /\ dm'["ingest"] = w
      /\ \A e \in Daemons : e # "ingest" => dm'[e] = dm[e]
  BY <1>1, <1>4, <1>5, DaemonGoes, TwoDaemons DEF AboutTypeOK
<1>7. stops' \in Seq(Reasons) /\ CourseFound'
  <2>1. overlapped' = overlapped
    BY <1>2 DEF formVars
  <2>2. CASE stops' = stops
    BY <1>1, <2>1, <2>2 DEF AboutTypeOK, Reasons, CourseFound
  <2>3. ASSUME NEW reason \in Reasons, stops' = Append(stops, reason),
               reason = "courses" => Cardinality(AboutCourses) > 1
        PROVE  stops' \in Seq(Reasons) /\ CourseFound'
    <3>1. reason = "courses" => AboutCode \in overlapped
      BY <1>1, <2>3, TwoCourses
    <3> QED
      BY <1>1, <2>1, <2>3, <3>1, StopAdded
  <2> QED
    BY <1>4, <2>2, <2>3
<1>8. AboutTypeOK'
  BY <1>1, <1>2, <1>6, <1>7 DEF AboutTypeOK, Reasons
<1>9. FormInv' /\ FailedFirst' /\ OneVideo'
  BY <1>1, <1>2 DEF formVars, FormInv, FormTypeOK, Saving, Taken, CodesDistinct,
                    FailedFirst, OneVideo, RowsOf
<1>10. Working'
  BY <1>1, <1>5, <1>6, TwoDaemons DEF Working
<1>11. Reporting'
  <2>1. \A e \in Daemons : dm'[e].pc \in {"update", "mail"} => dm'[e] = dm[e]
    BY <1>5, <1>6
  <2> QED
    BY <1>1, <1>2, <2>1, ReportingKept
<1>12. Moving'
  <2>1. \A v : RowsOf(v)' = RowsOf(v)
    BY <1>2 DEF RowsOf
  <2>2. ~Holding("ingest")
    BY <1>2 DEF Holding
  <2>3. folders[u].upload \in 1..sends[u]
    <3>1. folders[u].upload \in Nat /\ sends[u] \in Nat
      BY <1>1 DEF AboutTypeOK, Folders
    <3> QED
      BY <1>1, <1>2, <3>1 DEF Moving
  <2> QED
    BY <1>1, <1>2, <1>5, <1>6, <2>1, <2>2, <2>3, MovingIdle
<1>13. SuccessOnce'
  <2>1. \A v \in Uploads : Succeeding("youtube", v)' <=> Succeeding("youtube", v)
    BY <1>6, TwoDaemons DEF Succeeding
  <2> QED
    BY <1>1, <1>2, <1>10, <2>1, CountsKept
<1> QED
  BY <1>7, <1>8, <1>9, <1>10, <1>11, <1>12, <1>13 DEF Inv, AboutInv

LEMMA CopyStep ==
  ASSUME Inv, Copy
  PROVE  Inv'
<1>1. /\ AboutTypeOK /\ FormInv /\ CourseFound /\ Working /\ Reporting /\ Moving
      /\ FailedFirst /\ OneVideo /\ SuccessOnce
  BY InvParts
<1>2. PICK u \in Uploads : u = dm["ingest"].up
  <2>1. dm["ingest"].pc = "copy"
    BY DEF Copy
  <2> QED
    BY <1>1, <2>1, TwoDaemons DEF Working
<1>3. /\ dm["ingest"].pc = "copy" /\ Goto("ingest", "delete")
      /\ folders' = [folders EXCEPT ![u].process = folders[u].upload]
      /\ UNCHANGED <<formVars, records, sends, videos, reports, mails, stops, again, unsaid,
                     raced>>
  BY <1>2 DEF Copy
<1>4. /\ dm' \in [Daemons -> Work] /\ dm'["ingest"].pc = "delete"
      /\ dm'["ingest"].up = u /\ dm'["ingest"].out = dm["ingest"].out
      /\ dm'["ingest"].file = dm["ingest"].file
      /\ \A e \in Daemons : e # "ingest" => dm'[e] = dm[e]
  BY <1>1, <1>2, <1>3, GotoDoes, TwoDaemons DEF AboutTypeOK, Pcs
<1>5. /\ folders' \in [Uploads -> Folders]
      /\ folders'[u].upload = folders[u].upload /\ folders'[u].process = folders[u].upload
      /\ \A v \in Uploads : v # u => folders'[v] = folders[v]
  <2> DEFINE r == [folders[u] EXCEPT !.process = folders[u].upload]
  <2>1. folders \in [Uploads -> Folders]
    BY <1>1 DEF AboutTypeOK
  <2>2. r \in Folders /\ r.upload = folders[u].upload /\ r.process = folders[u].upload
    BY <1>2, <2>1 DEF Folders
  <2>3. folders' = [folders EXCEPT ![u] = r]
    BY <1>3
  <2> HIDE DEF r
  <2> QED
    BY <1>2, <2>1, <2>2, <2>3
<1>6. AboutTypeOK'
  BY <1>1, <1>3, <1>4, <1>5 DEF AboutTypeOK
<1>7. FormInv' /\ CourseFound' /\ FailedFirst' /\ OneVideo'
  BY <1>1, <1>3 DEF formVars, FormInv, FormTypeOK, Saving, Taken, CodesDistinct, CourseFound,
                    FailedFirst, OneVideo, RowsOf
<1>8. Working'
  BY <1>1, <1>2, <1>4, TwoDaemons DEF Working
<1>9. Reporting'
  <2>1. \A e \in Daemons : dm'[e].pc \in {"update", "mail"} => dm'[e] = dm[e]
    BY <1>4
  <2> QED
    BY <1>1, <1>3, <2>1, ReportingKept
<1>10. Moving'
  <2>1. (\A v : RowsOf(v)' = RowsOf(v)) /\ (\A v, n : Shown(v, n)' <=> Shown(v, n))
    BY <1>3 DEF RowsOf, Shown
  <2>2. Holding("ingest") /\ Holding("ingest")'
    BY <1>3, <1>4 DEF Holding
  <2>3. PICK n : n = dm["ingest"].file
    OBVIOUS
  <2>4. folders'[u].upload # 0 /\ n \in 1..sends'[u] /\ (Shown(u, n)' \/ records'[u].final)
    BY <1>1, <1>2, <1>3, <1>5, <2>1, <2>3 DEF Moving
  <2>5. \A v \in Uploads : folders'[v].upload <= sends'[v]
    <3>1. \A v \in Uploads : folders'[v].upload = folders[v].upload
      BY <1>5
    <3> QED
      BY <1>1, <1>3, <3>1 DEF Moving
  <2>6. \A v \in Uploads :
          folders'[v].upload # 0 /\ v # u => Cardinality(RowsOf(v)') < sends'[v] + again'[v]
    BY <1>1, <1>2, <1>3, <1>5, <2>1 DEF Moving
  <2>7. (Shown(dm["ingest"].up, dm["ingest"].file) \/ records[dm["ingest"].up].final)'
    BY <1>4, <2>3, <2>4 DEF Shown, RowsOf
  <2>8. dm'["ingest"].file = n
    BY <1>4, <2>3
  <2> QED
    BY <1>4, <1>5, <2>2, <2>4, <2>5, <2>6, <2>7, <2>8 DEF Moving
<1>11. SuccessOnce'
  <2>1. \A v \in Uploads : Succeeding("youtube", v)' <=> Succeeding("youtube", v)
    BY <1>4, TwoDaemons DEF Succeeding
  <2> QED
    BY <1>1, <1>3, <1>8, <2>1, CountsKept
<1> QED
  BY <1>6, <1>7, <1>8, <1>9, <1>10, <1>11 DEF Inv, AboutInv

LEMMA DeleteStep ==
  ASSUME Inv, Delete
  PROVE  Inv'
<1>1. /\ AboutTypeOK /\ FormInv /\ CourseFound /\ Working /\ Reporting /\ Moving
      /\ FailedFirst /\ OneVideo /\ SuccessOnce
  BY InvParts
<1>2. PICK u \in Uploads : u = dm["ingest"].up
  <2>1. dm["ingest"].pc = "delete"
    BY DEF Delete
  <2> QED
    BY <1>1, <2>1, TwoDaemons DEF Working
<1>3. /\ dm["ingest"].pc = "delete" /\ Goto("ingest", "idle")
      /\ folders' = [folders EXCEPT ![u].upload = 0]
      /\ UNCHANGED <<formVars, records, sends, videos, reports, mails, stops, again, unsaid,
                     raced>>
  BY <1>2 DEF Delete
<1>4. /\ dm' \in [Daemons -> Work] /\ dm'["ingest"].pc = "idle"
      /\ dm'["ingest"].out = "FAILED"
      /\ \A e \in Daemons : e # "ingest" => dm'[e] = dm[e]
  BY <1>1, <1>2, <1>3, GotoDoes, TwoDaemons DEF AboutTypeOK, Pcs
<1>5. /\ folders' \in [Uploads -> Folders] /\ folders'[u].upload = 0
      /\ \A v \in Uploads : v # u => folders'[v] = folders[v]
  <2> DEFINE r == [folders[u] EXCEPT !.upload = 0]
  <2>1. folders \in [Uploads -> Folders]
    BY <1>1 DEF AboutTypeOK
  <2>2. r \in Folders /\ r.upload = 0
    BY <1>2, <2>1 DEF Folders
  <2>3. folders' = [folders EXCEPT ![u] = r]
    BY <1>3
  <2> HIDE DEF r
  <2> QED
    BY <1>2, <2>1, <2>2, <2>3
<1>6. AboutTypeOK'
  BY <1>1, <1>3, <1>4, <1>5 DEF AboutTypeOK
<1>7. FormInv' /\ CourseFound' /\ FailedFirst' /\ OneVideo'
  BY <1>1, <1>3 DEF formVars, FormInv, FormTypeOK, Saving, Taken, CodesDistinct, CourseFound,
                    FailedFirst, OneVideo, RowsOf
<1>8. Working'
  BY <1>1, <1>4, TwoDaemons DEF Working
<1>9. Reporting'
  <2>1. \A e \in Daemons : dm'[e].pc \in {"update", "mail"} => dm'[e] = dm[e]
    BY <1>4
  <2> QED
    BY <1>1, <1>3, <2>1, ReportingKept
<1>10. Moving'
  <2>1. \A v : RowsOf(v)' = RowsOf(v)
    BY <1>3 DEF RowsOf
  <2>2. \A v \in Uploads : folders'[v].upload <= sends'[v]
    <3>1. ASSUME NEW v \in Uploads PROVE folders'[v].upload <= sends[v]
      <4>1. sends[v] \in Nat /\ folders[v].upload <= sends[v]
        BY <1>1 DEF AboutTypeOK, Moving
      <4> QED
        BY <1>5, <4>1
    <3> QED
      BY <1>3, <3>1
  <2>3. \A v \in Uploads :
          folders'[v].upload # 0 => Cardinality(RowsOf(v)') < sends'[v] + again'[v]
    BY <1>1, <1>2, <1>3, <1>5, <2>1 DEF Moving
  <2> QED
    BY <1>4, <2>2, <2>3 DEF Moving
<1>11. SuccessOnce'
  <2>1. \A v \in Uploads : Succeeding("youtube", v)' <=> Succeeding("youtube", v)
    BY <1>4, TwoDaemons DEF Succeeding
  <2> QED
    BY <1>1, <1>3, <1>8, <2>1, CountsKept
<1> QED
  BY <1>6, <1>7, <1>8, <1>9, <1>10, <1>11 DEF Inv, AboutInv

(* It goes on with the upload it has, which stays in its folder.             *)
LEMMA MovingHeld ==
  ASSUME Moving, NEW u \in Uploads, dm["ingest"].up = u, dm'["ingest"].up = u,
         NEW n, dm["ingest"].file = n, dm'["ingest"].file = n,
         folders[u].upload # 0, n \in 1..sends[u],
         dm'["ingest"].pc \in {"read", "update", "mail", "copy"},
         dm'["ingest"].pc = "copy" => Shown(u, n)' \/ records'[u].final,
         \A v \in Uploads : v # u => RowsOf(v)' = RowsOf(v),
         UNCHANGED <<again, folders, sends>>
  PROVE  Moving'
<1>1. Holding("ingest")'
  BY DEF Holding
<1>2. \A v \in Uploads : folders'[v].upload <= sends'[v]
  BY DEF Moving
<1>3. \A v \in Uploads :
        folders'[v].upload # 0 /\ v # u => Cardinality(RowsOf(v)') < sends'[v] + again'[v]
  BY DEF Moving
<1>4. dm'["ingest"].pc = "copy" =>
        (Shown(dm["ingest"].up, dm["ingest"].file) \/ records[dm["ingest"].up].final)'
  BY DEF Shown, RowsOf
<1> QED
  BY <1>1, <1>2, <1>3, <1>4 DEF Moving

(* A row more, without a URL of YouTube.                                     *)
LEMMA UrlsOfInsert ==
  ASSUME videos \in Seq(Video), NEW v \in Video, ~v.url, videos' = Append(videos, v), NEW u
  PROVE  Urls(u)' = Urls(u)
<1>1. /\ Len(videos) \in Nat /\ DOMAIN videos = 1..Len(videos)
      /\ \A i \in 1..Len(videos) : videos'[i] = videos[i]
      /\ videos'[Len(videos) + 1] = v
  BY Appended
<1>2. RowsOf(u)' = IF v.up = u THEN RowsOf(u) \cup {Len(videos) + 1} ELSE RowsOf(u)
  BY RowAdded
<1>3. RowsOf(u) \subseteq 1..Len(videos)
  BY <1>1 DEF RowsOf
<1>4. Urls(u)' = {i \in RowsOf(u)' : videos'[i].url}
  BY DEF Urls
<1> QED
  BY <1>1, <1>2, <1>3, <1>4 DEF Urls

LEMMA InsertStep ==
  ASSUME Inv, Insert
  PROVE  Inv'
<1>1. /\ AboutTypeOK /\ FormInv /\ CourseFound /\ Working /\ Reporting /\ Moving
      /\ FailedFirst /\ OneVideo /\ SuccessOnce
  BY InvParts
<1>2. PICK u \in Uploads : u = dm["ingest"].up
  <2>1. dm["ingest"].pc = "insert"
    BY DEF Insert
  <2> QED
    BY <1>1, <2>1, TwoDaemons DEF Working
<1>0. PICK n : n = dm["ingest"].file
  OBVIOUS
<1>3. /\ dm["ingest"].pc = "insert" /\ folders[u].upload # 0 /\ n \in 1..sends[u]
      /\ UNCHANGED <<formVars, records, sends, folders, reports, mails, stops, again,
                     unsaid, raced>>
  BY <1>0, <1>1, <1>2 DEF Insert, Moving
<1>4. \/ Goto("ingest", "read") /\ videos' = videos
      \/ \E corrupt \in BOOLEAN :
           /\ videos' = Append(videos, [up |-> u, file |-> n, corrupt |-> corrupt,
                                        url |-> FALSE])
           /\ Goto("ingest", IF corrupt THEN "read" ELSE "copy")
  BY <1>0, <1>2 DEF Insert
<1>5. PICK pc \in {"read", "copy"} :
        /\ Goto("ingest", pc)
        /\ \/ videos' = videos /\ pc = "read"
           \/ \E v \in Video :
                v.up = u /\ v.file = n /\ ~v.url /\ videos' = Append(videos, v)
  <2>1. CASE Goto("ingest", "read") /\ videos' = videos
    BY <2>1
  <2>2. ASSUME NEW corrupt \in BOOLEAN,
               videos' = Append(videos, [up |-> u, file |-> n, corrupt |-> corrupt,
                                         url |-> FALSE]),
               Goto("ingest", IF corrupt THEN "read" ELSE "copy")
        PROVE  \E pc \in {"read", "copy"} :
                 /\ Goto("ingest", pc)
                 /\ \E v \in Video :
                      v.up = u /\ v.file = n /\ ~v.url /\ videos' = Append(videos, v)
    <3> DEFINE v == [up |-> u, file |-> n, corrupt |-> corrupt, url |-> FALSE]
    <3>1. v \in Video /\ v.up = u /\ v.file = n /\ ~v.url
      <4>1. n \in Nat
        BY <1>0, <1>1, TwoDaemons DEF AboutTypeOK, Work
      <4> QED
        BY <4>1 DEF Video
    <3>2. videos' = Append(videos, v)
      BY <2>2
    <3> HIDE DEF v
    <3>3. CASE corrupt
      BY <2>2, <3>1, <3>2, <3>3
    <3>4. CASE ~corrupt
      BY <2>2, <3>1, <3>2, <3>4
    <3> QED
      BY <3>3, <3>4
  <2> QED
    BY <1>4, <2>1, <2>2
<1>6. /\ dm' \in [Daemons -> Work] /\ dm'["ingest"].pc = pc
      /\ dm'["ingest"].up = u /\ dm'["ingest"].out = dm["ingest"].out
      /\ dm'["ingest"].file = n
      /\ \A e \in Daemons : e # "ingest" => dm'[e] = dm[e]
  <2>1. pc \in Pcs /\ pc # "idle"
    BY DEF Pcs
  <2> QED
    BY <1>0, <1>1, <1>2, <1>5, <2>1, GotoDoes, TwoDaemons DEF AboutTypeOK
<1>7. videos \in Seq(Video)
  BY <1>1 DEF AboutTypeOK
<1>8. /\ videos' \in Seq(Video) /\ 1..Len(videos) \subseteq 1..Len(videos')
      /\ pc = "copy" => Shown(u, n)'
      /\ \A v \in Uploads : v # u => RowsOf(v)' = RowsOf(v)
      /\ Cardinality(RowsOf(u)') <= Cardinality(RowsOf(u)) + 1
      /\ \A v : Urls(v)' = Urls(v)
  <2>1. Cardinality(RowsOf(u)) \in Nat
    BY <1>7, RowsFinite
  <2>2. CASE videos' = videos /\ pc = "read"
    BY <1>7, <2>1, <2>2 DEF RowsOf, Urls
  <2>3. ASSUME NEW v \in Video, v.up = u, v.file = n, ~v.url, videos' = Append(videos, v)
        PROVE  <1>8!:
    <3>1. /\ videos' \in Seq(Video) /\ Len(videos) \in Nat /\ Len(videos') = Len(videos) + 1
          /\ videos'[Len(videos) + 1] = v
      BY <1>7, <2>3, Appended
    <3>2. 1..Len(videos) \subseteq 1..Len(videos')
      BY <3>1
    <3>3. \A x : RowsOf(x)' = IF v.up = x THEN RowsOf(x) \cup {Len(videos) + 1} ELSE RowsOf(x)
      BY <1>7, <2>3, RowAdded
    <3>4. Cardinality(RowsOf(u)') <= Cardinality(RowsOf(u)) + 1
      BY <1>7, <2>3, RowCounted
    <3>5. \A x : Urls(x)' = Urls(x)
      BY <1>7, <2>3, UrlsOfInsert
    <3>6. Shown(u, n)'
      <4>1. Len(videos) + 1 \in RowsOf(u)'
        BY <2>3, <3>3
      <4>2. videos'[Len(videos) + 1].file = n
        BY <2>3, <3>1
      <4>3. \E k \in RowsOf(u)' : videos'[k].file = n
        BY <4>1, <4>2
      <4> QED
        BY <4>3 DEF Shown
    <3> QED
      BY <2>3, <3>1, <3>2, <3>3, <3>4, <3>5, <3>6
  <2> QED
    BY <1>5, <2>2, <2>3
<1>9. AboutTypeOK'
  <2>1. reports' \subseteq (1..Len(videos')) \X {"Successful", "Duplicate"}
    BY <1>1, <1>3, <1>8 DEF AboutTypeOK
  <2> QED
    BY <1>1, <1>3, <1>6, <1>8, <2>1 DEF AboutTypeOK
<1>10. FormInv' /\ CourseFound' /\ FailedFirst'
  BY <1>1, <1>3 DEF formVars, FormInv, FormTypeOK, Saving, Taken, CodesDistinct, CourseFound,
                    FailedFirst
<1>11. Working'
  BY <1>1, <1>6, TwoDaemons DEF Working
<1>12. Reporting'
  <2>1. \A e \in Daemons : dm'[e].pc \in {"update", "mail"} => dm'[e] = dm[e]
    BY <1>6
  <2> QED
    BY <1>1, <1>3, <2>1, ReportingKept
<1>13. Moving'
  BY <1>0, <1>1, <1>2, <1>3, <1>6, <1>8, MovingHeld
<1>14. OneVideo'
  <2>1. Cardinality(RowsOf(u)) < sends[u] + again[u]
    BY <1>1, <1>3 DEF Moving, Holding
  <2>2. /\ Cardinality(RowsOf(u)) \in Nat /\ again[u] \in Nat /\ sends[u] \in Nat
        /\ Cardinality(RowsOf(u)') \in Int
    <3>1. Cardinality(RowsOf(u))' \in Nat
      <4>1. IsFiniteSet(RowsOf(u)')
        <5>1. IsFiniteSet(1..Len(videos'))
          BY <1>8, FS_Interval
        <5>2. RowsOf(u)' \subseteq 1..Len(videos')
          BY <1>8 DEF RowsOf
        <5> QED
          BY <5>1, <5>2, FS_Subset
      <4> QED
        BY <4>1, FS_CardinalityType
    <3> QED
      BY <1>1, <1>7, <3>1, RowsFinite DEF AboutTypeOK
  <2>3. Cardinality(RowsOf(u)') <= sends'[u] + again'[u]
    BY <1>3, <1>8, <2>1, <2>2
  <2>4. \A v \in Uploads : v # u => Cardinality(RowsOf(v)') <= sends'[v] + again'[v]
    BY <1>1, <1>3, <1>8 DEF OneVideo
  <2> QED
    BY <2>3, <2>4 DEF OneVideo
<1>15. SuccessOnce'
  <2>1. \A v \in Uploads : Succeeding("youtube", v)' <=> Succeeding("youtube", v)
    BY <1>6, TwoDaemons DEF Succeeding
  <2>2. DueCounted /\ DueCounted'
    BY <1>1, <1>11, DueNumber, PTL
  <2>3. ASSUME NEW v \in Uploads
        PROVE  Cardinality(Urls(v))' = Cardinality(Told(v))' + unsaid'[v]
                                         + Cardinality(Due(v))'
    <3>1. Cardinality(Due(v))' = Cardinality(Due(v))
      BY <2>1, <2>2 DEF DueCounted
    <3>2. Cardinality(Told(v))' = Cardinality(Told(v)) /\ unsaid' = unsaid
      BY <1>3 DEF Told
    <3>3. Cardinality(Urls(v))' = Cardinality(Urls(v))
      BY <1>8
    <3> QED
      BY <1>1, <3>1, <3>2, <3>3, Counts
  <2> QED
    BY <2>3 DEF SuccessOnce, Urls, Due, Succeeding, Told
<1> QED
  BY <1>9, <1>10, <1>11, <1>12, <1>13, <1>14, <1>15 DEF Inv, AboutInv

-----------------------------------------------------------------------------
(* The daemon of the YouTube callback, and the reports of both.              *)
LEMMA YoutubeProcessesStep ==
  ASSUME Inv, NEW i \in DOMAIN videos, YoutubeProcesses(i)
  PROVE  Inv'
<1>1. /\ AboutTypeOK /\ FormInv /\ CourseFound /\ Working /\ Reporting /\ Moving
      /\ FailedFirst /\ OneVideo /\ SuccessOnce
  BY InvParts
<1>2. /\ \E o \in {"Successful", "Duplicate"} : reports' = reports \cup {<<i, o>>}
      /\ UNCHANGED <<formVars, records, sends, folders, videos, mails, dm, stops, again,
                     unsaid, raced>>
  BY DEF YoutubeProcesses
<1>3. i \in 1..Len(videos)
  BY <1>1, LenProperties DEF AboutTypeOK
<1>4. reports' \subseteq (1..Len(videos)) \X {"Successful", "Duplicate"}
  BY <1>1, <1>2, <1>3 DEF AboutTypeOK
<1>5. AboutTypeOK'
  BY <1>1, <1>2, <1>4 DEF AboutTypeOK
<1>6. FormInv' /\ CourseFound' /\ FailedFirst' /\ OneVideo' /\ Working'
  BY <1>1, <1>2 DEF formVars, FormInv, FormTypeOK, Saving, Taken, CodesDistinct, CourseFound,
                    FailedFirst, OneVideo, RowsOf, Working
<1>7. (\A v : RowsOf(v)' = RowsOf(v)) /\ (\A v, n : Shown(v, n)' <=> Shown(v, n))
  BY <1>2 DEF RowsOf, Shown
<1>8. Reporting' /\ Moving'
  BY <1>1, <1>2, <1>7, ReportingKept, MovingKept
<1>9. SuccessOnce'
  BY <1>1, <1>2, <1>6, CountsKept DEF Succeeding
<1> QED
  BY <1>5, <1>6, <1>8, <1>9 DEF Inv, AboutInv

(* The URL row that a success is told for.                                   *)
LEMMA UrlsOfPatch ==
  ASSUME videos \in Seq(Video), NEW i \in DOMAIN videos, ~videos[i].url,
         videos' = [videos EXCEPT ![i].url = TRUE], NEW u
  PROVE  /\ u # videos[i].up => Urls(u)' = Urls(u)
         /\ u = videos[i].up => Cardinality(Urls(u)') = Cardinality(Urls(u)) + 1
<1>1. /\ \A j \in DOMAIN videos : /\ videos'[j].up = videos[j].up
                                  /\ videos'[j].url = (videos[j].url \/ j = i)
      /\ RowsOf(u)' = RowsOf(u)
  BY RowPatched
<1>2. RowsOf(u) \subseteq DOMAIN videos /\ (i \in RowsOf(u) <=> u = videos[i].up)
  BY DEF RowsOf
<1>3. Urls(u)' = {j \in RowsOf(u) : videos'[j].url}
  BY <1>1 DEF Urls
<1>4. CASE u # videos[i].up
  BY <1>1, <1>2, <1>3, <1>4 DEF Urls
<1>5. CASE u = videos[i].up
  <2>1. Urls(u)' = Urls(u) \cup {i} /\ i \notin Urls(u)
    BY <1>1, <1>2, <1>3, <1>5 DEF Urls
  <2>2. IsFiniteSet(Urls(u))
    BY RowsFinite, FS_Subset DEF Urls
  <2> QED
    BY <1>5, <2>1, <2>2, FS_AddElement
<1> QED
  BY <1>4, <1>5

(* The daemon takes up an upload that it did not have.                       *)
LEMMA YoutubeTakes ==
  ASSUME Inv, NEW w \in Work, dm' = [dm EXCEPT !["youtube"] = w],
         w.pc \in {"read", "update"}, w.up \in Uploads,
         w.out = IF w.pc = "update" THEN "SUCCESS" ELSE "FAILED",
         \A v : RowsOf(v)' = RowsOf(v), \A v, n : Shown(v, n)' <=> Shown(v, n),
         UNCHANGED <<formVars, records, sends, folders, reports, mails, stops, again, unsaid,
                     raced>>,
         videos' \in Seq(Video), Len(videos') = Len(videos)
  PROVE  /\ AboutTypeOK' /\ FormInv' /\ CourseFound' /\ Working' /\ Reporting' /\ Moving'
         /\ FailedFirst' /\ OneVideo'
<1>1. /\ AboutTypeOK /\ FormInv /\ CourseFound /\ Working /\ Reporting /\ Moving
      /\ FailedFirst /\ OneVideo /\ SuccessOnce
  BY InvParts
<1>2. /\ dm' \in [Daemons -> Work] /\ dm'["youtube"] = w
      /\ \A e \in Daemons : e # "youtube" => dm'[e] = dm[e]
  BY <1>1, DaemonGoes, TwoDaemons DEF AboutTypeOK
<1>3. AboutTypeOK'
  BY <1>1, <1>2 DEF AboutTypeOK
<1>4. FormInv' /\ CourseFound' /\ FailedFirst'
  BY <1>1 DEF formVars, FormInv, FormTypeOK, Saving, Taken, CodesDistinct, CourseFound,
              FailedFirst
<1>5. OneVideo'
  BY <1>1 DEF OneVideo
<1>6. Working'
  BY <1>1, <1>2, TwoDaemons DEF Working
<1>7. Moving'
  <2>1. dm'["ingest"] = dm["ingest"]
    BY <1>2, TwoDaemons
  <2> QED
    BY <1>1, <2>1, MovingKept
<1>8. Reporting'
  <2>1. /\ dm'["ingest"] = dm["ingest"] /\ dm'["youtube"].pc # "mail"
        /\ dm'["youtube"].pc = "update" => dm'["youtube"].out # "FAILED"
    BY <1>2, TwoDaemons
  <2>2. \A d \in Daemons : dm'[d].pc = "mail" => d = "ingest"
    BY <2>1, TwoDaemons
  <2>3. \A v \in Uploads : records'[v].complete \/ mails'[v] # <<>> => records'[v].final
    BY <1>1 DEF Reporting
  <2>4. \A d \in Daemons : dm'[d].pc = "mail" => records'[dm'[d].up].final
    BY <1>1, <2>1, <2>2, TwoDaemons DEF Reporting
  <2>5. ASSUME NEW d \in Daemons, NEW v \in Uploads, Failing(d, v)', records'[v].complete
        PROVE  v \in raced'
    <3>1. Failing(d, v) /\ records[v].complete
      BY <2>1, <2>5, TwoDaemons DEF Failing
    <3> QED
      BY <1>1, <3>1 DEF Reporting
  <2>6. ~(dm'["youtube"].pc \in {"update", "mail"} /\ dm'["youtube"].out = "FAILED")
    BY <2>1
  <2> QED
    BY <2>3, <2>4, <2>5, <2>6 DEF Reporting, Failing
<1> QED
  BY <1>1, <1>3, <1>4, <1>5, <1>6, <1>7, <1>8

LEMMA UrlPatchStep ==
  ASSUME Inv, NEW i \in DOMAIN videos, UrlPatch(i)
  PROVE  Inv'
<1>1. /\ AboutTypeOK /\ Working /\ SuccessOnce
      /\ videos \in Seq(Video) /\ dm \in [Daemons -> Work]
  BY InvParts DEF AboutTypeOK
<1>2. /\ dm["youtube"].pc = "idle" /\ ~videos[i].url
      /\ UNCHANGED <<formVars, records, sends, folders, reports, mails, stops, again, unsaid,
                     raced>>
  BY DEF UrlPatch
<1>3. PICK u \in Uploads : u = videos[i].up
  <2>1. videos[i] \in Video
    BY <1>1, LenProperties
  <2> QED
    BY <2>1 DEF Video
<1>4. \A v : ~Succeeding("youtube", v)
  BY <1>2 DEF Succeeding
<1>5. CASE /\ videos' = [videos EXCEPT ![i].url = TRUE]
           /\ dm' = [dm EXCEPT !["youtube"] =
                [At("update") EXCEPT !.up = videos[i].up, !.out = "SUCCESS"]]
  <2> DEFINE w == [At("update") EXCEPT !.up = u, !.out = "SUCCESS"]
  <2>1. w \in Work /\ w.pc = "update" /\ w.up = u /\ w.out = "SUCCESS"
    BY DEF At, Work, Names, Outcomes
  <2>2. dm' = [dm EXCEPT !["youtube"] = w]
    BY <1>3, <1>5
  <2> HIDE DEF w
  <2>3. /\ videos' \in Seq(Video) /\ Len(videos') = Len(videos)
        /\ \A v : RowsOf(v)' = RowsOf(v)
        /\ \A v, n : Shown(v, n)' <=> Shown(v, n)
    BY <1>1, <1>5, RowPatched
  <2>4. /\ AboutTypeOK' /\ FormInv' /\ CourseFound' /\ Working' /\ Reporting' /\ Moving'
        /\ FailedFirst' /\ OneVideo'
    BY <1>2, <2>1, <2>2, <2>3, YoutubeTakes
  <2>5. dm'["youtube"] = w
    BY <1>1, <2>1, <2>2, DaemonGoes, TwoDaemons
  <2>6. \A v : Succeeding("youtube", v)' <=> v = u
    BY <2>1, <2>5 DEF Succeeding
  <2>7. DueCounted /\ DueCounted'
    BY <1>1, <2>4, DueNumber, PTL
  <2>8. ASSUME NEW v \in Uploads
        PROVE  Cardinality(Urls(v))' = Cardinality(Told(v))' + unsaid'[v]
                                         + Cardinality(Due(v))'
    <3>1. Cardinality(Urls(v)) = Cardinality(Told(v)) + unsaid[v]
                                   + Cardinality(Due(v))
      BY <1>1, Counts
    <3>2. Cardinality(Told(v))' = Cardinality(Told(v)) /\ unsaid' = unsaid
      BY <1>2 DEF Told
    <3>3. Cardinality(Told(v)) \in Nat /\ unsaid[v] \in Nat
      <4>1. mails[v] \in Seq(Outcomes) /\ unsaid[v] \in Nat
        BY <1>1 DEF AboutTypeOK
      <4> QED
        BY <4>1, ToldNumber DEF Told
    <3>4. CASE v = u
      <4>1. Cardinality(Urls(v)') = Cardinality(Urls(v)) + 1
        BY <1>1, <1>2, <1>3, <1>5, <3>4, UrlsOfPatch
      <4>2. Cardinality(Due(v)) = 0 /\ Cardinality(Due(v))' = 1
        BY <1>4, <2>6, <2>7, <3>4 DEF DueCounted
      <4> QED
        BY <3>1, <3>2, <3>3, <4>1, <4>2
    <3>5. CASE v # u
      <4>1. Urls(v)' = Urls(v)
        BY <1>1, <1>2, <1>3, <1>5, <3>5, UrlsOfPatch
      <4>2. Cardinality(Due(v)) = 0 /\ Cardinality(Due(v))' = 0
        BY <1>4, <2>6, <2>7, <3>5 DEF DueCounted
      <4> QED
        BY <3>1, <3>2, <4>1, <4>2
    <3> QED
      BY <3>4, <3>5
  <2>9. SuccessOnce'
    BY <2>8 DEF SuccessOnce, Urls, Due, Succeeding, Told
  <2> QED
    BY <2>4, <2>9 DEF Inv, AboutInv
<1>6. CASE /\ videos' = videos
           /\ dm' = [dm EXCEPT !["youtube"] = [At("read") EXCEPT !.up = videos[i].up]]
  <2> DEFINE w == [At("read") EXCEPT !.up = u]
  <2>1. w \in Work /\ w.pc = "read" /\ w.up = u /\ w.out = "FAILED"
    BY DEF At, Work, Names, Outcomes
  <2>2. dm' = [dm EXCEPT !["youtube"] = w]
    BY <1>3, <1>6
  <2> HIDE DEF w
  <2>3. (\A v : RowsOf(v)' = RowsOf(v)) /\ (\A v, n : Shown(v, n)' <=> Shown(v, n))
    BY <1>6 DEF RowsOf, Shown
  <2>4. videos' \in Seq(Video) /\ Len(videos') = Len(videos)
    BY <1>1, <1>6
  <2>5. /\ AboutTypeOK' /\ FormInv' /\ CourseFound' /\ Working' /\ Reporting' /\ Moving'
        /\ FailedFirst' /\ OneVideo'
    BY <1>2, <2>1, <2>2, <2>3, <2>4, YoutubeTakes
  <2>6. dm'["youtube"] = w
    BY <1>1, <2>1, <2>2, DaemonGoes, TwoDaemons
  <2>7. \A v \in Uploads : Succeeding("youtube", v)' <=> Succeeding("youtube", v)
    BY <1>4, <2>1, <2>6 DEF Succeeding
  <2>8. SuccessOnce'
    BY <1>1, <1>2, <1>6, <2>5, <2>7, CountsKept
  <2> QED
    BY <2>5, <2>8 DEF Inv, AboutInv
<1> QED
  BY <1>5, <1>6 DEF UrlPatch

LEMMA ReportReadsStep ==
  ASSUME Inv, NEW d \in Daemons, ReportReads(d)
  PROVE  Inv'
<1>1. /\ AboutTypeOK /\ FormInv /\ CourseFound /\ Working /\ Reporting /\ Moving
      /\ FailedFirst /\ OneVideo /\ SuccessOnce /\ dm \in [Daemons -> Work]
  BY InvParts DEF AboutTypeOK
<1>2. PICK u \in Uploads : u = dm[d].up
  BY <1>1 DEF ReportReads, Working
<1>3. /\ dm[d].pc = "read" /\ dm[d].out = "FAILED"
      /\ UNCHANGED <<formVars, records, sends, folders, videos, reports, mails, stops,
                     again, unsaid, raced>>
  BY <1>1, TwoDaemons DEF ReportReads, Working
<1>4. PICK pc \in {"update", "copy", "idle"} :
        /\ dm' \in [Daemons -> Work] /\ dm'[d].pc = pc /\ dm'[d].out = "FAILED"
        /\ pc # "idle" => dm'[d].up = u /\ dm'[d].file = dm[d].file
        /\ \A e \in Daemons : e # d => dm'[e] = dm[e]
        /\ pc = "update" => ~records[u].final
        /\ pc # "update" => pc = Done(d) /\ records[u].final
  <2>1. CASE records[u].final
    <3>1. Goto(d, Done(d)) /\ Done(d) \in Pcs /\ Done(d) \in {"copy", "idle"}
      BY <1>2, <2>1 DEF ReportReads, Done, Pcs
    <3>2. /\ dm' \in [Daemons -> Work] /\ dm'[d].pc = Done(d) /\ dm'[d].out = "FAILED"
          /\ Done(d) # "idle" => dm'[d].up = u /\ dm'[d].file = dm[d].file
          /\ \A e \in Daemons : e # d => dm'[e] = dm[e]
      BY <1>1, <1>2, <1>3, <3>1, GotoDoes
    <3> QED
      BY <2>1, <3>1, <3>2
  <2>2. CASE ~records[u].final
    <3> DEFINE w == [dm[d] EXCEPT !.pc = "update", !.name = records[u].name]
    <3>1. w \in Work /\ w.pc = "update" /\ w.up = u /\ w.out = "FAILED" /\ w.file = dm[d].file
      <4>1. records[u].name \in Names
        BY <1>1 DEF AboutTypeOK, Record
      <4> QED
        BY <1>1, <1>2, <1>3, <4>1 DEF Work
    <3>2. dm' = [dm EXCEPT ![d] = w]
      BY <1>2, <2>2 DEF ReportReads, ReportOn
    <3> HIDE DEF w
    <3>3. /\ dm' \in [Daemons -> Work] /\ dm'[d] = w
          /\ \A e \in Daemons : e # d => dm'[e] = dm[e]
      BY <1>1, <3>1, <3>2, DaemonGoes
    <3> QED
      BY <2>2, <3>1, <3>3
  <2> QED
    BY <2>1, <2>2
<1>5. AboutTypeOK'
  BY <1>1, <1>3, <1>4 DEF AboutTypeOK
<1>6. FormInv' /\ CourseFound' /\ FailedFirst' /\ OneVideo'
  BY <1>1, <1>3 DEF formVars, FormInv, FormTypeOK, Saving, Taken, CodesDistinct, CourseFound,
                    FailedFirst, OneVideo, RowsOf
<1>7. Working'
  BY <1>1, <1>2, <1>3, <1>4, TwoDaemons DEF Working, Done
<1>8. Reporting'
  <2>1. \A e \in Daemons : e # d => dm'[e] = dm[e]
    BY <1>4
  <2>2. \A v \in Uploads : records'[v].complete \/ mails'[v] # <<>> => records'[v].final
    BY <1>1, <1>3 DEF Reporting
  <2>3. \A e \in Daemons : dm'[e].pc = "mail" => records'[dm'[e].up].final
    <3>1. ASSUME NEW e \in Daemons, dm'[e].pc = "mail" PROVE records'[dm'[e].up].final
      <4>1. e # d /\ dm'[e] = dm[e] /\ records' = records
        BY <1>3, <1>4, <3>1
      <4> QED
        BY <1>1, <3>1, <4>1 DEF Reporting
    <3> QED
      BY <3>1
  <2>4. ASSUME NEW e \in Daemons, NEW v \in Uploads, Failing(e, v)', records'[v].complete
        PROVE  v \in raced'
    <3>1. CASE e = d
      <4>1. dm'[d].pc = "update" /\ dm'[d].up = v
        BY <2>4, <3>1 DEF Failing
      <4>2. v = u /\ ~records[u].final /\ records[u].complete
        BY <1>3, <1>4, <2>4, <4>1
      <4> QED
        BY <1>1, <4>2 DEF Reporting
    <3>2. CASE e # d
      <4>1. Failing(e, v) /\ records[v].complete
        BY <1>3, <2>1, <2>4, <3>2 DEF Failing
      <4> QED
        BY <1>1, <1>3, <4>1 DEF Reporting
    <3> QED
      BY <3>1, <3>2
  <2>5. ASSUME dm'["youtube"].pc \in {"update", "mail"}, dm'["youtube"].out = "FAILED"
        PROVE  mails'[dm'["youtube"].up] = <<>>
    <3>1. CASE d = "youtube"
      <4>1. dm'[d].up = u /\ ~records[u].final
        BY <1>4, <2>5, <3>1
      <4>2. mails[u] = <<>>
        BY <1>1, <4>1 DEF Reporting
      <4> QED
        BY <1>3, <3>1, <4>1, <4>2
    <3>2. CASE d # "youtube"
      <4>1. dm'["youtube"] = dm["youtube"]
        BY <2>1, <3>2, TwoDaemons
      <4> QED
        BY <1>1, <1>3, <2>5, <4>1 DEF Reporting
    <3> QED
      BY <3>1, <3>2
  <2> QED
    BY <2>2, <2>3, <2>4, <2>5 DEF Reporting, Failing
<1>9. (\A v : RowsOf(v)' = RowsOf(v)) /\ (\A v, n : Shown(v, n)' <=> Shown(v, n))
  BY <1>3 DEF RowsOf, Shown
<1>10. Moving'
  <2>1. CASE d = "ingest"
    <3>1. PICK n : n = dm["ingest"].file
      OBVIOUS
    <3>2. folders[u].upload # 0 /\ n \in 1..sends[u]
      BY <1>1, <1>2, <1>3, <2>1, <3>1 DEF Moving
    <3>3. /\ dm'["ingest"].pc \in {"update", "copy"} /\ dm'["ingest"].up = u
          /\ dm'["ingest"].file = n
      BY <1>4, <2>1, <3>1 DEF Done
    <3>4. dm'["ingest"].pc = "copy" => records'[u].final
      BY <1>3, <1>4, <2>1
    <3> QED
      BY <1>1, <1>2, <1>3, <1>9, <2>1, <3>1, <3>2, <3>3, <3>4, MovingHeld
  <2>2. CASE d # "ingest"
    <3>1. dm'["ingest"] = dm["ingest"]
      BY <1>4, <2>2, TwoDaemons
    <3> QED
      BY <1>1, <1>3, <1>9, <3>1, MovingKept
  <2> QED
    BY <2>1, <2>2
<1>11. SuccessOnce'
  <2>1. \A v \in Uploads : Succeeding("youtube", v)' <=> Succeeding("youtube", v)
    BY <1>3, <1>4, TwoDaemons DEF Succeeding
  <2> QED
    BY <1>1, <1>3, <1>7, <2>1, CountsKept
<1> QED
  BY <1>5, <1>6, <1>7, <1>8, <1>10, <1>11 DEF Inv, AboutInv

LEMMA ReportUpdatesStep ==
  ASSUME Inv, NEW d \in Daemons, ReportUpdates(d)
  PROVE  Inv'
<1>1. /\ AboutTypeOK /\ FormInv /\ CourseFound /\ Working /\ Reporting /\ Moving
      /\ FailedFirst /\ OneVideo /\ SuccessOnce /\ dm \in [Daemons -> Work]
  BY InvParts DEF AboutTypeOK
<1>2. PICK u \in Uploads : u = dm[d].up
  BY <1>1 DEF ReportUpdates, Working
<1>3. /\ dm[d].pc = "update" /\ Goto(d, "mail")
      /\ raced' = IF dm[d].out = "SUCCESS" /\ (\E e \in Daemons \ {d} : Failing(e, u))
                  THEN raced \cup {u} ELSE raced
      /\ UNCHANGED <<formVars, sends, folders, videos, reports, mails, stops, again, unsaid>>
  BY <1>2 DEF ReportUpdates
<1>4. /\ records' \in [Uploads -> Record] /\ records'[u].final
      /\ records'[u].complete => dm[d].out = "SUCCESS"
      /\ \A v \in Uploads : v # u => records'[v] = records[v]
  <2>1. PICK good \in BOOLEAN : good = (dm[d].out = "SUCCESS")
    OBVIOUS
  <2> DEFINE r == [records[u] EXCEPT !.complete = good, !.final = TRUE]
  <2>2. records \in [Uploads -> Record]
    BY <1>1 DEF AboutTypeOK
  <2>3. r \in Record /\ r.final = TRUE /\ r.complete = good
    BY <2>2 DEF Record
  <2>4. records' = [records EXCEPT ![u] = r]
    BY <1>2, <2>1 DEF ReportUpdates
  <2> HIDE DEF r
  <2> QED
    BY <2>1, <2>2, <2>3, <2>4
<1>5. /\ dm' \in [Daemons -> Work] /\ dm'[d].pc = "mail"
      /\ dm'[d].up = u /\ dm'[d].out = dm[d].out /\ dm'[d].file = dm[d].file
      /\ \A e \in Daemons : e # d => dm'[e] = dm[e]
  BY <1>1, <1>2, <1>3, GotoDoes DEF Pcs
<1>6. raced \subseteq raced' /\ raced' \subseteq Uploads
  BY <1>1, <1>3 DEF AboutTypeOK
<1>7. AboutTypeOK'
  BY <1>1, <1>3, <1>4, <1>5, <1>6 DEF AboutTypeOK
<1>8. FormInv' /\ CourseFound' /\ FailedFirst' /\ OneVideo'
  BY <1>1, <1>3, <1>6 DEF formVars, FormInv, FormTypeOK, Saving, Taken, CodesDistinct,
                          CourseFound, FailedFirst, OneVideo, RowsOf
<1>9. Working'
  BY <1>1, <1>3, <1>5, TwoDaemons DEF Working
<1>10. \A v \in Uploads : records[v].final => records'[v].final
  BY <1>4
<1>11. Reporting'
  <2>1. ASSUME NEW v \in Uploads, records'[v].complete \/ mails'[v] # <<>>
        PROVE  records'[v].final
    <3>1. CASE v = u
      BY <1>4, <3>1
    <3>2. CASE v # u
      BY <1>1, <1>3, <1>4, <2>1, <3>2 DEF Reporting
    <3> QED
      BY <3>1, <3>2
  <2>2. ASSUME NEW e \in Daemons, dm'[e].pc = "mail" PROVE records'[dm'[e].up].final
    <3>1. CASE e = d
      BY <1>4, <1>5, <3>1
    <3>2. CASE e # d
      <4>1. dm[e].pc = "mail" /\ dm'[e].up = dm[e].up
        BY <1>5, <2>2, <3>2
      <4>2. dm[e].up \in Uploads /\ records[dm[e].up].final
        BY <1>1, <4>1 DEF Reporting, Working
      <4> QED
        BY <1>10, <4>1, <4>2
    <3> QED
      BY <3>1, <3>2
  <2>3. ASSUME NEW e \in Daemons, NEW v \in Uploads, Failing(e, v)', records'[v].complete
        PROVE  v \in raced'
    <3>1. e # d /\ dm'[e] = dm[e]
      BY <1>5, <2>3 DEF Failing
    <3>2. Failing(e, v)
      BY <2>3, <3>1 DEF Failing
    <3>3. CASE v = u
      BY <1>3, <1>4, <2>3, <3>1, <3>2, <3>3
    <3>4. CASE v # u
      BY <1>1, <1>4, <1>6, <2>3, <3>2, <3>4 DEF Reporting
    <3> QED
      BY <3>3, <3>4
  <2>4. ASSUME dm'["youtube"].pc \in {"update", "mail"}, dm'["youtube"].out = "FAILED"
        PROVE  mails'[dm'["youtube"].up] = <<>>
    <3>1. /\ dm["youtube"].pc \in {"update", "mail"} /\ dm["youtube"].out = "FAILED"
          /\ dm'["youtube"].up = dm["youtube"].up
      BY <1>2, <1>3, <1>5, <2>4, TwoDaemons
    <3>2. mails[dm["youtube"].up] = <<>>
      BY <1>1, <3>1 DEF Reporting
    <3> QED
      BY <1>3, <3>1, <3>2
  <2> QED
    BY <2>1, <2>2, <2>3, <2>4 DEF Reporting, Failing
<1>12. (\A v : RowsOf(v)' = RowsOf(v)) /\ (\A v, n : Shown(v, n)' <=> Shown(v, n))
  BY <1>3 DEF RowsOf, Shown
<1>13. Moving'
  <2>1. CASE d = "ingest"
    <3>1. PICK n : n = dm["ingest"].file
      OBVIOUS
    <3>2. folders[u].upload # 0 /\ n \in 1..sends[u]
      BY <1>1, <1>2, <1>3, <2>1, <3>1 DEF Moving
    <3> QED
      BY <1>1, <1>2, <1>3, <1>5, <1>12, <2>1, <3>1, <3>2, MovingHeld
  <2>2. CASE d # "ingest"
    <3>1. dm'["ingest"] = dm["ingest"]
      BY <1>5, <2>2, TwoDaemons
    <3> QED
      BY <1>1, <1>3, <1>10, <1>12, <3>1, MovingKept
  <2> QED
    BY <2>1, <2>2
<1>14. SuccessOnce'
  <2>1. \A v \in Uploads : Succeeding("youtube", v)' <=> Succeeding("youtube", v)
    BY <1>2, <1>3, <1>5, TwoDaemons DEF Succeeding
  <2> QED
    BY <1>1, <1>3, <1>9, <2>1, CountsKept
<1> QED
  BY <1>7, <1>8, <1>9, <1>11, <1>13, <1>14 DEF Inv, AboutInv

(* The mails of success among those of an upload.                            *)
Successes(m) == Cardinality({k \in DOMAIN m : m[k] = "SUCCESS"})

LEMMA MailCounted ==
  ASSUME NEW m \in Seq(Outcomes), NEW o \in Outcomes, NEW p, p = Append(m, o)
  PROVE  Successes(p) = Successes(m) + (IF o = "SUCCESS" THEN 1 ELSE 0)
<1> DEFINE n == Len(m)
           S == {k \in DOMAIN m : m[k] = "SUCCESS"}
           T == {k \in DOMAIN p : p[k] = "SUCCESS"}
<1>1. /\ n \in Nat /\ DOMAIN m = 1..n /\ DOMAIN p = 1..(n + 1)
      /\ \A i \in 1..n : p[i] = m[i]
      /\ p[n + 1] = o
  BY Appended
<1>2. /\ n + 1 \in 1..(n + 1)
      /\ \A i \in 1..(n + 1) : i \in 1..n \/ i = n + 1
      /\ \A i \in 1..n : i \in 1..(n + 1) /\ i # n + 1
  BY <1>1, LastIndex
<1>3. IsFiniteSet(S) /\ Cardinality(S) \in Nat
  BY ToldNumber
<1> HIDE DEF n
<1>4. o = "SUCCESS" => T = S \cup {n + 1} /\ n + 1 \notin S
  BY <1>1, <1>2
<1>5. o # "SUCCESS" => T = S
  BY <1>1, <1>2
<1> HIDE DEF S, T
<1>6. Cardinality(T) = Cardinality(S) + (IF o = "SUCCESS" THEN 1 ELSE 0)
  <2>1. CASE o = "SUCCESS"
    BY <1>3, <1>4, <2>1, FS_AddElement
  <2>2. CASE o # "SUCCESS"
    BY <1>3, <1>5, <2>2
  <2> QED
    BY <2>1, <2>2
<1> QED
  BY <1>6 DEF S, T, Successes

LEMMA ReportMailsStep ==
  ASSUME Inv, ReportMails
  PROVE  Inv'
<1>1. /\ AboutTypeOK /\ FormInv /\ CourseFound /\ Working /\ Reporting /\ Moving
      /\ FailedFirst /\ OneVideo /\ SuccessOnce /\ dm \in [Daemons -> Work]
  BY InvParts DEF AboutTypeOK
<1>2. PICK u \in Uploads, o \in Outcomes : u = dm["youtube"].up /\ o = dm["youtube"].out
  BY <1>1, TwoDaemons DEF ReportMails, Working, Work
<1>3. /\ dm["youtube"].pc = "mail" /\ Goto("youtube", "idle")
      /\ mails' = [mails EXCEPT ![u] = Append(@, o)]
      /\ UNCHANGED <<formVars, records, sends, folders, videos, reports, stops, again,
                     unsaid, raced>>
  BY <1>2 DEF ReportMails
<1>4. /\ dm' \in [Daemons -> Work] /\ dm'["youtube"].pc = "idle"
      /\ dm'["youtube"].out = "FAILED" /\ dm'["ingest"] = dm["ingest"]
  BY <1>1, <1>3, GotoDoes, TwoDaemons DEF Pcs
<1>5. mails[u] \in Seq(Outcomes)
  BY <1>1 DEF AboutTypeOK
<1> DEFINE m == mails[u]
           p == Append(m, o)
<1>6. /\ p \in Seq(Outcomes) /\ Len(m) \in Nat
      /\ DOMAIN m = 1..Len(m) /\ DOMAIN p = 1..(Len(m) + 1)
      /\ \A i \in 1..Len(m) : p[i] = m[i]
      /\ p[Len(m) + 1] = o
  BY <1>5, Appended
<1>7. mails' = [mails EXCEPT ![u] = p]
  BY <1>3
<1> HIDE DEF p
<1>8. /\ mails' \in [Uploads -> Seq(Outcomes)] /\ mails'[u] = p
      /\ \A v \in Uploads : v # u => mails'[v] = mails[v]
  <2>1. mails \in [Uploads -> Seq(Outcomes)] /\ p \in Seq(Outcomes)
    BY <1>1, <1>6 DEF AboutTypeOK
  <2> HIDE DEF m
  <2> QED
    BY <1>7, <2>1
<1>9. /\ Cardinality(Told(u))' = Cardinality(Told(u)) + (IF o = "SUCCESS" THEN 1 ELSE 0)
      /\ \A v \in Uploads : v # u => Cardinality(Told(v))' = Cardinality(Told(v))
  <2>1. Successes(p) = Successes(m) + (IF o = "SUCCESS" THEN 1 ELSE 0)
    <3>1. p = Append(m, o) /\ m \in Seq(Outcomes) /\ o \in Outcomes
      BY <1>2, <1>5 DEF p
    <3> HIDE DEF m, p
    <3> QED
      BY ONLY <3>1, MailCounted
  <2>2. Cardinality(Told(u))' = Successes(p)
    <3>1. Cardinality(Told(u))'
            = Cardinality({k \in DOMAIN mails'[u] : mails'[u][k] = "SUCCESS"})
      BY DEF Told
    <3> QED
      BY <1>8, <3>1 DEF Successes
  <2>3. Cardinality(Told(u)) = Successes(m)
    BY DEF Told, Successes
  <2>4. \A v \in Uploads : v # u => Cardinality(Told(v))' = Cardinality(Told(v))
    BY <1>8 DEF Told
  <2> QED
    BY <2>1, <2>2, <2>3, <2>4
<1>10. AboutTypeOK'
  BY <1>1, <1>3, <1>4, <1>8 DEF AboutTypeOK
<1>11. FormInv' /\ CourseFound' /\ OneVideo'
  BY <1>1, <1>3 DEF formVars, FormInv, FormTypeOK, Saving, Taken, CodesDistinct, CourseFound,
                    OneVideo, RowsOf
<1>12. Working'
  BY <1>1, <1>4, TwoDaemons DEF Working
<1>13. o = "FAILED" => m = <<>>
  BY <1>1, <1>2, <1>3 DEF Reporting
<1>14. records[u].final
  BY <1>1, <1>2, <1>3, TwoDaemons DEF Reporting
<1>15. Reporting'
  <2>1. ASSUME NEW v \in Uploads, records'[v].complete \/ mails'[v] # <<>>
        PROVE  records'[v].final
    <3>1. CASE v = u
      BY <1>3, <1>14, <3>1
    <3>2. CASE v # u
      BY <1>1, <1>3, <1>8, <2>1, <3>2 DEF Reporting
    <3> QED
      BY <3>1, <3>2
  <2>2. \A e \in Daemons : dm'[e].pc \in {"update", "mail"} => e = "ingest"
    BY <1>4, TwoDaemons
  <2>3. \A e \in Daemons : dm'[e].pc = "mail" => records'[dm'[e].up].final
    BY <1>1, <1>3, <1>4, <2>2 DEF Reporting
  <2>4. ASSUME NEW e \in Daemons, NEW v \in Uploads, Failing(e, v)', records'[v].complete
        PROVE  v \in raced'
    <3>1. Failing(e, v) /\ records[v].complete
      BY <1>3, <1>4, <2>2, <2>4 DEF Failing
    <3> QED
      BY <1>1, <1>3, <3>1 DEF Reporting
  <2>5. dm'["youtube"].pc \notin {"update", "mail"}
    BY <1>4
  <2> QED
    BY <2>1, <2>3, <2>4, <2>5 DEF Reporting, Failing
<1>16. (\A v : RowsOf(v)' = RowsOf(v)) /\ (\A v, n : Shown(v, n)' <=> Shown(v, n))
  BY <1>3 DEF RowsOf, Shown
<1>17. Moving'
  BY <1>1, <1>3, <1>4, <1>16, MovingKept
<1>18. FailedFirst'
  <2>1. ASSUME NEW v \in Uploads, NEW k \in DOMAIN mails'[v], mails'[v][k] = "FAILED"
        PROVE  k = 1
    <3>1. CASE v # u
      BY <1>1, <1>8, <2>1, <3>1 DEF FailedFirst
    <3>2. CASE v = u
      <4>1. k \in 1..(Len(m) + 1) /\ p[k] = "FAILED"
        BY <1>6, <1>8, <2>1, <3>2
      <4>2. CASE k \in 1..Len(m)
        BY <1>1, <1>6, <2>1, <3>2, <4>1, <4>2 DEF FailedFirst
      <4>3. CASE k = Len(m) + 1
        <5>1. o = "FAILED"
          BY <1>6, <4>1, <4>3
        <5>2. Len(m) = 0
          BY <1>13, <5>1
        <5> QED
          BY <4>3, <5>2
      <4> QED
        BY <1>6, <4>1, <4>2, <4>3, LastIndex
    <3> QED
      BY <3>1, <3>2
  <2> QED
    BY <2>1 DEF FailedFirst
<1>19. SuccessOnce'
  <2>1. DueCounted /\ DueCounted'
    BY <1>1, <1>12, DueNumber, PTL
  <2>2. ASSUME NEW v \in Uploads
        PROVE  Cardinality(Urls(v))' = Cardinality(Told(v))' + unsaid'[v]
                                         + Cardinality(Due(v))'
    <3>1. Cardinality(Urls(v)) = Cardinality(Told(v)) + unsaid[v]
                                   + Cardinality(Due(v))
      BY <1>1, Counts
    <3>2. Urls(v)' = Urls(v) /\ unsaid' = unsaid
      BY <1>3 DEF Urls, RowsOf
    <3>3. Cardinality(Told(v)) \in Nat /\ unsaid[v] \in Nat
      <4>1. mails[v] \in Seq(Outcomes) /\ unsaid[v] \in Nat
        BY <1>1 DEF AboutTypeOK
      <4> QED
        BY <4>1, ToldNumber DEF Told
    <3>4. CASE v = u /\ o = "SUCCESS"
      <4>2. Succeeding("youtube", v) /\ ~Succeeding("youtube", v)'
        BY <1>2, <1>3, <1>4, <3>4 DEF Succeeding
      <4>3. Cardinality(Due(v)) = 1 /\ Cardinality(Due(v))' = 0
        BY <2>1, <4>2 DEF DueCounted
      <4>4. Cardinality(Told(v))' = Cardinality(Told(v)) + 1
        BY <1>9, <3>4
      <4> QED
        BY <3>1, <3>2, <3>3, <4>3, <4>4
    <3>5. CASE ~(v = u /\ o = "SUCCESS")
      <4>1. Succeeding("youtube", v)' <=> Succeeding("youtube", v)
        BY <1>2, <1>4, <3>5 DEF Succeeding
      <4>2. Cardinality(Due(v))' = Cardinality(Due(v))
        BY <2>1, <4>1 DEF DueCounted
      <4>3. Cardinality(Told(v))' = Cardinality(Told(v))
        <5>1. CASE v = u
          BY <1>9, <3>3, <3>5, <5>1
        <5>2. CASE v # u
          BY <1>9, <5>2
        <5> QED
          BY <5>1, <5>2
      <4> QED
        BY <3>1, <3>2, <4>2, <4>3
    <3> QED
      BY <3>4, <3>5
  <2> QED
    BY <2>2 DEF SuccessOnce, Urls, Due, Succeeding, Told
<1> QED
  BY <1>10, <1>11, <1>12, <1>15, <1>17, <1>18, <1>19 DEF Inv, AboutInv

(* Of the ingest daemon: no mail, with or without a stop.                    *)
LEMMA EmailAlertFailsStep ==
  ASSUME Inv, EmailAlertFails
  PROVE  Inv'
BY StopKeeps, TwoDaemons DEF EmailAlertFails

LEMMA EmailAlertPassesStep ==
  ASSUME Inv, EmailAlertPasses
  PROVE  Inv'
<1>1. /\ AboutTypeOK /\ FormInv /\ CourseFound /\ Working /\ Reporting /\ Moving
      /\ FailedFirst /\ OneVideo /\ SuccessOnce
  BY InvParts
<1>2. PICK u \in Uploads : u = dm["ingest"].up
  <2>1. dm["ingest"].pc = "mail"
    BY DEF EmailAlertPasses
  <2> QED
    BY <1>1, <2>1, TwoDaemons DEF Working
<1>3. PICK n : n = dm["ingest"].file
  OBVIOUS
<1>4. /\ dm["ingest"].pc = "mail" /\ Goto("ingest", "copy")
      /\ folders[u].upload # 0 /\ n \in 1..sends[u] /\ records[u].final
      /\ UNCHANGED <<formVars, records, sends, folders, videos, reports, mails, stops, again,
                     unsaid, raced>>
  BY <1>1, <1>2, <1>3, TwoDaemons DEF EmailAlertPasses, Moving, Reporting
<1>5. /\ dm' \in [Daemons -> Work] /\ dm'["ingest"].pc = "copy"
      /\ dm'["ingest"].up = u /\ dm'["ingest"].out = dm["ingest"].out
      /\ dm'["ingest"].file = n
      /\ \A e \in Daemons : e # "ingest" => dm'[e] = dm[e]
  BY <1>1, <1>2, <1>3, <1>4, GotoDoes, TwoDaemons DEF AboutTypeOK, Pcs
<1>6. AboutTypeOK'
  BY <1>1, <1>4, <1>5 DEF AboutTypeOK
<1>7. FormInv' /\ CourseFound' /\ FailedFirst' /\ OneVideo'
  BY <1>1, <1>4 DEF formVars, FormInv, FormTypeOK, Saving, Taken, CodesDistinct, CourseFound,
                    FailedFirst, OneVideo, RowsOf
<1>8. Working'
  BY <1>1, <1>2, <1>5, TwoDaemons DEF Working
<1>9. Reporting'
  <2>1. \A e \in Daemons : dm'[e].pc \in {"update", "mail"} => dm'[e] = dm[e]
    BY <1>5
  <2> QED
    BY <1>1, <1>4, <2>1, ReportingKept
<1>10. Moving'
  <2>1. \A v : RowsOf(v)' = RowsOf(v)
    BY <1>4 DEF RowsOf
  <2> QED
    BY <1>1, <1>2, <1>3, <1>4, <1>5, <2>1, MovingHeld
<1>11. SuccessOnce'
  <2>1. \A v \in Uploads : Succeeding("youtube", v)' <=> Succeeding("youtube", v)
    BY <1>5, TwoDaemons DEF Succeeding
  <2> QED
    BY <1>1, <1>4, <1>8, <2>1, CountsKept
<1> QED
  BY <1>6, <1>7, <1>8, <1>9, <1>10, <1>11 DEF Inv, AboutInv

LEMMA DieStep ==
  ASSUME Inv, NEW d \in Daemons, Die(d)
  PROVE  Inv'
BY StopKeeps DEF Die

LEMMA FormStepKeeps ==
  ASSUME Inv, NEW f \in Forms, FormNext(f), UNCHANGED aboutVars
  PROVE  Inv'
<1>1. /\ AboutTypeOK /\ FormInv /\ CourseFound /\ Working /\ Reporting /\ Moving
      /\ FailedFirst /\ OneVideo /\ SuccessOnce
  BY InvParts
<1>2. FormInv' /\ overlapped \subseteq overlapped'
  BY <1>1, FormStep
<1>3. UNCHANGED <<records, sends, folders, videos, reports, mails, dm, stops, again, unsaid,
                  raced>>
  BY DEF aboutVars
<1>4. AboutTypeOK' /\ CourseFound' /\ Working'
  BY <1>1, <1>2, <1>3 DEF AboutTypeOK, CourseFound, Working
<1>5. (\A v : RowsOf(v)' = RowsOf(v)) /\ (\A v, n : Shown(v, n)' <=> Shown(v, n))
  BY <1>3 DEF RowsOf, Shown
<1>6. Reporting' /\ Moving'
  BY <1>1, <1>3, <1>5, ReportingKept, MovingKept
<1>7. FailedFirst' /\ OneVideo' /\ SuccessOnce'
  BY <1>1, <1>3 DEF FailedFirst, OneVideo, SuccessOnce, RowsOf, Told, Succeeding
<1> QED
  BY <1>2, <1>4, <1>6, <1>7 DEF Inv, AboutInv

-----------------------------------------------------------------------------
LEMMA InitHolds ==
  ASSUME Init
  PROVE  Inv
<1>1. /\ FormInit /\ courses \in {<<>>, <<AboutCode>>}
      /\ records = [u \in Uploads |-> [there |-> FALSE, name |-> "null",
                                       complete |-> FALSE, final |-> FALSE]]
      /\ sends = [u \in Uploads |-> 0]
      /\ folders = [u \in Uploads |-> [upload |-> 0, process |-> 0]]
      /\ videos = <<>> /\ reports = {}
      /\ mails = [u \in Uploads |-> <<>>] /\ dm = [d \in Daemons |-> At("idle")]
      /\ stops = <<>> /\ again = [u \in Uploads |-> 0]
      /\ unsaid = [u \in Uploads |-> 0] /\ raced = {}
  BY DEF Init
<1>2. FormInv
  <2>1. /\ forms = [f \in Forms |-> Idle] /\ sent = 0 /\ overlapped = {}
    BY <1>1 DEF FormInit
  <2>2. Idle \in Form /\ Idle.pc = "idle"
    BY DEF Idle, Form
  <2>3. courses \in Seq(Codes)
    <3>1. AboutCode \in Codes
      OBVIOUS
    <3>2. <<>> \in Seq(Codes) /\ <<AboutCode>> \in Seq(Codes)
      BY <3>1
    <3> QED
      BY <1>1, <3>2
  <2>4. FormTypeOK
    BY <2>1, <2>2, <2>3 DEF FormTypeOK
  <2>5. Saving
    BY <2>1, <2>2 DEF Saving
  <2>6. Len(<<>>) = 0 /\ Len(<<AboutCode>>) = 1
    OBVIOUS
  <2>7. Len(courses) = 0 \/ Len(courses) = 1
    BY <1>1, <2>6
  <2>8. CodesDistinct
    <3>1. ASSUME NEW n \in {0, 1}, NEW i \in 1..n, NEW j \in 1..n PROVE i = j
      OBVIOUS
    <3>2. \A i, j \in 1..Len(courses) : i = j
      BY <2>7, <3>1
    <3> QED
      BY <3>2 DEF CodesDistinct
  <2> QED
    BY <2>4, <2>5, <2>8 DEF FormInv
<1>3. At("idle") \in Work /\ At("idle").pc = "idle" /\ At("idle").out = "FAILED"
  BY AtIsWork DEF Pcs
<1>4. dm \in [Daemons -> Work] /\ \A d \in Daemons : dm[d] = At("idle")
  BY <1>1, <1>3
<1>5. AboutTypeOK
  <2>1. records \in [Uploads -> Record]
    BY <1>1 DEF Record, Names
  <2>2. /\ mails \in [Uploads -> Seq(Outcomes)] /\ videos \in Seq(Video)
        /\ stops \in Seq(Reasons)
    BY <1>1
  <2>3. again \in [Uploads -> Nat] /\ unsaid \in [Uploads -> Nat]
    BY <1>1
  <2>4. folders \in [Uploads -> Folders]
    BY <1>1 DEF Folders
  <2>5. sends \in [Uploads -> 0..MaxSends]
    BY <1>1
  <2> QED
    BY <1>1, <1>4, <2>1, <2>2, <2>3, <2>4, <2>5 DEF AboutTypeOK, Reasons
<1>6. \A u : RowsOf(u) = {}
  BY <1>1 DEF RowsOf
<1>7. Working /\ Reporting
  BY <1>1, <1>3, <1>4, TwoDaemons DEF Working, Reporting, Failing
<1>8. Moving
  BY <1>1, <1>3, <1>4, TwoDaemons DEF Moving
<1>9. CourseFound /\ FailedFirst
  BY <1>1 DEF CourseFound, FailedFirst
<1>10. OneVideo
  <2>1. ASSUME NEW u \in Uploads PROVE Cardinality(RowsOf(u)) <= sends[u] + again[u]
    <3>1. again[u] = 0 /\ sends[u] = 0 /\ Cardinality(RowsOf(u)) = 0
      BY <1>1, <1>6, FS_EmptySet
    <3> QED
      BY <3>1
  <2> QED
    BY <2>1 DEF OneVideo
<1>11. SuccessOnce
  <2>1. ASSUME NEW u \in Uploads
        PROVE  Cardinality(Urls(u)) = Cardinality(Told(u)) + unsaid[u]
                                        + Cardinality(Due(u))
    <3>1. Urls(u) = {} /\ Due(u) = {}
      BY <1>3, <1>4, <1>6 DEF Urls, Due, Succeeding
    <3>2. {k \in DOMAIN mails[u] : mails[u][k] = "SUCCESS"} = {}
      BY <1>1
    <3>3. Cardinality(Told(u)) = 0
      BY <3>2, FS_EmptySet DEF Told
    <3>4. unsaid[u] = 0
      BY <1>1
    <3> QED
      BY <3>1, <3>3, <3>4, FS_EmptySet
  <2> QED
    BY <2>1, Counts
<1> QED
  BY <1>2, <1>5, <1>7, <1>8, <1>9, <1>10, <1>11 DEF Inv, AboutInv

(* Everything together is inductive: AboutInv, and three of the properties.  *)
THEOREM AboutInvariance == Spec => []Inv
<1>1. Init => Inv
  BY InitHolds
<1>2. Inv /\ [Next]_vars => Inv'
  <2> SUFFICES ASSUME Inv, [Next]_vars PROVE Inv'
    OBVIOUS
  <2>1. CASE UNCHANGED vars
    <3>1. UNCHANGED aboutVars /\ UNCHANGED formVars
      BY <2>1 DEF vars
    <3>2. /\ AboutTypeOK /\ FormInv /\ CourseFound /\ Working /\ Reporting /\ Moving
          /\ FailedFirst /\ OneVideo /\ SuccessOnce
      BY InvParts
    <3>3. AboutTypeOK' /\ CourseFound' /\ Working'
      BY <3>1, <3>2 DEF formVars, aboutVars, AboutTypeOK, CourseFound, Working
    <3>4. FormInv'
      BY <3>1, <3>2 DEF formVars, FormInv, FormTypeOK, Saving, Taken, CodesDistinct
    <3>5. FailedFirst' /\ OneVideo' /\ SuccessOnce'
      BY <3>1, <3>2 DEF aboutVars, FailedFirst, OneVideo, SuccessOnce, RowsOf, Told, Succeeding
    <3>6. UNCHANGED <<records, sends, folders, videos, mails, dm, again, raced>>
      BY <3>1 DEF aboutVars
    <3>7. (\A v : RowsOf(v)' = RowsOf(v)) /\ (\A v, n : Shown(v, n)' <=> Shown(v, n))
      BY <3>6 DEF RowsOf, Shown
    <3>8. Reporting' /\ Moving'
      BY <3>2, <3>6, <3>7, ReportingKept, MovingKept
    <3> QED
      BY <3>3, <3>4, <3>5, <3>8 DEF Inv, AboutInv
  <2>2. ASSUME NEW f \in Forms, FormNext(f), UNCHANGED aboutVars PROVE Inv'
    BY <2>2, FormStepKeeps
  <2>3. ASSUME NEW u \in Uploads,
               CreateRecord(u) \/ ValidateIncoming(u) \/ Upload(u) \/ Discover(u)
        PROVE  Inv'
    BY <2>3, PageStep, UploadStep, DiscoverStep
  <2>4. CASE Insert \/ Copy \/ Delete
    BY <2>4, InsertStep, CopyStep, DeleteStep
  <2>5. ASSUME NEW i \in DOMAIN videos, YoutubeProcesses(i) \/ UrlPatch(i) PROVE Inv'
    BY <2>5, YoutubeProcessesStep, UrlPatchStep
  <2>6. ASSUME NEW d \in Daemons,
               ReportReads(d) \/ ReportUpdates(d) \/ Die(d) \/ Restart(d)
        PROVE  Inv'
    BY <2>6, ReportReadsStep, ReportUpdatesStep, DieStep, RestartStep
  <2>7. CASE ReportMails \/ EmailAlertFails \/ EmailAlertPasses
    BY <2>7, ReportMailsStep, EmailAlertFailsStep, EmailAlertPassesStep
  <2> QED
    BY <2>1, <2>2, <2>3, <2>4, <2>5, <2>6, <2>7 DEF Next
<1> QED
  BY <1>1, <1>2, PTL DEF Spec

(* The types, the form's invariant and what the daemons rest on.             *)
THEOREM AboutCorrect == Spec => []AboutInv
<1>1. Inv => AboutInv
  BY DEF Inv
<1> QED
  BY <1>1, AboutInvariance, PTL

(* A failure is mailed first or not at all, however often files are sent and *)
(* reports read, and wherever the daemons stop: no mail goes out before      *)
(* final_report is set, and none of a failure after it (ReportReads,         *)
(* ReportUpdates, ReportMails).                                              *)
THEOREM FailuresComeFirst == Spec => []FailedFirst
<1>1. Inv => FailedFirst
  BY DEF Inv
<1> QED
  BY <1>1, AboutInvariance, PTL

(* The report of a failure takes back that an about video is complete only   *)
(* where the success came between its look and its update (ReportReads,      *)
(* ReportUpdates).                                                           *)
THEOREM SuccessesStand == Spec => SuccessStands
<1> DEFINE A == \A u \in Uploads : records[u].complete /\ ~records'[u].complete => u \in raced
<1>1. Inv /\ [Next]_vars => [A]_vars
  <2> SUFFICES ASSUME Inv, Next PROVE A
    OBVIOUS
  <2>1. /\ Working /\ Reporting /\ records \in [Uploads -> Record]
        /\ dm \in [Daemons -> Work]
    BY InvParts DEF AboutTypeOK
  <2>2. CASE records' = records
    BY <2>2
  <2>3. ASSUME NEW v \in Uploads, CreateRecord(v) PROVE A
    <3>1. records' = [records EXCEPT ![v].there = TRUE]
      BY <2>3 DEF CreateRecord
    <3> QED
      BY <2>1, <3>1 DEF Record
  <2>4. ASSUME NEW v \in Uploads, ValidateIncoming(v) PROVE A
    <3>1. PICK n \in Names : records' = [records EXCEPT ![v].name = n]
      BY <2>4 DEF ValidateIncoming
    <3> QED
      BY <2>1, <3>1 DEF Record
  <2>5. ASSUME NEW d \in Daemons, ReportUpdates(d) PROVE A
    <3>1. PICK v \in Uploads : v = dm[d].up
      BY <2>1, <2>5 DEF ReportUpdates, Working
    <3>2. PICK good \in BOOLEAN : good = (dm[d].out = "SUCCESS")
      OBVIOUS
    <3>3. /\ dm[d].pc = "update"
          /\ records' = [records EXCEPT ![v] =
               [@ EXCEPT !.complete = good, !.final = TRUE]]
      BY <2>5, <3>1, <3>2 DEF ReportUpdates
    <3>4. /\ \A u \in Uploads : u # v => records'[u] = records[u]
          /\ records'[v].complete = good
      BY <2>1, <3>3 DEF Record
    <3>5. dm[d].out \in Outcomes
      BY <2>1 DEF Work
    <3>6. ASSUME NEW u \in Uploads, records[u].complete, ~records'[u].complete
          PROVE  u \in raced
      <4>1. u = v /\ dm[d].out = "FAILED"
        BY <3>2, <3>4, <3>5, <3>6 DEF Outcomes
      <4>2. Failing(d, u)
        BY <3>1, <3>3, <4>1 DEF Failing
      <4> QED
        BY <2>1, <3>6, <4>2 DEF Reporting
    <3> QED
      BY <3>6
  <2>6. \/ records' = records
        \/ \E v \in Uploads : CreateRecord(v) \/ ValidateIncoming(v)
        \/ \E d \in Daemons : ReportUpdates(d)
    BY DEF Next, aboutVars, Upload, Discover, Insert, Copy, Delete, YoutubeProcesses, UrlPatch,
           ReportReads, ReportMails, EmailAlertFails, EmailAlertPasses, Die, StopAtWork, Restart
  <2> QED
    BY <2>2, <2>3, <2>4, <2>5, <2>6
<1>2. [][A]_vars => SuccessStands
  BY PTL DEF SuccessStands
<1> QED
  BY <1>1, <1>2, AboutInvariance, PTL DEF Spec

(* Each URL row of YouTube is told once, or its mail was lost by a stop      *)
(* (UrlPatch, ReportMails, StopAtWork).                                      *)
THEOREM SuccessesAreTold == Spec => []SuccessOnce
<1>1. Inv => SuccessOnce
  BY DEF Inv
<1> QED
  BY <1>1, AboutInvariance, PTL

(* An upload has at most a Video for each file sent and one for each stop of *)
(* the ingest daemon between a Video and the move of its key (Upload, Insert,*)
(* StopAtWork).                                                              *)
THEOREM SecondVideoNeedsStop == Spec => []OneVideo
<1>1. Inv => OneVideo
  BY DEF Inv
<1> QED
  BY <1>1, AboutInvariance, PTL

(* The file that was downloaded leaves the crawled folder only when it was   *)
(* copied and either a Video was made from it or there is a final report     *)
(* (Copy, Delete).                                                           *)
THEOREM NoUploadLost == Spec => NoneLost
<1> DEFINE A == \A u \in Uploads :
                  LET n == folders[u].upload
                  IN  n # 0 /\ folders'[u].upload = 0 /\ n = dm["ingest"].file =>
                        /\ folders'[u].process = n
                        /\ Shown(u, n) \/ records[u].final
<1>1. Inv /\ [Next]_vars => [A]_vars
  <2> SUFFICES ASSUME Inv, Next, NEW u \in Uploads, NEW n, n = folders[u].upload, n # 0,
                      folders'[u].upload = 0, n = dm["ingest"].file
               PROVE  folders'[u].process = n /\ (Shown(u, n) \/ records[u].final)
    OBVIOUS
  <2>1. /\ Working /\ Moving /\ folders \in [Uploads -> Folders]
        /\ sends \in [Uploads -> 0..MaxSends]
    BY InvParts DEF AboutTypeOK
  <2>2. folders' # folders
    OBVIOUS
  <2>3. ASSUME NEW v \in Uploads, Upload(v) PROVE FALSE
    <3>1. folders' = [folders EXCEPT ![v].upload = sends[v] + 1] /\ sends[v] + 1 # 0
      BY <2>1, <2>3 DEF Upload
    <3>2. folders'[u].upload = folders[u].upload \/ folders'[u].upload = sends[v] + 1
      BY <2>1, <3>1 DEF Folders
    <3> QED
      BY <3>1, <3>2
  <2>4. CASE Copy
    <3>1. folders' = [folders EXCEPT ![dm["ingest"].up].process
                                       = folders[dm["ingest"].up].upload]
      BY <2>4 DEF Copy
    <3>2. folders'[u].upload = folders[u].upload
      BY <2>1, <3>1 DEF Folders
    <3> QED
      BY <3>2
  <2>5. CASE Delete
    <3>1. /\ dm["ingest"].pc = "delete"
          /\ folders' = [folders EXCEPT ![dm["ingest"].up].upload = 0]
      BY <2>5 DEF Delete
    <3>2. dm["ingest"].up = u
      BY <2>1, <3>1
    <3>3. folders'[u].process = folders[u].process
      BY <2>1, <3>1, <3>2 DEF Folders
    <3>4. folders[u].process = n /\ (Shown(u, n) \/ records[u].final)
      BY <2>1, <3>1, <3>2 DEF Moving
    <3> QED
      BY <3>3, <3>4
  <2>6. folders' = folders \/ (\E v \in Uploads : Upload(v)) \/ Copy \/ Delete
    BY DEF Next, aboutVars, CreateRecord, ValidateIncoming, Posted, Discover, Insert,
           YoutubeProcesses, UrlPatch, ReportReads, ReportUpdates, ReportMails,
           EmailAlertFails, EmailAlertPasses, Die, StopAtWork, Restart
  <2> QED
    BY <2>2, <2>3, <2>4, <2>5, <2>6
<1>2. [][A]_vars => NoneLost
  BY PTL DEF NoneLost
<1> QED
  BY <1>1, <1>2, AboutInvariance, PTL DEF Spec
==============================================================================

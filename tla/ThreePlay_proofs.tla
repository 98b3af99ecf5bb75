-------------------------- MODULE ThreePlay_proofs --------------------------
(* That ThreePlayInv is an invariant of ThreePlay, for every set of          *)
(* languages, deliveries, requests and runs of heal.                         *)
EXTENDS ThreePlay, SequenceTheorems, TLAPS

USE ThreePlayAssumption

(* ThreePlayInv by what it speaks of: the variables, a row, a request, a     *)
(* retrieval.                                                                *)
Base ==
  /\ preferred \in SUBSET Languages
  /\ vstatus \in {"PENDING", "IN PROGRESS", "READY"}
  /\ rows \in Seq(Row)
  /\ orders \in [Orders -> OrderStep]
  /\ accepted \subseteq Orders
  /\ translations \in Seq([file : Orders, lang : Languages])
  /\ handlers \in [Handlers -> Request]
  /\ sweeps \in [Sweeps -> Retrieval]
  /\ calls \in 0..MaxCalls
  /\ retrievals \in 0..MaxSweeps
  /\ dropped \subseteq Jobs
  /\ garbled \subseteq Jobs
  /\ overlapped \subseteq Orders
  /\ orphaned \subseteq Translations

Process(j) ==
  /\ rows[j].translation \in {0} \cup Translations
  /\ rows[j].translation # 0 =>
       RowsMade({}) /\ translations[rows[j].translation].file = rows[j].file
  /\ rows[j].status = "READY" => rows[j].onS3 \/ Uploading(j) \/ j \in dropped
  /\ rows[j].status = "PENDING" => rows[j].translation = 0
  /\ orders[rows[j].file] = "done"

Asked(h) ==
  /\ handlers[h].pc # "idle" => handlers[h].row \in Jobs
  /\ handlers[h].ordered \in {0} \cup Translations
  /\ handlers[h].pc = "create" => RowsMade(handlers[h].todo)
  /\ handlers[h].pc \in {"services", "order", "place", "mark"} => RowsMade({})
  /\ handlers[h].pc \in {"fetch", "upload", "garble"} =>
       rows[handlers[h].row].lang = Source
  /\ handlers[h].pc = "announce" => AllCovered \/ OnlyAnError
  /\ handlers[h].pc = "mark" =>
       /\ handlers[h].ordered \in Translations
       /\ translations[handlers[h].ordered].file = rows[handlers[h].row].file
  /\ handlers[h].pc \in {"place", "mark"} =>
       \/ rows[handlers[h].row].translation = 0
       \/ rows[handlers[h].row].file \in overlapped

Asking(s) ==
  /\ sweeps[s].pc # "idle" => sweeps[s].row \in Jobs /\ RowsMade({})
  /\ sweeps[s].todo \subseteq Translations
  /\ sweeps[s].id \in {0} \cup Translations
  /\ sweeps[s].pc = "announce" => AllCovered
  /\ sweeps[s].pc = "fetch" =>
       /\ sweeps[s].id \in Translations
       /\ translations[sweeps[s].id].file = rows[sweeps[s].row].file
       /\ \/ rows[sweeps[s].row].translation = sweeps[s].id
          \/ rows[sweeps[s].row].file \in overlapped

(* Two requests at work on one file count as overlapped.                     *)
Alone ==
  \A g, h \in Handlers :
    /\ g # h
    /\ handlers[g].pc # "idle"
    /\ handlers[h].pc # "idle"
    /\ rows[handlers[g].row].file = rows[handlers[h].row].file
    => rows[handlers[h].row].file \in overlapped

Inv ==
  /\ Base
  /\ \A j \in Jobs : Process(j)
  /\ \A h \in Handlers : Asked(h)
  /\ \A s \in Sweeps : Asking(s)
  /\ Alone
  /\ ReadyHasLanguages
  /\ LastRetrievalAnnounces
  /\ OrdersTracked

-----------------------------------------------------------------------------
LEMMA Ids ==
  ASSUME NEW n \in Nat
  PROVE  0..n = {0} \cup 1..n /\ 0 \notin 1..n
OBVIOUS

LEMMA OneMore ==
  ASSUME NEW n \in Nat
  PROVE  1..(n + 1) = (1..n) \cup {n + 1} /\ n + 1 \in Nat /\ n + 1 \notin 1..n
         /\ n + 1 # 0
OBVIOUS

LEMMA OneCall ==
  ASSUME NEW n \in Nat, NEW c \in 0..n, c < n
  PROVE  c + 1 \in 0..n
OBVIOUS

LEMMA Lengths ==
  ASSUME Base
  PROVE  Len(rows) \in Nat /\ Len(translations) \in Nat
BY LenProperties DEF Base

LEMMA NoZero ==
  ASSUME Base
  PROVE  0 \notin Translations /\ 0 \notin Jobs
BY Lengths, Ids DEF Translations, Jobs

(* The two forms of the invariant.                                           *)
LEMMA Parts == Inv /\ OrderedFirst /\ ShippedFirst <=> ThreePlayInv
<1>1. ASSUME Base PROVE 0..Len(translations) = {0} \cup Translations
  BY <1>1, Lengths, Ids DEF Translations
<1>2. Inv /\ OrderedFirst /\ ShippedFirst => ThreePlayInv
  <2> SUFFICES ASSUME Inv, OrderedFirst, ShippedFirst PROVE ThreePlayInv
    OBVIOUS
  <2>1. Base /\ 0..Len(translations) = {0} \cup Translations
    BY <1>1 DEF Inv
  <2>2. TypeOK
    BY <2>1 DEF Inv, Base, Process, Asked, Asking, TypeOK
  <2>3. CreatedFirst
    BY DEF Inv, Process, Asked, Asking, CreatedFirst
  <2>4. CoveredFirst
    BY DEF Inv, Process, Asked, Asking, CoveredFirst
  <2>5. RowsAfterOrders
    BY DEF Inv, Process, RowsAfterOrders
  <2>6. IdsKept
    BY DEF Inv, Process, Asked, Asking, Alone, IdsKept
  <2> QED
    BY <2>2, <2>3, <2>4, <2>5, <2>6 DEF Inv, ThreePlayInv
<1>3. ThreePlayInv => Inv /\ OrderedFirst /\ ShippedFirst
  <2> SUFFICES ASSUME ThreePlayInv PROVE Inv /\ OrderedFirst /\ ShippedFirst
    OBVIOUS
  <2>1. Base
    BY DEF ThreePlayInv, TypeOK, Base
  <2>2. 0..Len(translations) = {0} \cup Translations
    BY <1>1, <2>1
  <2>3. \A j \in Jobs : Process(j)
    BY <2>2 DEF ThreePlayInv, TypeOK, CreatedFirst, CoveredFirst, RowsAfterOrders,
                IdsKept, Process
  <2>4. \A h \in Handlers : Asked(h)
    BY <2>2 DEF ThreePlayInv, TypeOK, CreatedFirst, CoveredFirst, IdsKept, Asked
  <2>5. \A s \in Sweeps : Asking(s)
    BY <2>2 DEF ThreePlayInv, TypeOK, CreatedFirst, CoveredFirst, IdsKept, Asking
  <2>6. Alone
    BY DEF ThreePlayInv, IdsKept, Alone
  <2> QED
    BY <2>1, <2>3, <2>4, <2>5, <2>6 DEF ThreePlayInv, Inv
<1> QED
  BY <1>2, <1>3

-----------------------------------------------------------------------------
(* What no step does: undo a row, a translation, an order or what counts as  *)
(* lost, and leave a READY row before it is on S3 unless it counts as dropped*)
Frame ==
  /\ preferred' = preferred
  /\ Jobs \subseteq Jobs'
  /\ \A j \in Jobs : /\ rows'[j].file = rows[j].file
                     /\ rows'[j].lang = rows[j].lang
                     /\ rows[j].onS3 => rows'[j].onS3
                     /\ Uploading(j) => rows'[j].onS3 \/ Uploading(j)' \/ j \in dropped'
  /\ Translations \subseteq Translations'
  /\ \A t \in Translations : translations'[t] = translations[t]
  /\ \A o \in Orders : /\ orders[o] = "done" => orders'[o] = "done"
                       /\ orders[o] # "none" => orders'[o] # "none"
  /\ dropped \subseteq dropped'
  /\ garbled \subseteq garbled'
  /\ overlapped \subseteq overlapped'
  /\ orphaned \subseteq orphaned'

LEMMA MadeKept ==
  ASSUME Frame, NEW todo, RowsMade(todo)
  PROVE  RowsMade(todo)'
BY DEF Frame, RowsMade

LEMMA CoveredKept ==
  ASSUME Frame, NEW l, Covered(l)
  PROVE  Covered(l)'
<1>1. PICK j \in Jobs : rows[j].lang = l /\ (rows[j].onS3 \/ Uploading(j) \/ j \in dropped)
  BY DEF Covered
<1>2. rows'[j].lang = l /\ j \in Jobs'
  BY <1>1 DEF Frame
<1>3. rows'[j].onS3 \/ Uploading(j)' \/ j \in dropped'
  BY <1>1 DEF Frame
<1> QED
  BY <1>2, <1>3 DEF Covered

LEMMA AllCoveredKept ==
  ASSUME Frame
  PROVE  /\ AllCovered => AllCovered'
         /\ OnlyAnError => OnlyAnError'
<1>1. preferred' = preferred /\ garbled \subseteq garbled'
  BY DEF Frame
<1>2. AllCovered => AllCovered'
  BY <1>1, CoveredKept DEF AllCovered
<1> QED
  BY <1>1, <1>2 DEF OnlyAnError

(* What a step may do to a row there is: make it READY while somebody has    *)
(* still to upload it, and give it the id of a translation ordered or        *)
(* retrieved; a row that has one loses it only where two requests overlap.   *)
RowStep(j) ==
  /\ rows'[j].status = "READY" => rows[j].status = "READY" \/ Uploading(j)'
  /\ rows'[j].status = "PENDING" =>
       rows[j].status = "PENDING" /\ rows'[j].translation = rows[j].translation
  /\ \/ rows'[j].translation = rows[j].translation
     \/ rows'[j].translation = 0 /\ rows[j].file \in overlapped
     \/ \E h \in Handlers :
          /\ handlers[h].pc = "mark" /\ handlers[h].row = j
          /\ rows'[j].translation = handlers[h].ordered
          /\ handlers'[h] # handlers[h]
     \/ \E s \in Sweeps :
          /\ sweeps[s].pc = "fetch" /\ sweeps[s].row = j
          /\ rows'[j].translation = sweeps[s].id
          /\ rows[j].file \in overlapped

LEMMA ProcessKept ==
  ASSUME Inv, Frame, NEW j \in Jobs, RowStep(j)
  PROVE  Process(j)'
<1>1. Process(j) /\ rows[j].file \in Orders
  <2>1. rows[j] \in Row
    BY ElementOfSeq DEF Inv, Base, Jobs
  <2> QED
    BY <2>1 DEF Inv, Row
<1>2. /\ rows'[j].translation \in {0} \cup Translations
      /\ rows'[j].translation # 0 =>
           /\ RowsMade({})
           /\ translations[rows'[j].translation].file = rows[j].file
  <2>1. CASE rows'[j].translation \in {0, rows[j].translation}
    BY <1>1, <2>1 DEF Process
  <2>2. ASSUME NEW h \in Handlers, handlers[h].pc = "mark", handlers[h].row = j,
               rows'[j].translation = handlers[h].ordered
        PROVE  <1>2!:
    <3>1. Asked(h)
      BY DEF Inv
    <3> QED
      BY <2>2, <3>1 DEF Asked
  <2>3. ASSUME NEW s \in Sweeps, sweeps[s].pc = "fetch", sweeps[s].row = j,
               rows'[j].translation = sweeps[s].id
        PROVE  <1>2!:
    <3>1. Asking(s)
      BY DEF Inv
    <3> QED
      BY <2>3, <3>1 DEF Asking
  <2> QED
    BY <2>1, <2>2, <2>3 DEF RowStep
<1>3. /\ rows'[j].translation \in {0} \cup Translations'
      /\ rows'[j].translation # 0 =>
           translations'[rows'[j].translation].file = rows'[j].file
  BY <1>2 DEF Frame
<1>4. rows'[j].translation # 0 => RowsMade({})'
  BY <1>2, MadeKept
<1>5. rows'[j].status = "READY" => rows'[j].onS3 \/ Uploading(j)' \/ j \in dropped'
  <2>1. rows[j].status = "READY" => rows[j].onS3 \/ Uploading(j) \/ j \in dropped
    BY <1>1 DEF Process
  <2>2. rows'[j].status = "READY" => rows[j].status = "READY" \/ Uploading(j)'
    BY DEF RowStep
  <2>3. rows[j].onS3 => rows'[j].onS3
    BY DEF Frame
  <2>4. Uploading(j) => rows'[j].onS3 \/ Uploading(j)' \/ j \in dropped'
    BY DEF Frame
  <2>5. j \in dropped => j \in dropped'
    BY DEF Frame
  <2> QED
    BY <2>1, <2>2, <2>3, <2>4, <2>5
<1>6. rows'[j].status = "PENDING" => rows'[j].translation = 0
  BY <1>1 DEF RowStep, Process
<1>7. orders'[rows'[j].file] = "done"
  BY <1>1 DEF Frame, Process
<1> QED
  BY <1>3, <1>4, <1>5, <1>6, <1>7 DEF Process

(* Whatever is done to its row, a request or a retrieval at rest finds it as *)
(* it was, as far as it matters.                                             *)
LEMMA AskedKept ==
  ASSUME Inv, Frame, \A j \in Jobs : RowStep(j), NEW x \in Handlers,
         handlers'[x] = handlers[x]
  PROVE  Asked(x)'
<1> DEFINE j == handlers[x].row
<1>1. Asked(x) /\ Alone
  BY DEF Inv
<1>2. handlers[x].pc # "idle" =>
        /\ j \in Jobs /\ j \in Jobs' /\ rows'[j].file = rows[j].file
        /\ rows'[j].lang = rows[j].lang
  BY <1>1 DEF Asked, Frame
<1>3. ASSUME handlers[x].pc \in {"place", "mark"}
      PROVE  rows'[j].translation = 0 \/ rows'[j].file \in overlapped'
  <2>1. /\ j \in Jobs /\ RowStep(j)
        /\ rows[j].translation = 0 \/ rows[j].file \in overlapped
    BY <1>1, <1>2, <1>3 DEF Asked
  <2>2. rows[j].file \in overlapped => rows'[j].file \in overlapped'
    BY <1>2, <1>3 DEF Frame
  <2>3. ASSUME NEW h \in Handlers, handlers[h].pc = "mark", handlers[h].row = j,
               handlers'[h] # handlers[h]
        PROVE  rows[j].file \in overlapped
    <3>1. h # x
      BY <2>3
    <3> QED
      BY <1>1, <1>3, <2>3, <3>1 DEF Alone
  <2> QED
    BY <2>1, <2>2, <2>3 DEF RowStep
<1>4. handlers[x].pc = "create" => RowsMade(handlers[x].todo)'
  <2>1. handlers[x].pc = "create" => RowsMade(handlers[x].todo)
    BY <1>1 DEF Asked
  <2>2. \A todo : RowsMade(todo) => \A l \in preferred' \ todo : \E i \in Jobs' : rows'[i].lang = l
    BY MadeKept DEF RowsMade
  <2> QED
    BY <2>1, <2>2 DEF RowsMade
<1>5. handlers[x].pc \in {"services", "order", "place", "mark"} => RowsMade({})'
  BY <1>1, MadeKept DEF Asked
<1>6. handlers[x].pc = "announce" => AllCovered' \/ OnlyAnError'
  BY <1>1, AllCoveredKept DEF Asked
<1>7. handlers[x].pc = "mark" =>
        /\ handlers[x].ordered \in Translations'
        /\ translations'[handlers[x].ordered].file = rows'[j].file
  BY <1>1, <1>2 DEF Asked, Frame
<1>8. handlers[x].ordered \in {0} \cup Translations'
  BY <1>1 DEF Asked, Frame
<1>9. handlers[x].pc \in {"fetch", "upload", "garble"} => rows'[j].lang = Source
  BY <1>1, <1>2 DEF Asked
<1> QED
  BY <1>2, <1>3, <1>4, <1>5, <1>6, <1>7, <1>8, <1>9 DEF Asked

LEMMA AskingKept ==
  ASSUME Inv, Frame, \A j \in Jobs : RowStep(j), NEW x \in Sweeps,
         sweeps'[x] = sweeps[x]
  PROVE  Asking(x)'
<1> DEFINE j == sweeps[x].row
<1>1. Asking(x) /\ 0 \notin Translations
  BY NoZero DEF Inv
<1>2. sweeps[x].pc # "idle" =>
        /\ j \in Jobs /\ j \in Jobs' /\ rows'[j].file = rows[j].file /\ RowsMade({})'
  BY <1>1, MadeKept DEF Asking, Frame
<1>3. ASSUME sweeps[x].pc = "fetch"
      PROVE  rows'[j].translation = sweeps[x].id \/ rows'[j].file \in overlapped'
  <2>1. /\ j \in Jobs /\ RowStep(j) /\ sweeps[x].id # 0
        /\ rows[j].translation = sweeps[x].id \/ rows[j].file \in overlapped
    BY <1>1, <1>2, <1>3 DEF Asking
  <2>2. rows[j].file \in overlapped => rows'[j].file \in overlapped'
    BY <1>2, <1>3 DEF Frame
  <2>3. ASSUME NEW h \in Handlers, handlers[h].pc = "mark", handlers[h].row = j
        PROVE  rows[j].translation = 0 \/ rows[j].file \in overlapped
    <3>1. Asked(h)
      BY DEF Inv
    <3> QED
      BY <2>3, <3>1 DEF Asked
  <2> QED
    BY <2>1, <2>2, <2>3 DEF RowStep
<1>4. sweeps[x].pc = "announce" => AllCovered'
  BY <1>1, AllCoveredKept DEF Asking
<1>5. sweeps[x].pc = "fetch" =>
        /\ sweeps[x].id \in Translations'
        /\ translations'[sweeps[x].id].file = rows'[j].file
  BY <1>1, <1>2 DEF Asking, Frame
<1>6. sweeps[x].todo \subseteq Translations' /\ sweeps[x].id \in {0} \cup Translations'
  BY <1>1 DEF Asking, Frame
<1> QED
  BY <1>2, <1>3, <1>4, <1>5, <1>6 DEF Asking

(* A translation is tracked, or a request still holds its id, or that request*)
(* died or another overlapped.                                               *)
LEMMA TrackedKept ==
  ASSUME Inv, Frame, \A j \in Jobs : RowStep(j),
         \A h \in Handlers : handlers[h].pc = "mark" =>
           \/ handlers'[h] = handlers[h]
           \/ \E j \in Jobs' : rows'[j].translation = handlers[h].ordered
           \/ handlers[h].ordered \in orphaned',
         \A t \in Translations' \ Translations :
           \E h \in Handlers : handlers'[h].pc = "mark" /\ handlers'[h].ordered = t
  PROVE  OrdersTracked'
<1> DEFINE Known(t) ==
      \/ \E i \in Jobs' : rows'[i].translation = t
      \/ t \in orphaned'
      \/ translations'[t].file \in overlapped'
      \/ \E h \in Handlers : handlers'[h].pc = "mark" /\ handlers'[h].ordered = t
<1>1. ASSUME NEW t \in Translations PROVE Known(t)
  <2>1. translations'[t] = translations[t] /\ t # 0
    BY NoZero DEF Frame, Inv
  <2>2. CASE t \in orphaned \/ translations[t].file \in overlapped
    BY <2>1, <2>2 DEF Frame
  <2>3. ASSUME NEW h \in Handlers, handlers[h].pc = "mark", handlers[h].ordered = t
        PROVE  Known(t)
    <3>1. \/ (handlers'[h].pc = "mark" /\ handlers'[h].ordered = t)
          \/ \E i \in Jobs' : rows'[i].translation = t
          \/ t \in orphaned'
      BY <2>3
    <3> QED
      BY <3>1
  <2>4. ASSUME NEW j \in Jobs, rows[j].translation = t
        PROVE  Known(t)
    <3>1. Process(j) /\ RowStep(j) /\ j \in Jobs'
      BY DEF Inv, Frame
    <3>2. translations[t].file = rows[j].file
      BY <2>1, <2>4, <3>1 DEF Process
    <3>3. CASE rows'[j].translation = t
      BY <3>1, <3>3
    <3>4. CASE rows[j].file \in overlapped
      BY <2>1, <3>2, <3>4 DEF Frame
    <3>5. ASSUME NEW h \in Handlers, handlers[h].pc = "mark", handlers[h].row = j
          PROVE  rows[j].file \in overlapped
      <4>1. Asked(h)
        BY DEF Inv
      <4> QED
        BY <2>1, <2>4, <3>5, <4>1 DEF Asked
    <3> QED
      BY <2>4, <3>1, <3>3, <3>4, <3>5 DEF RowStep
  <2> QED
    BY <2>2, <2>3, <2>4 DEF Inv, OrdersTracked, Tracked
<1>2. \A t \in Translations' : Known(t)
  BY <1>1
<1> QED
  BY <1>2 DEF OrdersTracked, Tracked

LEMMA SomeRow ==
  ASSUME NEW S, NEW q \in Seq(S)
  PROVE  q # <<>> <=> 1..Len(q) # {}
<1>1. Len(q) \in Nat /\ (Len(q) = 0 <=> q = <<>>)
  BY LenProperties, EmptySeq
<1>2. ASSUME NEW n \in Nat PROVE 1..n # {} <=> n # 0
  <2>1. n # 0 => 1 \in 1..n
    OBVIOUS
  <2>2. 1..0 = {}
    OBVIOUS
  <2> QED
    BY <2>1, <2>2
<1> QED
  BY <1>1, <1>2

(* Nothing becomes READY: who announces does so still, or has, or is lost.   *)
LEMMA LastKept ==
  ASSUME Inv, Base', Frame,
         \A j \in Jobs' : rows'[j].status = "READY" => j \in Jobs /\ rows[j].status = "READY",
         vstatus' # "READY" => vstatus # "READY",
         AtWork => AtWork' \/ dropped' # {} \/ ~AllReady' \/ vstatus' = "READY"
  PROVE  LastRetrievalAnnounces'
<1> SUFFICES ASSUME rows' # <<>>, AllReady', vstatus' # "READY"
             PROVE  AtWork' \/ dropped' # {} \/ (\E o \in Orders : Rowless(o))'
  BY DEF LastRetrievalAnnounces
<1>1. Jobs' = Jobs
  <2>1. \A j \in Jobs' : j \in Jobs
    BY DEF AllReady
  <2> QED
    BY <2>1 DEF Frame
<1>2. rows # <<>>
  <2>1. Jobs' # {}
    BY SomeRow DEF Base, Jobs
  <2> QED
    BY <1>1, <2>1, SomeRow DEF Inv, Base, Jobs
<1>3. AllReady /\ vstatus # "READY"
  BY <1>1 DEF AllReady
<1>4. CASE AtWork
  BY <1>4
<1>5. CASE dropped # {}
  BY <1>5 DEF Frame
<1>6. ASSUME NEW o \in Orders, Rowless(o) PROVE Rowless(o)'
  BY <1>1, <1>6 DEF Rowless, Frame
<1> QED
  BY <1>2, <1>3, <1>4, <1>5, <1>6 DEF Inv, LastRetrievalAnnounces

LEMMA AloneKept ==
  ASSUME Inv, Frame,
         \A x \in Handlers : handlers'[x].pc # "idle" =>
           /\ handlers[x].pc # "idle"
           /\ rows'[handlers'[x].row].file = rows[handlers[x].row].file
  PROVE  Alone'
BY DEF Inv, Alone, Frame

LEMMA Step ==
  ASSUME Inv, Base', Frame, \A j \in Jobs : RowStep(j),
         \A j \in Jobs' : j \in Jobs \/ Process(j)',
         \A x \in Handlers : handlers'[x] = handlers[x] \/ Asked(x)',
         \A x \in Sweeps : sweeps'[x] = sweeps[x] \/ Asking(x)',
         vstatus' = "READY" => vstatus = "READY" \/ AllCovered \/ OnlyAnError,
         Alone', LastRetrievalAnnounces', OrdersTracked'
  PROVE  Inv'
<1>1. \A j \in Jobs' : Process(j)'
  BY ProcessKept
<1>2. \A x \in Handlers : Asked(x)'
  BY AskedKept
<1>3. \A x \in Sweeps : Asking(x)'
  BY AskingKept
<1>4. ReadyHasLanguages'
  <2>1. vstatus' = "READY" => AllCovered \/ OnlyAnError
    BY DEF Inv, ReadyHasLanguages
  <2> QED
    BY <2>1, AllCoveredKept DEF ReadyHasLanguages
<1> QED
  BY <1>1, <1>2, <1>3, <1>4 DEF Inv

-----------------------------------------------------------------------------
(* The rows.                                                                 *)
LEMMA JobRow ==
  ASSUME Base, NEW j \in Jobs
  PROVE  rows[j] \in Row /\ rows[j].file \in Orders /\ rows[j].lang \in Languages
<1>1. rows[j] \in Row
  BY ElementOfSeq DEF Base, Jobs
<1> QED
  BY <1>1 DEF Row

LEMMA SavedRow ==
  ASSUME Base, NEW j \in Jobs, NEW r \in Row, rows' = [rows EXCEPT ![j] = r]
  PROVE  /\ rows' \in Seq(Row) /\ Jobs' = Jobs /\ rows'[j] = r
         /\ \A i \in Jobs : i # j => rows'[i] = rows[i]
<1>1. rows \in Seq(Row) /\ j \in 1..Len(rows)
  BY DEF Base, Jobs
<1>2. /\ rows' \in Seq(Row) /\ Len(rows') = Len(rows)
      /\ \A i \in 1..Len(rows) : rows'[i] = IF i = j THEN r ELSE rows[i]
  BY <1>1, ExceptSeq
<1> QED
  BY <1>1, <1>2 DEF Jobs

(* A row appended.                                                           *)
LEMMA AddedRow ==
  ASSUME Base, NEW r \in Row, rows' = Append(rows, r)
  PROVE  \E n : /\ n \notin Jobs /\ Jobs' = Jobs \cup {n} /\ rows'[n] = r
                /\ rows' \in Seq(Row) /\ \A i \in Jobs : rows'[i] = rows[i]
<1>1. rows \in Seq(Row) /\ Len(rows) \in Nat
  BY Lengths DEF Base
<1>2. /\ rows' \in Seq(Row) /\ Len(rows') = Len(rows) + 1
      /\ \A i \in 1..Len(rows) : rows'[i] = rows[i]
      /\ rows'[Len(rows) + 1] = r
  BY <1>1, AppendProperties
<1>3. Jobs' = Jobs \cup {Len(rows) + 1} /\ Len(rows) + 1 \notin Jobs
  BY <1>1, <1>2, OneMore DEF Jobs
<1> QED
  BY <1>2, <1>3 DEF Jobs

(* A sequence with other elements, but as many.                              *)
LEMMA Rewritten ==
  ASSUME NEW S, NEW q \in Seq(S), NEW p \in [1..Len(q) -> S]
  PROVE  p \in Seq(S) /\ 1..Len(p) = 1..Len(q)
<1>1. Len(q) \in Nat
  BY LenProperties
<1>2. p \in Seq(S)
  BY <1>1, SeqDef
<1>3. DOMAIN p = 1..Len(q) /\ DOMAIN p = 1..Len(p)
  BY <1>2, LenProperties
<1> QED
  BY <1>2, <1>3

(* Rows that fail all at once.                                               *)
LEMMA FailedRows ==
  ASSUME Base, NEW S,
         rows' = [j \in Jobs |-> IF j \in S THEN [rows[j] EXCEPT !.status = "FAILED"]
                                 ELSE rows[j]]
  PROVE  /\ rows' \in Seq(Row) /\ Jobs' = Jobs
         /\ \A j \in Jobs :
              /\ rows'[j].file = rows[j].file /\ rows'[j].lang = rows[j].lang
              /\ rows'[j].onS3 = rows[j].onS3
              /\ rows'[j].translation = rows[j].translation
              /\ rows'[j].status \in {"FAILED", rows[j].status}
<1>1. ASSUME NEW j \in Jobs
      PROVE  /\ rows'[j] \in Row
             /\ rows'[j].file = rows[j].file /\ rows'[j].lang = rows[j].lang
             /\ rows'[j].onS3 = rows[j].onS3
             /\ rows'[j].translation = rows[j].translation
             /\ rows'[j].status \in {"FAILED", rows[j].status}
  <2>1. rows[j] \in Row
    BY JobRow
  <2>2. CASE j \in S
    <3>1. rows'[j] = [rows[j] EXCEPT !.status = "FAILED"]
      BY <2>2
    <3> QED
      BY <2>1, <3>1 DEF Row
  <2>3. CASE j \notin S
    <3>1. rows'[j] = rows[j]
      BY <2>3
    <3> QED
      BY <2>1, <3>1
  <2> QED
    BY <2>2, <2>3
<1>2. rows' \in [1..Len(rows) -> Row]
  <2>1. DOMAIN rows' = 1..Len(rows) /\ rows' = [j \in 1..Len(rows) |-> rows'[j]]
    BY DEF Jobs
  <2> QED
    BY <1>1, <2>1 DEF Jobs
<1>3. rows' \in Seq(Row) /\ Jobs' = Jobs
  <2>1. rows \in Seq(Row)
    BY DEF Base
  <2>2. rows' \in Seq(Row) /\ 1..Len(rows') = 1..Len(rows)
    BY ONLY <2>1, <1>2, Rewritten
  <2> QED
    BY <2>2 DEF Jobs
<1> QED
  BY <1>1, <1>3

-----------------------------------------------------------------------------
(* What a step does to the rows there are.                                   *)
RowsKept ==
  /\ rows' \in Seq(Row)
  /\ Jobs \subseteq Jobs'
  /\ \A j \in Jobs : /\ rows'[j].file = rows[j].file
                     /\ rows'[j].lang = rows[j].lang
                     /\ rows[j].onS3 => rows'[j].onS3

LEMMA SameRows ==
  ASSUME Base, UNCHANGED rows
  PROVE  RowsKept /\ Jobs' = Jobs /\ \A j \in Jobs : RowStep(j)
BY DEF Base, RowsKept, Jobs, RowStep

LEMMA RowReplaced ==
  ASSUME Base, NEW j \in Jobs, NEW r \in Row, rows' = [rows EXCEPT ![j] = r],
         r.file = rows[j].file, r.lang = rows[j].lang, rows[j].onS3 => r.onS3
  PROVE  /\ RowsKept /\ Jobs' = Jobs /\ rows'[j] = r
         /\ \A i \in Jobs : i # j => rows'[i] = rows[i] /\ RowStep(i)
<1>1. /\ rows' \in Seq(Row) /\ Jobs' = Jobs /\ rows'[j] = r
      /\ \A i \in Jobs : i # j => rows'[i] = rows[i]
  BY SavedRow
<1>2. RowsKept
  BY <1>1 DEF RowsKept
<1>3. \A i \in Jobs : i # j => RowStep(i)
  BY <1>1 DEF RowStep
<1> QED
  BY <1>1, <1>2, <1>3

LEMMA Marked ==
  ASSUME Base, NEW j \in Jobs, NEW s \in {"FAILED", "READY"}, Mark(j, s)
  PROVE  /\ RowsKept /\ Jobs' = Jobs
         /\ rows'[j].status = s /\ rows'[j].translation = rows[j].translation
         /\ \A i \in Jobs : rows'[i].onS3 = rows[i].onS3
         /\ \A i \in Jobs : i # j => rows'[i] = rows[i] /\ RowStep(i)
<1> DEFINE r == [rows[j] EXCEPT !.status = s]
<1>1. rows[j] \in Row
  BY JobRow
<1>2. /\ r \in Row /\ r.status = s /\ r.onS3 = rows[j].onS3
      /\ r.file = rows[j].file /\ r.lang = rows[j].lang
      /\ r.translation = rows[j].translation
  BY <1>1 DEF Row
<1>3. rows' = [rows EXCEPT ![j] = r]
  BY DEF Mark
<1> HIDE DEF r
<1>4. /\ RowsKept /\ Jobs' = Jobs /\ rows'[j] = r
      /\ \A i \in Jobs : i # j => rows'[i] = rows[i] /\ RowStep(i)
  BY <1>2, <1>3, RowReplaced
<1> QED
  BY <1>2, <1>4

LEMMA MarkedTranslation ==
  ASSUME Base, NEW j \in Jobs, NEW s \in {"IN PROGRESS", "FAILED", "READY"},
         NEW t \in Nat, MarkTranslation(j, s, t)
  PROVE  /\ RowsKept /\ Jobs' = Jobs
         /\ rows'[j].status = s /\ rows'[j].translation = t
         /\ \A i \in Jobs : i # j => rows'[i] = rows[i] /\ RowStep(i)
<1> DEFINE r == [rows[j] EXCEPT !.status = s, !.translation = t]
<1>1. rows[j] \in Row
  BY JobRow
<1>2. /\ r \in Row /\ r.status = s /\ r.onS3 = rows[j].onS3
      /\ r.file = rows[j].file /\ r.lang = rows[j].lang /\ r.translation = t
  BY <1>1 DEF Row
<1>3. rows' = [rows EXCEPT ![j] = r]
  BY <1>1 DEF MarkTranslation, Row
<1> HIDE DEF r
<1>4. /\ RowsKept /\ Jobs' = Jobs /\ rows'[j] = r
      /\ \A i \in Jobs : i # j => rows'[i] = rows[i] /\ RowStep(i)
  BY <1>2, <1>3, RowReplaced
<1> QED
  BY <1>2, <1>4

LEMMA MarkedOnS3 ==
  ASSUME Base, NEW j \in Jobs, NEW s \in {"IN PROGRESS", "FAILED", "READY"},
         NEW t \in Nat, MarkTranslation(j, s, t)
  PROVE  \A i \in Jobs : rows'[i].onS3 = rows[i].onS3
<1> DEFINE r == [rows[j] EXCEPT !.status = s, !.translation = t]
<1>1. rows[j] \in Row
  BY JobRow
<1>2. /\ r \in Row /\ r.status = s /\ r.onS3 = rows[j].onS3
      /\ r.file = rows[j].file /\ r.lang = rows[j].lang /\ r.translation = t
  BY <1>1 DEF Row
<1>3. rows' = [rows EXCEPT ![j] = r]
  BY <1>1 DEF MarkTranslation, Row
<1> HIDE DEF r
<1>4. /\ RowsKept /\ Jobs' = Jobs /\ rows'[j] = r
      /\ \A i \in Jobs : i # j => rows'[i] = rows[i] /\ RowStep(i)
  BY <1>2, <1>3, RowReplaced
<1> QED
  BY <1>2, <1>4

LEMMA PutOnS3 ==
  ASSUME Base, NEW j \in Jobs, rows' = [rows EXCEPT ![j].onS3 = TRUE]
  PROVE  /\ RowsKept /\ Jobs' = Jobs /\ rows'[j].onS3
         /\ \A i \in Jobs : RowStep(i)
         /\ \A i \in Jobs : rows'[i].status = rows[i].status
         /\ \A i \in Jobs : i # j => rows'[i] = rows[i]
<1> DEFINE r == [rows[j] EXCEPT !.onS3 = TRUE]
<1>1. rows[j] \in Row
  BY JobRow
<1>2. /\ r \in Row /\ r.onS3 = TRUE /\ r.status = rows[j].status
      /\ r.file = rows[j].file /\ r.lang = rows[j].lang
      /\ r.translation = rows[j].translation
  BY <1>1 DEF Row
<1>3. rows' = [rows EXCEPT ![j] = r]
  OBVIOUS
<1> HIDE DEF r
<1>4. /\ RowsKept /\ Jobs' = Jobs /\ rows'[j] = r
      /\ \A i \in Jobs : i # j => rows'[i] = rows[i] /\ RowStep(i)
  BY <1>2, <1>3, RowReplaced
<1>5. RowStep(j)
  BY <1>2, <1>4 DEF RowStep
<1> QED
  BY <1>2, <1>4, <1>5

LEMMA ManyFailed ==
  ASSUME Base, NEW S,
         rows' = [j \in Jobs |-> IF j \in S THEN [rows[j] EXCEPT !.status = "FAILED"]
                                 ELSE rows[j]]
  PROVE  /\ RowsKept /\ Jobs' = Jobs /\ \A i \in Jobs : RowStep(i)
         /\ \A i \in Jobs : rows'[i].status = "READY" => rows[i].status = "READY"
         /\ \A i \in Jobs : rows'[i].onS3 = rows[i].onS3
<1>1. /\ rows' \in Seq(Row) /\ Jobs' = Jobs
      /\ \A j \in Jobs :
           /\ rows'[j].file = rows[j].file /\ rows'[j].lang = rows[j].lang
           /\ rows'[j].onS3 = rows[j].onS3
           /\ rows'[j].translation = rows[j].translation
           /\ rows'[j].status \in {"FAILED", rows[j].status}
  BY FailedRows
<1>2. RowsKept
  BY <1>1 DEF RowsKept
<1>3. \A i \in Jobs : RowStep(i)
  BY <1>1 DEF RowStep
<1> QED
  BY <1>1, <1>2, <1>3

-----------------------------------------------------------------------------
(* A step of a run of heal.                                                  *)
SweepAlone(s) ==
  /\ sweeps' \in [Sweeps -> Retrieval]
  /\ \A x \in Sweeps : x # s => sweeps'[x] = sweeps[x]
  /\ UNCHANGED <<preferred, orders, accepted, translations, calls, handlers,
                 garbled, overlapped, orphaned>>

(* What it leads to, of what was there before.                               *)
AskingNext(s) ==
  /\ sweeps'[s].pc # "idle" => sweeps'[s].row \in Jobs /\ RowsMade({})
  /\ sweeps'[s].todo \subseteq Translations
  /\ sweeps'[s].id \in {0} \cup Translations
  /\ sweeps'[s].pc = "announce" => AllCovered
  /\ sweeps'[s].pc = "fetch" =>
       /\ sweeps'[s].id \in Translations
       /\ translations[sweeps'[s].id].file = rows[sweeps'[s].row].file
       /\ \/ rows'[sweeps'[s].row].translation = sweeps'[s].id
          \/ rows[sweeps'[s].row].file \in overlapped

LEMMA SweepStep ==
  ASSUME Inv, NEW s \in Sweeps, SweepAlone(s), AskingNext(s), RowsKept, Jobs' = Jobs,
         \A j \in Jobs : RowStep(j),
         vstatus' \in {"PENDING", "IN PROGRESS", "READY"},
         retrievals' \in 0..MaxSweeps,
         dropped \subseteq dropped', dropped' \subseteq Jobs,
         sweeps[s].pc = "upload" =>
           \/ rows'[sweeps[s].row].onS3
           \/ sweeps'[s].pc = "upload" /\ sweeps'[s].row = sweeps[s].row
           \/ sweeps[s].row \in dropped',
         vstatus' = "READY" => vstatus = "READY" \/ AllCovered,
         \/ AtWork' \/ dropped' # {} \/ vstatus' = "READY" \/ ~AllReady'
         \/ /\ sweeps[s].pc \notin {"upload", "check", "announce"}
            /\ \A j \in Jobs : rows'[j].status = "READY" => rows[j].status = "READY"
            /\ vstatus' = vstatus
  PROVE  Inv'
<1>1. Frame
  <2>1. ASSUME NEW j \in Jobs, Uploading(j)
        PROVE  rows'[j].onS3 \/ Uploading(j)' \/ j \in dropped'
    <3>1. ASSUME NEW h \in Handlers, handlers[h].pc = "upload", handlers[h].row = j
          PROVE  Uploading(j)'
      BY <3>1 DEF SweepAlone, Uploading
    <3>2. ASSUME NEW x \in Sweeps, sweeps[x].pc = "upload", sweeps[x].row = j, x # s
          PROVE  Uploading(j)'
      BY <3>2 DEF SweepAlone, Uploading
    <3>3. ASSUME sweeps[s].pc = "upload", sweeps[s].row = j
          PROVE  rows'[j].onS3 \/ Uploading(j)' \/ j \in dropped'
      BY <3>3 DEF Uploading
    <3> QED
      BY <2>1, <3>1, <3>2, <3>3 DEF Uploading
  <2> QED
    BY <2>1 DEF Frame, SweepAlone, RowsKept, Translations
<1>2. Base'
  BY DEF Inv, Base, SweepAlone, RowsKept, Translations
<1>3. Asking(s)'
  <2>1. Translations' = Translations
    BY DEF SweepAlone, Translations
  <2>2. sweeps'[s].pc # "idle" => sweeps'[s].row \in Jobs' /\ RowsMade({})'
    BY <1>1, MadeKept DEF AskingNext
  <2>3. sweeps'[s].pc = "announce" => AllCovered'
    BY <1>1, AllCoveredKept DEF AskingNext
  <2>4. sweeps'[s].pc = "fetch" =>
          /\ sweeps'[s].id \in Translations'
          /\ translations'[sweeps'[s].id].file = rows'[sweeps'[s].row].file
          /\ \/ rows'[sweeps'[s].row].translation = sweeps'[s].id
             \/ rows'[sweeps'[s].row].file \in overlapped'
    BY <2>1 DEF AskingNext, RowsKept, SweepAlone
  <2> QED
    BY <2>1, <2>2, <2>3, <2>4 DEF AskingNext, Asking
<1>4. Alone'
  <2>1. \A x \in Handlers : handlers'[x].pc # "idle" =>
          /\ handlers[x].pc # "idle"
          /\ rows'[handlers'[x].row].file = rows[handlers[x].row].file
    BY DEF Inv, Asked, SweepAlone, RowsKept
  <2> QED
    BY <1>1, <2>1, AloneKept
<1>5. OrdersTracked'
  <2>1. \A h \in Handlers : handlers'[h] = handlers[h]
    BY DEF SweepAlone
  <2>2. Translations' \ Translations = {}
    BY DEF SweepAlone, Translations
  <2> QED
    BY <1>1, <2>1, <2>2, TrackedKept
<1>6. LastRetrievalAnnounces'
  <2>1. CASE AtWork' \/ dropped' # {} \/ vstatus' = "READY" \/ ~AllReady'
    BY <2>1 DEF LastRetrievalAnnounces
  <2>2. CASE /\ sweeps[s].pc \notin {"upload", "check", "announce"}
             /\ \A j \in Jobs : rows'[j].status = "READY" => rows[j].status = "READY"
             /\ vstatus' = vstatus
    <3>1. AtWork => AtWork'
      BY <2>2 DEF SweepAlone, AtWork
    <3> QED
      BY <1>1, <1>2, <2>2, <3>1, LastKept
  <2> QED
    BY <2>1, <2>2
<1> QED
  BY <1>1, <1>2, <1>3, <1>4, <1>5, <1>6, Step DEF SweepAlone

(* At rest, or at something that asks no more than the row there was.        *)
LEMMA Rested ==
  ASSUME Inv, NEW s \in Sweeps, sweeps[s].pc # "idle",
         sweeps'[s].pc \notin {"fetch", "announce"},
         sweeps'[s].pc # "idle" => sweeps'[s].row = sweeps[s].row,
         sweeps'[s].todo \subseteq Translations,
         sweeps'[s].id \in {0} \cup Translations
  PROVE  AskingNext(s)
BY DEF Inv, Asking, AskingNext

LEMMA SleptSweep ==
  ASSUME Inv, NEW s \in Sweeps, sweeps[s].pc # "idle",
         sweeps' = [sweeps EXCEPT ![s] = Asleep]
  PROVE  /\ AskingNext(s) /\ sweeps'[s].pc = "idle"
         /\ sweeps' \in [Sweeps -> Retrieval]
         /\ \A x \in Sweeps : x # s => sweeps'[x] = sweeps[x]
<1>1. sweeps \in [Sweeps -> Retrieval]
  BY DEF Inv, Base
<1>2. Asleep \in Retrieval /\ Asleep.pc = "idle" /\ Asleep.todo = {} /\ Asleep.id = 0
  BY DEF Asleep, Retrieval
<1>3. /\ sweeps'[s] = Asleep
      /\ sweeps' \in [Sweeps -> Retrieval]
      /\ \A x \in Sweeps : x # s => sweeps'[x] = sweeps[x]
  BY <1>1, <1>2
<1> QED
  BY <1>2, <1>3, Rested

LEMMA SetSweep ==
  ASSUME Inv, NEW s \in Sweeps, NEW r \in Retrieval,
         sweeps' = [sweeps EXCEPT ![s] = r]
  PROVE  /\ sweeps'[s] = r
         /\ sweeps' \in [Sweeps -> Retrieval]
         /\ \A x \in Sweeps : x # s => sweeps'[x] = sweeps[x]
BY DEF Inv, Base

LEMMA NextSweep ==
  ASSUME Inv, NEW s \in Sweeps, sweeps[s].pc # "idle", NextTranslation(s)
  PROVE  /\ AskingNext(s) /\ sweeps'[s].pc \in {"idle", "each"}
         /\ sweeps' \in [Sweeps -> Retrieval]
         /\ \A x \in Sweeps : x # s => sweeps'[x] = sweeps[x]
<1>1. CASE sweeps[s].todo = {}
  BY <1>1, SleptSweep DEF NextTranslation
<1>2. CASE sweeps[s].todo # {}
  <2> DEFINE r == [sweeps[s] EXCEPT !.pc = "each", !.id = 0]
  <2>1. sweeps[s] \in Retrieval /\ sweeps[s].todo \subseteq Translations
    BY DEF Inv, Base, Asking
  <2>2. /\ r \in Retrieval /\ r.pc = "each" /\ r.row = sweeps[s].row /\ r.id = 0
        /\ r.todo = sweeps[s].todo
    BY <2>1 DEF Retrieval
  <2>3. sweeps' = [sweeps EXCEPT ![s] = r]
    BY <1>2 DEF NextTranslation
  <2> HIDE DEF r
  <2>4. /\ sweeps'[s] = r
        /\ sweeps' \in [Sweeps -> Retrieval]
        /\ \A x \in Sweeps : x # s => sweeps'[x] = sweeps[x]
    BY <2>2, <2>3, SetSweep
  <2>5. AskingNext(s)
    BY <2>1, <2>2, <2>4, Rested
  <2> QED
    BY <2>2, <2>4, <2>5
<1> QED
  BY <1>1, <1>2

LEMMA BeginKeeps ==
  ASSUME Inv, NEW s \in Sweeps, Begin(s)
  PROVE  Inv'
<1>1. PICK j \in Jobs :
        /\ InProgress(j)
        /\ sweeps' = [sweeps EXCEPT ![s] =
             [pc |-> "list", row |-> j, id |-> 0, todo |-> {}]]
  BY DEF Begin
<1> DEFINE r == [pc |-> "list", row |-> j, id |-> 0, todo |-> {}]
<1>2. j \in Nat
  BY Lengths DEF Inv, Jobs
<1>3. r \in Retrieval /\ r.pc = "list" /\ r.row = j /\ r.id = 0 /\ r.todo = {}
  BY <1>2 DEF Retrieval
<1>4. sweeps' = [sweeps EXCEPT ![s] = r]
  BY <1>1
<1> HIDE DEF r
<1>5. /\ sweeps'[s] = r
      /\ sweeps' \in [Sweeps -> Retrieval]
      /\ \A x \in Sweeps : x # s => sweeps'[x] = sweeps[x]
  BY <1>3, <1>4, SetSweep
<1>6. RowsMade({})
  BY <1>1 DEF Inv, Process, InProgress
<1>7. AskingNext(s)
  BY <1>3, <1>5, <1>6 DEF AskingNext
<1>8. SweepAlone(s) /\ rows' = rows /\ vstatus' = vstatus /\ dropped' = dropped
  BY <1>5 DEF Begin, SweepAlone, store, provider, history
<1>9. RowsKept /\ Jobs' = Jobs /\ \A i \in Jobs : RowStep(i)
  BY <1>8, SameRows DEF Inv
<1>10. retrievals' \in 0..MaxSweeps
  BY OneCall DEF Begin, Inv, Base
<1>11. sweeps[s].pc = "idle"
  BY DEF Begin
<1> QED
  BY <1>7, <1>8, <1>9, <1>10, <1>11, SweepStep DEF Inv, Base

LEMMA ListFailsKeeps ==
  ASSUME Inv, NEW s \in Sweeps, ListFails(s)
  PROVE  Inv'
<1>1. sweeps[s].pc = "list" /\ vstatus' = vstatus /\ dropped' = dropped
      /\ retrievals' = retrievals
  BY DEF ListFails, history
<1>2. /\ AskingNext(s) /\ sweeps' \in [Sweeps -> Retrieval]
      /\ \A x \in Sweeps : x # s => sweeps'[x] = sweeps[x]
  BY <1>1, SleptSweep DEF ListFails
<1>3. SweepAlone(s)
  BY <1>2 DEF ListFails, SweepAlone, provider, history
<1>4. /\ RowsKept /\ Jobs' = Jobs /\ \A i \in Jobs : RowStep(i)
      /\ \A i \in Jobs : rows'[i].status = "READY" => rows[i].status = "READY"
  <2> DEFINE S == {j \in Jobs : InProgress(j)}
  <2>1. rows' = [j \in Jobs |-> IF j \in S THEN [rows[j] EXCEPT !.status = "FAILED"]
                                ELSE rows[j]]
    BY DEF ListFails
  <2> HIDE DEF S
  <2> QED
    BY <2>1, ManyFailed DEF Inv
<1> QED
  BY <1>1, <1>2, <1>3, <1>4, SweepStep DEF Inv, Base

LEMMA ListKeeps ==
  ASSUME Inv, NEW s \in Sweeps, List(s)
  PROVE  Inv'
<1>1. /\ sweeps[s].pc = "list" /\ vstatus' = vstatus /\ dropped' = dropped
      /\ retrievals' = retrievals /\ rows' = rows
  BY DEF List, store, history
<1>2. /\ AskingNext(s) /\ sweeps' \in [Sweeps -> Retrieval]
      /\ \A x \in Sweeps : x # s => sweeps'[x] = sweeps[x]
  <2>1. PICK done \in SUBSET Translations :
          sweeps' = [sweeps EXCEPT ![s] =
            IF done = {} THEN Asleep ELSE [sweeps[s] EXCEPT !.pc = "each", !.todo = done]]
    BY DEF List
  <2>2. CASE done = {}
    BY <1>1, <2>1, <2>2, SleptSweep
  <2>3. CASE done # {}
    <3> DEFINE r == [sweeps[s] EXCEPT !.pc = "each", !.todo = done]
    <3>1. /\ sweeps[s] \in Retrieval /\ sweeps[s].id \in {0} \cup Translations
          /\ done \in SUBSET Nat
      <4>1. sweeps[s] \in Retrieval /\ sweeps[s].id \in {0} \cup Translations
        BY DEF Inv, Base, Asking
      <4>2. Translations \subseteq Nat
        BY Lengths DEF Inv, Translations
      <4> QED
        BY <2>1, <4>1, <4>2
    <3>2. /\ r \in Retrieval /\ r.pc = "each" /\ r.row = sweeps[s].row
          /\ r.id = sweeps[s].id /\ r.todo = done
      BY <3>1 DEF Retrieval
    <3>3. sweeps' = [sweeps EXCEPT ![s] = r]
      BY <2>1, <2>3
    <3> HIDE DEF r
    <3>4. /\ sweeps'[s] = r
          /\ sweeps' \in [Sweeps -> Retrieval]
          /\ \A x \in Sweeps : x # s => sweeps'[x] = sweeps[x]
      BY <3>2, <3>3, SetSweep
    <3>5. AskingNext(s)
      BY <1>1, <2>1, <3>1, <3>2, <3>4, Rested
    <3> QED
      BY <3>4, <3>5
  <2> QED
    BY <2>2, <2>3
<1>3. SweepAlone(s)
  BY <1>2 DEF List, SweepAlone, store, provider, history
<1>4. RowsKept /\ Jobs' = Jobs /\ \A i \in Jobs : RowStep(i)
  BY <1>1, SameRows DEF Inv
<1> QED
  BY <1>1, <1>2, <1>3, <1>4, SweepStep DEF Inv, Base

LEMMA PickKeeps ==
  ASSUME Inv, NEW s \in Sweeps, Pick(s)
  PROVE  Inv'
<1>1. /\ sweeps[s].pc = "each" /\ vstatus' = vstatus /\ dropped' = dropped
      /\ retrievals' = retrievals /\ rows' = rows
  BY DEF Pick, store, history
<1>2. /\ sweeps[s] \in Retrieval /\ sweeps[s].todo \subseteq Translations
      /\ sweeps[s].id \in {0} \cup Translations /\ RowsMade({})
  BY <1>1 DEF Inv, Base, Asking
<1>3. /\ AskingNext(s) /\ sweeps' \in [Sweeps -> Retrieval]
      /\ \A x \in Sweeps : x # s => sweeps'[x] = sweeps[x]
  <2>1. PICK t \in sweeps[s].todo :
          \/ \E j \in Jobs :
               /\ Tracks(j, t)
               /\ sweeps' = [sweeps EXCEPT ![s] =
                    [pc |-> "fetch", row |-> j, id |-> t, todo |-> sweeps[s].todo \ {t}]]
          \/ sweeps' = [sweeps EXCEPT ![s] =
               IF sweeps[s].todo = {t} THEN Asleep
               ELSE [sweeps[s] EXCEPT !.todo = sweeps[s].todo \ {t}]]
    BY DEF Pick
  <2>2. ASSUME NEW j \in Jobs, Tracks(j, t),
               sweeps' = [sweeps EXCEPT ![s] =
                    [pc |-> "fetch", row |-> j, id |-> t, todo |-> sweeps[s].todo \ {t}]]
        PROVE  /\ AskingNext(s) /\ sweeps' \in [Sweeps -> Retrieval]
               /\ \A x \in Sweeps : x # s => sweeps'[x] = sweeps[x]
    <3> DEFINE r == [pc |-> "fetch", row |-> j, id |-> t, todo |-> sweeps[s].todo \ {t}]
    <3>1. j \in Nat /\ t \in Nat /\ t \in Translations /\ sweeps[s].todo \ {t} \in SUBSET Nat
      BY <1>2, <2>1, Lengths DEF Inv, Jobs, Translations
    <3>2. /\ r \in Retrieval /\ r.pc = "fetch" /\ r.row = j /\ r.id = t
          /\ r.todo \subseteq sweeps[s].todo
      BY <3>1 DEF Retrieval
    <3>3. sweeps' = [sweeps EXCEPT ![s] = r]
      BY <2>2
    <3> HIDE DEF r
    <3>4. /\ sweeps'[s] = r
          /\ sweeps' \in [Sweeps -> Retrieval]
          /\ \A x \in Sweeps : x # s => sweeps'[x] = sweeps[x]
      BY <3>2, <3>3, SetSweep
    <3>5. translations[t].file = rows[j].file /\ rows'[j].translation = t
      BY <1>1, <2>2 DEF Tracks
    <3>6. AskingNext(s)
      BY <1>2, <3>1, <3>2, <3>4, <3>5 DEF AskingNext
    <3> QED
      BY <3>4, <3>6
  <2>3. CASE sweeps' = [sweeps EXCEPT ![s] = Asleep]
    BY <1>1, <2>3, SleptSweep
  <2>4. CASE sweeps' = [sweeps EXCEPT ![s] =
                          [sweeps[s] EXCEPT !.todo = sweeps[s].todo \ {t}]]
    <3> DEFINE r == [sweeps[s] EXCEPT !.todo = sweeps[s].todo \ {t}]
    <3>1. sweeps[s].todo \ {t} \in SUBSET Nat
      BY <1>2 DEF Retrieval
    <3>2. /\ r \in Retrieval /\ r.pc = "each" /\ r.row = sweeps[s].row
          /\ r.id = sweeps[s].id /\ r.todo \subseteq sweeps[s].todo
      BY <1>1, <1>2, <3>1 DEF Retrieval
    <3>3. sweeps' = [sweeps EXCEPT ![s] = r]
      BY <2>4
    <3> HIDE DEF r
    <3>4. /\ sweeps'[s] = r
          /\ sweeps' \in [Sweeps -> Retrieval]
          /\ \A x \in Sweeps : x # s => sweeps'[x] = sweeps[x]
      BY <3>2, <3>3, SetSweep
    <3>5. AskingNext(s)
      BY <1>1, <1>2, <3>2, <3>4, Rested
    <3> QED
      BY <3>4, <3>5
  <2> QED
    BY <2>1, <2>2, <2>3, <2>4
<1>4. SweepAlone(s)
  BY <1>3 DEF Pick, SweepAlone, store, provider, history
<1>5. RowsKept /\ Jobs' = Jobs /\ \A i \in Jobs : RowStep(i)
  BY <1>1, SameRows DEF Inv
<1> QED
  BY <1>1, <1>3, <1>4, <1>5, SweepStep DEF Inv, Base

LEMMA DownloadFailsKeeps ==
  ASSUME Inv, NEW s \in Sweeps, DownloadFails(s)
  PROVE  Inv'
<1>1. /\ sweeps[s].pc = "fetch" /\ vstatus' = vstatus /\ dropped' = dropped
      /\ retrievals' = retrievals /\ rows' = rows
  BY DEF DownloadFails, store, history
<1>2. /\ AskingNext(s) /\ sweeps' \in [Sweeps -> Retrieval]
      /\ \A x \in Sweeps : x # s => sweeps'[x] = sweeps[x]
  BY <1>1, NextSweep DEF DownloadFails
<1>3. SweepAlone(s)
  BY <1>2 DEF DownloadFails, SweepAlone, store, provider, history
<1>4. RowsKept /\ Jobs' = Jobs /\ \A i \in Jobs : RowStep(i)
  BY <1>1, SameRows DEF Inv
<1> QED
  BY <1>1, <1>2, <1>3, <1>4, SweepStep DEF Inv, Base

(* The row whose translation was read: if it has another by now, requests    *)
(* overlapped.                                                               *)
LEMMA FetchedRow ==
  ASSUME Inv, NEW s \in Sweeps, sweeps[s].pc = "fetch"
  PROVE  /\ sweeps[s] \in Retrieval /\ sweeps[s].row \in Jobs /\ sweeps[s].id \in Nat
         /\ sweeps[s].todo \subseteq Translations
         /\ \/ rows[sweeps[s].row].translation = sweeps[s].id
            \/ rows[sweeps[s].row].file \in overlapped
BY DEF Inv, Base, Asking, Retrieval

LEMMA RetrieveKeeps ==
  ASSUME Inv, NEW s \in Sweeps, Retrieve(s)
  PROVE  Inv'
<1> DEFINE j == sweeps[s].row
<1>1. /\ sweeps[s].pc = "fetch" /\ vstatus' = vstatus /\ dropped' = dropped
      /\ retrievals' = retrievals
  BY DEF Retrieve, history
<1>2. /\ sweeps[s] \in Retrieval /\ j \in Jobs /\ sweeps[s].id \in Nat
      /\ sweeps[s].todo \subseteq Translations
      /\ rows[j].translation = sweeps[s].id \/ rows[j].file \in overlapped
  BY <1>1, FetchedRow
<1>3. /\ sweeps'[s].pc = "upload" /\ sweeps'[s].row = j
      /\ AskingNext(s) /\ sweeps' \in [Sweeps -> Retrieval]
      /\ \A x \in Sweeps : x # s => sweeps'[x] = sweeps[x]
  <2> DEFINE r == [sweeps[s] EXCEPT !.pc = "upload", !.id = 0]
  <2>1. /\ r \in Retrieval /\ r.pc = "upload" /\ r.row = j /\ r.id = 0
        /\ r.todo = sweeps[s].todo
    BY <1>2 DEF Retrieval
  <2>2. sweeps' = [sweeps EXCEPT ![s] = r]
    BY <1>2 DEF Retrieve, Retrieval
  <2> HIDE DEF r
  <2>3. /\ sweeps'[s] = r
        /\ sweeps' \in [Sweeps -> Retrieval]
        /\ \A x \in Sweeps : x # s => sweeps'[x] = sweeps[x]
    BY <2>1, <2>2, SetSweep
  <2>4. AskingNext(s)
    BY <1>1, <1>2, <2>1, <2>3, Rested
  <2> QED
    BY <2>1, <2>3, <2>4
<1>4. /\ RowsKept /\ Jobs' = Jobs
      /\ rows'[j].status = "READY" /\ rows'[j].translation = sweeps[s].id
      /\ \A i \in Jobs : i # j => RowStep(i)
  <2>1. Base /\ MarkTranslation(j, "READY", sweeps[s].id)
    BY DEF Retrieve, Inv
  <2> HIDE DEF j
  <2> QED
    BY <1>2, <2>1, MarkedTranslation
<1>5. RowStep(j)
  <2>1. Uploading(j)'
    BY <1>3 DEF Uploading
  <2> QED
    BY <1>1, <1>2, <1>4, <2>1 DEF RowStep
<1>6. SweepAlone(s)
  BY <1>3 DEF Retrieve, SweepAlone, provider, history
<1>7. AtWork'
  BY <1>3 DEF AtWork
<1>8. \A i \in Jobs : RowStep(i)
  BY <1>4, <1>5
<1> QED
  BY <1>1, <1>3, <1>4, <1>6, <1>7, <1>8, SweepStep DEF Inv, Base

LEMMA RetrieveInvalidKeeps ==
  ASSUME Inv, NEW s \in Sweeps, RetrieveInvalid(s)
  PROVE  Inv'
<1> DEFINE j == sweeps[s].row
<1>1. /\ sweeps[s].pc = "fetch" /\ vstatus' = vstatus /\ dropped' = dropped
      /\ retrievals' = retrievals
  BY DEF RetrieveInvalid, history
<1>2. /\ j \in Jobs /\ sweeps[s].id \in Nat
      /\ rows[j].translation = sweeps[s].id \/ rows[j].file \in overlapped
  BY <1>1, FetchedRow
<1>3. /\ AskingNext(s) /\ sweeps' \in [Sweeps -> Retrieval]
      /\ \A x \in Sweeps : x # s => sweeps'[x] = sweeps[x]
  BY <1>1, NextSweep DEF RetrieveInvalid
<1>4. /\ RowsKept /\ Jobs' = Jobs
      /\ rows'[j].status = "FAILED" /\ rows'[j].translation = sweeps[s].id
      /\ \A i \in Jobs : i # j => RowStep(i)
  <2>1. Base /\ MarkTranslation(j, "FAILED", sweeps[s].id)
    BY DEF RetrieveInvalid, Inv
  <2> HIDE DEF j
  <2> QED
    BY <1>2, <2>1, MarkedTranslation
<1>5. RowStep(j)
  BY <1>1, <1>2, <1>4 DEF RowStep
<1>6. SweepAlone(s)
  BY <1>3 DEF RetrieveInvalid, SweepAlone, provider, history
<1>7. ~AllReady'
  BY <1>2, <1>4 DEF AllReady
<1>8. \A i \in Jobs : RowStep(i)
  BY <1>4, <1>5
<1> QED
  BY <1>1, <1>3, <1>4, <1>6, <1>7, <1>8, SweepStep DEF Inv, Base

LEMMA UploadTranslationKeeps ==
  ASSUME Inv, NEW s \in Sweeps, UploadTranslation(s)
  PROVE  Inv'
<1> DEFINE j == sweeps[s].row
<1>1. /\ sweeps[s].pc = "upload" /\ vstatus' = vstatus /\ dropped' = dropped
      /\ retrievals' = retrievals
  BY DEF UploadTranslation, history
<1>2. /\ sweeps[s] \in Retrieval /\ j \in Jobs
      /\ sweeps[s].todo \subseteq Translations /\ sweeps[s].id \in {0} \cup Translations
  BY <1>1 DEF Inv, Base, Asking
<1>3. /\ sweeps'[s].pc = "check"
      /\ AskingNext(s) /\ sweeps' \in [Sweeps -> Retrieval]
      /\ \A x \in Sweeps : x # s => sweeps'[x] = sweeps[x]
  <2> DEFINE r == [sweeps[s] EXCEPT !.pc = "check"]
  <2>1. /\ r \in Retrieval /\ r.pc = "check" /\ r.row = j /\ r.id = sweeps[s].id
        /\ r.todo = sweeps[s].todo
    BY <1>2 DEF Retrieval
  <2>2. sweeps' = [sweeps EXCEPT ![s] = r]
    BY DEF UploadTranslation
  <2> HIDE DEF r
  <2>3. /\ sweeps'[s] = r
        /\ sweeps' \in [Sweeps -> Retrieval]
        /\ \A x \in Sweeps : x # s => sweeps'[x] = sweeps[x]
    BY <2>1, <2>2, SetSweep
  <2>4. AskingNext(s)
    BY <1>1, <1>2, <2>1, <2>3, Rested
  <2> QED
    BY <2>1, <2>3, <2>4
<1>4. /\ RowsKept /\ Jobs' = Jobs /\ rows'[j].onS3 /\ \A i \in Jobs : RowStep(i)
  BY <1>2, PutOnS3 DEF UploadTranslation, Inv
<1>5. SweepAlone(s)
  BY <1>3 DEF UploadTranslation, SweepAlone, provider, history
<1>6. AtWork'
  BY <1>3 DEF AtWork
<1> QED
  BY <1>1, <1>3, <1>4, <1>5, <1>6, SweepStep DEF Inv, Base

(* Where every process is READY and there is one for each language, each     *)
(* language is covered.                                                      *)
LEMMA ReadyCovers ==
  ASSUME Inv, RowsMade({}), AllReady
  PROVE  AllCovered
<1> SUFFICES ASSUME NEW l \in preferred PROVE Covered(l)
  BY DEF AllCovered
<1>1. PICK j \in Jobs : rows[j].lang = l
  BY DEF RowsMade
<1>2. rows[j].onS3 \/ Uploading(j) \/ j \in dropped
  BY DEF AllReady, Inv, Process
<1> QED
  BY <1>1, <1>2 DEF Covered

LEMMA CheckKeeps ==
  ASSUME Inv, NEW s \in Sweeps, Check(s)
  PROVE  Inv'
<1>1. /\ sweeps[s].pc = "check" /\ vstatus' = vstatus /\ dropped' = dropped
      /\ retrievals' = retrievals /\ rows' = rows
  BY DEF Check, store, history
<1>2. /\ sweeps[s] \in Retrieval /\ sweeps[s].row \in Jobs /\ RowsMade({})
      /\ sweeps[s].todo \subseteq Translations /\ sweeps[s].id \in {0} \cup Translations
  BY <1>1 DEF Inv, Base, Asking
<1>3. /\ AskingNext(s) /\ sweeps' \in [Sweeps -> Retrieval]
      /\ \A x \in Sweeps : x # s => sweeps'[x] = sweeps[x]
      /\ AtWork' \/ ~AllReady'
  <2>1. CASE AllReady
    <3> DEFINE r == [sweeps[s] EXCEPT !.pc = "announce"]
    <3>1. /\ r \in Retrieval /\ r.pc = "announce" /\ r.row = sweeps[s].row
          /\ r.id = sweeps[s].id /\ r.todo = sweeps[s].todo
      BY <1>2 DEF Retrieval
    <3>2. sweeps' = [sweeps EXCEPT ![s] = r]
      BY <2>1 DEF Check
    <3> HIDE DEF r
    <3>3. /\ sweeps'[s] = r
          /\ sweeps' \in [Sweeps -> Retrieval]
          /\ \A x \in Sweeps : x # s => sweeps'[x] = sweeps[x]
      BY <3>1, <3>2, SetSweep
    <3>4. AllCovered
      BY <1>2, <2>1, ReadyCovers
    <3>5. AskingNext(s)
      BY <1>2, <3>1, <3>3, <3>4 DEF AskingNext
    <3>6. AtWork'
      BY <3>1, <3>3 DEF AtWork
    <3> QED
      BY <3>3, <3>5, <3>6
  <2>2. CASE ~AllReady
    <3>1. ~AllReady'
      BY <1>1, <2>2 DEF AllReady, Jobs
    <3> QED
      BY <1>1, <2>2, <3>1, NextSweep DEF Check
  <2> QED
    BY <2>1, <2>2
<1>4. SweepAlone(s)
  BY <1>3 DEF Check, SweepAlone, store, provider, history
<1>5. RowsKept /\ Jobs' = Jobs /\ \A i \in Jobs : RowStep(i)
  BY <1>1, SameRows DEF Inv
<1> QED
  BY <1>1, <1>3, <1>4, <1>5, SweepStep DEF Inv, Base

LEMMA AnnounceTranslationsKeeps ==
  ASSUME Inv, NEW s \in Sweeps, AnnounceTranslations(s)
  PROVE  Inv'
<1>1. /\ sweeps[s].pc = "announce" /\ vstatus' = "READY" /\ dropped' = dropped
      /\ retrievals' = retrievals /\ rows' = rows
  BY DEF AnnounceTranslations, history
<1>2. AllCovered
  BY <1>1 DEF Inv, Asking
<1>3. /\ AskingNext(s) /\ sweeps' \in [Sweeps -> Retrieval]
      /\ \A x \in Sweeps : x # s => sweeps'[x] = sweeps[x]
  BY <1>1, NextSweep DEF AnnounceTranslations
<1>4. SweepAlone(s)
  BY <1>3 DEF AnnounceTranslations, SweepAlone, provider, history
<1>5. RowsKept /\ Jobs' = Jobs /\ \A i \in Jobs : RowStep(i)
  BY <1>1, SameRows DEF Inv
<1> QED
  BY <1>1, <1>2, <1>3, <1>4, <1>5, SweepStep DEF Inv, Base

LEMMA AbortKeeps ==
  ASSUME Inv, NEW s \in Sweeps, Abort(s)
  PROVE  Inv'
<1> DEFINE late == sweeps[s].pc \in {"upload", "check", "announce"}
<1>1. /\ sweeps[s].pc # "idle" /\ vstatus' = vstatus
      /\ retrievals' = retrievals /\ rows' = rows
      /\ dropped' = IF late THEN dropped \cup {sweeps[s].row} ELSE dropped
  BY DEF Abort, store
<1>2. sweeps[s].row \in Jobs
  BY <1>1 DEF Inv, Asking
<1>3. /\ AskingNext(s) /\ sweeps' \in [Sweeps -> Retrieval]
      /\ \A x \in Sweeps : x # s => sweeps'[x] = sweeps[x]
  BY <1>1, SleptSweep DEF Abort
<1>4. SweepAlone(s)
  BY <1>3 DEF Abort, SweepAlone, store, provider
<1>5. RowsKept /\ Jobs' = Jobs /\ \A i \in Jobs : RowStep(i)
  BY <1>1, SameRows DEF Inv
<1>6. dropped \subseteq dropped' /\ dropped' \subseteq Jobs
  BY <1>1, <1>2 DEF Inv, Base
<1>7. late => sweeps[s].row \in dropped'
  BY <1>1
<1> QED
  BY <1>1, <1>3, <1>4, <1>5, <1>6, <1>7, SweepStep DEF Inv, Base

LEMMA SweepKeeps ==
  ASSUME Inv, NEW s \in Sweeps, SweepNext(s)
  PROVE  Inv'
BY BeginKeeps, ListFailsKeeps, ListKeeps, PickKeeps, DownloadFailsKeeps, RetrieveKeeps,
   RetrieveInvalidKeeps, UploadTranslationKeeps, CheckKeeps, AnnounceTranslationsKeeps,
   AbortKeeps
DEF SweepNext

-----------------------------------------------------------------------------
(* A step of a request, or of 3Play that calls it.                           *)
HandlerAlone(h) ==
  /\ handlers' \in [Handlers -> Request]
  /\ \A x \in Handlers : x # h => handlers'[x] = handlers[x]
  /\ \/ garbled' = garbled
     \/ handlers[h].pc = "garble" /\ garbled' = garbled \cup {handlers[h].row}
  /\ UNCHANGED <<preferred, orders, accepted, sweeps, retrievals>>

TranslationsKept ==
  /\ translations' \in Seq([file : Orders, lang : Languages])
  /\ Translations \subseteq Translations'
  /\ \A t \in Translations : translations'[t] = translations[t]

LEMMA SameTranslations ==
  ASSUME Base, UNCHANGED translations
  PROVE  TranslationsKept /\ Translations' = Translations
BY DEF Base, TranslationsKept, Translations

AskedNext(h) ==
  /\ handlers'[h].pc # "idle" => handlers'[h].row \in Jobs
  /\ handlers'[h].ordered \in {0} \cup Translations'
  /\ handlers'[h].pc = "create" =>
       \A l \in preferred \ handlers'[h].todo : \E j \in Jobs' : rows'[j].lang = l
  /\ handlers'[h].pc \in {"services", "order", "place", "mark"} =>
       \A l \in preferred : \E j \in Jobs' : rows'[j].lang = l
  /\ handlers'[h].pc \in {"fetch", "upload", "garble"} =>
       rows[handlers'[h].row].lang = Source
  /\ handlers'[h].pc = "announce" => AllCovered \/ OnlyAnError'
  /\ handlers'[h].pc = "mark" =>
       /\ handlers'[h].ordered \in Translations'
       /\ translations'[handlers'[h].ordered].file = rows[handlers'[h].row].file
  /\ handlers'[h].pc \in {"place", "mark"} =>
       \/ rows'[handlers'[h].row].translation = 0
       \/ rows[handlers'[h].row].file \in overlapped

SameFile(h) ==
  handlers'[h].pc # "idle" =>
    /\ handlers[h].pc # "idle"
    /\ rows[handlers'[h].row].file = rows[handlers[h].row].file

LEMMA HandlerStep ==
  ASSUME Inv, NEW h \in Handlers, HandlerAlone(h), RowsKept, TranslationsKept,
         handlers'[h] = handlers[h] \/ AskedNext(h),
         SameFile(h) \/ Alone',
         \A j \in Jobs : RowStep(j),
         \A j \in Jobs' : j \in Jobs \/ Process(j)',
         \A t \in Translations' : t \in Translations
                                  \/ (handlers'[h].pc = "mark" /\ handlers'[h].ordered = t),
         vstatus' \in {"PENDING", "IN PROGRESS", "READY"},
         calls' \in 0..MaxCalls,
         dropped \subseteq dropped', dropped' \subseteq Jobs,
         overlapped \subseteq overlapped', overlapped' \subseteq Orders,
         orphaned \subseteq orphaned', orphaned' \subseteq Translations,
         handlers[h].pc = "upload" =>
           \/ rows'[handlers[h].row].onS3
           \/ handlers'[h].pc = "upload" /\ handlers'[h].row = handlers[h].row
           \/ handlers[h].row \in dropped',
         handlers[h].pc = "mark" =>
           \/ handlers'[h] = handlers[h]
           \/ \E j \in Jobs' : rows'[j].translation = handlers[h].ordered
           \/ handlers[h].ordered \in orphaned',
         vstatus' = "READY" => vstatus = "READY" \/ AllCovered \/ OnlyAnError,
         \/ AtWork' \/ dropped' # {} \/ vstatus' = "READY" \/ ~AllReady'
         \/ /\ handlers[h].pc \notin {"upload", "create", "announce"}
            /\ \A j \in Jobs' : rows'[j].status = "READY" => j \in Jobs /\ rows[j].status = "READY"
            /\ vstatus' = vstatus
  PROVE  Inv'
<1>1. Frame
  <2>1. ASSUME NEW j \in Jobs, Uploading(j)
        PROVE  rows'[j].onS3 \/ Uploading(j)' \/ j \in dropped'
    <3>1. ASSUME NEW s \in Sweeps, sweeps[s].pc = "upload", sweeps[s].row = j
          PROVE  Uploading(j)'
      BY <3>1 DEF HandlerAlone, Uploading
    <3>2. ASSUME NEW x \in Handlers, handlers[x].pc = "upload", handlers[x].row = j, x # h
          PROVE  Uploading(j)'
      BY <3>2 DEF HandlerAlone, Uploading
    <3>3. ASSUME handlers[h].pc = "upload", handlers[h].row = j
          PROVE  rows'[j].onS3 \/ Uploading(j)' \/ j \in dropped'
      BY <3>3 DEF Uploading
    <3> QED
      BY <2>1, <3>1, <3>2, <3>3 DEF Uploading
  <2> QED
    BY <2>1 DEF Frame, HandlerAlone, RowsKept, TranslationsKept
<1>2. Base'
  <2>1. garbled' \subseteq Jobs'
    BY DEF Inv, Base, Asked, HandlerAlone, RowsKept
  <2> QED
    BY <2>1 DEF Inv, Base, HandlerAlone, RowsKept, TranslationsKept
<1>3. ASSUME AskedNext(h) PROVE Asked(h)'
  <2>1. handlers'[h].pc # "idle" =>
          /\ handlers'[h].row \in Jobs'
          /\ rows'[handlers'[h].row].file = rows[handlers'[h].row].file
          /\ rows'[handlers'[h].row].lang = rows[handlers'[h].row].lang
    BY <1>3 DEF AskedNext, RowsKept
  <2>2. preferred' = preferred
    BY DEF HandlerAlone
  <2>3. handlers'[h].pc = "create" =>
          \A l \in preferred' \ handlers'[h].todo : \E j \in Jobs' : rows'[j].lang = l
    BY <1>3, <2>2 DEF AskedNext
  <2>4. handlers'[h].pc \in {"services", "order", "place", "mark"} => RowsMade({})'
    BY <1>3, <2>2 DEF AskedNext, RowsMade
  <2>5. handlers'[h].pc = "announce" => AllCovered' \/ OnlyAnError'
    BY <1>1, <1>3, AllCoveredKept DEF AskedNext
  <2>6. handlers'[h].pc = "mark" =>
          /\ handlers'[h].ordered \in Translations'
          /\ translations'[handlers'[h].ordered].file = rows'[handlers'[h].row].file
    BY <1>3, <2>1 DEF AskedNext
  <2>7. handlers'[h].pc \in {"place", "mark"} =>
          \/ rows'[handlers'[h].row].translation = 0
          \/ rows'[handlers'[h].row].file \in overlapped'
    BY <1>3, <2>1 DEF AskedNext
  <2>8. handlers'[h].pc \in {"fetch", "upload", "garble"} => rows'[handlers'[h].row].lang = Source
    BY <1>3, <2>1 DEF AskedNext
  <2>9. handlers'[h].pc # "idle" => handlers'[h].row \in Jobs'
    BY <2>1
  <2>10. handlers'[h].ordered \in {0} \cup Translations'
    BY <1>3 DEF AskedNext
  <2>11. handlers'[h].pc = "create" => RowsMade(handlers[h].todo)'
    BY <2>3 DEF RowsMade
  <2> QED
    BY <2>4, <2>5, <2>6, <2>7, <2>8, <2>9, <2>10, <2>11 DEF Asked
<1>4. Alone'
  <2>1. CASE SameFile(h)
    <3>1. ASSUME NEW x \in Handlers, handlers'[x].pc # "idle"
          PROVE  /\ handlers[x].pc # "idle"
                 /\ rows'[handlers'[x].row].file = rows[handlers[x].row].file
      <4>1. CASE handlers'[x] = handlers[x]
        <5>1. handlers[x].row \in Jobs
          BY <3>1, <4>1 DEF Inv, Asked
        <5> QED
          BY <3>1, <4>1, <5>1 DEF RowsKept
      <4>2. CASE x = h /\ AskedNext(h)
        BY <2>1, <3>1, <4>2 DEF SameFile, AskedNext, RowsKept
      <4> QED
        BY <4>1, <4>2 DEF HandlerAlone
    <3> QED
      BY <1>1, <3>1, AloneKept
  <2> QED
    BY <2>1
<1>5. OrdersTracked'
  <2>1. \A x \in Handlers : handlers[x].pc = "mark" =>
          \/ handlers'[x] = handlers[x]
          \/ \E j \in Jobs' : rows'[j].translation = handlers[x].ordered
          \/ handlers[x].ordered \in orphaned'
    BY DEF HandlerAlone
  <2> QED
    BY <1>1, <2>1, TrackedKept
<1>6. LastRetrievalAnnounces'
  <2>1. CASE AtWork' \/ dropped' # {} \/ vstatus' = "READY" \/ ~AllReady'
    BY <2>1 DEF LastRetrievalAnnounces
  <2>2. CASE /\ handlers[h].pc \notin {"upload", "create", "announce"}
             /\ \A j \in Jobs' : rows'[j].status = "READY" => j \in Jobs /\ rows[j].status = "READY"
             /\ vstatus' = vstatus
    <3>1. AtWork => AtWork'
      BY <2>2 DEF HandlerAlone, AtWork
    <3> QED
      BY <1>1, <1>2, <2>2, <3>1, LastKept
  <2> QED
    BY <2>1, <2>2
<1>7. \A x \in Handlers : handlers'[x] = handlers[x] \/ Asked(x)'
  BY <1>3 DEF HandlerAlone
<1>8. \A x \in Sweeps : sweeps'[x] = sweeps[x]
  BY DEF HandlerAlone
<1> QED
  BY <1>1, <1>2, <1>4, <1>5, <1>6, <1>7, <1>8, Step

LEMMA SetHandler ==
  ASSUME Inv, NEW h \in Handlers, NEW r \in Request,
         handlers' = [handlers EXCEPT ![h] = r]
  PROVE  /\ handlers'[h] = r
         /\ handlers' \in [Handlers -> Request]
         /\ \A x \in Handlers : x # h => handlers'[x] = handlers[x]
BY DEF Inv, Base

LEMMA EndHandler ==
  ASSUME Inv, NEW h \in Handlers, handlers' = [handlers EXCEPT ![h] = Idle]
  PROVE  /\ AskedNext(h) /\ SameFile(h) /\ handlers'[h].pc = "idle"
         /\ handlers' \in [Handlers -> Request]
         /\ \A x \in Handlers : x # h => handlers'[x] = handlers[x]
<1>1. Idle \in Request /\ Idle.pc = "idle" /\ Idle.todo = {} /\ Idle.ordered = 0
  BY DEF Idle, Request
<1>2. /\ handlers'[h] = Idle
      /\ handlers' \in [Handlers -> Request]
      /\ \A x \in Handlers : x # h => handlers'[x] = handlers[x]
  BY <1>1, SetHandler
<1> QED
  BY <1>1, <1>2 DEF AskedNext, SameFile

(* What a request at work knows.                                             *)
LEMMA AtHand ==
  ASSUME Inv, NEW h \in Handlers, handlers[h].pc # "idle"
  PROVE  /\ handlers[h] \in Request /\ handlers[h].row \in Jobs /\ Asked(h)
         /\ handlers[h].todo \subseteq Languages /\ handlers[h].ordered \in Nat
         /\ rows[handlers[h].row].file \in Orders
<1>1. handlers[h] \in Request /\ handlers[h].row \in Jobs /\ Asked(h)
  BY DEF Inv, Base, Asked
<1>2. rows[handlers[h].row].file \in Orders
  BY <1>1, JobRow DEF Inv
<1> QED
  BY <1>1, <1>2 DEF Request

LEMMA Standing ==
  ASSUME Inv
  PROVE  /\ vstatus \in {"PENDING", "IN PROGRESS", "READY"} /\ calls \in 0..MaxCalls
         /\ dropped \subseteq Jobs /\ overlapped \subseteq Orders
         /\ orphaned \subseteq Translations
BY DEF Inv, Base

(* A step of a request that adds no row and orders nothing.                  *)
LEMMA QuietStep ==
  ASSUME Inv, NEW h \in Handlers, HandlerAlone(h), RowsKept, Jobs' = Jobs,
         translations' = translations, calls' = calls, overlapped' = overlapped,
         AskedNext(h), SameFile(h), \A j \in Jobs : RowStep(j),
         vstatus' = vstatus \/ (vstatus' = "READY" /\ (AllCovered \/ OnlyAnError)),
         dropped \subseteq dropped', dropped' \subseteq Jobs,
         orphaned \subseteq orphaned', orphaned' \subseteq Translations,
         handlers[h].pc = "upload" =>
           rows'[handlers[h].row].onS3 \/ handlers[h].row \in dropped',
         handlers[h].pc = "mark" =>
           \/ \E j \in Jobs : rows'[j].translation = handlers[h].ordered
           \/ handlers[h].ordered \in orphaned',
         \/ AtWork' \/ dropped' # {} \/ vstatus' = "READY" \/ ~AllReady'
         \/ /\ handlers[h].pc \notin {"upload", "create", "announce"}
            /\ \A j \in Jobs : rows'[j].status = "READY" => rows[j].status = "READY"
            /\ vstatus' = vstatus
  PROVE  Inv'
<1>1. TranslationsKept /\ Translations' = Translations
  BY SameTranslations DEF Inv
<1>2. /\ vstatus' \in {"PENDING", "IN PROGRESS", "READY"} /\ calls' \in 0..MaxCalls
      /\ overlapped \subseteq overlapped' /\ overlapped' \subseteq Orders
  BY Standing
<1>3. vstatus' = "READY" => vstatus = "READY" \/ AllCovered \/ OnlyAnError
  OBVIOUS
<1>4. \A j \in Jobs' : j \in Jobs \/ Process(j)'
  OBVIOUS
<1>5. \A t \in Translations' : t \in Translations
                              \/ (handlers'[h].pc = "mark" /\ handlers'[h].ordered = t)
  BY <1>1
<1>6. handlers[h].pc = "mark" =>
        \/ handlers'[h] = handlers[h]
        \/ \E j \in Jobs' : rows'[j].translation = handlers[h].ordered
        \/ handlers[h].ordered \in orphaned'
  OBVIOUS
<1>7. handlers[h].pc = "upload" =>
        \/ rows'[handlers[h].row].onS3
        \/ handlers'[h].pc = "upload" /\ handlers'[h].row = handlers[h].row
        \/ handlers[h].row \in dropped'
  OBVIOUS
<1>8. \/ AtWork' \/ dropped' # {} \/ vstatus' = "READY" \/ ~AllReady'
      \/ /\ handlers[h].pc \notin {"upload", "create", "announce"}
         /\ \A j \in Jobs' : rows'[j].status = "READY" => j \in Jobs /\ rows[j].status = "READY"
         /\ vstatus' = vstatus
  OBVIOUS
<1> QED
  BY <1>1, <1>2, <1>3, <1>4, <1>5, <1>6, <1>7, <1>8, HandlerStep

LEMMA FetchFailsKeeps ==
  ASSUME Inv, NEW h \in Handlers, FetchFails(h)
  PROVE  Inv'
<1> DEFINE j == handlers[h].row
<1>1. /\ handlers[h].pc = "fetch" /\ vstatus' = vstatus /\ calls' = calls
      /\ dropped' = dropped /\ overlapped' = overlapped /\ orphaned' = orphaned
      /\ translations' = translations /\ Mark(j, "FAILED")
  BY DEF FetchFails, provider, history
<1>2. j \in Jobs
  BY <1>1, AtHand
<1>3. /\ AskedNext(h) /\ SameFile(h) /\ handlers' \in [Handlers -> Request]
      /\ \A x \in Handlers : x # h => handlers'[x] = handlers[x]
  BY EndHandler DEF FetchFails
<1>4. HandlerAlone(h)
  BY <1>3 DEF FetchFails, HandlerAlone, provider, history
<1>5. /\ RowsKept /\ Jobs' = Jobs
      /\ rows'[j].status = "FAILED" /\ rows'[j].translation = rows[j].translation
      /\ \A i \in Jobs : i # j => RowStep(i)
  BY <1>1, <1>2, Marked DEF Inv
<1>6. RowStep(j)
  BY <1>5 DEF RowStep
<1>7. \A i \in Jobs : RowStep(i)
  BY <1>5, <1>6
<1>8. TranslationsKept /\ Translations' = Translations
  BY <1>1, SameTranslations DEF Inv
<1>9. ~AllReady'
  BY <1>2, <1>5 DEF AllReady
<1> QED
  BY <1>1, <1>3, <1>4, <1>5, <1>7, <1>8, <1>9, Standing, QuietStep

LEMMA ValidateKeeps ==
  ASSUME Inv, NEW h \in Handlers, Validate(h)
  PROVE  Inv'
<1> DEFINE j == handlers[h].row
<1>1. /\ handlers[h].pc = "fetch" /\ vstatus' = vstatus /\ calls' = calls
      /\ dropped' = dropped /\ overlapped' = overlapped /\ orphaned' = orphaned
      /\ translations' = translations
  BY DEF Validate, provider, history
<1>2. handlers[h] \in Request /\ j \in Jobs /\ Asked(h)
  BY <1>1, AtHand
<1>3. PICK s \in {"FAILED", "READY"}, p \in {"upload", "garble"} :
        /\ Mark(j, s) /\ handlers' = [handlers EXCEPT ![h].pc = p]
        /\ s = "READY" <=> p = "upload"
  BY DEF Validate
<1>4. /\ handlers'[h].pc = p /\ handlers'[h].row = j
      /\ AskedNext(h) /\ SameFile(h) /\ handlers' \in [Handlers -> Request]
      /\ \A x \in Handlers : x # h => handlers'[x] = handlers[x]
  <2> DEFINE r == [handlers[h] EXCEPT !.pc = p]
  <2>1. /\ r \in Request /\ r.pc = p /\ r.row = j
        /\ r.ordered = handlers[h].ordered
    BY <1>2 DEF Request
  <2>2. handlers' = [handlers EXCEPT ![h] = r]
    BY <1>3
  <2> HIDE DEF r
  <2>3. /\ handlers'[h] = r /\ handlers' \in [Handlers -> Request]
        /\ \A x \in Handlers : x # h => handlers'[x] = handlers[x]
    BY <2>1, <2>2, SetHandler
  <2>4. Translations' = Translations
    BY <1>1 DEF Translations
  <2>5. AskedNext(h)
    BY <1>1, <1>2, <2>1, <2>3, <2>4 DEF Asked, AskedNext
  <2>6. SameFile(h)
    BY <1>1, <2>1, <2>3 DEF SameFile
  <2> QED
    BY <2>1, <2>3, <2>5, <2>6
<1>5. HandlerAlone(h)
  BY <1>4 DEF Validate, HandlerAlone, provider, history
<1>6. /\ RowsKept /\ Jobs' = Jobs /\ rows'[j].status = s
      /\ rows'[j].translation = rows[j].translation
      /\ \A i \in Jobs : i # j => RowStep(i)
  BY <1>2, <1>3, Marked DEF Inv
<1>7. CASE s = "READY"
  <2>1. Uploading(j)' /\ AtWork'
    BY <1>3, <1>4, <1>7 DEF Uploading, AtWork
  <2>2. RowStep(j)
    BY <1>6, <1>7, <2>1 DEF RowStep
  <2>3. \A i \in Jobs : RowStep(i)
    BY <1>6, <2>2
  <2> QED
    BY <1>1, <1>4, <1>5, <1>6, <2>1, <2>3, Standing, QuietStep
<1>8. CASE s = "FAILED"
  <2>1. RowStep(j)
    BY <1>6, <1>8 DEF RowStep
  <2>2. \A i \in Jobs : RowStep(i)
    BY <1>6, <2>1
  <2>3. ~AllReady'
    BY <1>2, <1>6, <1>8 DEF AllReady
  <2> QED
    BY <1>1, <1>4, <1>5, <1>6, <2>2, <2>3, Standing, QuietStep
<1> QED
  BY <1>7, <1>8

(* What follows an upload, of a transcript or of an error text.              *)
LEMMA GoesOn ==
  ASSUME Inv, NEW h \in Handlers, handlers[h].pc \in {"upload", "garble"}, GoOn(h),
         RowsKept, Translations' = Translations, preferred' = preferred,
         Covered(Source) \/ garbled' # {}
  PROVE  /\ AskedNext(h) /\ SameFile(h) /\ handlers' \in [Handlers -> Request]
         /\ \A x \in Handlers : x # h => handlers'[x] = handlers[x]
         /\ Source \in preferred => AtWork'
<1> DEFINE j == handlers[h].row
<1>1. handlers[h] \in Request /\ j \in Jobs /\ Asked(h) /\ rows[j].lang = Source
  BY AtHand DEF Asked
<1>2. CASE Source \in preferred
  <2> DEFINE p == IF preferred = {Source} THEN "announce" ELSE "create"
             r == [handlers[h] EXCEPT !.pc = p, !.todo = preferred \ {Source}]
  <2>1. preferred \subseteq Languages
    BY DEF Inv, Base
  <2>2. /\ r \in Request /\ r.pc = p /\ r.row = j
        /\ r.ordered = handlers[h].ordered /\ r.todo = preferred \ {Source}
    BY <1>1, <2>1 DEF Request
  <2>3. handlers' = [handlers EXCEPT ![h] = r]
    BY <1>1, <1>2 DEF GoOn, Request
  <2>4. p \in {"announce", "create"} /\ (p = "announce" => preferred = {Source})
    OBVIOUS
  <2> HIDE DEF r, p
  <2>5. /\ handlers'[h] = r /\ handlers' \in [Handlers -> Request]
        /\ \A x \in Handlers : x # h => handlers'[x] = handlers[x]
    BY <2>2, <2>3, SetHandler
  <2>6. preferred = {Source} => AllCovered \/ OnlyAnError'
    BY DEF AllCovered, OnlyAnError
  <2>7. \A l \in preferred \ r.todo : \E i \in Jobs' : rows'[i].lang = l
    <3>1. \A l \in preferred \ r.todo : l = Source
      BY <2>2
    <3>2. j \in Jobs' /\ rows'[j].lang = Source
      BY <1>1 DEF RowsKept
    <3> QED
      BY <3>1, <3>2
  <2>8. AskedNext(h)
    BY <1>1, <2>2, <2>4, <2>5, <2>6, <2>7 DEF Asked, AskedNext
  <2>9. SameFile(h)
    BY <2>2, <2>5 DEF SameFile
  <2>10. AtWork'
    BY <2>2, <2>4, <2>5 DEF AtWork
  <2> QED
    BY <2>5, <2>8, <2>9, <2>10
<1>3. CASE Source \notin preferred
  BY <1>3, EndHandler DEF GoOn
<1> QED
  BY <1>2, <1>3

LEMMA UploadKeeps ==
  ASSUME Inv, NEW h \in Handlers, Upload(h)
  PROVE  Inv'
<1> DEFINE j == handlers[h].row
<1>1. /\ handlers[h].pc = "upload" /\ vstatus' = vstatus /\ calls' = calls
      /\ overlapped' = overlapped /\ orphaned' = orphaned
      /\ translations' = translations /\ preferred' = preferred
      /\ rows' = [rows EXCEPT ![j].onS3 = TRUE] /\ GoOn(h)
      /\ dropped' = IF Source \in preferred THEN dropped ELSE dropped \cup {j}
  BY DEF Upload, provider
<1>2. j \in Jobs /\ rows[j].lang = Source
  BY <1>1, AtHand DEF Asked
<1>3. /\ RowsKept /\ Jobs' = Jobs /\ rows'[j].onS3 /\ \A i \in Jobs : RowStep(i)
  BY <1>1, <1>2, PutOnS3 DEF Inv
<1>4. TranslationsKept /\ Translations' = Translations
  BY <1>1, SameTranslations DEF Inv
<1>5. Covered(Source)
  BY <1>1, <1>2 DEF Covered, Uploading
<1>6. /\ AskedNext(h) /\ SameFile(h) /\ handlers' \in [Handlers -> Request]
      /\ \A x \in Handlers : x # h => handlers'[x] = handlers[x]
      /\ AtWork' \/ dropped' # {}
  BY <1>1, <1>3, <1>4, <1>5, GoesOn
<1>7. HandlerAlone(h)
  BY <1>6 DEF Upload, HandlerAlone, provider
<1>8. dropped \subseteq dropped' /\ dropped' \subseteq Jobs
  BY <1>1, <1>2 DEF Inv, Base
<1> QED
  BY <1>1, <1>3, <1>4, <1>6, <1>7, <1>8, Standing, QuietStep

LEMMA UploadErrorKeeps ==
  ASSUME Inv, NEW h \in Handlers, UploadError(h)
  PROVE  Inv'
<1>1. /\ handlers[h].pc = "garble" /\ vstatus' = vstatus /\ calls' = calls
      /\ dropped' = dropped /\ overlapped' = overlapped /\ orphaned' = orphaned
      /\ translations' = translations /\ preferred' = preferred /\ rows' = rows
      /\ garbled' = garbled \cup {handlers[h].row} /\ GoOn(h)
  BY DEF UploadError, provider, store
<1>2. RowsKept /\ Jobs' = Jobs /\ \A i \in Jobs : RowStep(i)
  BY <1>1, SameRows DEF Inv
<1>3. Translations' = Translations
  BY <1>1 DEF Translations
<1>4. /\ AskedNext(h) /\ SameFile(h) /\ handlers' \in [Handlers -> Request]
      /\ \A x \in Handlers : x # h => handlers'[x] = handlers[x]
  BY <1>1, <1>2, <1>3, GoesOn
<1>5. HandlerAlone(h)
  BY <1>1, <1>4 DEF UploadError, HandlerAlone, provider, store
<1>6. \A i \in Jobs : rows'[i].status = "READY" => rows[i].status = "READY"
  BY <1>1
<1> QED
  BY <1>1, <1>2, <1>4, <1>5, <1>6, Standing, QuietStep

LEMMA GetServicesKeeps ==
  ASSUME Inv, NEW h \in Handlers, GetServices(h)
  PROVE  Inv'
<1>1. /\ handlers[h].pc = "services" /\ vstatus' = vstatus /\ calls' = calls
      /\ dropped' = dropped /\ overlapped' = overlapped /\ orphaned' = orphaned
      /\ translations' = translations /\ rows' = rows
  BY DEF GetServices, store, provider, history
<1>2. handlers[h] \in Request /\ handlers[h].row \in Jobs /\ Asked(h) /\ RowsMade({})
  BY <1>1, AtHand DEF Asked
<1>3. RowsKept /\ Jobs' = Jobs /\ \A i \in Jobs : RowStep(i)
  BY <1>1, SameRows DEF Inv
<1>4. /\ AskedNext(h) /\ SameFile(h) /\ handlers' \in [Handlers -> Request]
      /\ \A x \in Handlers : x # h => handlers'[x] = handlers[x]
  <2> DEFINE r == [handlers[h] EXCEPT !.pc = "order"]
  <2>1. /\ r \in Request /\ r.pc = "order" /\ r.row = handlers[h].row
        /\ r.ordered = handlers[h].ordered
    BY <1>2 DEF Request
  <2>2. handlers' = [handlers EXCEPT ![h] = r]
    BY DEF GetServices
  <2> HIDE DEF r
  <2>3. /\ handlers'[h] = r /\ handlers' \in [Handlers -> Request]
        /\ \A x \in Handlers : x # h => handlers'[x] = handlers[x]
    BY <2>1, <2>2, SetHandler
  <2>4. Translations' = Translations
    BY <1>1 DEF Translations
  <2>5. \A l \in preferred : \E j \in Jobs' : rows'[j].lang = l
    BY <1>1, <1>2, <1>3 DEF RowsMade
  <2>6. AskedNext(h)
    BY <1>2, <2>1, <2>3, <2>4, <2>5 DEF Asked, AskedNext
  <2>7. SameFile(h)
    BY <1>1, <2>1, <2>3 DEF SameFile
  <2> QED
    BY <2>3, <2>6, <2>7
<1>5. HandlerAlone(h)
  BY <1>4 DEF GetServices, HandlerAlone, provider, history, store
<1> QED
  BY <1>1, <1>3, <1>4, <1>5, Standing, QuietStep

LEMMA ServicesFailKeeps ==
  ASSUME Inv, NEW h \in Handlers, ServicesFail(h)
  PROVE  Inv'
<1>1. /\ handlers[h].pc = "services" /\ vstatus' = vstatus /\ calls' = calls
      /\ dropped' = dropped /\ overlapped' = overlapped /\ orphaned' = orphaned
      /\ translations' = translations
  BY DEF ServicesFail, provider, history
<1>2. /\ RowsKept /\ Jobs' = Jobs /\ \A i \in Jobs : RowStep(i)
      /\ \A i \in Jobs : rows'[i].status = "READY" => rows[i].status = "READY"
  <2> DEFINE S == {j \in Jobs : Pending(rows[handlers[h].row].file, j)}
  <2>1. rows' = [j \in Jobs |-> IF j \in S THEN [rows[j] EXCEPT !.status = "FAILED"]
                                ELSE rows[j]]
    BY DEF ServicesFail
  <2> HIDE DEF S
  <2> QED
    BY <2>1, ManyFailed DEF Inv
<1>3. /\ AskedNext(h) /\ SameFile(h) /\ handlers' \in [Handlers -> Request]
      /\ \A x \in Handlers : x # h => handlers'[x] = handlers[x]
  BY EndHandler DEF ServicesFail
<1>4. HandlerAlone(h)
  BY <1>3 DEF ServicesFail, HandlerAlone, provider, history
<1> QED
  BY <1>1, <1>2, <1>3, <1>4, Standing, QuietStep

LEMMA FindKeeps ==
  ASSUME Inv, NEW h \in Handlers, Find(h)
  PROVE  Inv'
<1>1. /\ handlers[h].pc = "order" /\ vstatus' = vstatus /\ calls' = calls
      /\ dropped' = dropped /\ overlapped' = overlapped /\ orphaned' = orphaned
      /\ translations' = translations /\ rows' = rows
  BY DEF Find, store, provider, history
<1>2. handlers[h] \in Request /\ handlers[h].row \in Jobs /\ Asked(h) /\ RowsMade({})
  BY <1>1, AtHand DEF Asked
<1>3. RowsKept /\ Jobs' = Jobs /\ \A i \in Jobs : RowStep(i)
  BY <1>1, SameRows DEF Inv
<1>4. Translations' = Translations
  BY <1>1 DEF Translations
<1>5. \A l \in preferred : \E j \in Jobs' : rows'[j].lang = l
  BY <1>1, <1>2, <1>3 DEF RowsMade
<1>6. /\ AskedNext(h) /\ SameFile(h) /\ handlers' \in [Handlers -> Request]
      /\ \A x \in Handlers : x # h => handlers'[x] = handlers[x]
  <2>1. PICK l \in handlers[h].todo :
          \/ \E j \in Jobs :
               /\ Latest(rows[handlers[h].row].file, l, j)
               /\ handlers' = [handlers EXCEPT ![h].pc = "place", ![h].row = j,
                                 ![h].todo = handlers[h].todo \ {l}]
          \/ handlers' = [handlers EXCEPT ![h] =
               IF handlers[h].todo = {l} THEN Idle
               ELSE [handlers[h] EXCEPT !.todo = handlers[h].todo \ {l}]]
    BY DEF Find
  <2>2. ASSUME NEW j \in Jobs, Latest(rows[handlers[h].row].file, l, j),
               handlers' = [handlers EXCEPT ![h].pc = "place", ![h].row = j,
                              ![h].todo = handlers[h].todo \ {l}]
        PROVE  /\ AskedNext(h) /\ SameFile(h) /\ handlers' \in [Handlers -> Request]
               /\ \A x \in Handlers : x # h => handlers'[x] = handlers[x]
    <3> DEFINE r == [handlers[h] EXCEPT !.pc = "place", !.row = j,
                                        !.todo = handlers[h].todo \ {l}]
    <3>1. j \in Nat
      BY Lengths DEF Inv, Jobs
    <3>2. /\ r \in Request /\ r.pc = "place" /\ r.row = j
          /\ r.ordered = handlers[h].ordered
      BY <1>2, <3>1 DEF Request
    <3>3. handlers' = [handlers EXCEPT ![h] = r]
      BY <1>2, <2>2 DEF Request
    <3> HIDE DEF r
    <3>4. /\ handlers'[h] = r /\ handlers' \in [Handlers -> Request]
          /\ \A x \in Handlers : x # h => handlers'[x] = handlers[x]
      BY <3>2, <3>3, SetHandler
    <3>5. rows[j].status = "PENDING" /\ rows[j].file = rows[handlers[h].row].file
      BY <2>2 DEF Latest, Pending
    <3>6. rows'[j].translation = 0
      BY <1>1, <3>5 DEF Inv, Process
    <3>7. AskedNext(h)
      BY <1>2, <1>4, <1>5, <3>2, <3>4, <3>6 DEF Asked, AskedNext
    <3>8. SameFile(h)
      BY <1>1, <3>2, <3>4, <3>5 DEF SameFile
    <3> QED
      BY <3>4, <3>7, <3>8
  <2>3. CASE handlers' = [handlers EXCEPT ![h] = Idle]
    BY <2>3, EndHandler
  <2>4. CASE handlers' = [handlers EXCEPT ![h] =
                            [handlers[h] EXCEPT !.todo = handlers[h].todo \ {l}]]
    <3> DEFINE r == [handlers[h] EXCEPT !.todo = handlers[h].todo \ {l}]
    <3>1. /\ r \in Request /\ r.pc = "order" /\ r.row = handlers[h].row
          /\ r.ordered = handlers[h].ordered
      BY <1>1, <1>2 DEF Request
    <3>2. handlers' = [handlers EXCEPT ![h] = r]
      BY <2>4
    <3> HIDE DEF r
    <3>3. /\ handlers'[h] = r /\ handlers' \in [Handlers -> Request]
          /\ \A x \in Handlers : x # h => handlers'[x] = handlers[x]
      BY <3>1, <3>2, SetHandler
    <3>4. AskedNext(h)
      BY <1>2, <1>4, <1>5, <3>1, <3>3 DEF Asked, AskedNext
    <3>5. SameFile(h)
      BY <1>1, <3>1, <3>3 DEF SameFile
    <3> QED
      BY <3>3, <3>4, <3>5
  <2> QED
    BY <2>1, <2>2, <2>3, <2>4
<1>7. HandlerAlone(h)
  BY <1>6 DEF Find, HandlerAlone, provider, history, store
<1> QED
  BY <1>1, <1>3, <1>6, <1>7, Standing, QuietStep

(* The next language of a request, or its end.                               *)
LEMMA NextHandler ==
  ASSUME Inv, NEW h \in Handlers, handlers[h].pc \in {"place", "mark"},
         NextLanguage(h), RowsKept, Jobs' = Jobs, translations' = translations
  PROVE  /\ AskedNext(h) /\ SameFile(h) /\ handlers'[h].pc \in {"idle", "order"}
         /\ handlers' \in [Handlers -> Request]
         /\ \A x \in Handlers : x # h => handlers'[x] = handlers[x]
<1>1. CASE handlers[h].todo = {}
  BY <1>1, EndHandler DEF NextLanguage
<1>2. CASE handlers[h].todo # {}
  <2> DEFINE r == [handlers[h] EXCEPT !.pc = "order", !.ordered = 0]
  <2>1. handlers[h] \in Request /\ handlers[h].row \in Jobs /\ RowsMade({})
    BY AtHand DEF Asked
  <2>2. r \in Request /\ r.pc = "order" /\ r.row = handlers[h].row /\ r.ordered = 0
    BY <2>1 DEF Request
  <2>3. handlers' = [handlers EXCEPT ![h] = r]
    BY <1>2 DEF NextLanguage
  <2> HIDE DEF r
  <2>4. /\ handlers'[h] = r /\ handlers' \in [Handlers -> Request]
        /\ \A x \in Handlers : x # h => handlers'[x] = handlers[x]
    BY <2>2, <2>3, SetHandler
  <2>5. \A l \in preferred : \E j \in Jobs' : rows'[j].lang = l
    BY <2>1 DEF RowsMade, RowsKept
  <2>6. AskedNext(h)
    BY <2>1, <2>2, <2>4, <2>5 DEF AskedNext
  <2>7. SameFile(h)
    BY <2>2, <2>4 DEF SameFile
  <2> QED
    BY <2>2, <2>4, <2>6, <2>7
<1> QED
  BY <1>1, <1>2

LEMMA PlaceFailsKeeps ==
  ASSUME Inv, NEW h \in Handlers, PlaceFails(h)
  PROVE  Inv'
<1> DEFINE j == handlers[h].row
<1>1. /\ handlers[h].pc = "place" /\ vstatus' = vstatus /\ calls' = calls
      /\ dropped' = dropped /\ overlapped' = overlapped /\ orphaned' = orphaned
      /\ translations' = translations
  BY DEF PlaceFails, provider, history
<1>2. j \in Jobs /\ (rows[j].translation = 0 \/ rows[j].file \in overlapped)
  BY <1>1, AtHand DEF Asked
<1>3. /\ RowsKept /\ Jobs' = Jobs
      /\ rows'[j].status = "FAILED" /\ rows'[j].translation = 0
      /\ \A i \in Jobs : i # j => RowStep(i)
  BY <1>2, MarkedTranslation DEF PlaceFails, Inv
<1>4. RowStep(j)
  BY <1>2, <1>3 DEF RowStep
<1>5. /\ AskedNext(h) /\ SameFile(h) /\ handlers' \in [Handlers -> Request]
      /\ \A x \in Handlers : x # h => handlers'[x] = handlers[x]
  BY <1>1, <1>3, NextHandler DEF PlaceFails
<1>6. HandlerAlone(h)
  BY <1>5 DEF PlaceFails, HandlerAlone, provider, history
<1>7. ~AllReady'
  BY <1>2, <1>3 DEF AllReady
<1>8. \A i \in Jobs : RowStep(i)
  BY <1>3, <1>4
<1> QED
  BY <1>1, <1>3, <1>5, <1>6, <1>7, <1>8, Standing, QuietStep

LEMMA MarkOrderedKeeps ==
  ASSUME Inv, NEW h \in Handlers, MarkOrdered(h)
  PROVE  Inv'
<1> DEFINE j == handlers[h].row
<1>1. /\ handlers[h].pc = "mark" /\ vstatus' = vstatus /\ calls' = calls
      /\ dropped' = dropped /\ overlapped' = overlapped /\ orphaned' = orphaned
      /\ translations' = translations
  BY DEF MarkOrdered, provider, history
<1>2. j \in Jobs /\ handlers[h].ordered \in Nat
  BY <1>1, AtHand
<1>3. /\ RowsKept /\ Jobs' = Jobs
      /\ rows'[j].status = "IN PROGRESS" /\ rows'[j].translation = handlers[h].ordered
      /\ \A i \in Jobs : i # j => RowStep(i)
  <2>1. Base /\ MarkTranslation(j, "IN PROGRESS", handlers[h].ordered)
    BY DEF MarkOrdered, Inv
  <2> HIDE DEF j
  <2> QED
    BY <1>2, <2>1, MarkedTranslation
<1>4. /\ AskedNext(h) /\ SameFile(h) /\ handlers'[h].pc \in {"idle", "order"}
      /\ handlers' \in [Handlers -> Request]
      /\ \A x \in Handlers : x # h => handlers'[x] = handlers[x]
  BY <1>1, <1>3, NextHandler DEF MarkOrdered
<1>5. RowStep(j)
  <2>1. handlers'[h] # handlers[h]
    BY <1>1, <1>4
  <2> QED
    BY <1>1, <1>3, <2>1 DEF RowStep
<1>6. HandlerAlone(h)
  BY <1>4 DEF MarkOrdered, HandlerAlone, provider, history
<1>7. ~AllReady'
  BY <1>2, <1>3 DEF AllReady
<1>8. \A i \in Jobs : RowStep(i)
  BY <1>3, <1>5
<1> QED
  BY <1>1, <1>2, <1>3, <1>4, <1>6, <1>7, <1>8, Standing, QuietStep

LEMMA AnnounceKeeps ==
  ASSUME Inv, NEW h \in Handlers, Announce(h)
  PROVE  Inv'
<1>1. /\ handlers[h].pc = "announce" /\ vstatus' = "READY" /\ calls' = calls
      /\ dropped' = dropped /\ overlapped' = overlapped /\ orphaned' = orphaned
      /\ translations' = translations /\ rows' = rows
  BY DEF Announce, provider, history
<1>2. AllCovered \/ OnlyAnError
  BY <1>1, AtHand DEF Asked
<1>3. RowsKept /\ Jobs' = Jobs /\ \A i \in Jobs : RowStep(i)
  BY <1>1, SameRows DEF Inv
<1>4. /\ AskedNext(h) /\ SameFile(h) /\ handlers' \in [Handlers -> Request]
      /\ \A x \in Handlers : x # h => handlers'[x] = handlers[x]
  BY EndHandler DEF Announce
<1>5. HandlerAlone(h)
  BY <1>4 DEF Announce, HandlerAlone, provider, history
<1> QED
  BY <1>1, <1>2, <1>3, <1>4, <1>5, Standing, QuietStep

LEMMA DieKeeps ==
  ASSUME Inv, NEW h \in Handlers, Die(h)
  PROVE  Inv'
<1> DEFINE j == handlers[h].row
           late == \/ handlers[h].pc = "upload"
                   \/ handlers[h].pc \in {"create", "announce"} /\ rows[j].onS3
<1>1. /\ handlers[h].pc # "idle" /\ vstatus' = vstatus /\ calls' = calls
      /\ overlapped' = overlapped
      /\ translations' = translations /\ rows' = rows
      /\ dropped' = IF late THEN dropped \cup {j} ELSE dropped
      /\ orphaned' = IF handlers[h].pc = "mark"
                     THEN orphaned \cup {handlers[h].ordered} ELSE orphaned
  BY DEF Die, store, provider
<1>2. /\ j \in Jobs
      /\ handlers[h].pc = "mark" => handlers[h].ordered \in Translations
  BY <1>1, AtHand DEF Asked
<1>3. RowsKept /\ Jobs' = Jobs /\ \A i \in Jobs : RowStep(i)
  BY <1>1, SameRows DEF Inv
<1>4. /\ AskedNext(h) /\ SameFile(h) /\ handlers' \in [Handlers -> Request]
      /\ \A x \in Handlers : x # h => handlers'[x] = handlers[x]
  BY EndHandler DEF Die
<1>5. HandlerAlone(h)
  BY <1>4 DEF Die, HandlerAlone, provider, history, store
<1>6. /\ dropped \subseteq dropped' /\ dropped' \subseteq Jobs
      /\ late => j \in dropped'
  BY <1>1, <1>2, Standing
<1>7. /\ orphaned \subseteq orphaned' /\ orphaned' \subseteq Translations
      /\ handlers[h].pc = "mark" => handlers[h].ordered \in orphaned'
  BY <1>1, <1>2, Standing
<1>8. /\ late => dropped' # {}
      /\ \A i \in Jobs : rows'[i].status = "READY" => rows[i].status = "READY"
  BY <1>1, <1>6
<1>9. ASSUME handlers[h].pc \in {"create", "announce"}, ~late, AllReady'
      PROVE  AtWork' \/ dropped' # {}
  <2>1. rows[j].status = "READY" /\ ~rows[j].onS3
    BY <1>1, <1>2, <1>3, <1>9 DEF AllReady
  <2>2. Uploading(j) \/ j \in dropped
    BY <1>2, <2>1 DEF Inv, Process
  <2>3. ASSUME NEW x \in Handlers, handlers[x].pc = "upload"
        PROVE  AtWork'
    BY <1>4, <1>9, <2>3 DEF AtWork
  <2>4. ASSUME NEW x \in Sweeps, sweeps[x].pc = "upload"
        PROVE  AtWork'
    BY <1>5, <2>4 DEF AtWork, HandlerAlone
  <2> QED
    BY <1>6, <2>2, <2>3, <2>4 DEF Uploading
<1> QED
  <2>1. \/ AtWork' \/ dropped' # {} \/ ~AllReady'
        \/ handlers[h].pc \notin {"upload", "create", "announce"}
    BY <1>8, <1>9
  <2>2. handlers[h].pc = "upload" => j \in dropped'
    BY <1>6
  <2> HIDE DEF late
  <2> QED
    BY <1>1, <1>3, <1>4, <1>5, <1>6, <1>7, <1>8, <2>1, <2>2, Standing, QuietStep

LEMMA CreateRowKeeps ==
  ASSUME Inv, NEW h \in Handlers, CreateRow(h)
  PROVE  Inv'
<1> DEFINE j == handlers[h].row
<1>1. /\ handlers[h].pc = "create" /\ vstatus' = vstatus /\ calls' = calls
      /\ dropped' = dropped /\ overlapped' = overlapped /\ orphaned' = orphaned
      /\ translations' = translations /\ orders' = orders
  BY DEF CreateRow, provider, history
<1>2. /\ handlers[h] \in Request /\ j \in Jobs /\ Asked(h)
      /\ handlers[h].todo \subseteq Languages /\ rows[j].file \in Orders
      /\ RowsMade(handlers[h].todo)
  BY <1>1, AtHand DEF Asked
<1>3. TranslationsKept /\ Translations' = Translations
  BY <1>1, SameTranslations DEF Inv
<1>4. PICK l \in handlers[h].todo :
        /\ rows' = Append(rows, [file |-> rows[j].file, lang |-> l, translation |-> 0,
                                 onS3 |-> FALSE, status |-> "PENDING"])
        /\ handlers' = [handlers EXCEPT
             ![h].pc = IF handlers[h].todo = {l} THEN "services" ELSE "create",
             ![h].todo = IF handlers[h].todo = {l}
                         THEN preferred \ {Source} ELSE handlers[h].todo \ {l}]
  BY DEF CreateRow
<1> DEFINE r == [file |-> rows[j].file, lang |-> l, translation |-> 0,
                 onS3 |-> FALSE, status |-> "PENDING"]
<1>5. /\ r \in Row /\ r.file = rows[j].file /\ r.lang = l /\ r.translation = 0
      /\ r.status = "PENDING"
  BY <1>2, <1>4 DEF Row
<1>6. rows' = Append(rows, r)
  BY <1>4
<1> HIDE DEF r
<1>7. PICK n : /\ n \notin Jobs /\ Jobs' = Jobs \cup {n} /\ rows'[n] = r
               /\ rows' \in Seq(Row) /\ \A i \in Jobs : rows'[i] = rows[i]
  BY <1>5, <1>6, AddedRow DEF Inv
<1>8. RowsKept /\ \A i \in Jobs : RowStep(i)
  BY <1>7 DEF RowsKept, RowStep
<1>9. Process(n)'
  <2>1. orders'[rows'[n].file] = "done"
    BY <1>1, <1>2, <1>5, <1>7 DEF Inv, Process
  <2>2. rows'[n].translation = 0 /\ rows'[n].status = "PENDING"
    BY <1>5, <1>7
  <2> QED
    BY <2>1, <2>2 DEF Process
<1>10. \A i \in Jobs' : i \in Jobs \/ Process(i)'
  BY <1>7, <1>9
<1>11. /\ AskedNext(h) /\ SameFile(h) /\ handlers' \in [Handlers -> Request]
       /\ \A x \in Handlers : x # h => handlers'[x] = handlers[x]
  <2> DEFINE last == handlers[h].todo = {l}
             p == IF last THEN "services" ELSE "create"
             t == IF last THEN preferred \ {Source} ELSE handlers[h].todo \ {l}
             q == [handlers[h] EXCEPT !.pc = p, !.todo = t]
  <2>1. preferred \subseteq Languages
    BY DEF Inv, Base
  <2>2. p \in {"services", "create"} /\ t \subseteq Languages
        /\ (p = "services" => handlers[h].todo = {l})
        /\ (p = "create" => t = handlers[h].todo \ {l})
    BY <1>2, <2>1
  <2>3. handlers' = [handlers EXCEPT ![h].pc = p, ![h].todo = t]
    BY <1>4
  <2> HIDE DEF p, t
  <2>4. /\ q \in Request /\ q.pc = p /\ q.row = j
        /\ q.ordered = handlers[h].ordered /\ q.todo = t
    BY <1>2, <2>2 DEF Request
  <2>5. handlers' = [handlers EXCEPT ![h] = q]
    BY <1>2, <2>3 DEF Request
  <2> HIDE DEF q
  <2>6. /\ handlers'[h] = q /\ handlers' \in [Handlers -> Request]
        /\ \A x \in Handlers : x # h => handlers'[x] = handlers[x]
    BY <2>4, <2>5, SetHandler
  <2>7. \A k \in preferred \ (handlers[h].todo \ {l}) : \E i \in Jobs' : rows'[i].lang = k
    <3>1. ASSUME NEW k \in preferred, k \notin handlers[h].todo
          PROVE  \E i \in Jobs' : rows'[i].lang = k
      BY <1>2, <1>7, <3>1 DEF RowsMade
    <3>2. n \in Jobs' /\ rows'[n].lang = l
      BY <1>5, <1>7
    <3> QED
      BY <3>1, <3>2
  <2>8. p = "services" => \A k \in preferred : \E i \in Jobs' : rows'[i].lang = k
    BY <2>2, <2>7
  <2>9. p = "create" => \A k \in preferred \ t : \E i \in Jobs' : rows'[i].lang = k
    BY <2>2, <2>7
  <2>10. AskedNext(h)
    BY <1>2, <1>3, <2>2, <2>4, <2>6, <2>8, <2>9 DEF Asked, AskedNext
  <2>11. SameFile(h)
    BY <1>1, <2>4, <2>6 DEF SameFile
  <2> QED
    BY <2>6, <2>10, <2>11
<1>12. HandlerAlone(h)
  BY <1>11 DEF CreateRow, HandlerAlone, provider, history
<1>13. ~AllReady'
  BY <1>5, <1>7 DEF AllReady
<1> QED
  BY <1>1, <1>3, <1>8, <1>10, <1>11, <1>12, <1>13, Standing, HandlerStep

LEMMA PlaceKeeps ==
  ASSUME Inv, NEW h \in Handlers, Place(h)
  PROVE  Inv'
<1> DEFINE j == handlers[h].row
           n == Len(translations) + 1
           e == [file |-> rows[j].file, lang |-> rows[j].lang]
<1>1. /\ handlers[h].pc = "place" /\ vstatus' = vstatus /\ calls' = calls
      /\ dropped' = dropped /\ overlapped' = overlapped /\ orphaned' = orphaned
      /\ rows' = rows /\ translations' = Append(translations, e)
  BY DEF Place, store, history
<1>2. /\ handlers[h] \in Request /\ j \in Jobs /\ Asked(h) /\ RowsMade({})
      /\ rows[j].translation = 0 \/ rows[j].file \in overlapped
  BY <1>1, AtHand DEF Asked
<1>3. RowsKept /\ Jobs' = Jobs /\ \A i \in Jobs : RowStep(i)
  BY <1>1, SameRows DEF Inv
<1>4. e \in [file : Orders, lang : Languages] /\ e.file = rows[j].file
  BY <1>2, JobRow DEF Inv
<1> HIDE DEF e
<1>5. /\ translations' \in Seq([file : Orders, lang : Languages])
      /\ Translations' = Translations \cup {n} /\ n \in Nat
      /\ \A t \in Translations : translations'[t] = translations[t]
      /\ translations'[n] = e
  <2> DEFINE T == [file : Orders, lang : Languages]
  <2>1. translations \in Seq(T) /\ Len(translations) \in Nat /\ e \in T
    BY <1>4, Lengths DEF Inv, Base
  <2> HIDE DEF T
  <2>2. /\ translations' \in Seq(T) /\ Len(translations') = Len(translations) + 1
        /\ \A i \in 1..Len(translations) : translations'[i] = translations[i]
        /\ translations'[Len(translations) + 1] = e
    BY <1>1, <2>1, AppendProperties
  <2>3. Translations' = Translations \cup {n} /\ n \in Nat
    BY <2>1, <2>2, OneMore DEF Translations
  <2> QED
    BY <2>2, <2>3 DEF T, Translations
<1> HIDE DEF n
<1>6. TranslationsKept
  BY <1>5 DEF TranslationsKept
<1>7. /\ handlers'[h].pc = "mark" /\ handlers'[h].ordered = n
      /\ AskedNext(h) /\ SameFile(h) /\ handlers' \in [Handlers -> Request]
      /\ \A x \in Handlers : x # h => handlers'[x] = handlers[x]
  <2> DEFINE q == [handlers[h] EXCEPT !.pc = "mark", !.ordered = n]
  <2>1. q \in Request /\ q.pc = "mark" /\ q.row = j /\ q.ordered = n
    BY <1>2, <1>5 DEF Request
  <2>2. handlers' = [handlers EXCEPT ![h] = q]
    BY <1>2 DEF Place, Request, n
  <2> HIDE DEF q
  <2>3. /\ handlers'[h] = q /\ handlers' \in [Handlers -> Request]
        /\ \A x \in Handlers : x # h => handlers'[x] = handlers[x]
    BY <2>1, <2>2, SetHandler
  <2>4. \A l \in preferred : \E i \in Jobs' : rows'[i].lang = l
    BY <1>1, <1>2, <1>3 DEF RowsMade
  <2>5. AskedNext(h)
    BY <1>1, <1>2, <1>4, <1>5, <2>1, <2>3, <2>4 DEF AskedNext
  <2>6. SameFile(h)
    BY <1>1, <2>1, <2>3 DEF SameFile
  <2> QED
    BY <2>1, <2>3, <2>5, <2>6
<1>8. HandlerAlone(h)
  BY <1>7 DEF Place, HandlerAlone, store, history
<1>9. \A t \in Translations' : t \in Translations
                               \/ (handlers'[h].pc = "mark" /\ handlers'[h].ordered = t)
  BY <1>5, <1>7
<1>10. /\ \A i \in Jobs' : i \in Jobs \/ Process(i)'
       /\ \A i \in Jobs' : rows'[i].status = "READY" => i \in Jobs /\ rows[i].status = "READY"
  BY <1>1, <1>3
<1> QED
  BY <1>1, <1>3, <1>6, <1>7, <1>8, <1>9, <1>10, Standing, HandlerStep

LEMMA HandlerKeeps ==
  ASSUME Inv, NEW h \in Handlers, HandlerNext(h)
  PROVE  Inv'
BY FetchFailsKeeps, ValidateKeeps, UploadKeeps, UploadErrorKeeps, CreateRowKeeps, GetServicesKeeps,
   ServicesFailKeeps, FindKeeps, PlaceKeeps, PlaceFailsKeeps, MarkOrderedKeeps,
   AnnounceKeeps, DieKeeps
DEF HandlerNext

-----------------------------------------------------------------------------
(* 3Play calls.                                                              *)
LEMMA UnknownKeeps ==
  ASSUME Inv, NEW h \in Handlers, NEW o \in Orders, Unknown(h, o)
  PROVE  Inv'
<1>1. /\ vstatus' = vstatus /\ rows' = rows /\ translations' = translations
      /\ handlers' = handlers /\ dropped' = dropped /\ overlapped' = overlapped
      /\ orphaned' = orphaned /\ handlers[h].pc = "idle"
  BY DEF Unknown, Called, store, history
<1>2. RowsKept /\ Jobs' = Jobs /\ \A i \in Jobs : RowStep(i)
  BY <1>1, SameRows DEF Inv
<1>3. TranslationsKept /\ Translations' = Translations
  BY <1>1, SameTranslations DEF Inv
<1>4. HandlerAlone(h)
  BY <1>1 DEF Unknown, HandlerAlone, store, history, Inv, Base
<1>5. SameFile(h)
  BY <1>1 DEF SameFile
<1>6. calls' \in 0..MaxCalls
  BY OneCall DEF Unknown, Called, Inv, Base
<1>7. /\ \A i \in Jobs' : i \in Jobs \/ Process(i)'
      /\ \A i \in Jobs' : rows'[i].status = "READY" => i \in Jobs /\ rows[i].status = "READY"
  BY <1>1, <1>2
<1> QED
  BY <1>1, <1>2, <1>3, <1>4, <1>5, <1>6, <1>7, Standing, HandlerStep

LEMMA RefuseKeeps ==
  ASSUME Inv, NEW h \in Handlers, NEW o \in Orders, Refuse(h, o)
  PROVE  Inv'
<1>1. /\ vstatus' = vstatus /\ translations' = translations
      /\ handlers' = handlers /\ dropped' = dropped /\ overlapped' = overlapped
      /\ orphaned' = orphaned /\ handlers[h].pc = "idle"
  BY DEF Refuse, Called, history
<1>2. PICK j \in Jobs : Mark(j, "FAILED")
  BY DEF Refuse
<1>3. /\ RowsKept /\ Jobs' = Jobs
      /\ rows'[j].status = "FAILED" /\ rows'[j].translation = rows[j].translation
      /\ \A i \in Jobs : i # j => RowStep(i)
  BY <1>2, Marked DEF Inv
<1>4. RowStep(j)
  BY <1>3 DEF RowStep
<1>5. TranslationsKept /\ Translations' = Translations
  BY <1>1, SameTranslations DEF Inv
<1>6. HandlerAlone(h)
  BY <1>1 DEF Refuse, HandlerAlone, history, Inv, Base
<1>7. SameFile(h)
  BY <1>1 DEF SameFile
<1>8. calls' \in 0..MaxCalls
  BY OneCall DEF Refuse, Called, Inv, Base
<1>9. ~AllReady'
  BY <1>3 DEF AllReady
<1>10. /\ \A i \in Jobs : RowStep(i)
       /\ \A i \in Jobs' : i \in Jobs \/ Process(i)'
  BY <1>3, <1>4
<1> QED
  BY <1>1, <1>3, <1>5, <1>6, <1>7, <1>8, <1>9, <1>10, Standing, HandlerStep

LEMMA ReceiveKeeps ==
  ASSUME Inv, NEW h \in Handlers, NEW o \in Orders, Receive(h, o)
  PROVE  Inv'
<1>1. /\ vstatus' = vstatus /\ rows' = rows /\ translations' = translations
      /\ dropped' = dropped /\ orphaned' = orphaned /\ handlers[h].pc = "idle"
      /\ overlapped' = IF Busy(o) THEN overlapped \cup {o} ELSE overlapped
  BY DEF Receive, Called, store
<1>2. RowsKept /\ Jobs' = Jobs /\ \A i \in Jobs : RowStep(i)
  BY <1>1, SameRows DEF Inv
<1>3. TranslationsKept /\ Translations' = Translations
  BY <1>1, SameTranslations DEF Inv
<1>4. PICK j \in Jobs :
        /\ SourceRow(j, o)
        /\ handlers' = [handlers EXCEPT
             ![h] = [pc |-> "fetch", row |-> j, todo |-> {}, ordered |-> 0]]
  BY DEF Receive
<1> DEFINE r == [pc |-> "fetch", row |-> j, todo |-> {}, ordered |-> 0]
<1>5. r \in Request /\ r.pc = "fetch" /\ r.row = j /\ r.ordered = 0
  <2>1. j \in Nat
    BY Lengths DEF Inv, Jobs
  <2> QED
    BY <2>1 DEF Request
<1>6. handlers' = [handlers EXCEPT ![h] = r]
  BY <1>4
<1> HIDE DEF r
<1>7. /\ handlers'[h] = r /\ handlers' \in [Handlers -> Request]
      /\ \A x \in Handlers : x # h => handlers'[x] = handlers[x]
  BY <1>5, <1>6, SetHandler
<1>8. rows[j].file = o /\ rows[j].lang = Source
  BY <1>4 DEF SourceRow
<1>9. AskedNext(h)
  BY <1>5, <1>7, <1>8 DEF AskedNext
<1>10. Alone'
  <2> DEFINE F(x) == rows[handlers'[x].row].file
  <2>1. ASSUME NEW x \in Handlers, x # h, handlers[x].pc # "idle",
               rows[handlers[x].row].file = o
        PROVE  o \in overlapped'
    BY <1>1, <2>1 DEF Busy
  <2>2. F(h) = o
    BY <1>5, <1>7, <1>8
  <2>3. ASSUME NEW x \in Handlers, NEW y \in Handlers, x # y,
               handlers'[x].pc # "idle", handlers'[y].pc # "idle", F(x) = F(y)
        PROVE  F(y) \in overlapped'
    <3>1. CASE x = h
      BY <1>7, <2>1, <2>2, <2>3, <3>1
    <3>2. CASE y = h
      BY <1>7, <2>1, <2>2, <2>3, <3>2
    <3>3. CASE x # h /\ y # h
      <4>1. rows[handlers[y].row].file \in overlapped
        BY <1>7, <2>3, <3>3 DEF Inv, Alone
      <4> QED
        BY <1>1, <1>7, <3>3, <4>1
    <3> QED
      BY <3>1, <3>2, <3>3
  <2> QED
    BY <1>1, <2>3 DEF Alone
<1>11. HandlerAlone(h)
  BY <1>7 DEF Receive, HandlerAlone, store
<1>12. calls' \in 0..MaxCalls
  BY OneCall DEF Receive, Called, Inv, Base
<1>13. /\ \A i \in Jobs' : i \in Jobs \/ Process(i)'
       /\ \A i \in Jobs' : rows'[i].status = "READY" => i \in Jobs /\ rows[i].status = "READY"
  BY <1>1, <1>2
<1>14. overlapped \subseteq overlapped' /\ overlapped' \subseteq Orders
  BY <1>1, Standing
<1> QED
  BY <1>1, <1>2, <1>3, <1>9, <1>10, <1>11, <1>12, <1>13, <1>14, Standing, HandlerStep

LEMMA CallKeeps ==
  ASSUME Inv, NEW h \in Handlers, NEW o \in Orders, CallNext(h, o)
  PROVE  Inv'
BY UnknownKeeps, RefuseKeeps, ReceiveKeeps DEF CallNext

-----------------------------------------------------------------------------
(* A step of a delivery.                                                     *)
LEMMA DeliveryStep ==
  ASSUME Inv, NEW o \in Orders, NEW p \in OrderStep \ {"none"},
         orders' = [orders EXCEPT ![o] = p], orders[o] = "done" => p = "done",
         UNCHANGED <<preferred, translations, calls, handlers, sweeps, retrievals, history>>,
         accepted' \subseteq Orders, RowsKept, \A j \in Jobs : RowStep(j),
         \A j \in Jobs' : j \in Jobs \/ Process(j)',
         vstatus' \in {"IN PROGRESS", vstatus},
         \/ ~AllReady'
         \/ \E x \in Orders : orders'[x] # "none" /\ \A j \in Jobs' : rows'[j].file # x
         \/ vstatus' = vstatus /\ Jobs' = Jobs
            /\ \A j \in Jobs : rows'[j].status = "READY" => rows[j].status = "READY"
  PROVE  Inv'
<1>1. orders \in [Orders -> OrderStep]
  BY DEF Inv, Base
<1>2. /\ preferred' = preferred /\ translations' = translations /\ handlers' = handlers
      /\ sweeps' = sweeps /\ dropped' = dropped /\ overlapped' = overlapped
      /\ orphaned' = orphaned /\ calls' = calls /\ retrievals' = retrievals
      /\ garbled' = garbled
  BY DEF history
<1>3. /\ orders' \in [Orders -> OrderStep]
      /\ \A x \in Orders : /\ orders[x] = "done" => orders'[x] = "done"
                           /\ orders[x] # "none" => orders'[x] # "none"
  BY <1>1
<1>4. Frame
  BY <1>2, <1>3 DEF Frame, RowsKept, Uploading, Translations
<1>5. Base'
  BY <1>2, <1>3 DEF Inv, Base, RowsKept, Translations
<1>6. Alone'
  <2>1. \A x \in Handlers : handlers'[x].pc # "idle" =>
          /\ handlers[x].pc # "idle"
          /\ rows'[handlers'[x].row].file = rows[handlers[x].row].file
    BY <1>2 DEF Inv, Asked, RowsKept
  <2> QED
    BY <1>4, <2>1, AloneKept
<1>7. OrdersTracked'
  <2>1. Translations' \ Translations = {} /\ \A h \in Handlers : handlers'[h] = handlers[h]
    BY <1>2 DEF Translations
  <2> QED
    BY <1>4, <2>1, TrackedKept
<1>8. LastRetrievalAnnounces'
  <2>1. CASE ~AllReady'
    BY <2>1 DEF LastRetrievalAnnounces
  <2>2. CASE \E x \in Orders : orders'[x] # "none" /\ \A j \in Jobs' : rows'[j].file # x
    BY <2>2 DEF LastRetrievalAnnounces, Rowless
  <2>3. CASE vstatus' = vstatus /\ Jobs' = Jobs
             /\ \A j \in Jobs : rows'[j].status = "READY" => rows[j].status = "READY"
    <3>1. AtWork => AtWork'
      BY <1>2 DEF AtWork
    <3> QED
      BY <1>4, <1>5, <2>3, <3>1, LastKept
  <2> QED
    BY <2>1, <2>2, <2>3
<1>9. vstatus' = "READY" => vstatus = "READY"
  OBVIOUS
<1>10. /\ \A x \in Handlers : handlers'[x] = handlers[x]
       /\ \A x \in Sweeps : sweeps'[x] = sweeps[x]
  BY <1>2
<1> QED
  BY <1>4, <1>5, <1>6, <1>7, <1>8, <1>9, <1>10, Step

LEMMA StartKeeps ==
  ASSUME Inv, NEW o \in Orders, Start(o)
  PROVE  Inv'
<1>1. /\ orders[o] = "none" /\ vstatus' = "IN PROGRESS"
      /\ orders' = [orders EXCEPT ![o] = "submit"] /\ rows' = rows
      /\ accepted' = accepted
      /\ UNCHANGED <<preferred, translations, calls, handlers, sweeps, retrievals, history>>
  BY DEF Start, provider
<1>2. RowsKept /\ Jobs' = Jobs /\ \A i \in Jobs : RowStep(i)
  BY <1>1, SameRows DEF Inv
<1>3. orders'[o] # "none" /\ \A j \in Jobs' : rows'[j].file # o
  <2>1. orders'[o] = "submit"
    BY <1>1 DEF Inv, Base
  <2>2. \A j \in Jobs : orders[rows[j].file] = "done"
    BY DEF Inv, Process
  <2> QED
    BY <1>1, <1>2, <2>1, <2>2
<1>4. "submit" \in OrderStep \ {"none"} /\ accepted' \subseteq Orders
  BY <1>1 DEF OrderStep, Inv, Base
<1>5. \A j \in Jobs' : j \in Jobs \/ Process(j)'
  BY <1>2
<1>6. \E x \in Orders : orders'[x] # "none" /\ \A j \in Jobs' : rows'[j].file # x
  BY <1>3
<1> QED
  BY <1>1, <1>2, <1>4, <1>5, <1>6, DeliveryStep

LEMMA SubmitKeeps ==
  ASSUME Inv, NEW o \in Orders, Submit(o) \/ SubmitFails(o)
  PROVE  Inv'
<1>1. PICK p \in {"row", "done"} :
        /\ orders[o] = "submit" /\ vstatus' = vstatus
        /\ orders' = [orders EXCEPT ![o] = p] /\ rows' = rows
        /\ accepted' \in {accepted, accepted \cup {o}}
        /\ UNCHANGED <<preferred, translations, calls, handlers, sweeps, retrievals, history>>
  BY DEF Submit, SubmitFails, store
<1>2. RowsKept /\ Jobs' = Jobs /\ \A i \in Jobs : RowStep(i)
  BY <1>1, SameRows DEF Inv
<1>3. p \in OrderStep \ {"none"} /\ accepted' \subseteq Orders
  BY <1>1 DEF OrderStep, Inv, Base
<1>4. /\ \A j \in Jobs' : j \in Jobs \/ Process(j)'
      /\ \A j \in Jobs : rows'[j].status = "READY" => rows[j].status = "READY"
  BY <1>1, <1>2
<1> QED
  BY <1>1, <1>2, <1>3, <1>4, DeliveryStep

LEMMA SaveRowKeeps ==
  ASSUME Inv, NEW o \in Orders, SaveRow(o)
  PROVE  Inv'
<1> DEFINE r == [file |-> o, lang |-> Source, translation |-> 0,
                 onS3 |-> FALSE, status |-> "IN PROGRESS"]
<1>1. /\ orders[o] = "row" /\ vstatus' = vstatus
      /\ orders' = [orders EXCEPT ![o] = "done"] /\ rows' = Append(rows, r)
      /\ accepted' = accepted
      /\ UNCHANGED <<preferred, translations, calls, handlers, sweeps, retrievals, history>>
  BY DEF SaveRow, provider
<1>2. /\ r \in Row /\ r.file = o /\ r.translation = 0 /\ r.status = "IN PROGRESS"
  BY DEF Row
<1> HIDE DEF r
<1>3. PICK n : /\ n \notin Jobs /\ Jobs' = Jobs \cup {n} /\ rows'[n] = r
               /\ rows' \in Seq(Row) /\ \A i \in Jobs : rows'[i] = rows[i]
  BY <1>1, <1>2, AddedRow DEF Inv
<1>4. RowsKept /\ \A i \in Jobs : RowStep(i)
  BY <1>3 DEF RowsKept, RowStep
<1>5. Process(n)'
  <2>1. orders'[o] = "done"
    BY <1>1 DEF Inv, Base
  <2> QED
    BY <1>2, <1>3, <2>1 DEF Process
<1>6. \A j \in Jobs' : j \in Jobs \/ Process(j)'
  BY <1>3, <1>5
<1>7. ~AllReady'
  BY <1>2, <1>3 DEF AllReady
<1>8. "done" \in OrderStep \ {"none"} /\ accepted' \subseteq Orders
  BY <1>1 DEF OrderStep, Inv, Base
<1> QED
  BY <1>1, <1>4, <1>6, <1>7, <1>8, DeliveryStep

-----------------------------------------------------------------------------
(* What TranscriptPromise is about beyond the rows there are: an upload puts *)
(* one row on S3, and every other step leaves S3 alone and only adds rows of *)
(* a file 3Play has.                                                         *)
RowsOnly ==
  /\ RowsKept
  /\ \A i \in Jobs : rows'[i].onS3 = rows[i].onS3
  /\ \A i \in Jobs' : i \in Jobs \/ (~rows'[i].onS3 /\ rows'[i].file \in accepted)

LEMMA OnlyOld ==
  ASSUME Inv, RowsKept, Jobs' = Jobs, \A i \in Jobs : rows'[i].onS3 = rows[i].onS3
  PROVE  RowsOnly
BY DEF RowsOnly

LEMMA OnlySame ==
  ASSUME Inv, UNCHANGED rows
  PROVE  RowsOnly
BY SameRows, OnlyOld DEF Inv

LEMMA OnlyMarked ==
  ASSUME Inv, NEW j \in Jobs, NEW s \in {"FAILED", "READY"}, Mark(j, s)
  PROVE  RowsOnly
BY Marked, OnlyOld DEF Inv

LEMMA OnlyMarkedTranslation ==
  ASSUME Inv, NEW j \in Jobs, NEW s \in {"IN PROGRESS", "FAILED", "READY"},
         NEW t \in Nat, MarkTranslation(j, s, t)
  PROVE  RowsOnly
<1>1. Base
  BY DEF Inv
<1>2. RowsKept /\ Jobs' = Jobs
  BY ONLY <1>1, MarkTranslation(j, s, t), MarkedTranslation
<1>3. \A i \in Jobs : rows'[i].onS3 = rows[i].onS3
  BY ONLY <1>1, MarkTranslation(j, s, t), MarkedOnS3
<1> QED
  BY <1>2, <1>3, OnlyOld

LEMMA OnlyAdded ==
  ASSUME Inv, NEW r \in Row, rows' = Append(rows, r), ~r.onS3, r.file \in accepted
  PROVE  RowsOnly
<1>1. PICK n : /\ n \notin Jobs /\ Jobs' = Jobs \cup {n} /\ rows'[n] = r
               /\ rows' \in Seq(Row) /\ \A i \in Jobs : rows'[i] = rows[i]
  BY AddedRow DEF Inv
<1> QED
  BY <1>1 DEF RowsOnly, RowsKept

(* The rows at a step of a delivery, of 3Play, of a request, of a retrieval. *)
LEMMA OrderRows ==
  ASSUME Inv, OrderedFirst, NEW o \in Orders, OrderNext(o)
  PROVE  RowsOnly
<1>1. CASE UNCHANGED rows
  BY <1>1, OnlySame
<1>2. CASE SaveRow(o)
  <2> DEFINE r == [file |-> o, lang |-> Source, translation |-> 0,
                   onS3 |-> FALSE, status |-> "IN PROGRESS"]
  <2>1. r \in Row /\ r.file = o /\ ~r.onS3
    BY DEF Row
  <2>2. rows' = Append(rows, r) /\ o \in accepted
    BY <1>2 DEF SaveRow, OrderedFirst
  <2> HIDE DEF r
  <2> QED
    BY <2>1, <2>2, OnlyAdded
<1> QED
  BY <1>1, <1>2 DEF OrderNext, Start, Submit, SubmitFails, store

LEMMA CallRows ==
  ASSUME Inv, NEW h \in Handlers, NEW o \in Orders, CallNext(h, o)
  PROVE  RowsOnly
<1>1. CASE UNCHANGED rows
  BY <1>1, OnlySame
<1>2. ASSUME NEW j \in Jobs, Mark(j, "FAILED")
      PROVE  RowsOnly
  BY <1>2, OnlyMarked
<1> QED
  BY <1>1, <1>2 DEF CallNext, Unknown, Refuse, Receive, store

LEMMA HandlerRows ==
  ASSUME Inv, OrderedFirst, NEW h \in Handlers, HandlerNext(h), ~Upload(h)
  PROVE  RowsOnly
<1> DEFINE j == handlers[h].row
<1>1. CASE UNCHANGED rows
  BY <1>1, OnlySame
<1>2. ASSUME handlers[h].pc # "idle"
      PROVE  /\ j \in Jobs /\ rows[j].file \in Orders /\ handlers[h].ordered \in Nat
             /\ handlers[h].todo \subseteq Languages /\ rows[j].file \in accepted
  BY <1>2, AtHand DEF OrderedFirst
<1>3. CASE FetchFails(h) \/ Validate(h)
  <2>1. j \in Jobs
    BY <1>2, <1>3 DEF FetchFails, Validate
  <2> QED
    BY <1>3, <2>1, OnlyMarked DEF FetchFails, Validate
<1>4. CASE PlaceFails(h) \/ MarkOrdered(h)
  <2>1. j \in Jobs /\ handlers[h].ordered \in Nat
    BY <1>2, <1>4 DEF PlaceFails, MarkOrdered
  <2> QED
    BY <1>4, <2>1, OnlyMarkedTranslation DEF PlaceFails, MarkOrdered
<1>5. CASE ServicesFail(h)
  <2> DEFINE S == {i \in Jobs : Pending(rows[handlers[h].row].file, i)}
  <2>1. rows' = [i \in Jobs |-> IF i \in S THEN [rows[i] EXCEPT !.status = "FAILED"]
                                ELSE rows[i]]
    BY <1>5 DEF ServicesFail
  <2> HIDE DEF S
  <2> QED
    BY <2>1, ManyFailed, OnlyOld DEF Inv
<1>6. CASE CreateRow(h)
  <2>1. PICK l \in handlers[h].todo :
          rows' = Append(rows, [file |-> rows[j].file, lang |-> l, translation |-> 0,
                                onS3 |-> FALSE, status |-> "PENDING"])
    BY <1>6 DEF CreateRow
  <2> DEFINE r == [file |-> rows[j].file, lang |-> l, translation |-> 0,
                   onS3 |-> FALSE, status |-> "PENDING"]
  <2>2. r \in Row /\ r.file \in accepted /\ ~r.onS3
    BY <1>2, <1>6, <2>1 DEF CreateRow, Row
  <2>3. rows' = Append(rows, r)
    BY <2>1
  <2> HIDE DEF r
  <2> QED
    BY <2>2, <2>3, OnlyAdded
<1> QED
  BY <1>1, <1>3, <1>4, <1>5, <1>6
  DEF HandlerNext, UploadError, GetServices, Find, Place, Announce, Die, store

LEMMA SweepRows ==
  ASSUME Inv, NEW s \in Sweeps, SweepNext(s), ~UploadTranslation(s)
  PROVE  RowsOnly
<1>1. CASE UNCHANGED rows
  BY <1>1, OnlySame
<1>2. CASE Retrieve(s) \/ RetrieveInvalid(s)
  <2>1. sweeps[s].row \in Jobs /\ sweeps[s].id \in Nat
    BY <1>2, FetchedRow DEF Retrieve, RetrieveInvalid
  <2> QED
    BY <1>2, <2>1, OnlyMarkedTranslation DEF Retrieve, RetrieveInvalid
<1>3. CASE ListFails(s)
  <2> DEFINE S == {j \in Jobs : InProgress(j)}
  <2>1. rows' = [j \in Jobs |-> IF j \in S THEN [rows[j] EXCEPT !.status = "FAILED"]
                                ELSE rows[j]]
    BY <1>3 DEF ListFails
  <2> HIDE DEF S
  <2> QED
    BY <2>1, ManyFailed, OnlyOld DEF Inv
<1> QED
  BY <1>1, <1>2, <1>3
  DEF SweepNext, Begin, List, Pick, DownloadFails, Check, AnnounceTranslations,
      Abort, store
-----------------------------------------------------------------------------
(* Who takes a row to S3, and who goes on from there.                        *)
LEMMA HandlerMoves ==
  ASSUME Inv, NEW h \in Handlers, HandlerNext(h)
  PROVE  /\ \A x \in Handlers : x # h => handlers'[x] = handlers[x]
         /\ UNCHANGED <<preferred, orders, accepted, sweeps>>
         /\ handlers'[h].pc = "upload" => Validate(h)
         /\ handlers'[h].pc = "announce" =>
              Upload(h) \/ (UploadError(h) /\ preferred = {Source})
         /\ handlers'[h].pc \in {"upload", "announce"} =>
              handlers'[h].row = handlers[h].row
         /\ garbled' = garbled \/ UploadError(h)
<1>1. handlers \in [Handlers -> Request] /\ handlers[h] \in Request
  BY DEF Inv, Base
<1>2. /\ UNCHANGED <<preferred, orders, accepted, sweeps>>
      /\ garbled' = garbled \/ UploadError(h)
  BY DEF HandlerNext, FetchFails, Validate, Upload, UploadError, CreateRow,
         GetServices, ServicesFail, Find, Place, PlaceFails, MarkOrdered,
         Announce, Die, store, provider, history
<1>3. CASE handlers' = [handlers EXCEPT ![h] = Idle]
  BY <1>1, <1>2, <1>3 DEF Idle
<1>4. CASE FetchFails(h) \/ ServicesFail(h) \/ Announce(h) \/ Die(h)
  BY <1>3, <1>4 DEF FetchFails, ServicesFail, Announce, Die
<1>5. CASE Validate(h)
  BY <1>1, <1>2, <1>5 DEF Validate, Request
<1>6. CASE Upload(h) \/ UploadError(h)
  <2>1. GoOn(h)
    BY <1>6 DEF Upload, UploadError
  <2>2. CASE Source \in preferred
    BY <1>1, <1>2, <1>6, <2>1, <2>2 DEF GoOn, Request
  <2> QED
    BY <1>3, <2>1, <2>2 DEF GoOn
<1>7. CASE CreateRow(h)
  BY <1>1, <1>2, <1>7 DEF CreateRow, Request
<1>8. CASE GetServices(h)
  BY <1>1, <1>2, <1>8 DEF GetServices, Request
<1>9. CASE Find(h)
  <2>1. CASE \E j \in Jobs, todo \in SUBSET Languages :
               handlers' = [handlers EXCEPT ![h].pc = "place", ![h].row = j,
                                            ![h].todo = todo]
    BY <1>1, <1>2, <2>1 DEF Request
  <2>2. CASE \E todo \in SUBSET Languages :
               handlers' = [handlers EXCEPT ![h] = [handlers[h] EXCEPT !.todo = todo]]
    <3>1. handlers[h].pc = "order"
      BY <1>9 DEF Find
    <3> QED
      BY <1>1, <1>2, <2>2, <3>1 DEF Request
  <2>3. handlers[h].todo \subseteq Languages
    BY <1>1 DEF Request
  <2> QED
    BY <1>3, <1>9, <2>1, <2>2, <2>3 DEF Find
<1>10. CASE Place(h)
  BY <1>1, <1>2, <1>10 DEF Place, Request
<1>11. CASE PlaceFails(h) \/ MarkOrdered(h)
  <2>1. NextLanguage(h)
    BY <1>11 DEF PlaceFails, MarkOrdered
  <2>2. CASE handlers' = [handlers EXCEPT ![h] = [handlers[h] EXCEPT !.pc = "order",
                                                                     !.ordered = 0]]
    BY <1>1, <1>2, <2>2 DEF Request
  <2> QED
    BY <1>3, <2>1, <2>2 DEF NextLanguage
<1> QED
  BY <1>4, <1>5, <1>6, <1>7, <1>8, <1>9, <1>10, <1>11 DEF HandlerNext

LEMMA SweepMoves ==
  ASSUME Inv, NEW s \in Sweeps, SweepNext(s)
  PROVE  /\ \A x \in Sweeps : x # s => sweeps'[x] = sweeps[x]
         /\ UNCHANGED <<preferred, orders, accepted, translations, handlers, garbled>>
         /\ sweeps'[s].pc = "upload" => Retrieve(s)
         /\ sweeps'[s].pc = "check" => UploadTranslation(s)
         /\ sweeps'[s].pc = "announce" => Check(s)
         /\ sweeps'[s].pc \in {"upload", "check", "announce"} =>
              sweeps'[s].row = sweeps[s].row
         /\ sweeps'[s].pc = "fetch" =>
              /\ sweeps'[s].row \in Jobs /\ sweeps'[s].id \in Translations
              /\ rows[sweeps'[s].row].lang = translations[sweeps'[s].id].lang
<1>1. sweeps \in [Sweeps -> Retrieval] /\ sweeps[s] \in Retrieval
  BY DEF Inv, Base
<1>2. UNCHANGED <<preferred, orders, accepted, translations, handlers, garbled>>
  BY DEF SweepNext, Begin, ListFails, List, Pick, DownloadFails, Retrieve,
         RetrieveInvalid, UploadTranslation, Check, AnnounceTranslations, Abort,
         store, provider, history
<1>3. CASE sweeps' = [sweeps EXCEPT ![s] = Asleep]
  BY <1>1, <1>2, <1>3 DEF Asleep
<1>4. CASE ListFails(s) \/ Abort(s)
  BY <1>3, <1>4 DEF ListFails, Abort
<1>5. CASE NextTranslation(s)
  BY <1>1, <1>2, <1>5 DEF NextTranslation, Retrieval, Asleep
<1>6. CASE DownloadFails(s) \/ RetrieveInvalid(s) \/ AnnounceTranslations(s)
  BY <1>5, <1>6 DEF DownloadFails, RetrieveInvalid, AnnounceTranslations
<1>7. CASE Begin(s)
  <2>1. PICK j \in Jobs :
          sweeps' = [sweeps EXCEPT ![s] = [pc |-> "list", row |-> j, id |-> 0, todo |-> {}]]
    BY <1>7 DEF Begin
  <2> QED
    BY <1>1, <1>2, <2>1
<1>8. CASE List(s)
  BY <1>1, <1>2, <1>8 DEF List, Retrieval, Asleep
<1>9. CASE Pick(s)
  <2>1. sweeps[s].todo \subseteq Translations
    BY DEF Inv, Asking
  <2>2. CASE \E j \in Jobs, t \in Translations, todo \in SUBSET Translations :
               /\ Tracks(j, t)
               /\ sweeps' = [sweeps EXCEPT ![s] =
                    [pc |-> "fetch", row |-> j, id |-> t, todo |-> todo]]
    BY <1>1, <1>2, <2>2 DEF Tracks
  <2>3. CASE \E todo \in SUBSET Translations :
               sweeps' = [sweeps EXCEPT ![s] = [sweeps[s] EXCEPT !.todo = todo]]
    <3>1. sweeps[s].pc = "each"
      BY <1>9 DEF Pick
    <3> QED
      BY <1>1, <1>2, <2>3, <3>1 DEF Retrieval
  <2>4. PICK t \in sweeps[s].todo :
          \/ \E j \in Jobs :
               /\ Tracks(j, t)
               /\ sweeps' = [sweeps EXCEPT ![s] =
                    [pc |-> "fetch", row |-> j, id |-> t, todo |-> sweeps[s].todo \ {t}]]
          \/ sweeps' = [sweeps EXCEPT ![s] = Asleep]
          \/ sweeps' = [sweeps EXCEPT ![s] =
                         [sweeps[s] EXCEPT !.todo = sweeps[s].todo \ {t}]]
    BY <1>9 DEF Pick
  <2>5. t \in Translations /\ sweeps[s].todo \ {t} \in SUBSET Translations
    BY <2>1
  <2> QED
    BY <1>3, <2>2, <2>3, <2>4, <2>5
<1>10. CASE Retrieve(s)
  BY <1>1, <1>2, <1>10 DEF Retrieve, Retrieval
<1>11. CASE UploadTranslation(s)
  BY <1>1, <1>2, <1>11 DEF UploadTranslation, Retrieval
<1>12. CASE Check(s)
  BY <1>1, <1>2, <1>5, <1>12 DEF Check, Retrieval
<1> QED
  BY <1>4, <1>6, <1>7, <1>8, <1>9, <1>10, <1>11, <1>12 DEF SweepNext

LEMMA OrderMoves ==
  ASSUME NEW o \in Orders, OrderNext(o)
  PROVE  /\ UNCHANGED <<preferred, translations, handlers, sweeps, dropped, garbled>>
         /\ accepted' \in {accepted, accepted \cup {o}}
BY DEF OrderNext, Start, Submit, SubmitFails, SaveRow, store, provider, history

LEMMA CallMoves ==
  ASSUME Inv, NEW h \in Handlers, NEW o \in Orders, CallNext(h, o)
  PROVE  /\ UNCHANGED <<preferred, vstatus, orders, accepted, translations, sweeps,
                         dropped, garbled>>
         /\ \A x \in Handlers :
              \/ handlers'[x] = handlers[x]
              \/ handlers'[x].pc = "fetch" /\ handlers[x].pc = "idle"
<1>1. handlers \in [Handlers -> Request] /\ handlers[h].pc = "idle"
  BY DEF Inv, Base, CallNext, Unknown, Refuse, Receive, Called
<1>2. UNCHANGED <<preferred, vstatus, orders, accepted, translations, sweeps,
                    dropped, garbled>>
  BY DEF CallNext, Unknown, Refuse, Receive, store, history
<1>3. CASE handlers' = handlers
  BY <1>2, <1>3
<1>4. CASE \E j \in Jobs : handlers' = [handlers EXCEPT
             ![h] = [pc |-> "fetch", row |-> j, todo |-> {}, ordered |-> 0]]
  BY <1>1, <1>2, <1>4
<1> QED
  BY <1>3, <1>4 DEF CallNext, Unknown, Refuse, Receive
(* OrderedFirst and ShippedFirst are kept.                                   *)
LEMMA StepRows ==
  ASSUME Inv, OrderedFirst, Next
  PROVE  /\ RowsKept
         /\ \A i \in Jobs' : i \in Jobs \/ rows'[i].file \in accepted
<1>1. ASSUME RowsOnly
      PROVE  /\ RowsKept
             /\ \A i \in Jobs' : i \in Jobs \/ rows'[i].file \in accepted
  BY <1>1 DEF RowsOnly
<1>2. ASSUME NEW h \in Handlers, Upload(h)
      PROVE  RowsKept /\ Jobs' = Jobs
  <2>1. handlers[h].row \in Jobs
    BY <1>2, AtHand DEF Upload
  <2> QED
    BY <1>2, <2>1, PutOnS3 DEF Upload, Inv
<1>3. ASSUME NEW s \in Sweeps, UploadTranslation(s)
      PROVE  RowsKept /\ Jobs' = Jobs
  <2>1. sweeps[s].row \in Jobs
    BY <1>3 DEF UploadTranslation, Inv, Asking
  <2> QED
    BY <1>3, <2>1, PutOnS3 DEF UploadTranslation, Inv
<1> QED
  BY <1>1, <1>2, <1>3, OrderRows, CallRows, HandlerRows, SweepRows DEF Next

LEMMA TranslationsGrow ==
  ASSUME Inv, NEW h \in Handlers, HandlerNext(h)
  PROVE  TranslationsKept
<1>1. CASE UNCHANGED translations
  BY <1>1, SameTranslations DEF Inv
<1>2. CASE Place(h)
  <2> DEFINE T == [file : Orders, lang : Languages]
             e == [file |-> rows[handlers[h].row].file, lang |-> rows[handlers[h].row].lang]
  <2>1. e \in T
    BY <1>2, AtHand, JobRow DEF Place, Inv
  <2>2. translations \in Seq(T) /\ Len(translations) \in Nat
    BY Lengths DEF Inv, Base
  <2>3. translations' = Append(translations, e)
    BY <1>2 DEF Place
  <2> HIDE DEF T, e
  <2>4. /\ translations' \in Seq(T) /\ Len(translations') = Len(translations) + 1
        /\ \A i \in 1..Len(translations) : translations'[i] = translations[i]
    BY <2>1, <2>2, <2>3, AppendProperties
  <2>5. Translations \subseteq Translations'
    BY <2>2, <2>4, OneMore DEF Translations
  <2> QED
    BY <2>4, <2>5 DEF TranslationsKept, Translations, T
<1> QED
  BY <1>1, <1>2
  DEF HandlerNext, FetchFails, Validate, Upload, UploadError, CreateRow,
      GetServices, ServicesFail, Find, PlaceFails, MarkOrdered, Announce, Die, store, provider

LEMMA OrderedStep ==
  ASSUME Inv, OrderedFirst, Next, TranslationsKept, accepted \subseteq accepted',
         \A o \in Orders : orders'[o] = "row" => o \in accepted',
         \A s \in Sweeps : sweeps'[s].pc = "fetch" =>
           \/ sweeps'[s] = sweeps[s]
           \/ /\ sweeps'[s].row \in Jobs /\ sweeps'[s].id \in Translations
              /\ rows[sweeps'[s].row].lang = translations[sweeps'[s].id].lang
  PROVE  OrderedFirst'
<1>1. /\ RowsKept
      /\ \A i \in Jobs' : i \in Jobs \/ rows'[i].file \in accepted
  BY StepRows
<1>2. \A i \in Jobs' : rows'[i].file \in accepted'
  BY <1>1 DEF OrderedFirst, RowsKept
<1>3. ASSUME NEW s \in Sweeps, sweeps'[s].pc = "fetch"
      PROVE  rows'[sweeps'[s].row].lang = translations'[sweeps'[s].id].lang
  <2>1. /\ sweeps'[s].row \in Jobs /\ sweeps'[s].id \in Translations
        /\ rows[sweeps'[s].row].lang = translations[sweeps'[s].id].lang
    BY <1>3 DEF OrderedFirst, Inv, Asking
  <2> QED
    BY <1>1, <2>1 DEF RowsKept, TranslationsKept
<1> QED
  BY <1>2, <1>3 DEF OrderedFirst

LEMMA OrderedKept ==
  ASSUME Inv, OrderedFirst, Next
  PROVE  OrderedFirst'
<1>1. ASSUME NEW o \in Orders, OrderNext(o)
      PROVE  OrderedFirst'
  <2>1. /\ UNCHANGED <<translations, sweeps>>
        /\ accepted' \in {accepted, accepted \cup {o}}
    BY <1>1, OrderMoves
  <2>2. TranslationsKept
    BY <2>1, SameTranslations DEF Inv
  <2>3. orders \in [Orders -> OrderStep]
    BY DEF Inv, Base
  <2>4. \A x \in Orders : orders'[x] = "row" => x \in accepted'
    BY <1>1, <2>1, <2>3
    DEF OrderedFirst, OrderNext, Start, Submit, SubmitFails, SaveRow
  <2> QED
    BY <2>1, <2>2, <2>4, OrderedStep
<1>2. ASSUME NEW h \in Handlers, NEW o \in Orders, CallNext(h, o)
      PROVE  OrderedFirst'
  <2>1. UNCHANGED <<orders, accepted, translations, sweeps>>
    BY <1>2, CallMoves
  <2>2. TranslationsKept
    BY <2>1, SameTranslations DEF Inv
  <2> QED
    BY <2>1, <2>2, OrderedStep DEF OrderedFirst
<1>3. ASSUME NEW h \in Handlers, HandlerNext(h)
      PROVE  OrderedFirst'
  <2>1. UNCHANGED <<orders, accepted, sweeps>>
    BY <1>3, HandlerMoves
  <2> QED
    BY <1>3, <2>1, TranslationsGrow, OrderedStep DEF OrderedFirst
<1>4. ASSUME NEW s \in Sweeps, SweepNext(s)
      PROVE  OrderedFirst'
  <2>1. /\ \A x \in Sweeps : x # s => sweeps'[x] = sweeps[x]
        /\ UNCHANGED <<orders, accepted, translations>>
        /\ sweeps'[s].pc = "fetch" =>
             /\ sweeps'[s].row \in Jobs /\ sweeps'[s].id \in Translations
             /\ rows[sweeps'[s].row].lang = translations[sweeps'[s].id].lang
    BY <1>4, SweepMoves
  <2>2. TranslationsKept
    BY <2>1, SameTranslations DEF Inv
  <2> QED
    BY <2>1, <2>2, OrderedStep DEF OrderedFirst
<1> QED
  BY <1>1, <1>2, <1>3, <1>4 DEF Next

(* Of the requests and retrievals past their upload, each was so before, or  *)
(* has its upload in this step.                                              *)
LEMMA ShippedStep ==
  ASSUME Inv, ShippedFirst, RowsKept, preferred' = preferred,
         garbled \subseteq garbled',
         \A h \in Handlers : handlers'[h].pc = "announce" =>
           \/ handlers'[h] = handlers[h]
           \/ rows'[handlers'[h].row].onS3
           \/ OnlyAnError',
         \A s \in Sweeps : sweeps'[s].pc \in {"check", "announce"} =>
           \/ sweeps'[s] = sweeps[s]
           \/ sweeps'[s].row = sweeps[s].row /\ sweeps[s].pc = "check"
           \/ rows'[sweeps'[s].row].onS3
  PROVE  ShippedFirst'
<1>1. ASSUME NEW h \in Handlers, handlers'[h].pc = "announce"
      PROVE  rows'[handlers'[h].row].onS3 \/ OnlyAnError'
  <2>1. CASE handlers'[h] = handlers[h]
    <3>1. /\ handlers[h].row \in Jobs
          /\ rows[handlers[h].row].onS3 \/ OnlyAnError
      BY <1>1, <2>1 DEF Inv, Asked, ShippedFirst
    <3>2. OnlyAnError => OnlyAnError'
      BY DEF OnlyAnError
    <3> QED
      BY <2>1, <3>1, <3>2 DEF RowsKept
  <2> QED
    BY <1>1, <2>1
<1>2. ASSUME NEW s \in Sweeps, sweeps'[s].pc \in {"check", "announce"}
      PROVE  rows'[sweeps'[s].row].onS3
  <2>1. CASE sweeps'[s].row = sweeps[s].row /\ sweeps[s].pc \in {"check", "announce"}
    <3>1. sweeps[s].row \in Jobs /\ rows[sweeps[s].row].onS3
      BY <2>1 DEF Inv, Asking, ShippedFirst
    <3> QED
      BY <2>1, <3>1 DEF RowsKept
  <2> QED
    BY <1>2, <2>1
<1> QED
  BY <1>1, <1>2 DEF ShippedFirst

LEMMA ShippedKept ==
  ASSUME Inv, OrderedFirst, ShippedFirst, Next
  PROVE  ShippedFirst'
<1>1. RowsKept
  BY StepRows
<1>2. ASSUME NEW o \in Orders, OrderNext(o)
      PROVE  ShippedFirst'
  BY <1>1, <1>2, OrderMoves, ShippedStep
<1>3. ASSUME NEW h \in Handlers, NEW o \in Orders, CallNext(h, o)
      PROVE  ShippedFirst'
  <2>1. /\ UNCHANGED <<preferred, garbled, sweeps>>
        /\ \A x \in Handlers : handlers'[x] = handlers[x] \/ handlers'[x].pc = "fetch"
    BY <1>3, CallMoves
  <2> QED
    BY <1>1, <2>1, ShippedStep
<1>4. ASSUME NEW h \in Handlers, HandlerNext(h)
      PROVE  ShippedFirst'
  <2>1. /\ \A x \in Handlers : x # h => handlers'[x] = handlers[x]
        /\ UNCHANGED sweeps
        /\ handlers'[h].pc = "announce" =>
             /\ handlers'[h].row = handlers[h].row
             /\ Upload(h) \/ (UploadError(h) /\ preferred = {Source})
        /\ preferred' = preferred
        /\ garbled' = garbled \/ UploadError(h)
    BY <1>4, HandlerMoves
  <2>2. Upload(h) => rows'[handlers[h].row].onS3
    BY AtHand, PutOnS3 DEF Upload, Inv
  <2>3. UploadError(h) => garbled' = garbled \cup {handlers[h].row}
    BY DEF UploadError
  <2>4. garbled \subseteq garbled'
    BY <2>1, <2>3
  <2>5. UploadError(h) /\ preferred = {Source} => OnlyAnError'
    BY <2>1, <2>3 DEF OnlyAnError
  <2> QED
    BY <1>1, <2>1, <2>2, <2>4, <2>5, ShippedStep
<1>5. ASSUME NEW s \in Sweeps, SweepNext(s)
      PROVE  ShippedFirst'
  <2>1. /\ \A x \in Sweeps : x # s => sweeps'[x] = sweeps[x]
        /\ UNCHANGED <<preferred, handlers, garbled>>
        /\ sweeps'[s].pc = "check" => UploadTranslation(s)
        /\ sweeps'[s].pc = "announce" => Check(s)
        /\ sweeps'[s].pc \in {"check", "announce"} => sweeps'[s].row = sweeps[s].row
    BY <1>5, SweepMoves
  <2>2. UploadTranslation(s) => rows'[sweeps[s].row].onS3
    BY PutOnS3 DEF UploadTranslation, Inv, Asking
  <2>3. Check(s) => sweeps[s].pc = "check"
    BY DEF Check
  <2> QED
    BY <1>1, <2>1, <2>2, <2>3, ShippedStep
<1> QED
  BY <1>2, <1>3, <1>4, <1>5 DEF Next

-----------------------------------------------------------------------------
LEMMA InitInv == Init => Inv
<1> SUFFICES ASSUME Init PROVE Inv
  OBVIOUS
<1>1. Jobs = {} /\ Translations = {}
  BY EmptySeq DEF Init, Jobs, Translations
<1>2. Base
  <2>1. preferred \in SUBSET Languages
    BY DEF Init
  <2>2. /\ rows \in Seq(Row) /\ translations \in Seq([file : Orders, lang : Languages])
    BY EmptySeq DEF Init
  <2>3. Idle \in Request /\ Asleep \in Retrieval /\ "none" \in OrderStep
    BY DEF Idle, Request, Asleep, Retrieval, OrderStep
  <2>4. /\ orders \in [Orders -> OrderStep] /\ handlers \in [Handlers -> Request]
        /\ sweeps \in [Sweeps -> Retrieval]
    BY <2>3 DEF Init
  <2>5. calls \in 0..MaxCalls /\ retrievals \in 0..MaxSweeps
    BY DEF Init
  <2> QED
    BY <2>1, <2>2, <2>4, <2>5 DEF Init, Base
<1>3. \A h \in Handlers : Asked(h) /\ handlers[h].pc = "idle"
  BY DEF Init, Idle, Asked
<1>4. \A s \in Sweeps : Asking(s)
  BY DEF Init, Asleep, Asking
<1>5. Alone
  BY <1>3 DEF Alone
<1>6. ReadyHasLanguages /\ LastRetrievalAnnounces
  BY DEF Init, ReadyHasLanguages, LastRetrievalAnnounces
<1>7. OrdersTracked
  BY <1>1 DEF OrdersTracked
<1> QED
  BY <1>1, <1>2, <1>3, <1>4, <1>5, <1>6, <1>7 DEF Inv

LEMMA NothingChanges ==
  ASSUME Inv, UNCHANGED vars
  PROVE  Inv'
<1> USE DEF vars
<1>1. Base'
  BY DEF Inv, Base, Jobs, Translations
<1>2. \A j \in Jobs' : Process(j)'
  BY DEF Inv, Process, Jobs, Translations, RowsMade, Uploading
<1>3. \A h \in Handlers : Asked(h)'
  BY DEF Inv, Asked, Jobs, Translations, RowsMade, AllCovered, OnlyAnError, Covered,
         Uploading
<1>4. \A s \in Sweeps : Asking(s)'
  BY DEF Inv, Asking, Jobs, Translations, RowsMade, AllCovered, Covered, Uploading
<1>5. Alone'
  BY DEF Inv, Alone
<1>6. ReadyHasLanguages'
  BY DEF Inv, ReadyHasLanguages, AllCovered, OnlyAnError, Covered, Jobs, Uploading
<1>7. LastRetrievalAnnounces'
  BY DEF Inv, LastRetrievalAnnounces, AllReady, AtWork, Rowless, Jobs
<1>8. OrdersTracked'
  BY DEF Inv, OrdersTracked, Tracked, Translations, Jobs
<1> QED
  BY <1>1, <1>2, <1>3, <1>4, <1>5, <1>6, <1>7, <1>8 DEF Inv

LEMMA NextInv ==
  ASSUME Inv, [Next]_vars
  PROVE  Inv'
<1>1. ASSUME NEW o \in Orders, OrderNext(o)
      PROVE  Inv'
  BY <1>1, StartKeeps, SubmitKeeps, SaveRowKeeps DEF OrderNext
<1>2. ASSUME NEW h \in Handlers, NEW o \in Orders, CallNext(h, o)
      PROVE  Inv'
  BY <1>2, CallKeeps
<1>3. ASSUME NEW h \in Handlers, HandlerNext(h)
      PROVE  Inv'
  BY <1>3, HandlerKeeps
<1>4. ASSUME NEW s \in Sweeps, SweepNext(s)
      PROVE  Inv'
  BY <1>4, SweepKeeps
<1>5. CASE UNCHANGED vars
  BY <1>5, NothingChanges
<1> QED
  BY <1>1, <1>2, <1>3, <1>4, <1>5 DEF Next

(* However many deliveries, callbacks and runs of heal work side by side,    *)
(* and wherever each of them may die: rows, requests and retrievals have     *)
(* their types, a READY row is on S3 or on its way, and the rows of all      *)
(* languages are there before the first translation is ordered.              *)
THEOREM ThreePlayInvariance == Spec => []ThreePlayInv
<1>1. Init => ThreePlayInv
  <2> SUFFICES ASSUME Init PROVE ThreePlayInv
    OBVIOUS
  <2>1. OrderedFirst /\ ShippedFirst
    BY EmptySeq DEF Init, Jobs, Idle, Asleep, OrderedFirst, ShippedFirst
  <2> QED
    BY <2>1, InitInv, Parts
<1>2. ThreePlayInv /\ [Next]_vars => ThreePlayInv'
  <2> SUFFICES ASSUME ThreePlayInv, [Next]_vars PROVE ThreePlayInv'
    OBVIOUS
  <2>1. Inv /\ OrderedFirst /\ ShippedFirst
    BY Parts
  <2>2. Inv'
    BY <2>1, NextInv
  <2>3. OrderedFirst' /\ ShippedFirst'
    <3>1. CASE Next
      BY <2>1, <3>1, OrderedKept, ShippedKept
    <3>2. CASE UNCHANGED vars
      BY <2>1, <3>2 DEF vars, Jobs, OrderedFirst, ShippedFirst, OnlyAnError
    <3> QED
      BY <3>1, <3>2
  <2>4. (Inv /\ OrderedFirst /\ ShippedFirst <=> ThreePlayInv)'
    BY Parts, PTL
  <2> QED
    BY <2>2, <2>3, <2>4
<1> QED
  BY <1>1, <1>2, PTL DEF Spec

(* A video is READY only with a transcript on S3 in every language the course*)
(* team prefers, unless a row is just being uploaded or its process died; or,*)
(* where nothing is to be translated, with an error text 3Play sent          *)
(* (UploadError, Announce).                                                  *)
THEOREM ReadyIsCovered == Spec => []ReadyHasLanguages
<1>1. ThreePlayInv => ReadyHasLanguages
  BY DEF ThreePlayInv
<1> QED
  BY <1>1, ThreePlayInvariance, PTL

(* Where every process is READY the last retrieval announces the video, or   *)
(* somebody is still at work, or has died, or a delivery has no row.         *)
THEOREM LastOneAnnounces == Spec => []LastRetrievalAnnounces
<1>1. ThreePlayInv => LastRetrievalAnnounces
  BY DEF ThreePlayInv
<1> QED
  BY <1>1, ThreePlayInvariance, PTL

(* Every translation ordered is on record in a row, or in the hands of the   *)
(* request that ordered it, or that request died, or two overlapped.         *)
THEOREM OrdersAreTracked == Spec => []OrdersTracked
<1>1. ThreePlayInv => OrdersTracked
  BY DEF ThreePlayInv
<1> QED
  BY <1>1, ThreePlayInvariance, PTL

-----------------------------------------------------------------------------
(* ThreePlay implements TranscriptPromise: every step of a delivery, a call, *)
(* a request or a retrieval is a step of the promise, or invisible to it.    *)
LangsOf(S) == {rows[j].lang : j \in S}
CoveredRow(j) == rows[j].onS3 \/ Uploading(j) \/ j \in dropped
CoveredRows == {j \in Jobs : CoveredRow(j)}
OnS3 == {j \in Jobs : rows[j].onS3}

LEMMA Views ==
  ASSUME Base
  PROVE  /\ CoveredRows \in SUBSET Jobs /\ ReceivedLanguages = LangsOf(CoveredRows)
         /\ OnS3 \in SUBSET Jobs /\ ShippedLanguages = LangsOf(OnS3)
<1>1. \A j \in Jobs : rows[j].lang \in Languages
  BY JobRow
<1>2. ReceivedLanguages = LangsOf(CoveredRows)
  BY <1>1 DEF ReceivedLanguages, Covered, LangsOf, CoveredRows, CoveredRow
<1> QED
  BY <1>2 DEF CoveredRows, OnS3, ShippedLanguages, LangsOf

(* The languages after a step, by the rows before it.                        *)
LEMMA NewLanguages ==
  ASSUME Base, RowsKept
  PROVE  /\ \A S \in SUBSET Jobs :
              /\ CoveredRows' = S => ReceivedLanguages' = LangsOf(S)
              /\ OnS3' = S => ShippedLanguages' = LangsOf(S)
         /\ \A S \in SUBSET Jobs, i \in Jobs :
              LangsOf(S \cup {i}) = LangsOf(S) \cup {rows[i].lang}
<1>1. \A j \in Jobs : rows'[j].lang = rows[j].lang /\ rows[j].lang \in Languages
  BY JobRow DEF RowsKept
<1>2. ASSUME NEW S \in SUBSET Jobs
      PROVE  {rows'[j].lang : j \in S} = LangsOf(S)
  BY <1>1, <1>2 DEF LangsOf
<1>3. ShippedLanguages' = {rows'[j].lang : j \in OnS3'}
  BY DEF ShippedLanguages, OnS3
<1>4. ReceivedLanguages' = {l \in Languages : \E j \in CoveredRows' : rows'[j].lang = l}
  BY DEF ReceivedLanguages, Covered, CoveredRows, CoveredRow
<1>5. ASSUME NEW S \in SUBSET Jobs, CoveredRows' = S
      PROVE  ReceivedLanguages' = LangsOf(S)
  BY <1>1, <1>4, <1>5 DEF LangsOf
<1>6. \A S \in SUBSET Jobs, i \in Jobs :
        LangsOf(S \cup {i}) = LangsOf(S) \cup {rows[i].lang}
  BY DEF LangsOf
<1> QED
  BY <1>2, <1>3, <1>5, <1>6

LEMMA SameLanguages ==
  ASSUME Base, RowsKept
  PROVE  /\ CoveredRows' = CoveredRows => ReceivedLanguages' = ReceivedLanguages
         /\ OnS3' = OnS3 => ShippedLanguages' = ShippedLanguages
         /\ UNCHANGED <<accepted, translations>> => OrderedLanguages' = OrderedLanguages
BY NewLanguages, Views DEF OrderedLanguages, Translations

LEMMA SameWord ==
  ASSUME UNCHANGED <<preferred, garbled>>,
         (vstatus' = "READY") = (vstatus = "READY")
  PROVE  Announced' = Announced
BY DEF Announced, OnlyAnError

(* The abstract steps.                                                       *)
LEMMA QuietPromise ==
  ASSUME Base, RowsKept,
         UNCHANGED <<preferred, accepted, translations, CoveredRows, OnS3>>,
         Announced' = Announced
  PROVE  UNCHANGED Promise!promise
BY SameLanguages DEF Promise!promise

LEMMA OrderPromise ==
  ASSUME Base, RowsKept, NEW l \in Languages,
         OrderedLanguages' = OrderedLanguages \cup {l},
         UNCHANGED <<preferred, CoveredRows, OnS3, Announced>>
  PROVE  Promise!PromiseNext
<1>1. Promise!Order(l)
  BY SameLanguages DEF Promise!Order
<1> QED
  BY <1>1 DEF Promise!PromiseNext

LEMMA ReceivePromise ==
  ASSUME Base, RowsKept, NEW j \in Jobs, rows[j].lang \in OrderedLanguages,
         CoveredRows' = CoveredRows \cup {j},
         UNCHANGED <<preferred, accepted, translations, OnS3, Announced>>
  PROVE  Promise!PromiseNext
<1>1. ReceivedLanguages' = ReceivedLanguages \cup {rows[j].lang}
  <2>1. CoveredRows \in SUBSET Jobs /\ CoveredRows \cup {j} \in SUBSET Jobs
        /\ ReceivedLanguages = LangsOf(CoveredRows)
    BY Views
  <2>2. ReceivedLanguages' = LangsOf(CoveredRows \cup {j})
    BY <2>1, NewLanguages
  <2> QED
    BY <2>1, <2>2, NewLanguages
<1>2. Promise!Receive(rows[j].lang)
  BY <1>1, SameLanguages DEF Promise!Receive
<1> QED
  BY <1>2, JobRow DEF Promise!PromiseNext

LEMMA ShipPromise ==
  ASSUME Base, RowsKept, NEW j \in CoveredRows, OnS3' = OnS3 \cup {j},
         UNCHANGED <<preferred, accepted, translations, CoveredRows, Announced>>
  PROVE  Promise!PromiseNext
<1>1. j \in Jobs
  BY DEF CoveredRows
<1>2. ShippedLanguages' = ShippedLanguages \cup {rows[j].lang}
  <2>1. OnS3 \in SUBSET Jobs /\ OnS3 \cup {j} \in SUBSET Jobs
        /\ ShippedLanguages = LangsOf(OnS3)
    BY <1>1, Views
  <2>2. ShippedLanguages' = LangsOf(OnS3 \cup {j})
    BY <2>1, NewLanguages
  <2> QED
    BY <1>1, <2>1, <2>2, NewLanguages
<1>3. rows[j].lang \in ReceivedLanguages
  BY Views DEF LangsOf
<1>4. Promise!Ship(rows[j].lang)
  BY <1>2, <1>3, SameLanguages DEF Promise!Ship
<1> QED
  BY <1>1, <1>4, JobRow DEF Promise!PromiseNext

LEMMA AnnouncePromise ==
  ASSUME Inv, RowsKept, NEW j \in Jobs, rows[j].onS3,
         AllCovered,
         UNCHANGED <<preferred, accepted, translations, CoveredRows, OnS3>>,
         Announced'
  PROVE  Promise!PromiseNext
<1>1. Base
  BY DEF Inv
<1>2. preferred \subseteq ReceivedLanguages
  BY <1>1 DEF Base, ReceivedLanguages, AllCovered
<1>3. ShippedLanguages # {}
  BY DEF ShippedLanguages
<1>4. Promise!Announce
  BY <1>1, <1>2, <1>3, SameLanguages DEF Promise!Announce
<1> QED
  BY <1>4 DEF Promise!PromiseNext

LEMMA WithdrawPromise ==
  ASSUME Base, RowsKept,
         UNCHANGED <<preferred, accepted, translations, CoveredRows, OnS3>>,
         ~Announced'
  PROVE  Promise!PromiseNext
<1>1. Promise!Withdraw
  BY SameLanguages DEF Promise!Withdraw
<1> QED
  BY <1>1 DEF Promise!PromiseNext

-----------------------------------------------------------------------------
(* What a step does to the rows that are covered.                            *)
LEMMA CoveredStep ==
  ASSUME Inv, RowsOnly, UNCHANGED dropped, NEW S \in SUBSET Jobs,
         \A i : Uploading(i)' <=> Uploading(i) \/ i \in S
  PROVE  CoveredRows' = CoveredRows \cup S /\ OnS3' = OnS3
<1>1. \A i : Uploading(i) => i \in Jobs
  BY DEF Inv, Asked, Asking, Uploading
<1>2. /\ Jobs \subseteq Jobs' /\ \A i \in Jobs : rows'[i].onS3 = rows[i].onS3
      /\ \A i \in Jobs' : i \in Jobs \/ ~rows'[i].onS3
      /\ dropped' = dropped /\ dropped \subseteq Jobs
  BY DEF RowsOnly, RowsKept, Inv, Base
<1>3. OnS3' = OnS3
  BY <1>2 DEF OnS3
<1>4. ASSUME NEW i
      PROVE  i \in CoveredRows' <=> i \in CoveredRows \cup S
  <2>1. i \in CoveredRows' <=>
          i \in Jobs' /\ (rows'[i].onS3 \/ Uploading(i)' \/ i \in dropped')
    BY DEF CoveredRows, CoveredRow
  <2> QED
    BY <1>1, <1>2, <2>1 DEF CoveredRows, CoveredRow
<1> QED
  BY <1>3, <1>4

LEMMA NothingCovered ==
  ASSUME Inv, RowsOnly, UNCHANGED dropped, \A i : Uploading(i)' <=> Uploading(i)
  PROVE  CoveredRows' = CoveredRows /\ OnS3' = OnS3
<1> DEFINE S == {}
<1>1. S \in SUBSET Jobs /\ \A i : Uploading(i)' <=> Uploading(i) \/ i \in S
  OBVIOUS
<1>2. CoveredRows \cup S = CoveredRows
  OBVIOUS
<1> HIDE DEF S
<1> QED
  BY <1>1, <1>2, CoveredStep

(* A row that is on S3, or dropped, need not be held any more.               *)
LEMMA LeftCovered ==
  ASSUME Inv, RowsKept, Jobs' = Jobs, NEW j \in CoveredRows,
         rows'[j].onS3 \/ j \in dropped',
         \A i \in Jobs : i # j => rows'[i].onS3 = rows[i].onS3,
         dropped' \in {dropped, dropped \cup {j}},
         \A i : i # j => (Uploading(i)' <=> Uploading(i))
  PROVE  CoveredRows' = CoveredRows
<1>1. ASSUME NEW i \in Jobs
      PROVE  CoveredRow(i)' <=> CoveredRow(i)
  <2>1. CASE i = j
    BY <2>1 DEF CoveredRow, CoveredRows
  <2>2. CASE i # j
    BY <2>2 DEF CoveredRow
  <2> QED
    BY <2>1, <2>2
<1> QED
  BY <1>1 DEF CoveredRows

(* Who holds a row, by what one request or retrieval does.                   *)
LEMMA HandlerHolds ==
  ASSUME NEW h \in Handlers, UNCHANGED sweeps,
         \A x \in Handlers : x # h => handlers'[x] = handlers[x]
  PROVE  /\ handlers[h].pc # "upload" /\ handlers'[h].pc # "upload" =>
              \A i : Uploading(i)' <=> Uploading(i)
         /\ handlers'[h].pc # "upload" =>
              \A i : i # handlers[h].row => (Uploading(i)' <=> Uploading(i))
         /\ /\ handlers[h].pc # "upload" /\ handlers'[h].pc = "upload"
            /\ handlers'[h].row = handlers[h].row
            => \A i : Uploading(i)' <=> Uploading(i) \/ i \in {handlers[h].row}
BY DEF Uploading

LEMMA SweepHolds ==
  ASSUME NEW s \in Sweeps, UNCHANGED handlers,
         \A x \in Sweeps : x # s => sweeps'[x] = sweeps[x]
  PROVE  /\ sweeps[s].pc # "upload" /\ sweeps'[s].pc # "upload" =>
              \A i : Uploading(i)' <=> Uploading(i)
         /\ sweeps'[s].pc # "upload" =>
              \A i : i # sweeps[s].row => (Uploading(i)' <=> Uploading(i))
         /\ /\ sweeps[s].pc # "upload" /\ sweeps'[s].pc = "upload"
            /\ sweeps'[s].row = sweeps[s].row
            => \A i : Uploading(i)' <=> Uploading(i) \/ i \in {sweeps[s].row}
BY DEF Uploading

-----------------------------------------------------------------------------
(* Each step is one of the promise, or none.                                 *)
Promised == [Promise!PromiseNext]_(Promise!promise)

LEMMA Unseen ==
  ASSUME Inv, RowsOnly, UNCHANGED <<preferred, accepted, translations, dropped, garbled>>,
         \A i : Uploading(i)' <=> Uploading(i),
         (vstatus' = "READY") = (vstatus = "READY")
  PROVE  Promised
<1>1. CoveredRows' = CoveredRows /\ OnS3' = OnS3
  BY NothingCovered
<1> QED
  BY <1>1, SameWord, QuietPromise DEF Promised, RowsOnly, Inv

LEMMA OrderPromises ==
  ASSUME Inv, OrderedFirst, NEW o \in Orders, OrderNext(o)
  PROVE  Promised
<1>1. /\ UNCHANGED <<preferred, translations, handlers, sweeps, dropped, garbled>>
      /\ accepted' \in {accepted, accepted \cup {o}}
  BY OrderMoves
<1>2. RowsOnly /\ RowsKept /\ Base
  BY OrderRows DEF RowsOnly, Inv
<1>3. \A i : Uploading(i)' <=> Uploading(i)
  BY <1>1 DEF Uploading
<1>4. CoveredRows' = CoveredRows /\ OnS3' = OnS3
  BY <1>1, <1>2, <1>3, NothingCovered
<1>5. CASE vstatus' # "READY" /\ accepted' = accepted
  BY <1>1, <1>2, <1>4, <1>5, WithdrawPromise DEF Promised, Announced
<1>6. CASE vstatus' = vstatus /\ accepted' = accepted
  BY <1>1, <1>2, <1>3, <1>6, Unseen
<1>7. CASE vstatus' = vstatus /\ accepted' = accepted \cup {o}
  <2>1. OrderedLanguages' = OrderedLanguages \cup {Source}
    BY <1>1, <1>7 DEF OrderedLanguages, Translations
  <2>2. Announced' = Announced
    BY <1>1, <1>7, SameWord
  <2> QED
    BY <1>1, <1>2, <1>4, <1>7, <2>1, <2>2, OrderPromise DEF Promised
<1> QED
  BY <1>1, <1>5, <1>6, <1>7
  DEF OrderNext, Start, Submit, SubmitFails, SaveRow, store, provider

LEMMA CallPromises ==
  ASSUME Inv, NEW h \in Handlers, NEW o \in Orders, CallNext(h, o)
  PROVE  Promised
<1>1. /\ UNCHANGED <<preferred, vstatus, accepted, translations, sweeps, dropped, garbled>>
      /\ \A x \in Handlers : \/ handlers'[x] = handlers[x]
                             \/ handlers'[x].pc = "fetch" /\ handlers[x].pc = "idle"
  BY CallMoves
<1>2. RowsOnly
  BY CallRows
<1>3. \A i : Uploading(i)' <=> Uploading(i)
  BY <1>1 DEF Uploading
<1> QED
  BY <1>1, <1>2, <1>3, Unseen

(* A transcript fetched.                                                     *)
LEMMA ValidatePromises ==
  ASSUME Inv, OrderedFirst, NEW h \in Handlers, Validate(h)
  PROVE  Promised
<1> DEFINE j == handlers[h].row
<1>1. HandlerNext(h) /\ handlers[h].pc = "fetch" /\ ~Upload(h)
  BY DEF HandlerNext, Validate, Upload
<1>2. RowsOnly /\ RowsKept /\ Base
  BY <1>1, HandlerRows DEF RowsOnly, Inv
<1>3. /\ UNCHANGED <<preferred, vstatus, accepted, translations, dropped, garbled, sweeps>>
      /\ \A x \in Handlers : x # h => handlers'[x] = handlers[x]
  BY <1>1, HandlerMoves DEF Validate, provider, history
<1>4. j \in Jobs /\ rows[j].lang = Source /\ rows[j].file \in accepted
  BY <1>1, AtHand DEF Asked, OrderedFirst
<1>5. /\ handlers'[h].pc \in {"upload", "garble"}
      /\ handlers'[h].row = handlers[h].row
  <2>1. handlers \in [Handlers -> Request]
    BY DEF Inv, Base
  <2>2. PICK p \in {"upload", "garble"} : handlers' = [handlers EXCEPT ![h].pc = p]
    BY DEF Validate
  <2> QED
    BY <2>1, <2>2 DEF Request
<1>6. CASE handlers'[h].pc = "garble"
  <2>1. \A i : Uploading(i)' <=> Uploading(i)
    BY <1>1, <1>3, <1>6, HandlerHolds
  <2> QED
    BY <1>2, <1>3, <2>1, Unseen
<1>7. CASE handlers'[h].pc = "upload"
  <2>1. \A i : Uploading(i)' <=> Uploading(i) \/ i \in {j}
    BY <1>1, <1>3, <1>5, <1>7, HandlerHolds
  <2> HIDE DEF j
  <2>2. CoveredRows' = CoveredRows \cup {j} /\ OnS3' = OnS3
    BY <1>2, <1>3, <1>4, <2>1, CoveredStep
  <2>3. rows[j].lang \in OrderedLanguages
    BY <1>4 DEF OrderedLanguages
  <2>4. Announced' = Announced
    BY <1>3, SameWord
  <2> QED
    BY <1>2, <1>3, <1>4, <2>2, <2>3, <2>4, ReceivePromise DEF Promised
<1> QED
  BY <1>5, <1>6, <1>7

LEMMA RetrievePromises ==
  ASSUME Inv, OrderedFirst, NEW s \in Sweeps, Retrieve(s)
  PROVE  Promised
<1> DEFINE j == sweeps[s].row
<1>1. SweepNext(s) /\ sweeps[s].pc = "fetch" /\ ~UploadTranslation(s)
  BY DEF SweepNext, Retrieve, UploadTranslation
<1>2. RowsOnly /\ RowsKept /\ Base
  BY <1>1, SweepRows DEF RowsOnly, Inv
<1>3. /\ UNCHANGED <<preferred, vstatus, accepted, translations, dropped, garbled, handlers>>
      /\ \A x \in Sweeps : x # s => sweeps'[x] = sweeps[x]
  BY <1>1, SweepMoves DEF Retrieve, provider, history
<1>4. /\ j \in Jobs /\ sweeps[s].id \in Translations
      /\ rows[j].lang = translations[sweeps[s].id].lang
  BY <1>1 DEF Inv, Asking, OrderedFirst
<1>5. sweeps'[s].pc = "upload" /\ sweeps'[s].row = sweeps[s].row
  BY <1>1, FetchedRow DEF Retrieve, Retrieval, Inv, Base
<1>6. \A i : Uploading(i)' <=> Uploading(i) \/ i \in {j}
  BY <1>1, <1>3, <1>5, SweepHolds
<1> HIDE DEF j
<1>7. CoveredRows' = CoveredRows \cup {j} /\ OnS3' = OnS3
  BY <1>2, <1>3, <1>4, <1>6, CoveredStep
<1>8. rows[j].lang \in OrderedLanguages
  BY <1>4 DEF OrderedLanguages
<1>9. Announced' = Announced
  BY <1>3, SameWord
<1> QED
  BY <1>2, <1>3, <1>4, <1>7, <1>8, <1>9, ReceivePromise DEF Promised

(* A transcript put on S3.                                                   *)
LEMMA UploadPromises ==
  ASSUME Inv, NEW h \in Handlers, Upload(h)
  PROVE  Promised
<1> DEFINE j == handlers[h].row
<1>1. HandlerNext(h) /\ handlers[h].pc = "upload" /\ ~Validate(h)
  BY DEF HandlerNext, Validate, Upload
<1>2. j \in Jobs /\ j \in CoveredRows
  BY <1>1, AtHand DEF CoveredRows, CoveredRow, Uploading
<1>3. /\ RowsKept /\ Jobs' = Jobs /\ rows'[j].onS3 /\ Base
      /\ \A i \in Jobs : i # j => rows'[i] = rows[i]
  BY <1>2, PutOnS3 DEF Upload, Inv
<1>4. /\ UNCHANGED <<preferred, vstatus, accepted, translations, garbled, sweeps>>
      /\ \A x \in Handlers : x # h => handlers'[x] = handlers[x]
      /\ handlers'[h].pc # "upload"
  BY <1>1, HandlerMoves DEF Upload, provider
<1>5. \A i : i # j => (Uploading(i)' <=> Uploading(i))
  BY <1>4, HandlerHolds
<1>6. dropped' \in {dropped, dropped \cup {j}}
  BY DEF Upload
<1> HIDE DEF j
<1>7. CoveredRows' = CoveredRows
  BY <1>2, <1>3, <1>5, <1>6, LeftCovered
<1>8. OnS3' = OnS3 \cup {j}
  BY <1>2, <1>3 DEF OnS3
<1>9. Announced' = Announced
  BY <1>4, SameWord
<1> QED
  BY <1>2, <1>3, <1>4, <1>7, <1>8, <1>9, ShipPromise DEF Promised

(* An error text put there: it may take the word back, and does nothing else.*)
LEMMA UploadErrorPromises ==
  ASSUME Inv, OrderedFirst, NEW h \in Handlers, UploadError(h)
  PROVE  Promised
<1>1. HandlerNext(h) /\ handlers[h].pc = "garble" /\ ~Upload(h) /\ ~Validate(h)
  BY DEF HandlerNext, Validate, Upload, UploadError
<1>2. RowsOnly /\ RowsKept /\ Base
  BY <1>1, HandlerRows DEF RowsOnly, Inv
<1>3. /\ UNCHANGED <<preferred, vstatus, accepted, translations, dropped, sweeps>>
      /\ \A x \in Handlers : x # h => handlers'[x] = handlers[x]
      /\ handlers'[h].pc # "upload" /\ garbled \subseteq garbled'
  BY <1>1, HandlerMoves DEF UploadError, store, provider
<1>4. \A i : Uploading(i)' <=> Uploading(i)
  BY <1>1, <1>3, HandlerHolds
<1>5. CoveredRows' = CoveredRows /\ OnS3' = OnS3
  BY <1>2, <1>3, <1>4, NothingCovered
<1>6. Announced' => Announced
  BY <1>3 DEF Announced, OnlyAnError
<1>7. CASE ~Announced'
  BY <1>2, <1>3, <1>5, <1>7, WithdrawPromise DEF Promised
<1>8. CASE Announced'
  <2>1. Announced' = Announced
    BY <1>6, <1>8 DEF Announced
  <2> QED
    BY <1>2, <1>3, <1>5, <2>1, QuietPromise DEF Promised
<1> QED
  BY <1>7, <1>8

LEMMA UploadTranslationPromises ==
  ASSUME Inv, NEW s \in Sweeps, UploadTranslation(s)
  PROVE  Promised
<1> DEFINE j == sweeps[s].row
<1>1. SweepNext(s) /\ sweeps[s].pc = "upload" /\ ~Retrieve(s)
  BY DEF SweepNext, Retrieve, UploadTranslation
<1>2. j \in Jobs /\ j \in CoveredRows
  BY <1>1 DEF Inv, Asking, CoveredRows, CoveredRow, Uploading
<1>3. /\ RowsKept /\ Jobs' = Jobs /\ rows'[j].onS3 /\ Base
      /\ \A i \in Jobs : i # j => rows'[i] = rows[i]
  BY <1>2, PutOnS3 DEF UploadTranslation, Inv
<1>4. /\ UNCHANGED <<preferred, vstatus, accepted, translations, dropped, garbled, handlers>>
      /\ \A x \in Sweeps : x # s => sweeps'[x] = sweeps[x]
      /\ sweeps'[s].pc # "upload"
  BY <1>1, SweepMoves DEF UploadTranslation, provider, history
<1>5. \A i : i # j => (Uploading(i)' <=> Uploading(i))
  BY <1>4, SweepHolds
<1> HIDE DEF j
<1>6. CoveredRows' = CoveredRows
  BY <1>2, <1>3, <1>4, <1>5, LeftCovered
<1>7. OnS3' = OnS3 \cup {j}
  BY <1>2, <1>3 DEF OnS3
<1>8. Announced' = Announced
  BY <1>4, SameWord
<1> QED
  BY <1>2, <1>3, <1>4, <1>6, <1>7, <1>8, ShipPromise DEF Promised

(* A video announced.                                                        *)
LEMMA AnnouncePromises ==
  ASSUME Inv, OrderedFirst, ShippedFirst, NEW h \in Handlers, Announce(h)
  PROVE  Promised
<1>1. /\ HandlerNext(h) /\ handlers[h].pc = "announce" /\ ~Upload(h) /\ ~Validate(h)
      /\ ~UploadError(h)
  BY DEF HandlerNext, Announce, Upload, UploadError, Validate
<1>2. RowsOnly /\ RowsKept /\ Base
  BY <1>1, HandlerRows DEF RowsOnly, Inv
<1>3. /\ UNCHANGED <<preferred, accepted, translations, dropped, garbled, sweeps>>
      /\ \A x \in Handlers : x # h => handlers'[x] = handlers[x]
      /\ vstatus' = "READY" /\ handlers'[h].pc # "upload"
  BY <1>1, HandlerMoves DEF Announce, provider, history
<1>4. \A i : Uploading(i)' <=> Uploading(i)
  BY <1>1, <1>3, HandlerHolds
<1>5. CoveredRows' = CoveredRows /\ OnS3' = OnS3
  BY <1>2, <1>3, <1>4, NothingCovered
<1>6. CASE OnlyAnError
  <2>1. Announced' = Announced
    BY <1>3, <1>6 DEF Announced, OnlyAnError
  <2> QED
    BY <1>2, <1>3, <1>5, <2>1, QuietPromise DEF Promised
<1>7. CASE ~OnlyAnError
  <2>1. /\ handlers[h].row \in Jobs /\ rows[handlers[h].row].onS3
        /\ AllCovered
    BY <1>1, <1>7, AtHand DEF Asked, ShippedFirst
  <2>2. Announced'
    BY <1>3, <1>7 DEF Announced, OnlyAnError
  <2> QED
    BY <1>2, <1>3, <1>5, <2>1, <2>2, AnnouncePromise DEF Promised
<1> QED
  BY <1>6, <1>7

LEMMA AnnounceTranslationsPromises ==
  ASSUME Inv, ShippedFirst, NEW s \in Sweeps, AnnounceTranslations(s)
  PROVE  Promised
<1>1. SweepNext(s) /\ sweeps[s].pc = "announce" /\ ~UploadTranslation(s) /\ ~Retrieve(s)
  BY DEF SweepNext, AnnounceTranslations, UploadTranslation, Retrieve
<1>2. RowsOnly /\ RowsKept /\ Base
  BY <1>1, SweepRows DEF RowsOnly, Inv
<1>3. /\ UNCHANGED <<preferred, accepted, translations, dropped, garbled, handlers>>
      /\ \A x \in Sweeps : x # s => sweeps'[x] = sweeps[x]
      /\ vstatus' = "READY" /\ sweeps'[s].pc # "upload"
  BY <1>1, SweepMoves DEF AnnounceTranslations, provider, history
<1>4. \A i : Uploading(i)' <=> Uploading(i)
  BY <1>1, <1>3, SweepHolds
<1>5. CoveredRows' = CoveredRows /\ OnS3' = OnS3
  BY <1>2, <1>3, <1>4, NothingCovered
<1>6. CASE OnlyAnError
  <2>1. Announced' = Announced
    BY <1>3, <1>6 DEF Announced, OnlyAnError
  <2> QED
    BY <1>2, <1>3, <1>5, <2>1, QuietPromise DEF Promised
<1>7. CASE ~OnlyAnError
  <2>1. sweeps[s].row \in Jobs /\ rows[sweeps[s].row].onS3 /\ AllCovered
    BY <1>1 DEF Inv, Asking, ShippedFirst
  <2>2. Announced'
    BY <1>3, <1>7 DEF Announced, OnlyAnError
  <2> QED
    BY <1>2, <1>3, <1>5, <2>1, <2>2, AnnouncePromise DEF Promised
<1> QED
  BY <1>6, <1>7

(* A process ended.                                                          *)
LEMMA DiePromises ==
  ASSUME Inv, OrderedFirst, NEW h \in Handlers, Die(h)
  PROVE  Promised
<1> DEFINE j == handlers[h].row
           late == \/ handlers[h].pc = "upload"
                   \/ handlers[h].pc \in {"create", "announce"} /\ rows[j].onS3
<1>1. HandlerNext(h) /\ handlers[h].pc # "idle" /\ handlers'[h].pc = "idle"
  <2>1. handlers \in [Handlers -> Request]
    BY DEF Inv, Base
  <2> QED
    BY <2>1 DEF HandlerNext, Die, Idle
<1>2. /\ UNCHANGED <<preferred, vstatus, rows, accepted, translations, garbled, sweeps>>
      /\ \A x \in Handlers : x # h => handlers'[x] = handlers[x]
  BY <1>1, HandlerMoves DEF Die, store, provider
<1>3. RowsOnly /\ RowsKept /\ Base /\ Jobs' = Jobs
  BY <1>2, OnlySame, SameRows DEF RowsOnly, Inv
<1>4. CASE late
  <2>1. j \in CoveredRows
    BY <1>4, AtHand DEF CoveredRows, CoveredRow, Uploading
  <2>2. dropped' = dropped \cup {j}
    BY <1>4 DEF Die
  <2>3. \A i : i # j => (Uploading(i)' <=> Uploading(i))
    BY <1>1, <1>2, HandlerHolds
  <2> HIDE DEF j
  <2>4. CoveredRows' = CoveredRows
    <3>1. j \in dropped' /\ dropped' \in {dropped, dropped \cup {j}}
      BY <2>2
    <3> QED
      BY <1>2, <1>3, <2>1, <2>3, <3>1, LeftCovered
  <2>5. OnS3' = OnS3
    BY <1>2, <1>3 DEF OnS3
  <2>6. Announced' = Announced
    BY <1>2, SameWord
  <2> QED
    BY <1>2, <1>3, <2>4, <2>5, <2>6, QuietPromise DEF Promised
<1>5. CASE ~late
  <2>1. dropped' = dropped
    BY <1>5 DEF Die
  <2>2. \A i : Uploading(i)' <=> Uploading(i)
    BY <1>1, <1>2, <1>5, HandlerHolds
  <2> QED
    BY <1>2, <1>3, <2>1, <2>2, Unseen
<1> QED
  BY <1>4, <1>5

LEMMA AbortPromises ==
  ASSUME Inv, ShippedFirst, NEW s \in Sweeps, Abort(s)
  PROVE  Promised
<1> DEFINE j == sweeps[s].row
<1>1. SweepNext(s) /\ sweeps[s].pc # "idle" /\ sweeps'[s].pc = "idle"
  <2>1. sweeps \in [Sweeps -> Retrieval]
    BY DEF Inv, Base
  <2> QED
    BY <2>1 DEF SweepNext, Abort, Asleep
<1>2. /\ UNCHANGED <<preferred, vstatus, rows, accepted, translations, garbled, handlers>>
      /\ \A x \in Sweeps : x # s => sweeps'[x] = sweeps[x]
  BY <1>1, SweepMoves DEF Abort, store, provider
<1>3. RowsOnly /\ RowsKept /\ Base /\ Jobs' = Jobs
  BY <1>2, OnlySame, SameRows DEF RowsOnly, Inv
<1>4. CASE sweeps[s].pc \in {"upload", "check", "announce"}
  <2>1. j \in CoveredRows
    BY <1>4 DEF Inv, Asking, CoveredRows, CoveredRow, Uploading, ShippedFirst
  <2>2. dropped' = dropped \cup {j}
    BY <1>4 DEF Abort
  <2>3. \A i : i # j => (Uploading(i)' <=> Uploading(i))
    BY <1>1, <1>2, SweepHolds
  <2> HIDE DEF j
  <2>4. CoveredRows' = CoveredRows
    <3>1. j \in dropped' /\ dropped' \in {dropped, dropped \cup {j}}
      BY <2>2
    <3> QED
      BY <1>2, <1>3, <2>1, <2>3, <3>1, LeftCovered
  <2>5. OnS3' = OnS3
    BY <1>2, <1>3 DEF OnS3
  <2>6. Announced' = Announced
    BY <1>2, SameWord
  <2> QED
    BY <1>2, <1>3, <2>4, <2>5, <2>6, QuietPromise DEF Promised
<1>5. CASE sweeps[s].pc \notin {"upload", "check", "announce"}
  <2>1. dropped' = dropped
    BY <1>5 DEF Abort
  <2>2. \A i : Uploading(i)' <=> Uploading(i)
    BY <1>1, <1>2, <1>5, SweepHolds
  <2> QED
    BY <1>2, <1>3, <2>1, <2>2, Unseen
<1> QED
  BY <1>4, <1>5

(* A translation ordered.                                                    *)
LEMMA PlacePromises ==
  ASSUME Inv, OrderedFirst, NEW h \in Handlers, Place(h)
  PROVE  Promised
<1> DEFINE j == handlers[h].row
           n == Len(translations) + 1
           e == [file |-> rows[j].file, lang |-> rows[j].lang]
<1>1. HandlerNext(h) /\ handlers[h].pc = "place" /\ ~Upload(h) /\ ~Validate(h)
  BY DEF HandlerNext, Place, Upload, Validate
<1>2. RowsOnly /\ RowsKept /\ Base
  BY <1>1, HandlerRows DEF RowsOnly, Inv
<1>3. /\ UNCHANGED <<preferred, vstatus, accepted, dropped, garbled, sweeps>>
      /\ \A x \in Handlers : x # h => handlers'[x] = handlers[x]
      /\ handlers'[h].pc # "upload"
  BY <1>1, HandlerMoves DEF Place, store, history
<1>4. \A i : Uploading(i)' <=> Uploading(i)
  BY <1>1, <1>3, HandlerHolds
<1>5. CoveredRows' = CoveredRows /\ OnS3' = OnS3
  BY <1>2, <1>3, <1>4, NothingCovered
<1>6. j \in Jobs /\ rows[j].lang \in Languages
  BY <1>1, AtHand, JobRow DEF Inv
<1>7. /\ Translations' = Translations \cup {n}
      /\ \A t \in Translations : translations'[t] = translations[t]
      /\ translations'[n].lang = rows[j].lang
  <2> DEFINE T == [file : Orders, lang : Languages]
  <2>1. translations \in Seq(T) /\ Len(translations) \in Nat
    BY <1>2, Lengths DEF Base
  <2>2. e \in T /\ e.lang = rows[j].lang
    BY <1>1, <1>2, <1>6, AtHand
  <2>3. translations' = Append(translations, e)
    BY DEF Place
  <2> HIDE DEF T, e
  <2>4. /\ Len(translations') = Len(translations) + 1
        /\ \A i \in 1..Len(translations) : translations'[i] = translations[i]
        /\ translations'[Len(translations) + 1] = e
    BY <2>1, <2>2, <2>3, AppendProperties
  <2> QED
    BY <2>1, <2>2, <2>4, OneMore DEF Translations
<1> HIDE DEF j, n
<1>8. OrderedLanguages' = OrderedLanguages \cup {rows[j].lang}
  <2>1. {translations'[t].lang : t \in Translations'} =
          {translations[t].lang : t \in Translations} \cup {rows[j].lang}
    BY <1>7
  <2>2. accepted' = accepted
    BY <1>3
  <2> QED
    BY <2>1, <2>2 DEF OrderedLanguages
<1>9. Announced' = Announced
  BY <1>3, SameWord
<1> QED
  BY <1>2, <1>3, <1>5, <1>6, <1>8, <1>9, OrderPromise DEF Promised

LEMMA HandlerPromises ==
  ASSUME Inv, OrderedFirst, ShippedFirst, NEW h \in Handlers, HandlerNext(h)
  PROVE  Promised
<1>1. CASE \/ Validate(h) \/ Upload(h) \/ UploadError(h) \/ Place(h)
           \/ Announce(h) \/ Die(h)
  BY <1>1, ValidatePromises, UploadPromises, UploadErrorPromises, PlacePromises, AnnouncePromises, DiePromises
<1>2. CASE ~(\/ Validate(h) \/ Upload(h) \/ UploadError(h) \/ Place(h)
             \/ Announce(h) \/ Die(h))
  <2>1. /\ UNCHANGED <<vstatus, translations, dropped, garbled>>
        /\ handlers[h].pc # "upload"
    BY <1>2
    DEF HandlerNext, FetchFails, CreateRow, GetServices, ServicesFail, Find,
        PlaceFails, MarkOrdered, store, provider, history
  <2>2. /\ UNCHANGED <<preferred, accepted, sweeps>>
        /\ \A x \in Handlers : x # h => handlers'[x] = handlers[x]
        /\ handlers'[h].pc # "upload"
    BY <1>2, HandlerMoves
  <2>3. \A i : Uploading(i)' <=> Uploading(i)
    BY <2>1, <2>2, HandlerHolds
  <2>4. RowsOnly
    BY <1>2, HandlerRows
  <2> QED
    BY <2>1, <2>2, <2>3, <2>4, Unseen
<1> QED
  BY <1>1, <1>2

LEMMA SweepPromises ==
  ASSUME Inv, OrderedFirst, ShippedFirst, NEW s \in Sweeps, SweepNext(s)
  PROVE  Promised
<1>1. CASE Retrieve(s) \/ UploadTranslation(s) \/ AnnounceTranslations(s) \/ Abort(s)
  BY <1>1, RetrievePromises, UploadTranslationPromises, AnnounceTranslationsPromises,
     AbortPromises
<1>2. CASE ~(Retrieve(s) \/ UploadTranslation(s) \/ AnnounceTranslations(s) \/ Abort(s))
  <2>1. /\ UNCHANGED <<vstatus, dropped, garbled>>
        /\ sweeps[s].pc # "upload"
    BY <1>2
    DEF SweepNext, Begin, ListFails, List, Pick, DownloadFails, RetrieveInvalid,
        Check, store, history
  <2>2. /\ UNCHANGED <<preferred, accepted, translations, handlers>>
        /\ \A x \in Sweeps : x # s => sweeps'[x] = sweeps[x]
        /\ sweeps'[s].pc # "upload"
    BY <1>2, SweepMoves
  <2>3. \A i : Uploading(i)' <=> Uploading(i)
    BY <2>1, <2>2, SweepHolds
  <2>4. RowsOnly
    BY <1>2, SweepRows
  <2> QED
    BY <2>1, <2>2, <2>3, <2>4, Unseen
<1> QED
  BY <1>1, <1>2

(* However deliveries, callbacks and runs of heal interleave, and wherever   *)
(* one of them dies: transcripts are only received in a language ordered, a  *)
(* language received or on S3 stays so, and a video is announced with a      *)
(* transcript on S3 and every preferred language received. An error text is  *)
(* no transcript; a video with nothing to translate for which one was put on *)
(* S3 does not count as announced (OnlyAnError): it may be all it has.       *)
THEOREM ThreePlayImplementsPromise == Spec => ThreePlayKeepsPromise
<1>1. Init => Promise!PromiseInit
  <2> SUFFICES ASSUME Init PROVE Promise!PromiseInit
    OBVIOUS
  <2>1. Jobs = {} /\ Translations = {} /\ accepted = {} /\ vstatus # "READY"
        /\ preferred \subseteq Languages
    BY EmptySeq DEF Init, Jobs, Translations
  <2>2. /\ OrderedLanguages = {} /\ ReceivedLanguages = {}
        /\ ShippedLanguages = {}
    BY <2>1 DEF OrderedLanguages, ReceivedLanguages, ShippedLanguages, Covered
  <2> QED
    BY <2>1, <2>2 DEF Promise!PromiseInit, Announced
<1>2. ThreePlayInv /\ [Next]_vars => [Promise!PromiseNext]_(Promise!promise)
  <2> SUFFICES ASSUME ThreePlayInv, [Next]_vars PROVE Promised
    BY DEF Promised
  <2>1. Inv /\ OrderedFirst /\ ShippedFirst
    BY Parts
  <2>2. CASE UNCHANGED vars
    <3>1. RowsOnly
      BY <2>1, <2>2, OnlySame DEF vars
    <3> QED
      BY <2>1, <2>2, <3>1, Unseen DEF vars, Uploading
  <2> QED
    BY <2>1, <2>2, OrderPromises, CallPromises, HandlerPromises, SweepPromises DEF Next
<1> QED
  BY <1>1, <1>2, ThreePlayInvariance, PTL
  DEF Spec, ThreePlayKeepsPromise, Promise!PromiseSpec
==============================================================================

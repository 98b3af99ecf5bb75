--------------------------- MODULE Cielo24_proofs ---------------------------
(* That CieloInv is an invariant of Cielo24, for every number of languages,  *)
(* orders and callbacks.                                                     *)
EXTENDS Cielo24, SequenceTheorems, TLAPS

USE Cielo24Assumption

-----------------------------------------------------------------------------
LEMMA OneMore ==
  ASSUME NEW n \in Nat
  PROVE  1..(n + 1) = (1..n) \cup {n + 1} /\ n + 1 \in Nat
OBVIOUS

LEMMA Between ==
  ASSUME NEW n \in Nat, NEW j \in 0..n
  PROVE  j \in 0..(n + 1) /\ (j # 0 => j \in 1..n)
OBVIOUS

LEMMA OneCall ==
  ASSUME NEW n \in Nat, NEW c \in 0..n, c < n
  PROVE  c + 1 \in 0..n
OBVIOUS

LEMMA NotZero ==
  ASSUME NEW n \in Nat
  PROVE  0 \notin 1..n /\ n \in 0..n /\ (n # 0 => n \in 1..n)
OBVIOUS

LEMMA Appended ==
  ASSUME NEW S, NEW q \in Seq(S), NEW e \in S, NEW p, p = Append(q, e)
  PROVE  /\ p \in Seq(S) /\ Len(p) = Len(q) + 1
         /\ \A i \in 1..Len(q) : p[i] = q[i]
         /\ p[Len(q) + 1] = e
BY AppendProperties

(* A function with another value at one argument.                            *)
LEMMA Changed ==
  ASSUME NEW S, NEW T, NEW f \in [S -> T], NEW a \in S, NEW b \in T,
         NEW g, g = [f EXCEPT ![a] = b]
  PROVE  g \in [S -> T] /\ g[a] = b /\ \A x \in S \ {a} : g[x] = f[x]
OBVIOUS

(* An order with another pc or job.                                          *)
LEMMA SetOrder ==
  ASSUME NEW t \in Order, NEW p \in {"create", "place", "done"}, NEW n \in Nat
  PROVE  /\ [t EXCEPT !.pc = p] \in Order
         /\ [t EXCEPT !.pc = p].job = t.job /\ [t EXCEPT !.pc = p].pc = p
         /\ [t EXCEPT !.pc = p, !.job = n] \in Order
         /\ [t EXCEPT !.pc = p, !.job = n].job = n
BY DEF Order

(* A job is a row.                                                           *)
LEMMA JobRow ==
  ASSUME TypeOK, NEW j \in Jobs
  PROVE  /\ rows[j] \in Row
         /\ j \in Nat \ {0} /\ j \in 1..Len(rows)
<1>1. Len(rows) \in Nat
  BY LenProperties DEF TypeOK
<1>2. rows[j] \in Row
  BY ElementOfSeq DEF TypeOK, Jobs
<1> QED
  BY <1>1, <1>2 DEF Jobs

(* A row saved over: nothing else changes.                                   *)
LEMMA SavedRow ==
  ASSUME TypeOK, NEW j \in Jobs, NEW r \in Row, rows' = [rows EXCEPT ![j] = r]
  PROVE  /\ rows' \in Seq(Row) /\ Len(rows') = Len(rows) /\ Jobs' = Jobs
         /\ rows'[j] = r
         /\ \A i \in Jobs \ {j} : rows'[i] = rows[i]
<1>1. rows \in Seq(Row) /\ j \in 1..Len(rows) /\ Len(rows) \in Nat
  BY JobRow, LenProperties DEF TypeOK
<1>2. /\ rows' \in Seq(Row) /\ Len(rows') = Len(rows)
      /\ \A i \in 1..Len(rows) : rows'[i] = IF i = j THEN r ELSE rows[i]
  BY <1>1, ExceptSeq
<1> QED
  BY <1>1, <1>2 DEF Jobs

LEMMA MarkStep ==
  ASSUME TypeOK, NEW j \in Jobs, NEW s \in {"FAILED", "READY"}, Mark(j, s)
  PROVE  /\ rows' \in Seq(Row) /\ Len(rows') = Len(rows) /\ Jobs' = Jobs
         /\ rows'[j].status = s
         /\ \A i \in Jobs : /\ rows'[i].uploaded = rows[i].uploaded
                            /\ rows'[i].lang = rows[i].lang
<1> DEFINE r == [rows[j] EXCEPT !.status = s]
<1>1. rows[j] \in Row
  BY JobRow
<1>2. /\ r \in Row /\ r.status = s /\ r.uploaded = rows[j].uploaded
      /\ r.lang = rows[j].lang
  BY <1>1 DEF Row
<1>3. rows' = [rows EXCEPT ![j] = r]
  BY DEF Mark
<1> HIDE DEF r
<1>4. /\ rows' \in Seq(Row) /\ Len(rows') = Len(rows) /\ Jobs' = Jobs
      /\ rows'[j] = r
      /\ \A i \in Jobs \ {j} : rows'[i] = rows[i]
  BY <1>2, <1>3, SavedRow
<1> QED
  BY <1>2, <1>4

(* A new row at the end.                                                     *)
LEMMA CreateStep ==
  ASSUME TypeOK, NEW o \in Orders, CreateJob(o)
  PROVE  /\ rows' \in Seq(Row) /\ Len(rows') = Len(rows) + 1
         /\ Len(rows) \in Nat
         /\ Jobs' = Jobs \cup {Len(rows) + 1}
         /\ \A i \in Jobs : rows'[i] = rows[i]
         /\ rows'[Len(rows) + 1].status = "IN PROGRESS"
         /\ rows'[Len(rows) + 1].uploaded = FALSE
<1> DEFINE r == [lang |-> orders[o].lang, status |-> "IN PROGRESS",
                 uploaded |-> FALSE]
<1>1. orders[o] \in Order
  BY DEF TypeOK
<1>2. r \in Row /\ r.status = "IN PROGRESS" /\ r.uploaded = FALSE
  BY <1>1 DEF Row, Order
<1>3. rows' = Append(rows, r) /\ rows \in Seq(Row) /\ Len(rows) \in Nat
  BY LenProperties DEF CreateJob, TypeOK
<1> HIDE DEF r
<1>4. /\ rows' \in Seq(Row) /\ Len(rows') = Len(rows) + 1
      /\ \A i \in 1..Len(rows) : rows'[i] = rows[i]
      /\ rows'[Len(rows) + 1] = r
  <2>1. r \in Row
    BY <1>2
  <2>2. rows \in Seq(Row)
    BY <1>3
  <2>3. rows' = Append(rows, r)
    BY <1>3
  <2> QED
    BY ONLY <2>1, <2>2, <2>3, Appended
<1>5. 1..(Len(rows) + 1) = (1..Len(rows)) \cup {Len(rows) + 1}
  BY <1>3, OneMore
<1> QED
  BY <1>2, <1>3, <1>4, <1>5 DEF Jobs

(* What NextLanguage does to the orders.                                     *)
LEMMA LanguageStep ==
  ASSUME TypeOK, NEW o \in Orders, NextLanguage(o)
  PROVE  /\ orders' \in [Orders -> Order]
         /\ \A x \in Orders : orders'[x].job = orders[x].job
         /\ \A x \in Orders \ {o} : orders'[x] = orders[x]
         /\ orders'[o].pc \in {"create", "done"}
<1> DEFINE last == orders[o].lang = LastLanguage
           t == [pc |-> IF last THEN "done" ELSE "create",
                 lang |-> IF last THEN LastLanguage ELSE orders[o].lang + 1,
                 job |-> orders[o].job]
<1>1. orders[o] \in Order /\ orders[o].lang \in 1..LastLanguage
  BY DEF TypeOK, Order, Languages
<1>2. (IF last THEN LastLanguage ELSE orders[o].lang + 1) \in Languages
  BY <1>1 DEF Languages
<1>3. t \in Order /\ t.job = orders[o].job /\ t.pc \in {"create", "done"}
  BY <1>1, <1>2 DEF Order
<1>4. orders' = [orders EXCEPT ![o] = t]
  BY DEF NextLanguage
<1> HIDE DEF t
<1> QED
  BY <1>3, <1>4 DEF TypeOK

(* What a step of an order keeps, but for the rows.                          *)
LEMMA OrderKeeps ==
  ASSUME NEW o \in Orders, OrderNext(o)
  PROVE  UNCHANGED <<calls, handlers, dropped>>
BY DEF OrderNext, Start, CreateJob, CreateFails, Place, PlaceFails, Abort

-----------------------------------------------------------------------------
(* Orders: types.                                                            *)
LEMMA OrderTypes ==
  ASSUME TypeOK, NEW o \in Orders, OrderNext(o)
  PROVE  TypeOK'
<1>1. /\ rows \in Seq(Row) /\ vstatus \in {"PENDING", "IN PROGRESS", "READY"}
      /\ orders \in [Orders -> Order] /\ orders[o] \in Order
      /\ accepted \subseteq Jobs /\ dropped \subseteq Jobs
      /\ Len(rows) \in Nat
  BY LenProperties DEF TypeOK
<1>2. \A x \in Orders : /\ orders[x].job \in 0..Len(rows)
                        /\ orders[x].pc = "place" => orders[x].job \in Jobs
  BY DEF TypeOK
<1>3. UNCHANGED <<calls, handlers, dropped>>
  BY OrderKeeps
<1>4. ASSUME Jobs \subseteq Jobs'
      PROVE  /\ calls' \in 0..MaxCalls
             /\ handlers' \in [Handlers -> Request]
             /\ \A h \in Handlers :
                  handlers'[h].pc # "idle" => handlers'[h].job \in Jobs'
             /\ dropped' \subseteq Jobs'
  BY <1>3, <1>4 DEF TypeOK
<1>5. CASE Start(o) \/ Abort(o)
  <2>1. UNCHANGED rows /\ Jobs' = Jobs
    BY <1>5 DEF Start, Abort, Jobs
  <2>2. PICK p \in {"create", "done"} :
          orders' = [orders EXCEPT ![o] = [orders[o] EXCEPT !.pc = p]]
    BY <1>1, <1>5 DEF Start, Abort
  <2>3. /\ orders' \in [Orders -> Order]
        /\ \A x \in Orders : orders'[x].job = orders[x].job
        /\ \A x \in Orders : orders'[x].pc = "place" => orders[x].pc = "place"
    <3> DEFINE t == [orders[o] EXCEPT !.pc = p]
    <3>1. t \in Order /\ t.job = orders[o].job /\ t.pc # "place"
      <4>1. orders[o] \in Order /\ p \in {"create", "done"}
        BY <1>1
      <4> QED
        BY ONLY <4>1 DEF Order
    <3>2. orders' = [orders EXCEPT ![o] = t]
      BY <2>2
    <3> HIDE DEF t
    <3>3. orders' \in [Orders -> Order] /\ orders'[o] = t
          /\ \A x \in Orders \ {o} : orders'[x] = orders[x]
      BY <1>1, <3>1, <3>2, Changed
    <3> QED
      BY <3>1, <3>3
  <2>4. accepted' \subseteq Jobs
    BY <1>1, <1>2, <1>5 DEF Start, Abort
  <2>5. vstatus' \in {"PENDING", "IN PROGRESS", "READY"}
    BY <1>1, <1>5 DEF Start, Abort
  <2> QED
    BY <1>1, <1>2, <1>4, <2>1, <2>3, <2>4, <2>5 DEF TypeOK
<1>6. CASE CreateJob(o)
  <2>1. /\ rows' \in Seq(Row) /\ Len(rows') = Len(rows) + 1
        /\ Jobs' = Jobs \cup {Len(rows) + 1}
    BY <1>6, CreateStep
  <2>2. orders' = [orders EXCEPT ![o] =
                     [orders[o] EXCEPT !.pc = "place", !.job = Len(rows) + 1]]
    BY <1>1, <1>6 DEF CreateJob
  <2>3. Len(rows) + 1 \in Nat
    BY <1>1, OneMore
  <2>4. /\ orders' \in [Orders -> Order]
        /\ \A x \in Orders \ {o} : orders'[x] = orders[x]
        /\ orders'[o].job = Len(rows) + 1
    <3> DEFINE t == [orders[o] EXCEPT !.pc = "place", !.job = Len(rows) + 1]
    <3>1. t \in Order /\ t.job = Len(rows) + 1
      BY <1>1, <2>3 DEF Order
    <3>2. orders' = [orders EXCEPT ![o] = t]
      BY <2>2
    <3> HIDE DEF t
    <3>3. orders' \in [Orders -> Order] /\ orders'[o] = t
          /\ \A x \in Orders \ {o} : orders'[x] = orders[x]
      BY <1>1, <3>1, <3>2, Changed
    <3> QED
      BY <3>1, <3>3
  <2>5. ASSUME NEW x \in Orders
        PROVE  /\ orders'[x].job \in 0..Len(rows')
               /\ orders'[x].pc = "place" => orders'[x].job \in Jobs'
    <3>1. CASE x = o
      BY <2>1, <2>3, <2>4, <3>1, NotZero
    <3>2. CASE x # o
      BY <1>1, <1>2, <2>1, <2>4, <3>2, Between
    <3> QED
      BY <3>1, <3>2
  <2>6. accepted' \subseteq Jobs' /\ vstatus' = vstatus
    BY <1>1, <1>6, <2>1 DEF CreateJob
  <2> QED
    BY <1>1, <1>4, <2>1, <2>4, <2>5, <2>6 DEF TypeOK
<1>7. CASE CreateFails(o) \/ Place(o) \/ PlaceFails(o)
  <2>1. /\ orders' \in [Orders -> Order]
        /\ \A x \in Orders : orders'[x].job = orders[x].job
        /\ \A x \in Orders : orders'[x].pc = "place" => orders[x].pc = "place"
    BY <1>7, LanguageStep DEF CreateFails, Place, PlaceFails
  <2>2. rows' \in Seq(Row) /\ Len(rows') = Len(rows) /\ Jobs' = Jobs
    <3>1. CASE UNCHANGED rows
      BY <1>1, <3>1 DEF Jobs
    <3>2. CASE orders[o].job # 0 /\ Mark(orders[o].job, "FAILED")
      <4>1. orders[o].job \in Jobs
        BY <1>1, <1>2, <3>2, Between DEF Jobs
      <4> QED
        BY <3>2, <4>1, MarkStep
    <3>3. PlaceFails(o) => orders[o].job # 0
      <4>1. 0 \notin 1..Len(rows)
        BY <1>1, NotZero
      <4> QED
        BY <1>2, <4>1 DEF PlaceFails, Jobs
    <3> QED
      BY <1>7, <3>1, <3>2, <3>3 DEF CreateFails, Place, PlaceFails
  <2>3. accepted' \subseteq Jobs /\ vstatus' = vstatus
    BY <1>1, <1>2, <1>7 DEF CreateFails, Place, PlaceFails
  <2> QED
    BY <1>1, <1>2, <1>4, <2>1, <2>2, <2>3 DEF TypeOK
<1> QED
  BY <1>5, <1>6, <1>7 DEF OrderNext

-----------------------------------------------------------------------------
(* The rows: what is uploaded stays so, and no row changes its language.     *)
LEMMA OrderRows ==
  ASSUME TypeOK, NEW o \in Orders, OrderNext(o)
  PROVE  /\ Jobs \subseteq Jobs'
         /\ \A i \in Jobs : /\ rows'[i].uploaded = rows[i].uploaded
                            /\ rows'[i].lang = rows[i].lang
         /\ \A i \in Jobs' : i \in Jobs \/ ~rows'[i].uploaded
<1>1. CASE UNCHANGED rows
  BY <1>1 DEF Jobs
<1>2. CASE CreateJob(o)
  BY <1>2, CreateStep
<1>3. CASE (CreateFails(o) /\ orders[o].job # 0) \/ PlaceFails(o)
  <2>1. Mark(orders[o].job, "FAILED")
    BY <1>3 DEF CreateFails, PlaceFails
  <2>2. orders[o].job \in Jobs
    BY <1>3, NotZero, Between, LenProperties
    DEF TypeOK, PlaceFails, Jobs
  <2> QED
    BY <2>1, <2>2, MarkStep
<1> QED
  BY <1>1, <1>2, <1>3
  DEF OrderNext, Start, CreateFails, Place, Abort

LEMMA UploadStep ==
  ASSUME TypeOK, NEW j \in Jobs, rows' = [rows EXCEPT ![j].uploaded = TRUE]
  PROVE  /\ rows' \in Seq(Row) /\ Len(rows') = Len(rows) /\ Jobs' = Jobs
         /\ rows'[j].uploaded = TRUE /\ rows'[j].lang = rows[j].lang
         /\ \A i \in Jobs \ {j} : rows'[i] = rows[i]
<1> DEFINE r == [rows[j] EXCEPT !.uploaded = TRUE]
<1>1. rows[j] \in Row
  BY JobRow
<1>2. r \in Row /\ r.uploaded = TRUE /\ r.lang = rows[j].lang
  BY <1>1 DEF Row
<1>3. rows' = [rows EXCEPT ![j] = r]
  OBVIOUS
<1> HIDE DEF r
<1> QED
  BY <1>2, <1>3, SavedRow

LEMMA HandlerRows ==
  ASSUME TypeOK, NEW h \in Handlers, HandlerNext(h)
  PROVE  /\ rows' \in Seq(Row) /\ Len(rows') = Len(rows) /\ Jobs' = Jobs
         /\ \A i \in Jobs : /\ rows[i].uploaded => rows'[i].uploaded
                            /\ rows'[i].lang = rows[i].lang
<1>1. CASE UNCHANGED rows
  BY <1>1 DEF Jobs, TypeOK
<1>2. ASSUME NEW j \in Jobs, NEW s \in {"FAILED", "READY"}, Mark(j, s)
      PROVE  /\ rows' \in Seq(Row) /\ Len(rows') = Len(rows) /\ Jobs' = Jobs
             /\ \A i \in Jobs : /\ rows[i].uploaded => rows'[i].uploaded
                                /\ rows'[i].lang = rows[i].lang
  BY <1>2, MarkStep
<1>3. CASE \E j \in Jobs : Refuse(h, j)
  BY <1>2, <1>3 DEF Refuse
<1>4. CASE FetchFails(h) \/ MarkReady(h)
  <2>1. handlers[h].job \in Jobs
    BY <1>4 DEF TypeOK, FetchFails, MarkReady
  <2> QED
    BY <1>2, <1>4, <2>1 DEF FetchFails, MarkReady
<1>5. CASE Upload(h)
  <2>1. handlers[h].job \in Jobs
    BY <1>5 DEF TypeOK, Upload
  <2>2. rows' = [rows EXCEPT ![handlers[h].job].uploaded = TRUE]
    BY <1>5 DEF Upload
  <2> QED
    BY <2>1, <2>2, UploadStep
<1> QED
  BY <1>1, <1>3, <1>4, <1>5
  DEF HandlerNext, Receive, UploadFails, Check, Announce, Die

(* The requests: only the one that takes the step changes.                   *)
LEMMA HandlerRequests ==
  ASSUME TypeOK, NEW h \in Handlers, HandlerNext(h)
  PROVE  /\ handlers' \in [Handlers -> Request]
         /\ \A x \in Handlers \ {h} : handlers'[x] = handlers[x]
         /\ handlers'[h].pc # "idle" => handlers'[h].job \in Jobs
<1>1. /\ handlers \in [Handlers -> Request] /\ handlers[h] \in Request
      /\ handlers[h].pc # "idle" => handlers[h].job \in Jobs
      /\ Jobs \subseteq Nat
  BY JobRow DEF TypeOK
<1>2. PICK r \in Request :
        /\ handlers' = [handlers EXCEPT ![h] = r]
        /\ r.pc # "idle" => r.job \in Jobs
  <2>1. ASSUME NEW j \in Jobs, Receive(h, j)
        PROVE  \E r \in Request :
                 /\ handlers' = [handlers EXCEPT ![h] = r]
                 /\ r.pc # "idle" => r.job \in Jobs
    <3> DEFINE r == [pc |-> "fetch", job |-> j]
    <3>1. r \in Request /\ r.job \in Jobs
      BY <1>1 DEF Request
    <3>2. handlers' = [handlers EXCEPT ![h] = r]
      BY <2>1 DEF Receive
    <3> HIDE DEF r
    <3> QED
      BY <3>1, <3>2
  <2>2. CASE \E j \in Jobs : Refuse(h, j)
    BY <1>1, <2>2 DEF Refuse
  <2>3. CASE handlers' = [handlers EXCEPT ![h] = Idle]
    <3>1. Idle \in Request /\ Idle.pc = "idle"
      BY DEF Request, Idle
    <3> QED
      BY <2>3, <3>1
  <2>4. CASE handlers[h].pc # "idle" /\ \E p \in {"upload", "check"} :
               handlers' = [handlers EXCEPT ![h].pc = p]
    <3>1. PICK p \in {"upload", "check"} :
            handlers' = [handlers EXCEPT ![h] = [handlers[h] EXCEPT !.pc = p]]
      BY <2>4
    <3> DEFINE r == [handlers[h] EXCEPT !.pc = p]
    <3>2. r \in Request /\ r.job \in Jobs
      BY <1>1, <2>4 DEF Request
    <3> HIDE DEF r
    <3>3. handlers' = [handlers EXCEPT ![h] = r]
      BY <3>1 DEF r
    <3> QED
      BY <3>2, <3>3
  <2>5. CASE handlers[h].pc # "idle" /\ handlers' =
          [handlers EXCEPT ![h] = [pc |-> "announce", job |-> handlers[h].job]]
    <3> DEFINE r == [pc |-> "announce", job |-> handlers[h].job]
    <3>1. r \in Request /\ r.job \in Jobs
      BY <1>1, <2>5 DEF Request
    <3>2. handlers' = [handlers EXCEPT ![h] = r]
      BY <2>5
    <3> HIDE DEF r
    <3> QED
      BY <3>1, <3>2
  <2>6. CASE Check(h)
    BY <2>3, <2>5, <2>6 DEF Check
  <2> QED
    BY <2>1, <2>2, <2>3, <2>4, <2>6
    DEF HandlerNext, FetchFails, MarkReady, UploadFails, Upload, Announce, Die
<1> QED
  BY <1>1, <1>2, Changed

LEMMA HandlerTypes ==
  ASSUME TypeOK, NEW h \in Handlers, HandlerNext(h)
  PROVE  TypeOK'
<1>1. /\ rows' \in Seq(Row) /\ Len(rows') = Len(rows) /\ Jobs' = Jobs
  BY HandlerRows
<1>2. /\ handlers' \in [Handlers -> Request]
      /\ \A x \in Handlers : handlers'[x].pc # "idle" => handlers'[x].job \in Jobs
  BY HandlerRequests DEF TypeOK
<1>3. UNCHANGED <<orders, accepted>>
  BY DEF HandlerNext, Receive, Refuse, FetchFails, MarkReady, UploadFails,
         Upload, Check, Announce, Die
<1>4. vstatus' \in {vstatus, "READY"}
  BY DEF HandlerNext, Receive, Refuse, FetchFails, MarkReady, UploadFails,
         Upload, Check, Announce, Die
<1>5. dropped' \subseteq Jobs
  BY DEF TypeOK, HandlerNext, Receive, Refuse, FetchFails, MarkReady,
         UploadFails, Upload, Check, Announce, Die
<1>6. calls' \in 0..MaxCalls
  <2> calls \in 0..MaxCalls
    BY DEF TypeOK
  <2>1. CASE calls' = calls
    BY <2>1
  <2>2. CASE calls < MaxCalls /\ calls' = calls + 1
    BY ONLY <2>2, calls \in 0..MaxCalls, Cielo24Assumption, OneCall
    DEF Cielo24Assumption
  <2> QED
    BY <2>1, <2>2
    DEF HandlerNext, Called, Receive, Refuse, FetchFails, MarkReady,
        UploadFails, Upload, Check, Announce, Die
<1> QED
  BY <1>1, <1>2, <1>3, <1>4, <1>5, <1>6 DEF TypeOK

-----------------------------------------------------------------------------
(* A failed row, or one that is not yet ready, is in nobody's way.           *)
LEMMA NotReady ==
  ASSUME NEW j \in Jobs', rows'[j].status # "READY"
  PROVE  LastCallbackAnnounces'
BY DEF LastCallbackAnnounces, AllReady

(* The last to look: steps of an order.                                      *)
LEMMA OrderLast ==
  ASSUME CieloInv, NEW o \in Orders, OrderNext(o)
  PROVE  /\ LastCallbackAnnounces'
         /\ \A x \in Orders : orders'[x].pc = "none" => orders'[x].job = 0
<1>1. TypeOK /\ LastCallbackAnnounces /\ orders \in [Orders -> Order]
      /\ \A x \in Orders : orders[x].pc = "none" => orders[x].job = 0
  BY DEF CieloInv, TypeOK
<1>2. UNCHANGED <<handlers, dropped>>
  BY OrderKeeps
<1>3. ASSUME \A x \in Orders : orders'[x].job = orders[x].job,
             \A x \in Orders \ {o} : orders'[x] = orders[x],
             orders'[o].pc # "none"
      PROVE  /\ \A x \in Orders : orders'[x].pc = "none" => orders'[x].job = 0
             /\ Jobless => Jobless'
             /\ orders[o].job = 0 => Jobless'
  BY <1>1, <1>3 DEF Jobless
<1>4. ASSUME UNCHANGED <<rows, vstatus>>, Jobless => Jobless'
      PROVE  LastCallbackAnnounces'
  BY <1>1, <1>2, <1>4 DEF LastCallbackAnnounces, AllReady, AtWork, Jobs
<1>5. ASSUME NEW p \in {"create", "done"},
             orders' = [orders EXCEPT ![o] = [orders[o] EXCEPT !.pc = p]]
      PROVE  /\ \A x \in Orders : orders'[x].job = orders[x].job
             /\ \A x \in Orders \ {o} : orders'[x] = orders[x]
             /\ orders'[o].pc # "none"
  <2> DEFINE t == [orders[o] EXCEPT !.pc = p]
  <2>1. orders[o] \in Order
    BY <1>1
  <2>2. t \in Order /\ t.job = orders[o].job /\ t.pc # "none"
    BY <2>1, SetOrder DEF Order
  <2>3. orders' = [orders EXCEPT ![o] = t]
    BY <1>5
  <2> HIDE DEF t
  <2>4. orders' \in [Orders -> Order] /\ orders'[o] = t
        /\ \A x \in Orders \ {o} : orders'[x] = orders[x]
    BY <1>1, <2>2, <2>3, Changed
  <2> QED
    BY <2>2, <2>4
<1>6. CASE Start(o)
  <2>1. orders' = [orders EXCEPT ![o] = [orders[o] EXCEPT !.pc = "create"]]
    BY <1>6 DEF Start
  <2>2. orders[o].job = 0
    BY <1>1, <1>6 DEF Start
  <2>3. /\ \A x \in Orders : orders'[x].job = orders[x].job
        /\ \A x \in Orders \ {o} : orders'[x] = orders[x]
        /\ orders'[o].pc # "none"
    BY <1>5, <2>1
  <2>4. /\ \A x \in Orders : orders'[x].pc = "none" => orders'[x].job = 0
        /\ Jobless'
    BY <1>3, <2>2, <2>3
  <2> QED
    BY <2>4 DEF LastCallbackAnnounces
<1>7. CASE Abort(o)
  <2>1. orders' = [orders EXCEPT ![o] = [orders[o] EXCEPT !.pc = "done"]]
    BY <1>7 DEF Abort
  <2>2. UNCHANGED <<rows, vstatus>>
    BY <1>7 DEF Abort
  <2>3. /\ \A x \in Orders : orders'[x].job = orders[x].job
        /\ \A x \in Orders \ {o} : orders'[x] = orders[x]
        /\ orders'[o].pc # "none"
    BY <1>5, <2>1
  <2>4. /\ \A x \in Orders : orders'[x].pc = "none" => orders'[x].job = 0
        /\ Jobless => Jobless'
    BY <1>3, <2>3
  <2>5. LastCallbackAnnounces'
    BY ONLY <1>4, <2>2, <2>4
  <2> QED
    BY <2>4, <2>5
<1>8. CASE CreateJob(o)
  <2>1. Len(rows) + 1 \in Jobs' /\ rows'[Len(rows) + 1].status # "READY"
    BY <1>1, <1>8, CreateStep
  <2>2. LastCallbackAnnounces'
    BY <2>1, NotReady
  <2> DEFINE t == [orders[o] EXCEPT !.pc = "place", !.job = Len(rows) + 1]
  <2>3. orders[o] \in Order /\ Len(rows) + 1 \in Nat
    BY <1>1, <1>8, CreateStep, OneMore
  <2>4. t \in Order /\ t.pc = "place"
    BY <2>3 DEF Order
  <2>5. orders' = [orders EXCEPT ![o] = t]
    BY <1>8 DEF CreateJob
  <2> HIDE DEF t
  <2>6. orders'[o] = t /\ \A x \in Orders \ {o} : orders'[x] = orders[x]
    BY <1>1, <2>4, <2>5, Changed
  <2> QED
    BY <1>1, <2>2, <2>4, <2>6
<1>9. CASE CreateFails(o) \/ Place(o) \/ PlaceFails(o)
  <2>1. NextLanguage(o)
    BY <1>9 DEF CreateFails, Place, PlaceFails
  <2>2. /\ \A x \in Orders : orders'[x].job = orders[x].job
        /\ \A x \in Orders \ {o} : orders'[x] = orders[x]
        /\ orders'[o].pc # "none"
    BY <1>1, <2>1, LanguageStep
  <2>3. CASE UNCHANGED <<rows, vstatus>>
    BY <1>3, <1>4, <2>2, <2>3
  <2>4. CASE Mark(orders[o].job, "FAILED") /\ orders[o].job \in Jobs
    <3>1. orders[o].job \in Jobs' /\ rows'[orders[o].job].status # "READY"
      BY <1>1, <2>4, MarkStep
    <3> QED
      BY <1>3, <2>2, <3>1, NotReady
  <2>5. orders[o].job # 0 => orders[o].job \in Jobs
    BY <1>1, Between, LenProperties DEF TypeOK, Jobs
  <2>6. orders[o].pc = "place" => orders[o].job \in Jobs
    BY <1>1 DEF TypeOK
  <2> QED
    BY <1>9, <2>3, <2>4, <2>5, <2>6 DEF CreateFails, Place, PlaceFails
<1> QED
  BY <1>6, <1>7, <1>8, <1>9 DEF OrderNext

(* The last to look: steps of a request.                                     *)
LEMMA HandlerLast ==
  ASSUME CieloInv, NEW h \in Handlers, HandlerNext(h)
  PROVE  LastCallbackAnnounces'
<1>1. TypeOK /\ LastCallbackAnnounces /\ handlers \in [Handlers -> Request]
  BY DEF CieloInv, TypeOK
<1>2. \A x \in Handlers \ {h} : handlers'[x] = handlers[x]
  BY <1>1, HandlerRequests
<1>3. UNCHANGED orders
  BY DEF HandlerNext, Receive, Refuse, FetchFails, MarkReady, UploadFails,
         Upload, Check, Announce, Die
<1>4. ASSUME UNCHANGED <<rows, vstatus, dropped>>,
             handlers[h].pc \notin {"upload", "check", "announce"}
      PROVE  LastCallbackAnnounces'
  <2>1. AtWork => AtWork'
    BY <1>2, <1>4 DEF AtWork
  <2> QED
    BY <1>1, <1>3, <1>4, <2>1
    DEF LastCallbackAnnounces, AllReady, Jobs, Jobless
<1>5. ASSUME handlers'[h].pc \in {"upload", "check", "announce"}
      PROVE  LastCallbackAnnounces'
  BY <1>5 DEF LastCallbackAnnounces, AtWork
<1>6. ASSUME NEW j \in Jobs, Mark(j, "FAILED")
      PROVE  LastCallbackAnnounces'
  BY <1>1, <1>6, MarkStep, NotReady
<1>7. handlers[h].pc # "idle" => handlers[h].job \in Jobs
  BY <1>1 DEF TypeOK
<1>8. ASSUME NEW j \in Jobs, Receive(h, j)
      PROVE  LastCallbackAnnounces'
  BY <1>4, <1>8 DEF Receive, Called
<1>9. CASE \E j \in Jobs : Refuse(h, j)
  BY <1>6, <1>9 DEF Refuse
<1>10. CASE FetchFails(h)
  BY <1>6, <1>7, <1>10 DEF FetchFails
<1>11. CASE MarkReady(h) \/ Upload(h)
  <2>1. handlers'[h].pc \in {"upload", "check"}
    BY <1>1, <1>11 DEF MarkReady, Upload, Request
  <2> QED
    BY <1>5, <2>1
<1>12. ASSUME dropped' # {}
       PROVE  LastCallbackAnnounces'
  BY <1>12 DEF LastCallbackAnnounces
<1>13. CASE UploadFails(h)
  BY <1>12, <1>13 DEF UploadFails
<1>14. CASE Check(h)
  <2>1. CASE AllReady
    <3>1. handlers'[h].pc = "announce"
      BY <1>1, <1>14, <2>1 DEF Check
    <3> QED
      BY <1>5, <3>1
  <2>2. CASE ~AllReady
    <3>1. ~AllReady'
      BY <1>14, <2>2 DEF Check, AllReady, Jobs
    <3> QED
      BY <3>1 DEF LastCallbackAnnounces
  <2> QED
    BY <2>1, <2>2
<1>15. CASE Announce(h)
  BY <1>15 DEF Announce, LastCallbackAnnounces
<1>16. CASE Die(h)
  <2>1. CASE handlers[h].pc = "fetch"
    BY <1>4, <1>16, <2>1 DEF Die
  <2>2. CASE handlers[h].pc # "fetch"
    BY <1>12, <1>16, <2>2 DEF Die
  <2> QED
    BY <2>1, <2>2
<1> QED
  BY <1>8, <1>9, <1>10, <1>11, <1>13, <1>14, <1>15, <1>16 DEF HandlerNext

-----------------------------------------------------------------------------
(* What the READY video and the callbacks that look rest on.                 *)
LEMMA OrderUploads ==
  ASSUME CieloInv, NEW o \in Orders, OrderNext(o)
  PROVE  ReadyHasTranscript' /\ UploadedFirst'
<1>1. TypeOK /\ ReadyHasTranscript /\ UploadedFirst
  BY DEF CieloInv
<1>2. /\ Jobs \subseteq Jobs'
      /\ \A i \in Jobs : rows'[i].uploaded = rows[i].uploaded
  BY <1>1, OrderRows
<1>3. UNCHANGED handlers
  BY OrderKeeps
<1>4. vstatus' \in {vstatus, "IN PROGRESS"}
  BY DEF OrderNext, Start, CreateJob, CreateFails, Place, PlaceFails, Abort
<1>5. ReadyHasTranscript'
  BY <1>1, <1>2, <1>4 DEF ReadyHasTranscript
<1>6. \A h \in Handlers : handlers[h].pc # "idle" => handlers[h].job \in Jobs
  BY <1>1 DEF TypeOK
<1>7. UploadedFirst'
  BY <1>1, <1>2, <1>3, <1>6 DEF UploadedFirst
<1> QED
  BY <1>5, <1>7

LEMMA HandlerUploads ==
  ASSUME CieloInv, NEW h \in Handlers, HandlerNext(h)
  PROVE  ReadyHasTranscript' /\ UploadedFirst'
<1>1. TypeOK /\ ReadyHasTranscript /\ UploadedFirst
      /\ handlers \in [Handlers -> Request] /\ handlers[h] \in Request
      /\ \A x \in Handlers : handlers[x].pc # "idle" => handlers[x].job \in Jobs
  BY DEF CieloInv, TypeOK
<1>2. Jobs' = Jobs /\ \A i \in Jobs : rows[i].uploaded => rows'[i].uploaded
  BY <1>1, HandlerRows
<1>3. \A x \in Handlers \ {h} : handlers'[x] = handlers[x]
  BY <1>1, HandlerRequests
<1>4. ReadyHasTranscript'
  <2>1. CASE Announce(h)
    <3>1. handlers[h].job \in Jobs /\ rows[handlers[h].job].uploaded
      BY <1>1, <2>1 DEF Announce, UploadedFirst
    <3> QED
      BY <1>2, <3>1 DEF ReadyHasTranscript
  <2>2. CASE ~Announce(h)
    <3>1. vstatus' = vstatus
      BY <2>2 DEF HandlerNext, Receive, Refuse, FetchFails, MarkReady,
                  UploadFails, Upload, Check, Die
    <3> QED
      BY <1>1, <1>2, <3>1 DEF ReadyHasTranscript
  <2> QED
    BY <2>1, <2>2
<1>5. handlers'[h].pc \in {"check", "announce"} => rows'[handlers'[h].job].uploaded
  <2>1. CASE Upload(h)
    <3>1. handlers[h].job \in Jobs
      BY <1>1, <2>1 DEF Upload
    <3>2. rows'[handlers[h].job].uploaded = TRUE
      BY <1>1, <2>1, <3>1, UploadStep DEF Upload
    <3>3. handlers'[h].job = handlers[h].job
      BY <1>1, <2>1 DEF Upload, Request
    <3> QED
      BY <3>2, <3>3
  <2>2. CASE Check(h)
    <3>1. rows' = rows /\ rows[handlers[h].job].uploaded
      BY <1>1, <2>2 DEF Check, UploadedFirst
    <3>2. handlers'[h].pc = "announce" => handlers'[h].job = handlers[h].job
      BY <1>1, <2>2 DEF Check, Idle
    <3>3. handlers'[h].pc # "check"
      BY <1>1, <2>2 DEF Check, Idle
    <3> QED
      BY <3>1, <3>2, <3>3
  <2>3. CASE ~Upload(h) /\ ~Check(h)
    <3>1. handlers'[h].pc \notin {"check", "announce"}
      BY <1>1, <2>3
      DEF HandlerNext, Receive, Refuse, Called, FetchFails, MarkReady,
          UploadFails, Announce, Die, Idle, Request
    <3> QED
      BY <3>1
  <2> QED
    BY <2>1, <2>2, <2>3
<1>6. UploadedFirst'
  BY <1>1, <1>2, <1>3, <1>5 DEF UploadedFirst
<1> QED
  BY <1>4, <1>6

-----------------------------------------------------------------------------
(* The jobs of the callbacks are accepted: no step takes one back.           *)
LEMMA OrderAccepted ==
  ASSUME AcceptedFirst, NEW o \in Orders, OrderNext(o)
  PROVE  AcceptedFirst'
<1>1. accepted \subseteq accepted'
  BY DEF OrderNext, Start, CreateJob, CreateFails, Place, PlaceFails, Abort
<1>2. UNCHANGED handlers
  BY OrderKeeps
<1> QED
  BY <1>1, <1>2 DEF AcceptedFirst

(* A request that goes on is about the job it was about, or a new one.       *)
LEMMA SameJob ==
  ASSUME TypeOK, NEW h \in Handlers, HandlerNext(h), handlers'[h].pc # "idle"
  PROVE  \/ handlers[h].pc # "idle" /\ handlers'[h].job = handlers[h].job
         \/ handlers'[h].job \in accepted
<1>1. handlers \in [Handlers -> Request] /\ handlers[h] \in Request
  BY DEF TypeOK
<1>2. ASSUME NEW j \in Jobs, Receive(h, j)
      PROVE  handlers'[h].job \in accepted
  BY <1>1, <1>2 DEF Receive, Called
<1>3. ASSUME NEW j \in Jobs, Refuse(h, j)
      PROVE  FALSE
  BY <1>3 DEF Refuse, Called
<1>4. ASSUME MarkReady(h) \/ Upload(h)
      PROVE  handlers[h].pc # "idle" /\ handlers'[h].job = handlers[h].job
  BY <1>1, <1>4 DEF MarkReady, Upload, Request
<1>5. ASSUME Check(h)
      PROVE  handlers[h].pc # "idle" /\ handlers'[h].job = handlers[h].job
  BY <1>1, <1>5 DEF Check, Idle
<1>6. ASSUME FetchFails(h) \/ UploadFails(h) \/ Announce(h) \/ Die(h)
      PROVE  FALSE
  BY <1>1, <1>6 DEF FetchFails, UploadFails, Announce, Die, Idle
<1> QED
  BY <1>2, <1>3, <1>4, <1>5, <1>6 DEF HandlerNext

LEMMA HandlerAccepted ==
  ASSUME TypeOK, AcceptedFirst, NEW h \in Handlers, HandlerNext(h)
  PROVE  AcceptedFirst'
<1>1. UNCHANGED accepted
  BY DEF HandlerNext, Receive, Refuse, FetchFails, MarkReady, UploadFails,
         Upload, Check, Announce, Die
<1>2. \A x \in Handlers \ {h} : handlers'[x] = handlers[x]
  BY HandlerRequests
<1>3. handlers'[h].pc # "idle" => handlers'[h].job \in accepted
  BY SameJob DEF AcceptedFirst
<1> QED
  BY <1>1, <1>2, <1>3 DEF AcceptedFirst

-----------------------------------------------------------------------------
(* CieloInv holds in every reachable state, whatever the number of languages *)
(* and however orders, callbacks and failures interleave.                    *)
THEOREM CieloInvariance == Spec => []CieloInv
<1>1. Init => CieloInv
  <2> SUFFICES ASSUME Init PROVE CieloInv
    OBVIOUS
  <2>1. rows \in Seq(Row) /\ Len(rows) = 0 /\ Jobs = {}
    BY DEF Init, Jobs
  <2>2. /\ orders \in [Orders -> Order]
        /\ \A o \in Orders : orders[o].pc = "none" /\ orders[o].job = 0
    BY DEF Init, Order, Languages, Cielo24Assumption
  <2>3. /\ handlers \in [Handlers -> Request]
        /\ \A h \in Handlers : handlers[h].pc = "idle"
    BY DEF Init, Idle, Request
  <2>4. calls \in 0..MaxCalls
    BY DEF Init, Cielo24Assumption
  <2>5. TypeOK
    BY <2>1, <2>2, <2>3, <2>4 DEF Init, TypeOK
  <2>6. LastCallbackAnnounces /\ ReadyHasTranscript /\ UploadedFirst /\ AcceptedFirst
    BY <2>3 DEF Init, LastCallbackAnnounces, ReadyHasTranscript, UploadedFirst,
                AcceptedFirst
  <2> QED
    BY <2>2, <2>5, <2>6 DEF CieloInv
<1>2. CieloInv /\ [Next]_vars => CieloInv'
  <2> SUFFICES ASSUME CieloInv, [Next]_vars PROVE CieloInv'
    OBVIOUS
  <2>1. TypeOK
    BY DEF CieloInv
  <2>2. ASSUME NEW o \in Orders, OrderNext(o) PROVE CieloInv'
    BY <2>1, <2>2, OrderTypes, OrderLast, OrderUploads, OrderAccepted DEF CieloInv
  <2>3. ASSUME NEW h \in Handlers, HandlerNext(h) PROVE CieloInv'
    <3>1. UNCHANGED orders
      BY <2>3 DEF HandlerNext, Receive, Refuse, FetchFails, MarkReady,
                  UploadFails, Upload, Check, Announce, Die
    <3>2. \A o \in Orders : orders'[o].pc = "none" => orders'[o].job = 0
      BY <3>1 DEF CieloInv
    <3> QED
      BY <2>1, <2>3, <3>2, HandlerTypes, HandlerLast, HandlerUploads,
         HandlerAccepted
      DEF CieloInv
  <2>4. CASE UNCHANGED vars
    BY <2>4
    DEF vars, CieloInv, TypeOK, Jobs, LastCallbackAnnounces, AllReady, AtWork,
        Jobless, ReadyHasTranscript, UploadedFirst, AcceptedFirst
  <2> QED
    BY <2>2, <2>3, <2>4 DEF Next
<1> QED
  BY <1>1, <1>2, PTL DEF Spec

(* When every job is READY and no callback works on one, somebody said so in *)
(* the Video row, or a callback was lost, or an order that got no job yet    *)
(* said IN PROGRESS: no interleaving of the checks of transcripts.py:258     *)
(* leaves the video unannounced by itself.                                   *)
THEOREM LastIsAnnounced == Spec => []LastCallbackAnnounces
<1>1. CieloInv => LastCallbackAnnounces
  BY DEF CieloInv
<1> QED
  BY <1>1, CieloInvariance, PTL

(* A READY video has a transcript on S3.                                     *)
THEOREM ReadyHasUpload == Spec => []ReadyHasTranscript
<1>1. CieloInv => ReadyHasTranscript
  BY DEF CieloInv
<1> QED
  BY <1>1, CieloInvariance, PTL

-----------------------------------------------------------------------------
(* Cielo24 implements TranscriptPromise: every step of an order or a request *)
(* is a step of the promise, or invisible to it.                             *)
Fetched == {j \in Jobs : Received(j)}
Uploaded == {j \in Jobs : rows[j].uploaded}

(* What a step does to the languages is what it does to the rows.            *)
LangsKept == Jobs \subseteq Jobs' /\ \A i \in Jobs : rows'[i].lang = rows[i].lang

(* The languages after a step, by the rows before it.                        *)
LEMMA NewLanguages ==
  ASSUME LangsKept
  PROVE  /\ \A S \in SUBSET Jobs :
              /\ accepted' = S => OrderedLanguages' = LanguagesOf(S)
              /\ Fetched' = S => ReceivedLanguages' = LanguagesOf(S)
              /\ Uploaded' = S => ShippedLanguages' = LanguagesOf(S)
         /\ \A S \in SUBSET Jobs, i \in Jobs :
              LanguagesOf(S \cup {i}) = LanguagesOf(S) \cup {rows[i].lang}
<1>1. ASSUME NEW S \in SUBSET Jobs
      PROVE  {rows'[j].lang : j \in S} = LanguagesOf(S)
  BY <1>1 DEF LangsKept, LanguagesOf
<1>2. /\ OrderedLanguages' = {rows'[j].lang : j \in accepted'}
      /\ ReceivedLanguages' = {rows'[j].lang : j \in Fetched'}
      /\ ShippedLanguages' = {rows'[j].lang : j \in Uploaded'}
  BY DEF OrderedLanguages, ReceivedLanguages, ShippedLanguages, LanguagesOf,
         Fetched, Uploaded
<1>3. \A S \in SUBSET Jobs, i \in Jobs :
        LanguagesOf(S \cup {i}) = LanguagesOf(S) \cup {rows[i].lang}
  BY DEF LanguagesOf
<1> QED
  BY <1>1, <1>2, <1>3

LEMMA Views ==
  ASSUME TypeOK
  PROVE  /\ accepted \in SUBSET Jobs /\ OrderedLanguages = LanguagesOf(accepted)
         /\ Fetched \in SUBSET Jobs /\ ReceivedLanguages = LanguagesOf(Fetched)
         /\ Uploaded \in SUBSET Jobs /\ ShippedLanguages = LanguagesOf(Uploaded)
BY DEF TypeOK, Fetched, Uploaded, OrderedLanguages, ReceivedLanguages,
       ShippedLanguages

Unseen == UNCHANGED <<accepted, Fetched, Uploaded>>

LEMMA UnseenLanguages ==
  ASSUME TypeOK, LangsKept
  PROVE  /\ accepted' = accepted => OrderedLanguages' = OrderedLanguages
         /\ Fetched' = Fetched => ReceivedLanguages' = ReceivedLanguages
         /\ Uploaded' = Uploaded => ShippedLanguages' = ShippedLanguages
BY NewLanguages, Views

(* The abstract steps.                                                       *)
LEMMA QuietPromise ==
  ASSUME TypeOK, LangsKept, Unseen, (vstatus' = "READY") = (vstatus = "READY")
  PROVE  UNCHANGED Promise!promise
BY UnseenLanguages DEF Unseen, Promise!promise

LEMMA OrderPromise ==
  ASSUME TypeOK, LangsKept, NEW j \in Jobs, accepted' = accepted \cup {j},
         UNCHANGED <<Fetched, Uploaded, vstatus>>
  PROVE  Promise!Order(rows[j].lang) /\ rows[j].lang \in Languages
<1>1. OrderedLanguages' = OrderedLanguages \cup {rows[j].lang}
  <2>1. accepted \in SUBSET Jobs /\ accepted \cup {j} \in SUBSET Jobs
        /\ OrderedLanguages = LanguagesOf(accepted)
    BY Views
  <2>2. OrderedLanguages' = LanguagesOf(accepted \cup {j})
    BY <2>1, NewLanguages
  <2> QED
    BY <2>1, <2>2, NewLanguages
<1>2. rows[j].lang \in Languages
  BY JobRow DEF Row
<1> QED
  BY <1>1, <1>2, UnseenLanguages DEF Promise!Order

LEMMA ReceivePromise ==
  ASSUME TypeOK, LangsKept, NEW j \in accepted, Fetched' = Fetched \cup {j},
         UNCHANGED <<accepted, Uploaded, vstatus>>
  PROVE  Promise!Receive(rows[j].lang) /\ rows[j].lang \in Languages
<1>1. j \in Jobs
  BY DEF TypeOK
<1>2. ReceivedLanguages' = ReceivedLanguages \cup {rows[j].lang}
  <2>1. Fetched \in SUBSET Jobs /\ Fetched \cup {j} \in SUBSET Jobs
        /\ ReceivedLanguages = LanguagesOf(Fetched)
    BY <1>1, Views
  <2>2. ReceivedLanguages' = LanguagesOf(Fetched \cup {j})
    BY <2>1, NewLanguages
  <2> QED
    BY <1>1, <2>1, <2>2, NewLanguages
<1>3. rows[j].lang \in OrderedLanguages
  BY DEF OrderedLanguages, LanguagesOf
<1>4. rows[j].lang \in Languages
  BY <1>1, JobRow DEF Row
<1> QED
  BY <1>2, <1>3, <1>4, UnseenLanguages DEF Promise!Receive

LEMMA ShipPromise ==
  ASSUME TypeOK, LangsKept, NEW j \in Fetched, Uploaded' = Uploaded \cup {j},
         UNCHANGED <<accepted, Fetched, vstatus>>
  PROVE  Promise!Ship(rows[j].lang) /\ rows[j].lang \in Languages
<1>1. j \in Jobs
  BY DEF Fetched
<1>2. ShippedLanguages' = ShippedLanguages \cup {rows[j].lang}
  <2>1. Uploaded \in SUBSET Jobs /\ Uploaded \cup {j} \in SUBSET Jobs
        /\ ShippedLanguages = LanguagesOf(Uploaded)
    BY <1>1, Views
  <2>2. ShippedLanguages' = LanguagesOf(Uploaded \cup {j})
    BY <2>1, NewLanguages
  <2> QED
    BY <1>1, <2>1, <2>2, NewLanguages
<1>3. rows[j].lang \in ReceivedLanguages
  BY Views DEF LanguagesOf
<1>4. rows[j].lang \in Languages
  BY <1>1, JobRow DEF Row
<1> QED
  BY <1>2, <1>3, <1>4, UnseenLanguages DEF Promise!Ship

LEMMA AnnouncePromise ==
  ASSUME TypeOK, LangsKept, Unseen, vstatus' = "READY", Uploaded # {}
  PROVE  Promise!Announce
<1>1. ShippedLanguages # {}
  BY Views DEF LanguagesOf
<1> QED
  BY <1>1, UnseenLanguages DEF Unseen, Promise!Announce

LEMMA WithdrawPromise ==
  ASSUME TypeOK, LangsKept, Unseen, vstatus' # "READY"
  PROVE  Promise!Withdraw
BY UnseenLanguages DEF Unseen, Promise!Withdraw

(* The steps of an order: no transcript is fetched or uploaded.              *)
LEMMA OrderUnseen ==
  ASSUME TypeOK, NEW o \in Orders, OrderNext(o)
  PROVE  LangsKept /\ UNCHANGED <<Fetched, Uploaded>>
<1>1. /\ Jobs \subseteq Jobs'
      /\ \A i \in Jobs : /\ rows'[i].uploaded = rows[i].uploaded
                         /\ rows'[i].lang = rows[i].lang
      /\ \A i \in Jobs' : i \in Jobs \/ ~rows'[i].uploaded
  BY OrderRows
<1>2. UNCHANGED <<handlers, dropped>>
  BY OrderKeeps
<1>3. ASSUME NEW i \in Jobs
      PROVE  Received(i)' <=> Received(i)
  BY <1>1, <1>2 DEF Received
<1>4. ASSUME NEW i \in Jobs', i \notin Jobs
      PROVE  ~Received(i)'
  BY <1>1, <1>2, <1>4 DEF TypeOK, Received
<1>5. Fetched' = Fetched
  BY <1>1, <1>3, <1>4 DEF Fetched
<1>6. Uploaded' = Uploaded
  BY <1>1 DEF Uploaded
<1> QED
  BY <1>1, <1>5, <1>6 DEF LangsKept

LEMMA OrderPromises ==
  ASSUME TypeOK, NEW o \in Orders, OrderNext(o)
  PROVE  [Promise!PromiseNext]_(Promise!promise)
<1>1. LangsKept /\ UNCHANGED <<Fetched, Uploaded>>
  BY OrderUnseen
<1>2. ASSUME UNCHANGED <<accepted, vstatus>>
      PROVE  UNCHANGED Promise!promise
  BY <1>1, <1>2, QuietPromise DEF Unseen
<1>3. CASE Start(o)
  <2>1. vstatus' # "READY" /\ accepted' = accepted
    BY <1>3 DEF Start
  <2> QED
    BY <1>1, <2>1, WithdrawPromise DEF Unseen, Promise!PromiseNext
<1>4. CASE orders[o].pc = "place" /\ accepted' = accepted \cup {orders[o].job}
           /\ vstatus' = vstatus
  <2>1. orders[o].job \in Jobs
    BY <1>4 DEF TypeOK
  <2> QED
    BY <1>1, <1>4, <2>1, OrderPromise DEF Promise!PromiseNext
<1> QED
  BY <1>2, <1>3, <1>4
  DEF OrderNext, CreateJob, CreateFails, Place, PlaceFails, Abort

(* The steps of a request: what it may do to the transcripts.                *)
LEMMA HandlerUnseen ==
  ASSUME TypeOK, UploadedFirst, NEW h \in Handlers, HandlerNext(h)
  PROVE  /\ LangsKept /\ UNCHANGED accepted
         /\ \/ Unseen
            \/ /\ handlers[h].pc = "fetch" /\ Fetched' = Fetched \cup {handlers[h].job}
               /\ UNCHANGED <<Uploaded, vstatus>>
            \/ /\ handlers[h].pc = "upload" /\ Uploaded' = Uploaded \cup {handlers[h].job}
               /\ UNCHANGED <<Fetched, vstatus>>
<1>1. /\ handlers \in [Handlers -> Request] /\ handlers[h] \in Request
      /\ handlers[h].pc # "idle" => handlers[h].job \in Jobs
      /\ handlers' \in [Handlers -> Request]
      /\ \A x \in Handlers \ {h} : handlers'[x] = handlers[x]
  BY HandlerRequests DEF TypeOK
<1>2. /\ Jobs' = Jobs /\ LangsKept
      /\ \A i \in Jobs : rows[i].uploaded => rows'[i].uploaded
  BY HandlerRows DEF LangsKept
<1>3. UNCHANGED accepted
  BY DEF HandlerNext, Receive, Refuse, FetchFails, MarkReady, UploadFails,
         Upload, Check, Announce, Die
<1>4. ASSUME \A i \in Jobs : rows'[i].uploaded = rows[i].uploaded
      PROVE  Uploaded' = Uploaded
  BY <1>2, <1>4 DEF Uploaded
<1>5. ASSUME UNCHANGED dropped, \A i \in Jobs : rows'[i].uploaded = rows[i].uploaded,
             handlers[h].pc # "upload", handlers'[h].pc # "upload"
      PROVE  Unseen
  <2>1. \A i \in Jobs : Received(i)' <=> Received(i)
    BY <1>1, <1>5 DEF Received
  <2> QED
    BY <1>2, <1>3, <1>4, <1>5, <2>1 DEF Fetched, Unseen
<1>6. ASSUME NEW j \in Jobs, Receive(h, j)
      PROVE  Unseen
  BY <1>1, <1>5, <1>6 DEF Receive, Called
<1>7. ASSUME NEW j \in Jobs, Refuse(h, j)
      PROVE  Unseen
  <2>1. \A i \in Jobs : rows'[i].uploaded = rows[i].uploaded
    BY <1>7, MarkStep DEF Refuse
  <2> QED
    BY <1>5, <1>7, <2>1 DEF Refuse, Called
<1>8. CASE FetchFails(h)
  <2>1. \A i \in Jobs : rows'[i].uploaded = rows[i].uploaded
    BY <1>1, <1>8, MarkStep DEF FetchFails
  <2> QED
    BY <1>1, <1>2, <1>3, <1>5, <1>8, <2>1 DEF FetchFails, Idle
<1>9. CASE MarkReady(h)
  <2>1. \A i \in Jobs : rows'[i].uploaded = rows[i].uploaded
    BY <1>1, <1>9, MarkStep DEF MarkReady
  <2>2. /\ handlers[h].pc = "fetch" /\ handlers[h].job \in Jobs
        /\ handlers'[h].pc = "upload" /\ handlers'[h].job = handlers[h].job
        /\ UNCHANGED <<dropped, vstatus>>
    BY <1>1, <1>9 DEF MarkReady, Request
  <2>3. \A i \in Jobs : Received(i)' <=> Received(i) \/ i = handlers[h].job
    BY <1>1, <2>1, <2>2 DEF Received
  <2>4. Fetched' = Fetched \cup {handlers[h].job}
    BY <1>2, <2>2, <2>3 DEF Fetched
  <2> QED
    BY <1>2, <1>3, <1>4, <2>1, <2>2, <2>4
<1>10. CASE Upload(h)
  <2>1. handlers[h].pc = "upload" /\ handlers[h].job \in Jobs
    BY <1>1, <1>10 DEF Upload
  <2>2. /\ rows'[handlers[h].job].uploaded
        /\ \A i \in Jobs \ {handlers[h].job} : rows'[i] = rows[i]
    BY <1>10, <2>1, UploadStep DEF Upload
  <2>3. handlers'[h].pc = "check" /\ UNCHANGED <<dropped, vstatus>>
    BY <1>1, <1>10 DEF Upload
  <2>4. \A i \in Jobs : Received(i)' <=> Received(i)
    BY <1>1, <2>1, <2>2, <2>3 DEF Received
  <2>5. Fetched' = Fetched
    BY <1>2, <2>4 DEF Fetched
  <2>6. Uploaded' = Uploaded \cup {handlers[h].job}
    BY <1>2, <2>1, <2>2 DEF Uploaded
  <2> QED
    BY <1>2, <1>3, <2>1, <2>3, <2>5, <2>6
<1>11. CASE Check(h) \/ Announce(h)
  BY <1>1, <1>2, <1>3, <1>5, <1>11 DEF Check, Announce, Idle
<1>12. CASE UploadFails(h) \/ Die(h)
  <2>1. UNCHANGED rows /\ handlers[h].pc # "idle" /\ handlers'[h].pc = "idle"
    BY <1>1, <1>12 DEF UploadFails, Die, Idle
  <2>2. CASE handlers[h].pc = "fetch"
    BY <1>2, <1>3, <1>5, <1>12, <2>1, <2>2 DEF UploadFails, Die
  <2>3. CASE handlers[h].pc # "fetch"
    <3>1. dropped' = dropped \cup {handlers[h].job}
      BY <1>12, <2>3 DEF UploadFails, Die
    <3>2. Received(handlers[h].job)
      BY <1>1, <2>1, <2>3 DEF Received, UploadedFirst, Request
    <3>3. \A i \in Jobs : Received(i)' <=> Received(i)
      BY <1>1, <2>1, <3>1, <3>2 DEF Received
    <3>4. Fetched' = Fetched
      BY <1>2, <3>3 DEF Fetched
    <3> QED
      BY <1>2, <1>3, <1>4, <2>1, <3>4 DEF Unseen
  <2> QED
    BY <2>2, <2>3
<1> QED
  BY <1>2, <1>3, <1>6, <1>7, <1>8, <1>9, <1>10, <1>11, <1>12 DEF HandlerNext

LEMMA HandlerPromises ==
  ASSUME CieloInv, NEW h \in Handlers, HandlerNext(h)
  PROVE  [Promise!PromiseNext]_(Promise!promise)
<1>1. TypeOK /\ UploadedFirst /\ AcceptedFirst
  BY DEF CieloInv
<1>2. LangsKept /\ UNCHANGED accepted
  BY <1>1, HandlerUnseen
<1>3. CASE Unseen
  <2>1. CASE vstatus' = vstatus
    BY <1>1, <1>2, <1>3, <2>1, QuietPromise
  <2>2. CASE Announce(h)
    <3>1. handlers[h].job \in Uploaded /\ vstatus' = "READY"
      BY <1>1, <2>2 DEF Announce, UploadedFirst, TypeOK, Uploaded
    <3>2. Uploaded # {}
      BY <3>1
    <3> QED
      BY <1>1, <1>2, <1>3, <3>1, <3>2, AnnouncePromise DEF Promise!PromiseNext
  <2> QED
    BY <2>1, <2>2
    DEF HandlerNext, Receive, Refuse, FetchFails, MarkReady, UploadFails,
        Upload, Check, Die
<1>4. CASE /\ handlers[h].pc = "fetch" /\ Fetched' = Fetched \cup {handlers[h].job}
           /\ UNCHANGED <<Uploaded, vstatus>>
  <2>1. handlers[h].job \in accepted
    BY <1>1, <1>4 DEF AcceptedFirst
  <2> QED
    BY <1>1, <1>2, <1>4, <2>1, ReceivePromise DEF Promise!PromiseNext
<1>5. CASE /\ handlers[h].pc = "upload" /\ Uploaded' = Uploaded \cup {handlers[h].job}
           /\ UNCHANGED <<Fetched, vstatus>>
  <2>1. handlers[h].job \in Fetched
    BY <1>1, <1>5 DEF TypeOK, Fetched, Received
  <2> QED
    BY <1>1, <1>2, <1>5, <2>1, ShipPromise DEF Promise!PromiseNext
<1> QED
  BY <1>1, <1>3, <1>4, <1>5, HandlerUnseen

(* Whatever order the callbacks come in, and whichever of them fail or die:  *)
(* Cielo24 only receives what was ordered, keeps what it received, and       *)
(* announces a video with a transcript on S3.                                *)
THEOREM CieloImplementsPromise == Spec => CieloKeepsPromise
<1>1. Init => Promise!PromiseInit
  <2> SUFFICES ASSUME Init PROVE Promise!PromiseInit
    OBVIOUS
  <2>1. Jobs = {} /\ accepted = {} /\ vstatus # "READY"
    BY DEF Init, Jobs
  <2>2. /\ OrderedLanguages = {} /\ ReceivedLanguages = {}
        /\ ShippedLanguages = {}
    BY <2>1
    DEF OrderedLanguages, ReceivedLanguages, ShippedLanguages, LanguagesOf
  <2> QED
    BY <2>1, <2>2 DEF Promise!PromiseInit
<1>2. CieloInv /\ [Next]_vars => [Promise!PromiseNext]_(Promise!promise)
  <2> SUFFICES ASSUME CieloInv, [Next]_vars
               PROVE  [Promise!PromiseNext]_(Promise!promise)
    OBVIOUS
  <2>1. TypeOK
    BY DEF CieloInv
  <2>2. CASE UNCHANGED vars
    <3>1. /\ LangsKept /\ Unseen /\ vstatus' = vstatus
      BY <2>2 DEF vars, LangsKept, Unseen, Jobs, Fetched, Received, Uploaded
    <3> QED
      BY <2>1, <3>1, QuietPromise
  <2> QED
    BY <2>1, <2>2, OrderPromises, HandlerPromises DEF Next
<1> QED
  BY <1>1, <1>2, CieloInvariance, PTL
  DEF Spec, CieloKeepsPromise, Promise!PromiseSpec
==============================================================================

------------------------- MODULE TranscriptPromise -------------------------
(* What a course team is promised of the transcripts of one video, whoever   *)
(* makes them, without rows, processes or calls: a language is ordered, then *)
(* its transcript is received, then it is on S3, and nothing of that is ever *)
(* undone. The video is called ready only with a transcript on S3 and every  *)
(* wanted language received; a new order takes the word back.                *)
CONSTANT Languages

VARIABLES wanted, ordered, received, shipped, ready

promise == <<wanted, ordered, received, shipped, ready>>

PromiseInit ==
  /\ wanted \subseteq Languages
  /\ ordered = {}
  /\ received = {}
  /\ shipped = {}
  /\ ready = FALSE

Order(l) ==
  /\ ordered' = ordered \cup {l}
  /\ UNCHANGED <<wanted, received, shipped, ready>>

Receive(l) ==
  /\ l \in ordered
  /\ received' = received \cup {l}
  /\ UNCHANGED <<wanted, ordered, shipped, ready>>

Ship(l) ==
  /\ l \in received
  /\ shipped' = shipped \cup {l}
  /\ UNCHANGED <<wanted, ordered, received, ready>>

Announce ==
  /\ wanted \subseteq received
  /\ shipped # {}
  /\ ready' = TRUE
  /\ UNCHANGED <<wanted, ordered, received, shipped>>

Withdraw ==
  /\ ready' = FALSE
  /\ UNCHANGED <<wanted, ordered, received, shipped>>

PromiseNext ==
  \/ \E l \in Languages : Order(l) \/ Receive(l) \/ Ship(l)
  \/ Announce
  \/ Withdraw

PromiseSpec == PromiseInit /\ [][PromiseNext]_promise
=============================================================================

---------------------------- MODULE VideoPromise ----------------------------
(* What the pipeline promises a course team about each video, without        *)
(* processes, messages or stale rows: encodes are delivered one by one and   *)
(* never taken back; a video is called complete only with every counted      *)
(* encode delivered (the word may be withdrawn: heal re-queues what is       *)
(* missing); its transcription starts only after the encodes it waits for,   *)
(* and having been started is never forgotten.                               *)
CONSTANTS Videos, Exempt, Counted, Awaited

VARIABLES delivered, complete, transcribed

promise == <<delivered, complete, transcribed>>

Deserved(v) == v \in Exempt \/ Counted \subseteq delivered[v]

PromiseInit ==
  /\ delivered = [v \in Videos |-> {}]
  /\ complete = [v \in Videos |-> FALSE]
  /\ transcribed = [v \in Videos |-> FALSE]

Delivered(v) ==
  /\ \E e \in Counted \cup Awaited :
       delivered' = [delivered EXCEPT ![v] = @ \cup {e}]
  /\ UNCHANGED <<complete, transcribed>>

Declare(v) ==
  /\ Deserved(v)
  /\ complete' = [complete EXCEPT ![v] = TRUE]
  /\ UNCHANGED <<delivered, transcribed>>

Withdraw(v) ==
  /\ complete' = [complete EXCEPT ![v] = FALSE]
  /\ UNCHANGED <<delivered, transcribed>>

(* The row that records the start of the transcription is saved whole: the   *)
(* word about the encodes may change with it.                                *)
Transcribe(v) ==
  /\ Awaited \subseteq delivered[v]
  /\ transcribed' = [transcribed EXCEPT ![v] = TRUE]
  /\ \E c \in BOOLEAN :
       /\ c => Deserved(v)
       /\ complete' = [complete EXCEPT ![v] = c]
  /\ UNCHANGED delivered

PromiseNext ==
  \E v \in Videos :
    Delivered(v) \/ Declare(v) \/ Withdraw(v) \/ Transcribe(v)

PromiseSpec == PromiseInit /\ [][PromiseNext]_promise
=============================================================================

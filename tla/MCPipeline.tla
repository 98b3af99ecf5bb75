----------------------------- MODULE MCPipeline -----------------------------
(* The pipeline for TLC. BoundedSpec counts the runs of send_encodes and     *)
(* stops them at MaxSweeps, which keeps two workers side by side small.      *)
EXTENDS Pipeline, TLC

CONSTANT MaxSweeps

VARIABLE sweeps

Sweeping(h, query) ==
  /\ sweeps < MaxSweeps
  /\ sweeps' = sweeps + 1
  /\ SweepBy(h, query)

BoundedNext ==
  \/ \E h \in Healers, query \in SUBSET Videos : Sweeping(h, query)
  \/ /\ UNCHANGED sweeps
     /\ \/ \E w \in Workers : DeliverBy(w)
        \/ \E h \in Healers : HealBy(h)
        \/ CallbackNext
        \/ \E v \in Videos : UploadNext(v) \/ UpdateNext(v)
        \/ \E v \in Videos, e \in Encodes : EncodeNext(v, e)
        \/ CrashNext

BoundedSpec ==
  Init /\ sweeps = 0 /\ [][BoundedNext]_<<vars, sweeps>>

WorkerSymmetry == Permutations(Workers)
=============================================================================

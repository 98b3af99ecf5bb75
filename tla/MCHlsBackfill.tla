--------------------------- MODULE MCHlsBackfill ---------------------------
(* Instances of HlsBackfill for TLC.                                         *)
EXTENDS HlsBackfill, TLC

(* A video that was transcribed: edx-val does not know it, or lacks its HLS, *)
(* of which the database has less than it needs.                             *)
MCInit ==
  /\ Init
  /\ \A v \in Videos :
       /\ transcribe[v]
       /\ val[v] = [known |-> urls[v] # <<>>, encodes |-> {}]
       /\ \A i \in 1..Len(urls[v]) : urls[v][i] = [encode |-> Hls, sound |-> FALSE]

MCSpec == MCInit /\ [][Next]_vars

Symmetry == Permutations(Callers)
=============================================================================

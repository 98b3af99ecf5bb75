------------------------------ MODULE MCIngest ------------------------------
(* Ingest for TLC: each upload comes from a course run of its own.           *)
EXTENDS Ingest, TLC

MCRunOf == [u \in Uploads |-> u]
TaskSymmetry == Permutations(Ingesters)
=============================================================================

--------------------------- MODULE MCCredentials ---------------------------
(* Instances of Credentials for TLC.                                         *)
EXTENDS Credentials, TLC

Symmetry == Permutations(Processes)
=============================================================================

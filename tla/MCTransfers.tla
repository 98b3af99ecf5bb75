---------------------------- MODULE MCTransfers -----------------------------
(* Two processes of each kind on one machine, and a video for YouTube, for   *)
(* the review channel and for S3, next to another for YouTube.               *)
EXTENDS Transfers, TLC

CONSTANTS d1, d2, i1, i2, a, b

MCJobs == {[video |-> "v1", profile |-> e] : e \in {"youtube", "review", "hd"}}
            \cup {[video |-> "v2", profile |-> "youtube"]}

Symmetry == Permutations({d1, d2}) \cup Permutations({i1, i2}) \cup Permutations({a, b})
=============================================================================

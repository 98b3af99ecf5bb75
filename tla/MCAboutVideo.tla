---------------------------- MODULE MCAboutVideo ----------------------------
(* One upload, two requests of the form for two codes, and the stops of the  *)
(* daemons that let a file be ingested twice. The form and the rest have but *)
(* the courses in common, which the ingest daemon reads when it finds a file:*)
(* the requests are answered before a file is sent, or between two files. No *)
(* course is there at first: the form enters it.                             *)
EXTENDS AboutVideo, TLC

CONSTANTS f1, f2

Answering == \E f \in Forms : forms[f].pc # "idle"
Waiting == \E u \in Uploads : folders[u].upload # 0

MCNext == Next /\ (Answering => sends' = sends) /\ (Waiting => UNCHANGED formVars)

MCInit == Init /\ courses = <<>>

MCSpec == MCInit /\ [][MCNext]_vars

Symmetry == Permutations({f1, f2})
=============================================================================

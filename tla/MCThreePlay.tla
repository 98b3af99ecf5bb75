---------------------------- MODULE MCThreePlay ----------------------------
(* Instances of ThreePlay for TLC.                                           *)
EXTENDS ThreePlay, FiniteSets, TLC

CONSTANTS
  MaxDeaths,  \* bound: processes that end too early for their row
  MaxWork     \* bound: languages, orders, calls and retrievals together

English == 1
AllLanguages == 1..3
AllPreferences == {{1}, {2}, {1, 2}, {1, 2, 3}}

Bounded ==
  /\ Cardinality(dropped') + Cardinality(orphaned') <= MaxDeaths
  /\ Cardinality(preferred) + Cardinality({o \in Orders : orders'[o] # "none"})
       + calls' + retrievals' <= MaxWork

MCSpec == Init /\ [][Next /\ Bounded]_vars

Symmetry == Permutations(Handlers) \cup Permutations(Sweeps) \cup Permutations(Orders)
=============================================================================

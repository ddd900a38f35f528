------------------------------ MODULE MCUpload ------------------------------
(* Two connections for two uploads of one name, of which the first may be   *)
(* resumed.                                                                 *)
EXTENDS Upload, FiniteSets

CONSTANTS c1, c2, n1, MaxBusy

MCConnection == {c1, c2}
MCName == {n1}
MCResumable == {1}

(* Bounds: CreateObjects, DestroyObjects and POSTs under way at a time; and *)
(* the connections, which are alike, are used in order.                     *)
Busy ==
  Cardinality({r \in Request : create[r] # "idle"}) + Cardinality(destroying) +
  Cardinality({c \in Connection : \/ conn[c] \notin {"new", "closed"} \/ pool[c] # "idle"
                                  \/ cur = c})

InOrder == conn[c2] # "new" \/ cur = c2 => conn[c1] # "new"

MCSpec == Init /\ [][Next /\ (Busy <= MaxBusy /\ InOrder)']_vars /\ Fairness
=============================================================================

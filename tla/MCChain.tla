------------------------------ MODULE MCChain -------------------------------
(* An application thread beside the links, and three links, so that one can *)
(* be removed before, at and behind the one the loop is calling.            *)
EXTENDS Chain

CONSTANTS c1, l1, l2, l3

MCClient == {c1}
MCLink == {l1, l2, l3}
=============================================================================

----------------------------- MODULE MCLifeTime -----------------------------
(* An application thread beside the callbacks, two owners of timers, so     *)
(* that Remove tells them apart, and two delays, one of them due at once.   *)
EXTENDS LifeTime

CONSTANTS c1, d1, d2

MCClient == {c1}
MCData == {d1, d2}
MCDelay == {0, 1}
=============================================================================

---------------------------- MODULE MCThreadPool ----------------------------
(* Three threads, so that one works, one waits and one leaves at the same   *)
(* time, and three items, so that two wait while a third runs.              *)
EXTENDS ThreadPool

CONSTANTS t1, t2, t3, i1, i2, i3

MCThread == {t1, t2, t3}
MCItem == {i1, i2, i3}
=============================================================================

--------------------------- MODULE MCAsyncSocket ----------------------------
(* A thread of the pool beside the microstack thread, both of them sending; *)
(* a message of two bytes is the shortest that is cut; with two connections *)
(* whatever is left behind by the first meets the second.                   *)
EXTENDS AsyncSocket

CONSTANTS c1

MCClient == {c1}
=============================================================================

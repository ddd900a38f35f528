------------------------- MODULE MCReaderWriterLock -------------------------
(* Two readers, so that they share, and three writers, so that one writes,  *)
(* one is signalled and one waits.                                          *)
EXTENDS ReaderWriterLock

CONSTANTS r1, r2, w1, w2, w3

MCReader == {r1, r2}
MCWriter == {w1, w2, w3}
=============================================================================

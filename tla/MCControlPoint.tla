--------------------------- MODULE MCControlPoint ---------------------------
(* A device with two interfaces.                                            *)
EXTENDS ControlPoint

CONSTANTS lan, wlan

MCLocation == {lan, wlan}
=============================================================================

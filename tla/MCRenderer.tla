----------------------------- MODULE MCRenderer -----------------------------
(* One variable of each service; the transport one is a position, which may *)
(* be set quietly.                                                          *)
EXTENDS Renderer

CONSTANTS volume, transport, x0, x1

MCRenderingControl == {volume}
MCAVTransport == {transport}
MCPosition == {transport}
MCValue == {x0, x1}
MCEventedService == Service
MCBody == Body
=============================================================================

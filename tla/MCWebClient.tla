----------------------------- MODULE MCWebClient -----------------------------
(* Three servers share the two sockets of one client.                       *)
EXTENDS WebClient

CONSTANTS camera, library, renderer

MCServer == {camera, library, renderer}
=============================================================================

---------------------------- MODULE MCWebServer ----------------------------
(***************************************************************************)
(* One socket and two connections after each other, so that the second     *)
(* takes over the socket while a thread of the pool may still answer a     *)
(* request of the first.                                                   *)
(***************************************************************************)
EXTENDS WebServer
=============================================================================

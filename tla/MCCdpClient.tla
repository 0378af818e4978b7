---------------------------- MODULE MCCdpClient ----------------------------
(* CdpClient with two calls and one listener. *)
EXTENDS CdpClient
=============================================================================

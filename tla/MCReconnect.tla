---------------------------- MODULE MCReconnect ----------------------------
(* An instance of Reconnect for TLC.                                       *)
EXTENDS Reconnect

CONSTANTS a1, a2, a3
=============================================================================

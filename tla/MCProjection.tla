---------------------------- MODULE MCProjection ----------------------------
(* An instance of Projection for TLC.                                      *)
EXTENDS Projection

CONSTANTS c1, h1, h2
=============================================================================

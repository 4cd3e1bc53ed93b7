-------------------------------- MODULE MCCalls --------------------------------
(* The instance of Calls for TLC.                                           *)
EXTENDS Calls, TLC

CONSTANTS w1, p1
==============================================================================

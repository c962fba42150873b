---------------------------- MODULE MCAuthScreens ----------------------------
(* An instance of AuthScreens for TLC.                                     *)
EXTENDS AuthScreens
=============================================================================

------------------------- MODULE MCCardFormSession -------------------------
(***************************************************************************)
(* CardFormSession for TLC.                                                *)
(***************************************************************************)
EXTENDS CardFormSession
=============================================================================

------------------------- MODULE MCCardFormScreen --------------------------
(***************************************************************************)
(* CardFormScreen for TLC.                                                 *)
(***************************************************************************)
EXTENDS CardFormScreen
=============================================================================

---------------------- MODULE MCTokenHandlerExecutor -----------------------
(***************************************************************************)
(* TokenHandlerExecutor for TLC.                                           *)
(***************************************************************************)
EXTENDS TokenHandlerExecutor
=============================================================================

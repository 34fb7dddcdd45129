-------------------------- MODULE MCTokenObserver --------------------------
(***************************************************************************)
(* TokenObserver for TLC.  The configurations differ in the Client and in  *)
(* the number of requests.                                                 *)
(***************************************************************************)
EXTENDS TokenObserverProofs
=============================================================================

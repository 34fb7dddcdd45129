---------------------------- MODULE MCTaskCall -----------------------------
(***************************************************************************)
(* TaskCall for TLC, with the assumptions of its proofs.                   *)
(***************************************************************************)
EXTENDS TaskCallProofs
=============================================================================

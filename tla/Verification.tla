---------------------------- MODULE Verification ----------------------------
(***************************************************************************)
(* What PayjpVerifier promises an activity: a 3-D Secure flow that has     *)
(* been started ends with one result, which is the success of the resource *)
(* it was started for if and only if the page of that flow has come back   *)
(* to this process.                                                        *)
(***************************************************************************)
EXTENDS Naturals

VARIABLES
  flows,        (* flows started; each is for the resource of its number    *)
  verification, (* "none", "open" or "finished"                             *)
  result        (* the last result: {id} for a success, {} for a cancel     *)

vars == <<flows, verification, result>>

Init ==
  /\ flows = 0
  /\ verification = "none"
  /\ result = {}

(* startThreeDSecureFlow                                                   *)
Start ==
  /\ verification = "none"
  /\ verification' = "open"
  /\ flows' = flows + 1
  /\ UNCHANGED result

(* The page of the flow says that it is finished.                          *)
Finish ==
  /\ verification = "open"
  /\ verification' = "finished"
  /\ UNCHANGED <<flows, result>>

(* The process is killed: what it has heard of the flow is lost.           *)
Forget ==
  /\ verification = "finished"
  /\ verification' = "open"
  /\ UNCHANGED <<flows, result>>

(* handleThreeDSecureResult: SuccessResourceId ...                         *)
Succeed ==
  /\ verification = "finished"
  /\ verification' = "none"
  /\ result' = {flows}
  /\ UNCHANGED flows

(* ... or Canceled.                                                        *)
Cancel ==
  /\ verification = "open"
  /\ verification' = "none"
  /\ result' = {}
  /\ UNCHANGED flows

Next == Start \/ Finish \/ Forget \/ Succeed \/ Cancel

Spec == Init /\ [][Next]_vars
=============================================================================

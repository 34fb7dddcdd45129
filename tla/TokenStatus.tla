---------------------------- MODULE TokenStatus ----------------------------
(***************************************************************************)
(* What PayjpTokenOperationStatus promises a client that makes one request *)
(* at a time, without the looper, the runnables and the threads: the       *)
(* status shows RUNNING some time after a request has started, THROTTLED   *)
(* some time after it has completed, and ACCEPTABLE some time after that,  *)
(* unless another request has started.                                     *)
(***************************************************************************)
VARIABLES
  status,    (* the token operation status                                  *)
  inFlight,  (* a request has started and has not completed                 *)
  owed       (* a request has started since the status last became RUNNING  *)

Init ==
  /\ status = "ACCEPTABLE"
  /\ inFlight = FALSE
  /\ owed = FALSE

Start ==
  /\ ~inFlight
  /\ inFlight' = TRUE
  /\ owed' = TRUE
  /\ UNCHANGED status

Complete ==
  /\ inFlight
  /\ inFlight' = FALSE
  /\ UNCHANGED <<status, owed>>

(* When a short request has been followed by another before the status     *)
(* showed it, RUNNING is shown for both.                                   *)
ShowRunning ==
  /\ owed
  /\ status' = "RUNNING"
  /\ owed' \in BOOLEAN
  /\ UNCHANGED inFlight

ShowThrottled ==
  /\ ~inFlight /\ ~owed
  /\ status = "RUNNING"
  /\ status' = "THROTTLED"
  /\ UNCHANGED <<inFlight, owed>>

ShowAcceptable ==
  /\ ~inFlight /\ ~owed
  /\ status = "THROTTLED"
  /\ status' = "ACCEPTABLE"
  /\ UNCHANGED <<inFlight, owed>>

Next == Start \/ Complete \/ ShowRunning \/ ShowThrottled \/ ShowAcceptable

Spec == Init /\ [][Next]_<<status, inFlight, owed>>
=============================================================================

-------------------------- MODULE CardFormSession ---------------------------
(***************************************************************************)
(* A card form and the 3-D Secure flows it starts: CardFormScreen and      *)
(* ThreeDSecureFlow in one process.  The form starts a flow when its       *)
(* observers act on startVerifyCommand, is covered by the step activity    *)
(* and the browser, and is given the result when it is in front again.     *)
(***************************************************************************)
EXTENDS CardFormScreen

VARIABLES flows, step, browser, current, savedId, intentHolder, result, redirected,
          loadingState, progressBar, errorView, pageView

Flow == INSTANCE ThreeDSecureFlow

flowVars == <<flows, step, browser, current, savedId, intentHolder, result, redirected,
              loadingState, progressBar, errorView, pageView>>

sessionVars == <<vars, flowVars>>

(* startVerify of the activity, within the step that delivers the command. *)
StartVerify ==
  IF verifying' /\ ~verifying THEN Flow!StartFlow ELSE UNCHANGED flowVars

(* The form's own steps.  It is neither started nor restored under a       *)
(* browser.                                                                *)
FormStep ==
  \/ BrandsFetched \/ BrandsFailed \/ Reload
  \/ ClickSubmit \/ EditorActionDone
  \/ \E t \in tasks : Callback(t)
  \/ browser = "none" /\ (Start \/ Restore)
  \/ Stop \/ Leave \/ Destroy
  \/ StatusShown

(* Faulty variant: only a success is passed on to the view model.          *)
SuccessTaken ==
  \/ Flow!IsSuccess /\ VerifySucceeded /\ Flow!TakeResult
  \/ ~Flow!IsSuccess /\ Flow!TakeResult /\ UNCHANGED vars

(* onActivityResult of the form: the result is taken from the holder.      *)
ResultTaken ==
  \/ Flow!IsSuccess /\ VerifySucceeded /\ Flow!TakeResult
  \/ ~Flow!IsSuccess /\ VerifyCanceled /\ Flow!TakeResult

(* The process is killed with the form in it, or again before the form has *)
(* been restored.                                                          *)
Killed ==
  /\ Kill \/ (life = "dead" /\ UNCHANGED vars)
  /\ Flow!ProcessKilled

SessionInit == Init /\ Flow!Init

SessionNext ==
  \/ FormStep /\ StartVerify
  \/ Flow!Above /\ UNCHANGED vars
  \/ ResultTaken
  \/ Killed

(* Beside what CardFormScreen assumes, the system creates the activity it  *)
(* was asked for and gives results to an activity in front.  The user need *)
(* not return from the browser.                                            *)
SessionFairness ==
  /\ WF_sessionVars(\E t \in tasks : t.kind # "handler" /\ Callback(t) /\ StartVerify)
  /\ WF_sessionVars((\E b \in Flow!Browser : Flow!Create(b)) /\ UNCHANGED vars)
  /\ WF_sessionVars(ResultTaken)

SessionSpec == SessionInit /\ [][SessionNext]_sessionVars /\ SessionFairness

-----------------------------------------------------------------------------
(* What ThreeDSecureFlow states of itself.                                 *)
FlowTypeOK == Flow!TypeOK
LoadingShown == Flow!LoadingShown
ImplementsVerification == Flow!ImplementsVerification

(* What CardFormScreen takes for granted of the flow: it goes on exactly   *)
(* while the form waits for it, and when the form waits no more it         *)
(* completes its token exactly if the page of the flow has come back to    *)
(* the living process (onCompleteCardVerify).  A process that dies after   *)
(* that has forgotten it, and the form is unlocked without a token.        *)
FormWaitsForFlow ==
  [][/\ verifying' <=> step' # "none"
     /\ verifying /\ ~verifying' =>
          ((\E t \in tasks' : t.kind = "finish") <=> redirected)]_sessionVars

(* The session's steps are steps of the screen of CardFormScreen.          *)
ImplementsScreen == Init /\ [][Next]_vars

(* A locked form in front is unlocked by what the network and the flow     *)
(* bring, unless it is the turn of the user (in the browser, or before a   *)
(* blank step activity) or of the application's handler.  The bound on     *)
(* operations stops the model, not the code.                               *)
SessionUnlocks ==
  processing ~> \/ ~processing
                \/ step = "open"
                \/ \E t \in tasks : t.kind = "handler"
                \/ life # "started"
                \/ started = MaxTasks
=============================================================================

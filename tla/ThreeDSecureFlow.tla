-------------------------- MODULE ThreeDSecureFlow --------------------------
(***************************************************************************)
(* The 3-D Secure flow: PayjpVerifier, the translucent step activity that  *)
(* opens a browser and waits for its redirect, the static intentHolder the *)
(* result is handed over in, and the death of the process on the way.      *)
(*                                                                         *)
(* The activities are records of the system and survive the process; the   *)
(* holder and the step activity's field do not.  Resources are the numbers *)
(* of the flows they are verified by, and 0 is one of an earlier flow that *)
(* nobody took the result of (its caller was finished meanwhile).          *)
(***************************************************************************)
EXTENDS Naturals, VerifierWebView

VARIABLES
  flows,        (* number of flows started                                  *)
  step,         (* the step activity                                        *)
  browser,      (* what is open over the step activity                      *)
  current,      (* its currentResourceId: {} or {id}                        *)
  savedId,      (* the id in its saved instance state: {} or {id}           *)
  intentHolder, (* the id of the intent in the holder: {} or {id}           *)
  result,       (* the result last taken: {} for Canceled, {id} for success *)
  redirected    (* history: the page has come back to the living process    *)

flowVars == <<flows, step, browser, current, savedId, intentHolder, result,
              redirected, web>>

(***************************************************************************)
(* "launched": started by its caller and not created yet; "finishing": it  *)
(* has called finish(), and the caller has not been given the result.      *)
(***************************************************************************)
Step == {"none", "launched", "open", "finishing"}

(* What webBrowserResolver finds: a custom tab, the application's own web  *)
(* view, or no browser that can open the URL.                              *)
Browser == {"tab", "web", "none"}

(* An activity that its process was killed under is created again from the *)
(* saved state before anything is given to it.                             *)
Resource == IF current # {} THEN current ELSE savedId

-----------------------------------------------------------------------------
(* startThreeDSecureFlow: the caller starts the step activity for a result.*)
StartFlow ==
  /\ step = "none"
  /\ step' = "launched"
  /\ flows' = flows + 1
  /\ redirected' = FALSE
  /\ UNCHANGED <<browser, current, savedId, intentHolder, result, web>>

(* Faulty variant: a result that nobody took stays in the holder.          *)
CreateWithoutPop(b) ==
  /\ step = "launched"
  /\ step' = "open"
  /\ current' = {flows}
  /\ savedId' = {}
  /\ browser' = b
  /\ WebReopened
  /\ UNCHANGED <<flows, intentHolder, result, redirected>>

(* onCreate and openThreeDSecure: the holder is emptied and a browser      *)
(* opened, if there is one; otherwise the step activity stays, blank.      *)
Create(b) ==
  /\ step = "launched"
  /\ step' = "open"
  /\ current' = {flows}
  /\ savedId' = {}
  /\ intentHolder' = {}
  /\ browser' = b
  /\ WebReopened
  /\ UNCHANGED <<flows, result, redirected>>

(* Faulty variant: the browser stays open over the step activity.          *)
RedirectedBelow ==
  /\ intentHolder' = Resource
  /\ current' = Resource
  /\ step' = "finishing"
  /\ redirected' = TRUE
  /\ UNCHANGED <<flows, browser, savedId, result>>

(* onNewIntent with the redirect: the browser is closed by it.             *)
Redirected ==
  /\ intentHolder' = Resource
  /\ current' = Resource
  /\ step' = "finishing"
  /\ browser' = "none"
  /\ redirected' = TRUE
  /\ UNCHANGED <<flows, savedId, result>>

(* The page in the custom tab leads to the application's redirect URL.     *)
TabRedirects ==
  /\ browser = "tab"
  /\ Redirected
  /\ UNCHANGED web

(* In the application's own web view the page of the callback URL starts;  *)
(* it is noticed if the client announces it.                               *)
WebRedirects ==
  /\ browser = "web"
  /\ PageAnnounced
  /\ onPageStarted
  /\ Redirected

(* Any other page, or the callback URL while it is not announced.          *)
WebPage ==
  /\ browser = "web"
  /\ onPageStarted \/ PageCallback
  /\ UNCHANGED <<flows, step, browser, current, savedId, intentHolder, result, redirected>>

(* The user closes the browser, and the step activity's onActivityResult   *)
(* finishes it; or leaves a blank step activity.                           *)
Close ==
  /\ step = "open"
  /\ step' = "finishing"
  /\ browser' = "none"
  /\ UNCHANGED <<flows, current, savedId, intentHolder, result, redirected, web>>

(* handleThreeDSecureResult: getResult pops the holder, whatever the       *)
(* result code is.                                                         *)
TakeResult ==
  /\ step = "finishing"
  /\ step' = "none"
  /\ result' = intentHolder
  /\ intentHolder' = {}
  /\ current' = {}
  /\ UNCHANGED <<flows, browser, savedId, redirected, web>>

(* The result for the caller.                                              *)
IsSuccess == intentHolder # {}

(* The process is killed while it is in the background.  A browser that    *)
(* was open is still open, or opens again.                                 *)
ProcessKilled ==
  /\ savedId' = Resource
  /\ intentHolder' = {}
  /\ current' = {}
  /\ redirected' = FALSE
  /\ WebReopened
  /\ UNCHANGED <<flows, step, browser, result>>

-----------------------------------------------------------------------------
Init ==
  /\ flows = 0
  /\ step = "none"
  /\ browser = "none"
  /\ current = {}
  /\ savedId = {}
  /\ intentHolder \in {{}, {0}}
  /\ result = {}
  /\ redirected = FALSE
  /\ WebOpened

(* What happens on top of the caller.                                      *)
Above ==
  \/ \E b \in Browser : Create(b)
  \/ TabRedirects \/ WebRedirects \/ WebPage
  \/ Close

Next == StartFlow \/ Above \/ TakeResult \/ ProcessKilled

Spec == Init /\ [][Next]_flowVars

-----------------------------------------------------------------------------
(* Every variable stays in its set; a browser is open over an open step    *)
(* activity only.                                                          *)
TypeOK ==
  /\ WebTypeOK
  /\ flows \in Nat
  /\ step \in Step
  /\ browser \in Browser
  /\ browser # "none" => step = "open"
  /\ current \subseteq Nat
  /\ savedId \subseteq Nat
  /\ intentHolder \subseteq Nat
  /\ result \subseteq Nat
  /\ redirected \in BOOLEAN

(* The web view is a new one, of a new activity or of a new process.       *)
WebRenewed == step = "launched" \/ ProcessKilled

(* The progress bar and the error view tell what the client knows.  There  *)
(* is progress exactly while a page loads.  The error view comes with an   *)
(* error, and stays, whatever else is reported of the failed page, its end *)
(* included (onPageFinished), until another page is announced, when it     *)
(* goes.                                                                   *)
LoadingShown ==
  [][/\ progressBar' <=> loadingState' = "LOADING"
     /\ errorView' => loadingState' # "LOADING"
     /\ errorView' /\ ~errorView => loadingState' = "ERROR"
     /\ errorView /\ ~errorView' =>
          \/ PageAnnounced /\ loadingState' = "LOADING"
          \/ WebRenewed]_flowVars

(* A flow is open from its start until its result is taken, and finished   *)
(* once its page has come back.                                            *)
verification ==
  IF step = "none" THEN "none" ELSE IF redirected THEN "finished" ELSE "open"

Contract == INSTANCE Verification

(* The flow keeps the promise of Verification: however the process dies    *)
(* and whatever an earlier flow has left, the result is the flow's own,    *)
(* and a success exactly if its page has come back to this process.        *)
ImplementsVerification == Contract!Spec
=============================================================================

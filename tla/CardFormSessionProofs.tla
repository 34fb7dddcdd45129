------------------------ MODULE CardFormSessionProofs ------------------------
(***************************************************************************)
(* Proofs about CardFormSession: the session is a behaviour of the screen  *)
(* and of the flow it is composed of, and so has the properties proved of  *)
(* either; and each of them takes the right thing for granted of the       *)
(* other.                                                                  *)
(***************************************************************************)
EXTENDS CardFormSession, CardFormScreenProofs

FlowProofs == INSTANCE ThreeDSecureFlowProofs

(* A step of the session is a step of the screen, or it does not notice.   *)
LEMMA ScreenPart == [SessionNext]_sessionVars => [Next]_vars
<1> SUFFICES ASSUME [SessionNext]_sessionVars PROVE Next \/ UNCHANGED vars
  OBVIOUS
<1>1. FormStep => Next
  BY DEF FormStep, Next
<1>2. ResultTaken => Next
  BY DEF ResultTaken, Next
<1>3. Killed => Next \/ UNCHANGED vars
  BY DEF Killed, Next
<1>4. UNCHANGED sessionVars => UNCHANGED vars
  BY DEF sessionVars
<1> QED
  BY <1>1, <1>2, <1>3, <1>4 DEF SessionNext

(* ... and a step of the flow, or the flow does not notice.                *)
LEMMA FlowPart == [SessionNext]_sessionVars => [FlowProofs!Next]_(FlowProofs!flowVars)
<1> SUFFICES ASSUME [SessionNext]_sessionVars
             PROVE  FlowProofs!Next \/ UNCHANGED FlowProofs!flowVars
  OBVIOUS
<1> USE DEF FlowProofs!Next, Flow!web, FlowProofs!web
<1>1. UNCHANGED flowVars => UNCHANGED FlowProofs!flowVars
  BY DEF flowVars, FlowProofs!flowVars
<1>2. StartVerify => FlowProofs!StartFlow \/ UNCHANGED flowVars
  BY DEF StartVerify, Flow!StartFlow, FlowProofs!StartFlow
<1>3. Flow!TakeResult => FlowProofs!TakeResult
  BY DEF Flow!TakeResult, FlowProofs!TakeResult
<1>4. Flow!WebReopened => FlowProofs!WebReopened
  BY DEF Flow!WebReopened, FlowProofs!WebReopened
<1>5. Flow!ProcessKilled => FlowProofs!ProcessKilled
  BY <1>4 DEF Flow!ProcessKilled, FlowProofs!ProcessKilled, Flow!Resource,
     FlowProofs!Resource
<1>6. Flow!Above => FlowProofs!Above
  <2>1. ASSUME NEW b PROVE Flow!Create(b) => FlowProofs!Create(b)
    BY <1>4 DEF Flow!Create, FlowProofs!Create
  <2>2. Flow!Redirected => FlowProofs!Redirected
    BY DEF Flow!Redirected, FlowProofs!Redirected, Flow!Resource, FlowProofs!Resource
  <2>3. Flow!PageAnnounced <=> FlowProofs!PageAnnounced
    BY DEF Flow!PageAnnounced, FlowProofs!PageAnnounced
  <2>4. Flow!onPageStarted => FlowProofs!onPageStarted
    BY <2>3 DEF Flow!onPageStarted, FlowProofs!onPageStarted
  <2>5. Flow!PageCallback => FlowProofs!PageCallback
    BY DEF Flow!PageCallback, FlowProofs!PageCallback, Flow!onPageFinished,
       FlowProofs!onPageFinished, Flow!onReceivedError, FlowProofs!onReceivedError,
       Flow!onReceivedSslError, FlowProofs!onReceivedSslError, Flow!onProgressChanged,
       FlowProofs!onProgressChanged
  <2>6. Flow!TabRedirects \/ Flow!WebRedirects \/ Flow!WebPage =>
          FlowProofs!TabRedirects \/ FlowProofs!WebRedirects \/ FlowProofs!WebPage
    BY <2>2, <2>3, <2>4, <2>5 DEF Flow!TabRedirects, FlowProofs!TabRedirects,
       Flow!WebRedirects, FlowProofs!WebRedirects, Flow!WebPage, FlowProofs!WebPage
  <2>7. Flow!Close => FlowProofs!Close
    BY DEF Flow!Close, FlowProofs!Close
  <2> QED
    BY <2>1, <2>6, <2>7 DEF Flow!Above, FlowProofs!Above, Flow!Browser, FlowProofs!Browser
<1> QED
  BY <1>1, <1>2, <1>3, <1>5, <1>6 DEF SessionNext, ResultTaken, Killed, sessionVars

(* The session begins with no flow.                                        *)
LEMMA FlowPartInitial == SessionInit => FlowProofs!Init
  BY DEF SessionInit, Flow!Init, FlowProofs!Init, Flow!WebOpened, FlowProofs!WebOpened

-----------------------------------------------------------------------------
(* What is proved of the screen holds of the session.                      *)

(* The steps of a session are those of CardFormScreen.                     *)
THEOREM ImplementsScreenHolds == SessionSpec => ImplementsScreen
<1>1. SessionInit => Init
  BY DEF SessionInit
<1> QED
  BY <1>1, ScreenPart, PTL DEF SessionSpec, ImplementsScreen

(* The screen's state keeps its type in a session.                         *)
THEOREM SessionTypeCorrect == SessionSpec => []TypeOK
  BY ImplementsScreenHolds, TypeInitial, TypeStep, PTL DEF ImplementsScreen

(* One token operation at a time in a session: no token is created, and    *)
(* none is completed, while a card is being verified.                      *)
THEOREM SessionOneOperation == SessionSpec => []OneOperation
<1>1. OperationInv => OneOperation
  BY DEF OperationInv
<1> QED
  BY <1>1, ImplementsScreenHolds, OperationInitial, OperationStep, PTL DEF ImplementsScreen

(* The form of a session is locked for a reason, unless the process dies   *)
(* with something going on.                                                *)
THEOREM SessionLockedForAReason ==
  Death # "any" => (SessionSpec => []LockedForAReason)
<1> SUFFICES ASSUME Death # "any" PROVE SessionSpec => []LockedForAReason
  OBVIOUS
<1>1. QuietInv /\ [Next]_vars => QuietInv'
  BY QuietStep
<1>2. QuietInv => LockedForAReason
  BY DEF QuietInv
<1> QED
  BY <1>1, <1>2, ImplementsScreenHolds, QuietInitial, PTL DEF ImplementsScreen

(* No error and no verification of a session is lost or repeated.          *)
THEOREM SessionServedOnce == Death # "any" => (SessionSpec => []ServedOnce)
<1> SUFFICES ASSUME Death # "any" PROVE SessionSpec => []ServedOnce
  OBVIOUS
<1>1. QuietInv /\ [Next]_vars => QuietInv'
  BY QuietStep
<1>2. QuietInv => ServedOnce
  BY DEF QuietInv
<1> QED
  BY <1>1, <1>2, ImplementsScreenHolds, QuietInitial, PTL DEF ImplementsScreen

(* What the screen of a session shows is true of the brands and the form.  *)
THEOREM SessionViewIsTrue == SessionSpec => []ViewIsTrue
<1>1. ViewInv => ViewIsTrue
  BY DEF ViewInv, ViewIsTrue, BaseInv, Settled
<1> QED
  BY <1>1, ImplementsScreenHolds, ViewInitial, ViewStep, PTL DEF ImplementsScreen

-----------------------------------------------------------------------------
(* What is proved of the flow holds of the session.                        *)

(* The flow's state keeps its type in a session.                           *)
THEOREM SessionFlowTypeCorrect == SessionSpec => []FlowTypeOK
<1>1. FlowProofs!FlowInv => FlowTypeOK
  BY DEF FlowProofs!FlowInv, FlowProofs!TypeOK, FlowTypeOK, Flow!TypeOK, Flow!WebTypeOK,
     FlowProofs!WebTypeOK, Flow!Step, FlowProofs!Step, Flow!Browser, FlowProofs!Browser
<1> QED
  BY <1>1, FlowPart, FlowPartInitial, FlowProofs!FlowInitial, FlowProofs!FlowStep, PTL
     DEF SessionSpec

(* In a session too the web view shows what the client knows: its progress *)
(* while a page loads, and an error, whatever else is reported of the      *)
(* failed page, until another page is announced or the web view is new.    *)
THEOREM SessionLoadingShown == SessionSpec => LoadingShown
<1>1. FlowProofs!WebRenewed => Flow!WebRenewed
  BY DEF FlowProofs!WebRenewed, Flow!WebRenewed, Flow!ProcessKilled,
     FlowProofs!ProcessKilled, Flow!Resource, FlowProofs!Resource, Flow!WebReopened,
     FlowProofs!WebReopened
<1>2. FlowProofs!PageAnnounced => Flow!PageAnnounced
  BY DEF FlowProofs!PageAnnounced, Flow!PageAnnounced
<1>3. FlowProofs!FlowInv /\ [SessionNext]_sessionVars => FlowProofs!FlowInv'
  BY FlowPart, FlowProofs!FlowStep
<1>4. FlowProofs!FlowInv /\ [SessionNext]_sessionVars =>
        /\ progressBar' <=> loadingState' = "LOADING"
        /\ errorView' => loadingState' # "LOADING"
        /\ errorView' /\ ~errorView => loadingState' = "ERROR"
        /\ errorView /\ ~errorView' =>
             \/ Flow!PageAnnounced /\ loadingState' = "LOADING"
             \/ Flow!WebRenewed
  <2> SUFFICES ASSUME FlowProofs!FlowInv, [SessionNext]_sessionVars
               PROVE  /\ progressBar' <=> loadingState' = "LOADING"
                      /\ errorView' => loadingState' # "LOADING"
                      /\ errorView' /\ ~errorView => loadingState' = "ERROR"
                      /\ errorView /\ ~errorView' =>
                           \/ Flow!PageAnnounced /\ loadingState' = "LOADING"
                           \/ Flow!WebRenewed
    OBVIOUS
  <2>1. FlowProofs!DisplayTrue'
    BY <1>3 DEF FlowProofs!FlowInv
  <2>2. /\ errorView' /\ ~errorView => loadingState' = "ERROR"
        /\ errorView /\ ~errorView' =>
             (FlowProofs!PageAnnounced /\ loadingState' = "LOADING") \/ FlowProofs!WebRenewed
    BY FlowPart, FlowProofs!ErrorStep
  <2> QED
    BY <1>1, <1>2, <2>1, <2>2 DEF FlowProofs!DisplayTrue
<1>5. SessionInit => FlowProofs!FlowInv
  BY FlowPartInitial, FlowProofs!FlowInitial
<1>6. FlowProofs!FlowInv /\ [SessionNext]_sessionVars =>
        [/\ progressBar' <=> loadingState' = "LOADING"
         /\ errorView' => loadingState' # "LOADING"
         /\ errorView' /\ ~errorView => loadingState' = "ERROR"
         /\ errorView /\ ~errorView' =>
              \/ Flow!PageAnnounced /\ loadingState' = "LOADING"
              \/ Flow!WebRenewed]_(Flow!flowVars)
  BY <1>4
<1> QED
  BY <1>3, <1>5, <1>6, PTL DEF SessionSpec, LoadingShown, Flow!LoadingShown

(* Every verification of a card form ends with its own result, and with    *)
(* success exactly if its page has come back to the process.               *)
THEOREM SessionImplementsVerification == SessionSpec => ImplementsVerification
<1>1. FlowProofs!Contract!Init => Flow!Contract!Init
  BY DEF FlowProofs!Contract!Init, Flow!Contract!Init, FlowProofs!verification,
     Flow!verification
<1>2. [FlowProofs!Contract!Next]_(FlowProofs!Contract!vars)
        => [Flow!Contract!Next]_(Flow!Contract!vars)
  BY DEF FlowProofs!verification, Flow!verification, FlowProofs!Contract!vars,
     Flow!Contract!vars, FlowProofs!Contract!Next, Flow!Contract!Next,
     FlowProofs!Contract!Start, Flow!Contract!Start, FlowProofs!Contract!Finish,
     Flow!Contract!Finish, FlowProofs!Contract!Forget, Flow!Contract!Forget,
     FlowProofs!Contract!Succeed, Flow!Contract!Succeed, FlowProofs!Contract!Cancel,
     Flow!Contract!Cancel
<1>3. FlowProofs!FlowInv /\ [SessionNext]_sessionVars
        => [Flow!Contract!Next]_(Flow!Contract!vars)
  BY <1>2, FlowPart, FlowProofs!ContractStep
<1>4. FlowProofs!FlowInv /\ [SessionNext]_sessionVars => FlowProofs!FlowInv'
  BY FlowPart, FlowProofs!FlowStep
<1>5. SessionInit => FlowProofs!FlowInv /\ Flow!Contract!Init
  BY <1>1, FlowPartInitial, FlowProofs!FlowInitial, FlowProofs!ContractInitial
<1> QED
  BY <1>3, <1>4, <1>5, PTL
     DEF SessionSpec, ImplementsVerification, Flow!ImplementsVerification, Flow!Contract!Spec
-----------------------------------------------------------------------------
(* What the screen takes for granted of the flow.                          *)
Waiting == verifying <=> step # "none"

WaitInv == OperationInv /\ FlowProofs!FlowInv /\ Waiting

(* A form that is being verified is left as it is by its own steps.        *)
LEMMA FormKeepsVerifying == TypeOK /\ FormStep /\ verifying => verifying'
<1> SUFFICES ASSUME TypeOK, FormStep, verifying PROVE verifying'
  OBVIOUS
<1>1. ASSUME NEW C, Emit(C) PROVE verifying'
  BY <1>1 DEF Emit, Deliver
<1>2. ASSUME NEW t \in tasks, Callback(t) PROVE verifying'
  BY <1>1, <1>2 DEF Callback, TokenUnverified, TokenPosted, TokenComplete, TokenError
<1>3. CASE BrandsFetched \/ BrandsFailed \/ Reload
  BY <1>1, <1>3 DEF BrandsFetched, BrandsFailed, Reload
<1>4. CASE ClickSubmit \/ EditorActionDone \/ Stop \/ Leave \/ Destroy \/ StatusShown
  BY <1>4 DEF ClickSubmit, EditorActionDone, CreateToken, Stop, Leave, Destroy, StatusShown
<1>5. CASE Start \/ Restore
  BY <1>5 DEF Start, Restore, Deliver
<1> QED
  BY <1>2, <1>3, <1>4, <1>5 DEF FormStep

(* Every step of a session keeps form and flow together.                   *)
LEMMA WaitStep == WaitInv /\ [SessionNext]_sessionVars => WaitInv'
<1> SUFFICES ASSUME WaitInv, [SessionNext]_sessionVars PROVE Waiting'
  BY ScreenPart, OperationStep, FlowPart, FlowProofs!FlowStep DEF WaitInv
<1> USE DEF Waiting
<1>0. /\ TypeOK /\ Waiting /\ verifying \in BOOLEAN
      /\ browser # "none" => step = "open"
  BY DEF WaitInv, OperationInv, BaseInv, TypeOK, FlowProofs!FlowInv, FlowProofs!TypeOK
<1>1. CASE FormStep /\ StartVerify
  <2>1. CASE verifying' /\ ~verifying
    <3>1. step' = "launched"
      BY <1>1, <2>1 DEF StartVerify, Flow!StartFlow
    <3> QED
      BY <2>1, <3>1
  <2>2. CASE ~(verifying' /\ ~verifying)
    <3>1. step' = step
      BY <1>1, <2>2 DEF StartVerify, flowVars
    <3>2. verifying' <=> verifying
      BY <1>0, <1>1, <2>2, FormKeepsVerifying
    <3> QED
      BY <1>0, <3>1, <3>2
  <2> QED
    BY <2>1, <2>2
<1>2. CASE Flow!Above /\ UNCHANGED vars
  <2>1. step # "none" /\ step' # "none"
    BY <1>0, <1>2 DEF Flow!Above, Flow!Create, Flow!TabRedirects, Flow!WebRedirects,
       Flow!Redirected, Flow!WebPage, Flow!Close
  <2>2. verifying' = verifying
    BY <1>2 DEF vars
  <2> QED
    BY <1>0, <2>1, <2>2
<1>3. CASE ResultTaken
  <2>1. verifying' = FALSE /\ step' = "none"
    BY <1>3 DEF ResultTaken, VerifySucceeded, VerifyCanceled, Flow!TakeResult
  <2> QED
    BY <2>1
<1>4. CASE Killed
  <2>1. verifying' = verifying /\ step' = step
    BY <1>4 DEF Killed, Kill, vars, Flow!ProcessKilled
  <2> QED
    BY <1>0, <2>1
<1>5. CASE UNCHANGED sessionVars
  <2>1. verifying' = verifying /\ step' = step
    BY <1>5 DEF sessionVars, vars, flowVars
  <2> QED
    BY <1>0, <2>1
<1> QED
  BY <1>1, <1>2, <1>3, <1>4, <1>5 DEF SessionNext

(* A form that waits no more has been given the result of its flow: the    *)
(* holder has it exactly if the page has come back to this process, and    *)
(* nothing else of the form is going on.                                   *)
LEMMA ResultStep ==
  WaitInv /\ [SessionNext]_sessionVars /\ verifying /\ ~verifying' =>
    ((\E t \in tasks' : t.kind = "finish") <=> redirected)
<1> SUFFICES ASSUME WaitInv, [SessionNext]_sessionVars, verifying, ~verifying'
             PROVE  (\E t \in tasks' : t.kind = "finish") <=> redirected
  OBVIOUS
<1>0. /\ TypeOK /\ OneOperation
      /\ step = "finishing" => intentHolder = (IF redirected THEN {flows} ELSE {})
  BY DEF WaitInv, OperationInv, BaseInv, FlowProofs!FlowInv, FlowProofs!OwnHolder
<1>1. ResultTaken
  <2>1. ~FormStep
    BY <1>0, FormKeepsVerifying
  <2>2. ~(Killed \/ UNCHANGED vars)
    BY DEF Killed, Kill, vars
  <2>3. ~UNCHANGED sessionVars
    BY <2>2 DEF sessionVars
  <2> QED
    BY <2>1, <2>2, <2>3 DEF SessionNext
<1>2. step = "finishing" /\ life = "started"
  BY <1>1 DEF ResultTaken, Flow!TakeResult, VerifySucceeded, VerifyCanceled
<1>3. Flow!IsSuccess <=> redirected
  BY <1>0, <1>2 DEF Flow!IsSuccess
<1>4. tasks = {}
  BY <1>0, <1>2 DEF OneOperation
<1>5. CASE Flow!IsSuccess /\ VerifySucceeded
  <2>1. [n |-> started + 1, kind |-> "finish"] \in tasks'
    BY <1>5 DEF VerifySucceeded, Begin
  <2> QED
    BY <1>3, <1>5, <2>1
<1>6. CASE ~Flow!IsSuccess /\ VerifyCanceled
  BY <1>3, <1>4, <1>6 DEF VerifyCanceled
<1> QED
  BY <1>1, <1>5, <1>6 DEF ResultTaken

(* A flow goes on exactly while a form waits for its result, by which the  *)
(* form then goes on or is unlocked.                                       *)
THEOREM FormWaitsForFlowHolds == SessionSpec => FormWaitsForFlow
<1>1. SessionInit => Waiting
  BY DEF SessionInit, Init, Flow!Init, Waiting
<1>2. SessionInit => WaitInv
  BY <1>1, OperationInitial, FlowPartInitial, FlowProofs!FlowInitial DEF SessionInit, WaitInv
<1>3. WaitInv /\ [SessionNext]_sessionVars =>
        [/\ verifying' <=> step' # "none"
         /\ verifying /\ ~verifying' =>
              ((\E t \in tasks' : t.kind = "finish") <=> redirected)]_sessionVars
  BY WaitStep, ResultStep DEF WaitInv, Waiting
<1> QED
  BY <1>2, <1>3, WaitStep, PTL DEF SessionSpec, FormWaitsForFlow
=============================================================================
